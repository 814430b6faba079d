----------------------------- MODULE ExporterProofs -----------------------------
(***************************************************************************)
(* Type correctness of the exporter process, that a process polls with     *)
(* nothing or with a whole snapshot, and that no crash or restart spoils   *)
(* the snapshot, for any constants.                                        *)
(***************************************************************************)
EXTENDS Exporter, PollerListProofs

(***************************************************************************)
(* Boot, Replay and the two ways down are the steps that the poller does   *)
(* not know; every other one is a step of the poller, or none.             *)
(***************************************************************************)
PollerPart == [PollerNext]_pollerVars

LEMMA PollerPartOrOwn ==
    ASSUME [ExporterNext]_exporterVars
    PROVE  \/ PollerPart /\ UNCHANGED <<proc, replay>>
           \/ RestoreFails
           \/ Launch
           \/ Boot
           \/ \E g \in AllGVRs : Replay(g)
           \/ Exit \/ Crash
<1>1. CASE Poll
  BY <1>1 DEF Poll, PollerPart, PollerNext
<1>2. CASE MarkReady
  BY <1>2 DEF MarkReady, PollerPart
<1>3. CASE Signal
  BY <1>3 DEF Signal, PollerPart, PollerNext, procVars
<1>4. CASE ClusterMoves
  BY <1>4 DEF ClusterMoves, PollerPart, PollerNext, procVars
<1>5. CASE UNCHANGED exporterVars
  BY <1>5 DEF exporterVars, procVars, PollerPart
<1> QED
  BY <1>1, <1>2, <1>3, <1>4, <1>5 DEF ExporterNext, ProcessStep

(***************************************************************************)
(* The memory of a process that has gone is that of one not yet started.   *)
(***************************************************************************)
LEMMA ForgottenType ==
    ASSUME PollerTypeOK, Down
    PROVE  PollerTypeOK'
<1>1. ForgetMemory /\ UNCHANGED <<cluster, cfg>> /\ s3' \in {s3, StoreContents}
  BY DEF Down
<1>2. StoreTypeOK'
  BY <1>1, EmptyMapIsMap DEF ForgetMemory, StoreTypeOK
<1>3. /\ status' \in [AllGVRs -> {"waiting", "running", "done"}]
      /\ at' \in [AllGVRs -> 1..(Len(Targets) + 1)]
      /\ DOMAIN items' = AllGVRs
      /\ \A g \in AllGVRs : IsMap(items'[g], KindInfo(g))
      /\ errs' \in [AllGVRs -> BOOLEAN]
  BY <1>1, TargetsType, EmptyMapIsMap DEF ForgetMemory, NoPolls
<1>4. s3' # NoSnapshot => IsStore(s3')
  BY <1>1, StoreContentsType DEF PollerTypeOK
<1>5. /\ phase' = "start" /\ ctxDone' = FALSE
      /\ gauges' = [claims |-> 0, xrs |-> 0, mrs |-> 0]
  BY <1>1 DEF ForgetMemory
<1> QED
  BY <1>1, <1>2, <1>3, <1>4, <1>5 DEF PollerTypeOK

LEMMA ReplayedType ==
    ASSUME PollerTypeOK, NEW g \in AllGVRs, Replay(g)
    PROVE  PollerTypeOK'
<1>1. IsStore(s3)
  BY DEF Replay, PollerTypeOK
<1>2. StoreTypeOK'
  <2>1. CASE g \in ClaimGVRs
    <3>1. ReplaceClaims(g, SnapshotOf(s3.claims, g))
      BY <2>1, KindOfGVR DEF Replay, ReplayNext
    <3>2. IsMap(SnapshotOf(s3.claims, g), ClaimInfo)
      BY <1>1, RestrictIsMap DEF IsStore, SnapshotOf, EntriesOf
    <3> QED
      BY <3>1, <3>2, ReplaceIsMap DEF ReplaceClaims, StoreTypeOK, PollerTypeOK
  <2>2. CASE g \in XRGVRs
    <3>1. ReplaceXRs(g, SnapshotOf(s3.xrs, g))
      BY <2>2, KindOfGVR DEF Replay, ReplayNext
    <3>2. IsMap(SnapshotOf(s3.xrs, g), XRInfo)
      BY <1>1, RestrictIsMap DEF IsStore, SnapshotOf, EntriesOf
    <3> QED
      BY <3>1, <3>2, ReplaceIsMap DEF ReplaceXRs, StoreTypeOK, PollerTypeOK
  <2>3. CASE g \in MRGVRs
    <3>1. ReplaceMRs(g, SnapshotOf(s3.mrs, g))
      BY <2>3, KindOfGVR DEF Replay, ReplayNext
    <3>2. IsMap(SnapshotOf(s3.mrs, g), MRInfo)
      BY <1>1, RestrictIsMap DEF IsStore, SnapshotOf, EntriesOf
    <3> QED
      BY <3>1, <3>2, ReplaceIsMap DEF ReplaceMRs, StoreTypeOK, PollerTypeOK
  <2> QED
    BY <2>1, <2>2, <2>3 DEF AllGVRs
<1> QED
  BY <1>2 DEF Replay, PollerTypeOK, jobVars

LEMMA ExporterTypeStep ==
    ExporterTypeOK /\ [ExporterNext]_exporterVars => ExporterTypeOK'
<1> SUFFICES ASSUME ExporterTypeOK, [ExporterNext]_exporterVars PROVE ExporterTypeOK'
  OBVIOUS
<1>1. PollerTypeOK'
  <2>1. CASE PollerPart \/ RestoreFails \/ Launch
    BY <2>1, PollerTypeStep DEF PollerPart, RestoreFails, Launch, ExporterTypeOK
  <2>2. CASE Boot
    BY <2>2, ConfigsAssumption
       DEF Boot, ExporterTypeOK, PollerTypeOK, storeVars, StoreTypeOK, jobVars
  <2>3. CASE \E g \in AllGVRs : Replay(g)
    BY <2>3, ReplayedType DEF ExporterTypeOK
  <2>4. CASE Exit \/ Crash
    BY <2>4, ForgottenType DEF Exit, Crash, ExporterTypeOK
  <2> QED
    BY <2>1, <2>2, <2>3, <2>4, PollerPartOrOwn
<1>2. /\ proc' \in {"down", "restoring", "running"}
      /\ replay' \subseteq AllGVRs
      /\ ready' \in BOOLEAN
      /\ polledOnce' \in BOOLEAN
  BY DEF ExporterTypeOK, ExporterNext, ProcessStep, exporterVars, procVars, Boot, RestoreFails,
         Replay, Launch, Poll, MarkReady, Signal, Exit, Crash, Down, ForgetMemory, ClusterMoves
<1> QED
  BY <1>1, <1>2 DEF ExporterTypeOK

(***************************************************************************)
(* The exporter keeps its types through every crash and restart.           *)
(***************************************************************************)
THEOREM ExporterTypeCorrect == ExporterSpec => []ExporterTypeOK
<1>1. ExporterInit => ExporterTypeOK
  BY PollerTypeInit DEF ExporterInit, ExporterTypeOK
<1> QED
  BY <1>1, ExporterTypeStep, PTL DEF ExporterSpec

-----------------------------------------------------------------------------
(***************************************************************************)
(* The maps of the store and of a snapshot are functions and nothing more, *)
(* so that two with the same entries are equal.                            *)
(***************************************************************************)
IsFunction(m) == m = [k \in DOMAIN m |-> m[k]]

AreFunctions(store) ==
    IsFunction(store.claims) /\ IsFunction(store.xrs) /\ IsFunction(store.mrs)

LEMMA ReplaceIsFunction ==
    ASSUME NEW m, NEW g, NEW objects PROVE IsFunction(Replace(m, g, objects))
BY DEF IsFunction, Replace, Overwrite

LEMMA PublishFunctions ==
    ASSUME AreFunctions(StoreContents), NEW g \in AllGVRs, Publish(g)
    PROVE  AreFunctions(StoreContents)'
<1>1. CASE g \in ClaimGVRs
  <2>1. ReplaceClaims(g, items[g])
    BY <1>1, KindOfGVR DEF Publish
  <2> QED
    BY <2>1, ReplaceIsFunction DEF ReplaceClaims, AreFunctions, StoreContents
<1>2. CASE g \in XRGVRs
  <2>1. ReplaceXRs(g, items[g])
    BY <1>2, KindOfGVR DEF Publish
  <2> QED
    BY <2>1, ReplaceIsFunction DEF ReplaceXRs, AreFunctions, StoreContents
<1>3. CASE g \in MRGVRs
  <2>1. ReplaceMRs(g, items[g])
    BY <1>3, KindOfGVR DEF Publish
  <2> QED
    BY <2>1, ReplaceIsFunction DEF ReplaceMRs, AreFunctions, StoreContents
<1> QED
  BY <1>1, <1>2, <1>3 DEF AllGVRs

LEMMA EnrichFunctions ==
    ASSUME AreFunctions(StoreContents),
           EnrichClaimCompositions \/ EnrichXRClaims \/ EnrichMRClaims
    PROVE  AreFunctions(StoreContents)'
<1>1. CASE EnrichClaimCompositions
  <2>1. IsFunction(claims')
    BY <1>1 DEF EnrichClaimCompositions, IsFunction
  <2> QED
    BY <1>1, <2>1 DEF EnrichClaimCompositions, AreFunctions, StoreContents
<1>2. CASE EnrichXRClaims
  <2>1. PICK linked : xrs' = [k \in DOMAIN xrs |-> linked[k]]
    <3>1. PICK first \in [Linkable -> DOMAIN claims] :
              xrs' = [k \in DOMAIN xrs |->
                       IF k \in Linkable
                       THEN [xrs[k] EXCEPT !.claimName = claims[first[k]].name,
                                           !.claimNS = claims[first[k]].ns]
                       ELSE xrs[k]]
      BY <1>2 DEF EnrichXRClaims
    <3>2. xrs' = [k \in DOMAIN xrs |-> xrs'[k]]
      BY <3>1
    <3> QED
      BY <3>2
  <2>2. IsFunction(xrs')
    BY <2>1 DEF IsFunction
  <2> QED
    BY <1>2, <2>2 DEF EnrichXRClaims, AreFunctions, StoreContents
<1>3. CASE EnrichMRClaims
  <2>1. IsFunction(mrs')
    BY <1>3 DEF EnrichMRClaims, IsFunction
  <2> QED
    BY <1>3, <2>1 DEF EnrichMRClaims, AreFunctions, StoreContents
<1> QED
  BY <1>1, <1>2, <1>3

(***************************************************************************)
(* The poller's steps keep that, write only the store's contents to the    *)
(* bucket, and leave the store alone before the first cycle.               *)
(***************************************************************************)
FunctionInv == AreFunctions(StoreContents) /\ (s3 # NoSnapshot => AreFunctions(s3))

LEMMA PollerPartFunctions ==
    ASSUME FunctionInv, PollerPart
    PROVE  FunctionInv'
<1>1. CASE UNCHANGED storeVars /\ s3' \in {s3, StoreContents}
  BY <1>1 DEF FunctionInv, storeVars, StoreContents, AreFunctions
<1>2. ASSUME NEW g \in AllGVRs, FinishPoll(g) PROVE FunctionInv'
  <2>1. CASE KeepsStore(g)
    BY <1>1, <1>2, <2>1 DEF FinishPoll
  <2>2. CASE ~KeepsStore(g)
    BY <1>2, <2>2, PublishFunctions DEF FinishPoll, FunctionInv, AreFunctions
  <2> QED
    BY <2>1, <2>2
<1>3. CASE EnrichClaims \/ EnrichXRs \/ EnrichMRs
  <2>1. /\ EnrichClaimCompositions \/ EnrichXRClaims \/ EnrichMRClaims
        /\ s3' = s3
    BY <1>3 DEF EnrichClaims, EnrichXRs, EnrichMRs
  <2> QED
    BY <2>1, EnrichFunctions DEF FunctionInv, AreFunctions
<1> QED
  BY <1>1, <1>2, <1>3
     DEF PollerPart, PollerNext, PollerStep, pollerVars, storeVars, ClusterChange, Cancel,
         StartCycle, StartPoll, ListSucceeds, ListFails, SkipPersist, PersistSucceeds,
         PersistFails, Report, Stop

LEMMA BeforeFirstCycle ==
    ASSUME PollerTypeOK, EnrichedInv, PollerPart, phase' = "start"
    PROVE  phase = "start" /\ UNCHANGED <<storeVars, s3>>
<1>1. ASSUME NEW g \in AllGVRs, FinishPoll(g) PROVE FALSE
  BY <1>1 DEF FinishPoll, EnrichedInv, RunningPolls
<1> QED
  BY <1>1 DEF PollerPart, PollerNext, PollerStep, pollerVars, storeVars, ClusterChange, Cancel,
         StartCycle, StartPoll, ListSucceeds, ListFails, EnrichClaims, EnrichXRs, EnrichMRs,
         SkipPersist, PersistSucceeds, PersistFails, Report, Stop

-----------------------------------------------------------------------------
(***************************************************************************)
(* What Restore has put back: the entries of the GVRs already replayed.    *)
(***************************************************************************)
Without(m, gvrs) == Restrict(m, {k \in DOMAIN m : m[k].gvr \notin gvrs})

Replayed(store, rest) ==
    [claims |-> Without(store.claims, rest), xrs |-> Without(store.xrs, rest),
     mrs |-> Without(store.mrs, rest)]

LEMMA NothingReplayed ==
    ASSUME NEW store, IsStore(store) PROVE Replayed(store, AllGVRs) = NoEntries
<1>1. \A k \in DOMAIN store.claims : store.claims[k].gvr \in AllGVRs
  BY DEF IsStore, IsMap, ClaimInfo, AllGVRs
<1>2. \A k \in DOMAIN store.xrs : store.xrs[k].gvr \in AllGVRs
  BY DEF IsStore, IsMap, XRInfo, AllGVRs
<1>3. \A k \in DOMAIN store.mrs : store.mrs[k].gvr \in AllGVRs
  BY DEF IsStore, IsMap, MRInfo, AllGVRs
<1>4. /\ Without(store.claims, AllGVRs) = EmptyMap
      /\ Without(store.xrs, AllGVRs) = EmptyMap
      /\ Without(store.mrs, AllGVRs) = EmptyMap
  BY <1>1, <1>2, <1>3 DEF Without, Restrict, EmptyMap
<1> QED
  BY <1>4 DEF Replayed, NoEntries

LEMMA AllReplayed ==
    ASSUME NEW store, IsStore(store), AreFunctions(store) PROVE Replayed(store, {}) = store
<1>1. /\ Without(store.claims, {}) = store.claims
      /\ Without(store.xrs, {}) = store.xrs
      /\ Without(store.mrs, {}) = store.mrs
  BY DEF Without, Restrict, AreFunctions, IsFunction
<1> QED
  BY <1>1 DEF Replayed, IsStore

(***************************************************************************)
(* Replaying one more GVR adds its entries, and takes away none.           *)
(***************************************************************************)
LEMMA ReplayAdds ==
    ASSUME NEW m, NEW rest, NEW g \in rest
    PROVE  Replace(Without(m, rest), g, SnapshotOf(m, g)) = Without(m, rest \ {g})
<1> DEFINE new == Replace(Without(m, rest), g, SnapshotOf(m, g))
           old == {k \in DOMAIN m : m[k].gvr \notin rest}
           own == {k \in DOMAIN m : m[k].gvr = g}
<1>1. Without(m, rest) = [k \in old |-> m[k]] /\ SnapshotOf(m, g) = [k \in own |-> m[k]]
  BY DEF Without, SnapshotOf, EntriesOf, Restrict
<1>2. old \cup own = {k \in DOMAIN m : m[k].gvr \notin rest \ {g}}
  OBVIOUS
<1>3. {k \in old : m[k].gvr # g} = old
  OBVIOUS
<1>4. Restrict(Without(m, rest), {k \in DOMAIN Without(m, rest) : Without(m, rest)[k].gvr # g})
        = [k \in old |-> m[k]]
  BY <1>1, <1>3 DEF Restrict
<1>5. new = [k \in old \cup own |-> m[k]]
  BY <1>1, <1>4 DEF Replace, Overwrite
<1> QED
  BY <1>2, <1>5 DEF Without, Restrict

LEMMA ReplayAddsNothing ==
    ASSUME NEW m, NEW rest, NEW g, EntriesOf(m, g) = {}
    PROVE  Without(m, rest) = Without(m, rest \ {g})
<1>1. {k \in DOMAIN m : m[k].gvr \notin rest} = {k \in DOMAIN m : m[k].gvr \notin rest \ {g}}
  BY DEF EntriesOf
<1> QED
  BY <1>1 DEF Without

LEMMA ReplayedStep ==
    ASSUME PollerTypeOK, NEW g \in AllGVRs, Replay(g), StoreContents = Replayed(s3, replay)
    PROVE  StoreContents' = Replayed(s3, replay \ {g})
<1>1. IsStore(s3) /\ g \in replay /\ ReplayNext(g)
  BY DEF Replay, PollerTypeOK
<1>2. /\ claims = Without(s3.claims, replay)
      /\ xrs = Without(s3.xrs, replay)
      /\ mrs = Without(s3.mrs, replay)
  BY DEF StoreContents, Replayed
<1>3. /\ \A k \in DOMAIN s3.claims : s3.claims[k].gvr \in ClaimGVRs
      /\ \A k \in DOMAIN s3.xrs : s3.xrs[k].gvr \in XRGVRs
      /\ \A k \in DOMAIN s3.mrs : s3.mrs[k].gvr \in MRGVRs
  BY <1>1 DEF IsStore, IsMap, ClaimInfo, XRInfo, MRInfo
<1>4. CASE g \in ClaimGVRs
  <2>1. ReplaceClaims(g, SnapshotOf(s3.claims, g))
    BY <1>1, <1>4, KindOfGVR DEF ReplayNext
  <2>2. claims' = Without(s3.claims, replay \ {g})
    <3>1. Replace(Without(s3.claims, replay), g, SnapshotOf(s3.claims, g))
            = Without(s3.claims, replay \ {g})
      BY <1>1, ReplayAdds
    <3> QED
      BY <1>2, <2>1, <3>1 DEF ReplaceClaims
  <2>3. g \notin XRGVRs /\ g \notin MRGVRs
    BY <1>4, KindsAssumption
  <2>4. xrs' = Without(s3.xrs, replay \ {g}) /\ mrs' = Without(s3.mrs, replay \ {g})
    <3>1. EntriesOf(s3.xrs, g) = {} /\ EntriesOf(s3.mrs, g) = {}
      BY <1>3, <2>3 DEF EntriesOf
    <3>2. Without(s3.xrs, replay) = Without(s3.xrs, replay \ {g})
      BY <3>1, ReplayAddsNothing
    <3>3. Without(s3.mrs, replay) = Without(s3.mrs, replay \ {g})
      BY <3>1, ReplayAddsNothing
    <3> QED
      BY <1>2, <2>1, <3>2, <3>3 DEF ReplaceClaims
  <2> QED
    BY <2>2, <2>4 DEF StoreContents, Replayed
<1>5. CASE g \in XRGVRs
  <2>1. ReplaceXRs(g, SnapshotOf(s3.xrs, g))
    BY <1>1, <1>5, KindOfGVR DEF ReplayNext
  <2>2. xrs' = Without(s3.xrs, replay \ {g})
    <3>1. Replace(Without(s3.xrs, replay), g, SnapshotOf(s3.xrs, g))
            = Without(s3.xrs, replay \ {g})
      BY <1>1, ReplayAdds
    <3> QED
      BY <1>2, <2>1, <3>1 DEF ReplaceXRs
  <2>3. g \notin ClaimGVRs /\ g \notin MRGVRs
    BY <1>5, KindsAssumption
  <2>4. claims' = Without(s3.claims, replay \ {g}) /\ mrs' = Without(s3.mrs, replay \ {g})
    <3>1. EntriesOf(s3.claims, g) = {} /\ EntriesOf(s3.mrs, g) = {}
      BY <1>3, <2>3 DEF EntriesOf
    <3>2. Without(s3.claims, replay) = Without(s3.claims, replay \ {g})
      BY <3>1, ReplayAddsNothing
    <3>3. Without(s3.mrs, replay) = Without(s3.mrs, replay \ {g})
      BY <3>1, ReplayAddsNothing
    <3> QED
      BY <1>2, <2>1, <3>2, <3>3 DEF ReplaceXRs
  <2> QED
    BY <2>2, <2>4 DEF StoreContents, Replayed
<1>6. CASE g \in MRGVRs
  <2>1. ReplaceMRs(g, SnapshotOf(s3.mrs, g))
    BY <1>1, <1>6, KindOfGVR DEF ReplayNext
  <2>2. mrs' = Without(s3.mrs, replay \ {g})
    <3>1. Replace(Without(s3.mrs, replay), g, SnapshotOf(s3.mrs, g))
            = Without(s3.mrs, replay \ {g})
      BY <1>1, ReplayAdds
    <3> QED
      BY <1>2, <2>1, <3>1 DEF ReplaceMRs
  <2>3. g \notin ClaimGVRs /\ g \notin XRGVRs
    BY <1>6, KindsAssumption
  <2>4. claims' = Without(s3.claims, replay \ {g}) /\ xrs' = Without(s3.xrs, replay \ {g})
    <3>1. EntriesOf(s3.claims, g) = {} /\ EntriesOf(s3.xrs, g) = {}
      BY <1>3, <2>3 DEF EntriesOf
    <3>2. Without(s3.claims, replay) = Without(s3.claims, replay \ {g})
      BY <3>1, ReplayAddsNothing
    <3>3. Without(s3.xrs, replay) = Without(s3.xrs, replay \ {g})
      BY <3>1, ReplayAddsNothing
    <3> QED
      BY <1>2, <2>1, <3>2, <3>3 DEF ReplaceMRs
  <2> QED
    BY <2>2, <2>4 DEF StoreContents, Replayed
<1> QED
  BY <1>4, <1>5, <1>6 DEF AllGVRs

-----------------------------------------------------------------------------
(***************************************************************************)
(* The inductive invariant of restarts.  A process that is not running has *)
(* not begun to poll; one that restores has what it has replayed so far.   *)
(***************************************************************************)
IdleInv == proc # "running" => phase = "start" /\ \A g \in AllGVRs : status[g] = "waiting"

RestoreInv ==
    /\ proc = "down" => StoreContents = NoEntries
    /\ proc = "restoring" =>
          StoreContents = IF s3 = NoSnapshot THEN NoEntries ELSE Replayed(s3, replay)
    /\ RestoredWhole

RestartInv == ExporterTypeOK /\ EnrichedInv /\ FunctionInv /\ IdleInv /\ RestoreInv

LEMMA RestartInit == ExporterInit => RestartInv
<1> SUFFICES ASSUME ExporterInit PROVE RestartInv
  OBVIOUS
<1>1. PollerTypeOK /\ EnrichedInv
  BY PollerTypeInit, EnrichedInit DEF ExporterInit
<1>2. StoreContents = NoEntries /\ s3 = NoSnapshot /\ proc = "down"
  BY DEF ExporterInit, PollerInit, StoreInit, StoreContents, NoEntries
<1>3. FunctionInv
  BY <1>2 DEF FunctionInv, AreFunctions, IsFunction, NoEntries, EmptyMap
<1>4. IdleInv
  BY DEF ExporterInit, PollerInit, NoPolls, IdleInv
<1> QED
  BY <1>1, <1>2, <1>3, <1>4
     DEF RestartInv, ExporterInit, ExporterTypeOK, RestoreInv, RestoredWhole

(***************************************************************************)
(* While the process does not run, only the context and the cluster move.  *)
(***************************************************************************)
LEMMA WhileNotRunning ==
    ASSUME [ExporterNext]_exporterVars, proc # "running"
    PROVE  \/ UNCHANGED <<storeVars, cfg, phase, jobVars, s3, proc, replay>>
           \/ RestoreFails \/ Launch \/ Boot \/ (\E g \in AllGVRs : Replay(g)) \/ Crash
BY DEF ExporterNext, ProcessStep, exporterVars, pollerVars, procVars, storeVars, jobVars, Poll,
       MarkReady, Signal, Cancel, Exit, ClusterMoves, ClusterChange

LEMMA WhileRunning ==
    ASSUME [ExporterNext]_exporterVars, proc = "running"
    PROVE  \/ PollerPart /\ UNCHANGED <<proc, replay>>
           \/ Exit
           \/ Crash
BY PollerPartOrOwn DEF Boot, RestoreFails, Launch, Replay

LEMMA DownRestarts ==
    ASSUME RestartInv, Down
    PROVE  EnrichedInv' /\ FunctionInv' /\ IdleInv' /\ RestoreInv'
<1>1. /\ proc' = "down"
      /\ phase' = "start"
      /\ \A g \in AllGVRs : status'[g] = "waiting"
  BY DEF Down, ForgetMemory, NoPolls
<1>2. StoreContents' = NoEntries
  BY DEF Down, ForgetMemory, StoreContents, NoEntries
<1>3. \/ s3' = s3
      \/ phase = "persist" /\ s3' = StoreContents
  BY DEF Down
<1>4. s3' # NoSnapshot => Enriched(s3') /\ AreFunctions(s3')
  BY <1>3 DEF RestartInv, EnrichedInv, FunctionInv, Enriched, AtRest
<1>5. AreFunctions(NoEntries)
  BY DEF AreFunctions, IsFunction, NoEntries, EmptyMap
<1>6. EnrichedInv'
  BY <1>1, <1>4 DEF EnrichedInv, RunningPolls, AtRest
<1>7. FunctionInv'
  BY <1>2, <1>4, <1>5 DEF FunctionInv
<1> QED
  BY <1>1, <1>2, <1>6, <1>7 DEF IdleInv, RestoreInv, RestoredWhole

LEMMA ReplayRestarts ==
    ASSUME RestartInv, NEW g \in AllGVRs, Replay(g)
    PROVE  EnrichedInv' /\ FunctionInv' /\ IdleInv' /\ RestoreInv'
<1>1. /\ proc = "restoring" /\ proc' = proc
      /\ s3 # NoSnapshot /\ s3' = s3
      /\ phase = "start" /\ phase' = phase
      /\ status' = status
      /\ replay' = replay \ {g}
  BY DEF Replay, jobVars, RestartInv, IdleInv
<1>2. EnrichedInv'
  BY <1>1 DEF RestartInv, IdleInv, EnrichedInv, RunningPolls, AtRest
<1>3. StoreContents' = Replayed(s3, replay \ {g})
  BY <1>1, ReplayedStep DEF RestartInv, RestoreInv, ExporterTypeOK
<1>4. FunctionInv'
  <2>1. AreFunctions(Replayed(s3, replay \ {g}))
    BY DEF AreFunctions, IsFunction, Replayed, Without, Restrict
  <2> QED
    BY <1>1, <1>3, <2>1 DEF FunctionInv, RestartInv
<1> QED
  BY <1>1, <1>2, <1>3, <1>4 DEF RestartInv, IdleInv, RestoreInv, RestoredWhole

LEMMA LaunchRestarts ==
    ASSUME RestartInv, RestoreFails \/ Launch
    PROVE  EnrichedInv' /\ FunctionInv' /\ IdleInv' /\ RestoreInv'
<1>1. UNCHANGED pollerVars /\ proc = "restoring" /\ proc' = "running"
  BY DEF RestoreFails, Launch
<1>2. UNCHANGED <<storeVars, cfg, phase, status, s3>>
  BY <1>1 DEF pollerVars, storeVars
<1>3. StoreContents' = StoreContents /\ Polled' = Polled
  BY <1>2 DEF StoreContents, storeVars, Polled
<1>4. EnrichedInv' /\ FunctionInv'
  BY <1>2, <1>3 DEF RestartInv, EnrichedInv, FunctionInv, RunningPolls, AtRest
<1>5. StoreContents \in {NoEntries, s3}
  <2>1. CASE s3 = NoSnapshot
    BY <1>1, <2>1 DEF RestartInv, RestoreInv
  <2>2. CASE s3 # NoSnapshot
    <3>1. IsStore(s3) /\ AreFunctions(s3) /\ StoreContents = Replayed(s3, replay)
      BY <1>1, <2>2 DEF RestartInv, RestoreInv, ExporterTypeOK, PollerTypeOK, FunctionInv
    <3>2. replay \in {{}, AllGVRs}
      BY DEF RestoreFails, Launch
    <3> QED
      BY <3>1, <3>2, NothingReplayed, AllReplayed
  <2> QED
    BY <2>1, <2>2
<1>6. IdleInv' /\ RestoreInv'
  BY <1>1, <1>2, <1>3, <1>5 DEF IdleInv, RestoreInv, RestoredWhole
<1> QED
  BY <1>4, <1>6

LEMMA BootRestarts ==
    ASSUME RestartInv, Boot
    PROVE  EnrichedInv' /\ FunctionInv' /\ IdleInv' /\ RestoreInv'
<1>1. /\ proc = "down"
      /\ UNCHANGED <<storeVars, phase, status, s3>>
      /\ \/ proc' = "restoring" /\ replay' = AllGVRs
         \/ proc' = "running"
  BY DEF Boot, jobVars
<1>2. /\ StoreContents' = NoEntries /\ StoreContents = NoEntries
      /\ phase = "start"
      /\ \A g \in AllGVRs : status[g] = "waiting"
  BY <1>1 DEF RestartInv, RestoreInv, IdleInv, StoreContents, storeVars
<1>3. EnrichedInv' /\ FunctionInv'
  BY <1>1, <1>2 DEF RestartInv, EnrichedInv, FunctionInv, RunningPolls, AtRest
<1>4. s3 # NoSnapshot => NoEntries = Replayed(s3, AllGVRs)
  BY NothingReplayed DEF RestartInv, ExporterTypeOK, PollerTypeOK
<1> QED
  BY <1>1, <1>2, <1>3, <1>4 DEF IdleInv, RestoreInv, RestoredWhole

LEMMA PollRestarts ==
    ASSUME RestartInv, PollerPart, proc = "running", UNCHANGED <<proc, replay>>
    PROVE  EnrichedInv' /\ FunctionInv' /\ IdleInv' /\ RestoreInv'
<1>1. EnrichedInv' /\ FunctionInv'
  BY EnrichedStep, PollerPartFunctions DEF RestartInv, ExporterTypeOK, PollerPart
<1>2. phase' = "start" => phase = "start" /\ StoreContents' = StoreContents /\ s3' = s3
  BY BeforeFirstCycle DEF RestartInv, ExporterTypeOK, storeVars, StoreContents
<1> QED
  BY <1>1, <1>2 DEF RestartInv, IdleInv, RestoreInv, RestoredWhole

LEMMA RestartStep == RestartInv /\ [ExporterNext]_exporterVars => RestartInv'
<1> SUFFICES ASSUME RestartInv, [ExporterNext]_exporterVars PROVE RestartInv'
  OBVIOUS
<1>1. ExporterTypeOK'
  BY ExporterTypeStep DEF RestartInv
<1>2. CASE proc = "running"
  <2>1. CASE Exit \/ Crash
    BY <1>1, <2>1, DownRestarts DEF Exit, Crash, RestartInv
  <2>2. CASE PollerPart /\ UNCHANGED <<proc, replay>>
    BY <1>1, <1>2, <2>2, PollRestarts DEF RestartInv
  <2> QED
    BY <1>2, <2>1, <2>2, WhileRunning
<1>3. CASE proc # "running"
  <2>1. CASE UNCHANGED <<storeVars, cfg, phase, jobVars, s3, proc, replay>>
    <3>1. StoreContents' = StoreContents /\ Polled' = Polled
      BY <2>1 DEF StoreContents, storeVars, Polled
    <3> QED
      BY <1>1, <2>1, <3>1 DEF RestartInv, EnrichedInv, FunctionInv, IdleInv, RestoreInv,
                               RestoredWhole, RunningPolls, AtRest, jobVars
  <2>2. CASE RestoreFails \/ Launch
    BY <1>1, <2>2, LaunchRestarts DEF RestartInv
  <2>3. CASE Boot
    BY <1>1, <2>3, BootRestarts DEF RestartInv
  <2>4. CASE \E g \in AllGVRs : Replay(g)
    BY <1>1, <2>4, ReplayRestarts DEF RestartInv
  <2>5. CASE Crash
    BY <1>1, <2>5, DownRestarts DEF Crash, RestartInv
  <2> QED
    BY <1>3, <2>1, <2>2, <2>3, <2>4, <2>5, WhileNotRunning
<1> QED
  BY <1>2, <1>3

(***************************************************************************)
(* Whatever is killed and restarted when, and in whatever order Restore    *)
(* replays the kinds, a process polls with an empty store or with exactly  *)
(* the snapshot in the bucket.                                             *)
(***************************************************************************)
THEOREM RestoredWholeAlways == ExporterSpec => []RestoredWhole
<1>1. RestartInv => RestoredWhole
  BY DEF RestartInv, RestoreInv
<1> QED
  BY <1>1, RestartInit, RestartStep, PTL DEF ExporterSpec

-----------------------------------------------------------------------------
(***************************************************************************)
(* For the lists of a cycle the invariant of the poller is carried through *)
(* restarts: the snapshot too has every entry under a key of its own GVR,  *)
(* so that replaying one kind is harmless to another.                      *)
(***************************************************************************)
SnapshotOwnKeys ==
    s3 # NoSnapshot => AllOwnKeys(s3.claims) /\ AllOwnKeys(s3.xrs) /\ AllOwnKeys(s3.mrs)

KeptInv == RestartInv /\ ListInv /\ SnapshotOwnKeys

LEMMA SnapshotChanges ==
    ASSUME [ExporterNext]_exporterVars, s3' # s3
    PROVE  phase = "persist" /\ ~HadErrors /\ s3' = StoreContents
<1>1. CASE Poll
  BY <1>1 DEF Poll, PollerStep, StartCycle, StartPoll, ListSucceeds, ListFails, FinishPoll,
              EnrichClaims, EnrichXRs, EnrichMRs, SkipPersist, PersistSucceeds, PersistFails,
              Report, Stop, SkipsPersist
<1>2. CASE Exit \/ Crash
  BY <1>2 DEF Exit, Crash, Down, SkipsPersist
<1>3. CASE Boot \/ RestoreFails \/ (\E g \in AllGVRs : Replay(g)) \/ Launch \/ MarkReady \/ Signal
           \/ ClusterMoves \/ UNCHANGED exporterVars
  BY <1>3 DEF Boot, RestoreFails, Replay, Launch, MarkReady, Signal, Cancel, ClusterMoves,
              ClusterChange, exporterVars, pollerVars
<1> QED
  BY <1>1, <1>2, <1>3 DEF ExporterNext, ProcessStep

LEMMA SnapshotKeepsOwnKeys ==
    ASSUME KeptInv, [ExporterNext]_exporterVars PROVE SnapshotOwnKeys'
<1>1. s3' = s3 \/ s3' = StoreContents
  BY SnapshotChanges
<1> QED
  BY <1>1 DEF KeptInv, ListInv, StoreOwnKeys, SnapshotOwnKeys, StoreContents

(***************************************************************************)
(* Before a process polls there is nothing that lists and store must agree *)
(* on.                                                                     *)
(***************************************************************************)
LEMMA NothingListed ==
    ASSUME cfg \in Config, \A g \in AllGVRs : status[g] = "waiting"
    PROVE  StoreMatchesLists
BY PolledAreGVRs DEF StoreMatchesLists

LEMMA EmptyOwnKeys == AllOwnKeys(EmptyMap) /\ \A g \in AllGVRs : OwnKeys(EmptyMap, g)
BY DEF AllOwnKeys, OwnKeys, EmptyMap

LEMMA DownLists ==
    ASSUME PollerTypeOK, Down PROVE ListInv'
<1>1. /\ claims' = EmptyMap /\ xrs' = EmptyMap /\ mrs' = EmptyMap
      /\ phase' = "start" /\ cfg' = cfg
      /\ \A g \in AllGVRs : status'[g] = "waiting" /\ items'[g] = EmptyMap
  BY DEF Down, ForgetMemory, NoPolls
<1>2. Polled' \subseteq AllGVRs
  BY <1>1, PolledAreGVRs DEF PollerTypeOK, Polled
<1>3. StoreMatchesLists'
  BY <1>1, <1>2 DEF StoreMatchesLists
<1> QED
  BY <1>1, <1>3, EmptyOwnKeys DEF ListInv, StoreOwnKeys

LEMMA ReplayOwnKeys ==
    ASSUME PollerTypeOK, StoreOwnKeys, SnapshotOwnKeys, NEW g \in AllGVRs, Replay(g)
    PROVE  StoreOwnKeys'
<1>1. AllOwnKeys(s3.claims) /\ AllOwnKeys(s3.xrs) /\ AllOwnKeys(s3.mrs)
  BY DEF Replay, SnapshotOwnKeys
<1>2. /\ OwnKeys(SnapshotOf(s3.claims, g), g)
      /\ OwnKeys(SnapshotOf(s3.xrs, g), g)
      /\ OwnKeys(SnapshotOf(s3.mrs, g), g)
  BY <1>1 DEF AllOwnKeys, OwnKeys, SnapshotOf, EntriesOf, Restrict
<1>3. CASE g \in ClaimGVRs
  BY <1>2, <1>3, KindOfGVR, ReplaceOwnKeys DEF Replay, ReplayNext, ReplaceClaims, StoreOwnKeys
<1>4. CASE g \in XRGVRs
  BY <1>2, <1>4, KindOfGVR, ReplaceOwnKeys DEF Replay, ReplayNext, ReplaceXRs, StoreOwnKeys
<1>5. CASE g \in MRGVRs
  BY <1>2, <1>5, KindOfGVR, ReplaceOwnKeys DEF Replay, ReplayNext, ReplaceMRs, StoreOwnKeys
<1> QED
  BY <1>3, <1>4, <1>5 DEF AllGVRs

LEMMA KeptStep ==
    NoSharedKeys /\ KeptInv /\ [ExporterNext]_exporterVars => KeptInv'
<1> SUFFICES ASSUME NoSharedKeys, KeptInv, [ExporterNext]_exporterVars PROVE KeptInv'
  OBVIOUS
<1>1. RestartInv' /\ SnapshotOwnKeys'
  BY RestartStep, SnapshotKeepsOwnKeys DEF KeptInv
<1>2. PollerTypeOK /\ PollerTypeOK' /\ IdleInv
  BY <1>1 DEF KeptInv, RestartInv, ExporterTypeOK
<1>3. CASE PollerPart \/ RestoreFails \/ Launch
  BY <1>1, <1>2, <1>3, ListStep DEF KeptInv, PollerPart, RestoreFails, Launch
<1>4. CASE Exit \/ Crash
  BY <1>1, <1>2, <1>4, DownLists DEF KeptInv, Exit, Crash
<1>5. CASE Boot
  <2>1. /\ UNCHANGED <<storeVars, phase, status, items>>
        /\ phase = "start"
        /\ \A g \in AllGVRs : status[g] = "waiting"
    BY <1>2, <1>5 DEF Boot, jobVars, IdleInv
  <2>2. StoreMatchesLists'
    <3>1. Polled' \subseteq AllGVRs
      BY <1>2, PolledAreGVRs DEF PollerTypeOK, Polled, Config, Range, AllGVRs
    <3> QED
      BY <2>1, <3>1 DEF StoreMatchesLists
  <2> QED
    BY <1>1, <2>1, <2>2 DEF KeptInv, ListInv, StoreOwnKeys, storeVars
<1>6. ASSUME NEW g \in AllGVRs, Replay(g) PROVE KeptInv'
  <2>1. /\ UNCHANGED <<phase, status, items, cfg>>
        /\ phase = "start"
        /\ \A h \in AllGVRs : status[h] = "waiting"
    BY <1>2, <1>6 DEF Replay, jobVars, IdleInv
  <2>2. StoreMatchesLists'
    <3>1. Polled' = Polled /\ Polled \subseteq AllGVRs
      BY <1>2, <2>1, PolledAreGVRs DEF PollerTypeOK, Polled
    <3> QED
      BY <2>1, <3>1 DEF StoreMatchesLists
  <2>3. StoreOwnKeys'
    BY <1>2, <1>6, ReplayOwnKeys DEF KeptInv, ListInv
  <2> QED
    BY <1>1, <2>1, <2>2, <2>3 DEF KeptInv, ListInv
<1> QED
  BY <1>3, <1>4, <1>5, <1>6, PollerPartOrOwn

LEMMA KeptInit == ExporterInit => KeptInv
BY RestartInit, ListInit DEF ExporterInit, PollerInit, KeptInv, SnapshotOwnKeys

(***************************************************************************)
(* When no two kinds share object keys, the store holds of each GVR what   *)
(* its last poll listed, in every process, whatever was restored into it.  *)
(***************************************************************************)
THEOREM StoreIsWhatWasListedAfterRestarts ==
    ASSUME NoSharedKeys PROVE ExporterSpec => []StoreMatchesLists
<1>1. KeptInv => StoreMatchesLists
  BY DEF KeptInv, ListInv
<1>2. KeptInv /\ [ExporterNext]_exporterVars => KeptInv'
  BY KeptStep
<1> QED
  BY <1>1, <1>2, KeptInit, PTL DEF ExporterSpec

(***************************************************************************)
(* Under the same condition no crash, signal or restart, and no write that *)
(* outlives its process, leaves in the bucket anything but the snapshot    *)
(* that was there or the complete, enriched lists of one cycle.            *)
(***************************************************************************)
THEOREM NoCrashSpoilsSnapshot ==
    ASSUME NoSharedKeys PROVE ExporterSpec => CrashKeepsSnapshot
<1>1. ASSUME KeptInv, [ExporterNext]_exporterVars, s3' # s3
      PROVE  /\ phase = "persist"
             /\ Enriched(s3')
             /\ \A g \in Polled : ~errs[g] /\ Holds(s3', g, items[g])
  <2>1. phase = "persist" /\ ~HadErrors /\ s3' = StoreContents
    BY <1>1, SnapshotChanges
  <2>2. Enriched(StoreContents)
    BY <1>1, <2>1 DEF KeptInv, RestartInv, EnrichedInv, AtRest, Enriched
  <2>3. ASSUME NEW g \in Polled PROVE ~errs[g] /\ Holds(StoreContents, g, items[g])
    BY <1>1, <2>1, <2>3 DEF KeptInv, ListInv, HadErrors, StoreMatchesLists
  <2> QED
    BY <2>1, <2>2, <2>3
<1>2. KeptInv /\ [ExporterNext]_exporterVars =>
        [ s3' # s3 => /\ phase = "persist"
                      /\ Enriched(s3')
                      /\ \A g \in Polled : ~errs[g] /\ Holds(s3', g, items[g]) ]_exporterVars
  BY <1>1
<1>3. KeptInv /\ [ExporterNext]_exporterVars => KeptInv'
  BY KeptStep
<1> QED
  BY <1>2, <1>3, KeptInit, PTL DEF ExporterSpec, CrashKeepsSnapshot

(***************************************************************************)
(* The store of every process is enriched between its cycles, and so is    *)
(* the snapshot that outlives them.                                        *)
(***************************************************************************)
THEOREM EnrichedAfterRestarts == ExporterSpec => []EnrichedAtRest
<1>1. RestartInv => EnrichedAtRest
  BY DEF RestartInv, EnrichedInv, EnrichedAtRest, Enriched, AtRest
<1> QED
  BY <1>1, RestartInit, RestartStep, PTL DEF ExporterSpec

(***************************************************************************)
(* Before its first cycle a process has no links to answer for.            *)
(***************************************************************************)
LEMMA LinkBeforeCycles == phase' = "start" => LinkInv'
BY DEF LinkInv, AtRest

LEMMA LinkSurvives ==
    ASSUME NoSharedKeys, KeptInv, LinkInv, [ExporterNext]_exporterVars
    PROVE  LinkInv'
<1>1. PollerTypeOK /\ EnrichedInv /\ ListInv /\ IdleInv
  BY DEF KeptInv, RestartInv, ExporterTypeOK
<1>2. CASE PollerPart \/ RestoreFails \/ Launch
  BY <1>1, <1>2, LinkStep DEF PollerPart, RestoreFails, Launch
<1>3. CASE Boot \/ \E g \in AllGVRs : Replay(g)
  <2>1. phase' = "start"
    BY <1>1, <1>3 DEF Boot, Replay, IdleInv
  <2> QED
    BY <2>1, LinkBeforeCycles
<1>4. CASE Exit \/ Crash
  <2>1. phase' = "start"
    BY <1>4 DEF Exit, Crash, Down, ForgetMemory
  <2> QED
    BY <2>1, LinkBeforeCycles
<1> QED
  BY <1>2, <1>3, <1>4, PollerPartOrOwn

(***************************************************************************)
(* What a process has restored does not spoil the links of its cycles:     *)
(* after one without a failed list, a link that no label gave leads to a   *)
(* claim or an XR that is stored, also when there are entries that no      *)
(* cycle of this process has listed.                                       *)
(***************************************************************************)
THEOREM LinksAreOfThisCycleAfterRestarts ==
    ASSUME NoSharedKeys PROVE ExporterSpec => []LinkedFromThisCycle
<1>1. ExporterInit => LinkInv
  BY LinkInit DEF ExporterInit
<1>2. KeptInv /\ LinkInv /\ [ExporterNext]_exporterVars => KeptInv' /\ LinkInv'
  BY KeptStep, LinkSurvives
<1>3. LinkInv => LinkedFromThisCycle
  BY DEF LinkInv, LinkedFromThisCycle, XRsLinked, MRsLinked
<1> QED
  BY <1>1, <1>2, <1>3, KeptInit, PTL DEF ExporterSpec

(***************************************************************************)
(* A process whose polls have not begun holds nothing of an earlier one.   *)
(***************************************************************************)
LEMMA WaitingSurvives ==
    ASSUME KeptInv, WaitingInv, [ExporterNext]_exporterVars PROVE WaitingInv'
<1>1. CASE PollerPart
  BY <1>1, WaitingStep DEF KeptInv, RestartInv, ExporterTypeOK, PollerPart
<1>2. CASE RestoreFails \/ Launch \/ Boot \/ \E g \in AllGVRs : Replay(g)
  <2>1. UNCHANGED <<status, at, items, errs>>
    BY <1>2 DEF RestoreFails, Launch, Boot, Replay, pollerVars, jobVars
  <2> QED
    BY <2>1 DEF WaitingInv
<1>3. CASE Exit \/ Crash
  BY <1>3 DEF Exit, Crash, Down, ForgetMemory, NoPolls, WaitingInv
<1> QED
  BY <1>1, <1>2, <1>3, PollerPartOrOwn

(***************************************************************************)
(* The process stays up besides.                                           *)
(***************************************************************************)
ProcessAndClusterStay == StillStands /\ UNCHANGED proc

(***************************************************************************)
(* The safety part of RecoversFromRestart.  When the process stays up, the *)
(* cluster stands still and no list fails from the beginning of one of its *)
(* cycles on, the store holds of the kinds it polls what the cluster has,  *)
(* when that cycle is over and from then on, whatever it had restored.     *)
(***************************************************************************)
THEOREM OneCycleMirrorsAfterRestart ==
    ASSUME NoSharedKeys
    PROVE  ExporterSpec =>
              [](proc = "running" /\ CycleBegins /\ [][ProcessAndClusterStay]_exporterVars
                    => [](AtRest => []Mirrored))
<1> DEFINE Running == KeptInv /\ WaitingInv
           Up == proc = "running" /\ StillInv
<1>1. ExporterInit => Running
  BY KeptInit, WaitingInit DEF ExporterInit
<1>2. Running /\ [ExporterNext]_exporterVars => Running'
  BY KeptStep, WaitingSurvives
<1>3. Running => PollerTypeOK /\ EnrichedInv /\ ListInv /\ WaitingInv
  BY DEF KeptInv, RestartInv, ExporterTypeOK
<1>4. Running /\ proc = "running" /\ CycleBegins => Up
  BY <1>3, StillBegins
<1>5. ASSUME proc = "running", [ExporterNext]_exporterVars,
             [ProcessAndClusterStay]_exporterVars
      PROVE  /\ proc' = "running"
             /\ (PollerPart /\ StillStands) \/ UNCHANGED pollerVars
  <2>1. CASE UNCHANGED exporterVars
    BY <1>5, <2>1 DEF exporterVars, procVars
  <2>2. CASE ProcessAndClusterStay
    BY <1>5, <2>2, WhileRunning DEF ProcessAndClusterStay, Exit, Crash, Down
  <2> QED
    BY <1>5, <2>1, <2>2
<1>6. UNCHANGED pollerVars => /\ UNCHANGED <<phase, status, at, items, errs>>
                             /\ Polled' = Polled /\ StoreContents' = StoreContents
                             /\ \A g, n : SoFar(g, n)' = SoFar(g, n)
                             /\ \A h : Wanted(h)' = Wanted(h)
  BY SameThere DEF pollerVars, Polled, StoreContents
<1>7. ASSUME Running, Up, [ExporterNext]_exporterVars,
             [ProcessAndClusterStay]_exporterVars
      PROVE  Up' /\ (Mirrored => Mirrored')
  <2>1. CASE UNCHANGED pollerVars
    BY <1>5, <1>6, <1>7, <2>1 DEF StillInv, Mirrored
  <2>2. CASE PollerPart /\ StillStands
    BY <1>3, <1>5, <1>7, <2>2, StillStep, MirroredStays DEF PollerPart
  <2> QED
    BY <1>5, <1>7, <2>1, <2>2
<1>8. Running /\ Up /\ [ExporterNext]_exporterVars
             /\ [ProcessAndClusterStay]_exporterVars
        => Up' /\ (Mirrored => Mirrored')
  BY <1>7
<1>9. Running /\ Up => (AtRest => Mirrored)
  BY <1>3, RestIsMirrored
<1> HIDE DEF Running, Up
<1> QED
  BY <1>1, <1>2, <1>4, <1>8, <1>9, PTL DEF ExporterSpec
=============================================================================
