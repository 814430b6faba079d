--------------------------- MODULE PollerMirrorProofs ---------------------------
(***************************************************************************)
(* Every step of a poller of the whole cluster is a step of the mirror it  *)
(* implements, or none, when no two kinds share object keys.               *)
(***************************************************************************)
EXTENDS PollerMirror, PollerListProofs

(***************************************************************************)
(* A part of what the API server may hold is something it may hold.        *)
(***************************************************************************)
LEMMA ListedIsList ==
    ASSUME NEW g \in AllGVRs, NEW m \in Lists[g], NEW S \in SUBSET DOMAIN m
    PROVE  Restrict(m, S) \in Lists[g]
<1> DEFINE maps(D) == {n \in [D -> Objects[g]] : \A k \in D : KeyOf(n[k]) = k}
           keys == {KeyOf(o) : o \in Objects[g]}
<1>1. Lists[g] = UNION {maps(D) : D \in SUBSET keys}
  BY DEF Lists
<1>2. PICK D \in SUBSET keys : m \in maps(D)
  BY <1>1
<1>3. S \in SUBSET keys /\ Restrict(m, S) \in maps(S)
  BY <1>2 DEF Restrict
<1> QED
  BY <1>1, <1>3

(***************************************************************************)
(* The list of the one target, and what it leaves in a poll.               *)
(***************************************************************************)
JobInv ==
    \A g \in AllGVRs :
        /\ status[g] = "waiting" => at[g] = 1
        /\ at[g] = 1 => items[g] = EmptyMap /\ ~errs[g]
        /\ at[g] # 1 /\ ~errs[g] => items[g] \in Lists[g]

LEMMA OneTarget == Scope = <<>> => Len(Targets) = 1 /\ Targets[1] = NoNS
BY DEF Targets

LEMMA AtTheTarget ==
    ASSUME Scope = <<>>, PollerTypeOK, NEW g \in AllGVRs
    PROVE  /\ at[g] <= Len(Targets) <=> at[g] = 1
           /\ at[g] > Len(Targets) <=> at[g] # 1
<1>1. Len(Targets) = 1
  BY OneTarget
<1>2. at[g] \in 1..2
  BY <1>1 DEF PollerTypeOK
<1> QED
  BY <1>1, <1>2

LEMMA ListedWhole ==
    ASSUME PollerTypeOK, NEW g \in AllGVRs
    PROVE  /\ Listed(g, NoNS) \in Lists[g]
           /\ Overwrite(EmptyMap, Listed(g, NoNS)) = Listed(g, NoNS)
<1>1. cluster[g] \in Lists[g]
  BY DEF PollerTypeOK
<1>2. Listed(g, NoNS) \in Lists[g]
  BY <1>1, ListedIsList DEF Listed
<1>3. Overwrite(EmptyMap, Listed(g, NoNS)) = Listed(g, NoNS)
  BY DEF Overwrite, EmptyMap, Listed, Restrict
<1> QED
  BY <1>2, <1>3

LEMMA JobInit == PollerInit => JobInv
BY DEF PollerInit, NoPolls, JobInv

LEMMA JobStep ==
    Scope = <<>> /\ PollerTypeOK /\ JobInv /\ [PollerNext]_pollerVars => JobInv'
<1> SUFFICES ASSUME Scope = <<>>, PollerTypeOK, JobInv, [PollerNext]_pollerVars PROVE JobInv'
  OBVIOUS
<1>1. CASE UNCHANGED jobVars
  BY <1>1 DEF jobVars, JobInv
<1>2. CASE StartCycle
  BY <1>2 DEF StartCycle, NoPolls, JobInv
<1>3. ASSUME NEW g \in AllGVRs, StartPoll(g) \/ FinishPoll(g) PROVE JobInv'
  BY <1>3 DEF StartPoll, FinishPoll, JobInv, PollerTypeOK
<1>4. ASSUME NEW g \in AllGVRs, ListSucceeds(g) PROVE JobInv'
  <2>1. at[g] = 1 /\ Targets[1] = NoNS /\ status[g] = "running"
    BY <1>4, AtTheTarget, OneTarget DEF ListSucceeds, Listing
  <2>2. items[g] = EmptyMap
    BY <2>1 DEF JobInv
  <2>3. items' = [items EXCEPT ![g] = Listed(g, NoNS)]
    BY <1>4, <2>1, <2>2, ListedWhole DEF ListSucceeds
  <2>4. at' = [at EXCEPT ![g] = 2] /\ UNCHANGED <<status, errs>>
    BY <1>4, <2>1 DEF ListSucceeds
  <2>5. Listed(g, NoNS) \in Lists[g]
    BY ListedWhole
  <2> QED
    BY <2>1, <2>3, <2>4, <2>5 DEF JobInv, PollerTypeOK
<1>5. ASSUME NEW g \in AllGVRs, ListFails(g) PROVE JobInv'
  <2>1. at[g] = 1 /\ status[g] = "running"
    BY <1>5, AtTheTarget DEF ListFails, Listing
  <2>2. /\ at' = [at EXCEPT ![g] = 2]
        /\ errs' = [errs EXCEPT ![g] = TRUE]
        /\ UNCHANGED <<status, items>>
    BY <1>5, <2>1 DEF ListFails
  <2> QED
    BY <2>1, <2>2 DEF JobInv, PollerTypeOK
<1> QED
  BY <1>1, <1>2, <1>3, <1>4, <1>5
     DEF PollerNext, PollerStep, pollerVars, jobVars, ClusterChange, Cancel, EnrichClaims, EnrichXRs,
         EnrichMRs, SkipPersist, PersistSucceeds, PersistFails, Report, Stop

-----------------------------------------------------------------------------
(***************************************************************************)
(* What the mirror sees of the poller's state.                             *)
(***************************************************************************)
There   == [g \in AllGVRs |-> BareMap(Listed(g, NoNS))]
Fetched == [g \in AllGVRs |-> IF FetchedBy(g) THEN BareMap(items[g]) ELSE NoList]
Shown   == [g \in AllGVRs |-> BareMap(Restrict(StoreOf(g), EntriesOf(StoreOf(g), g)))]

LEMMA MirrorStutters ==
    ASSUME There' = There, Fetched' = Fetched, Shown' = Shown
    PROVE  UNCHANGED Mirror!mirrorVars
BY DEF Mirror!mirrorVars, There, Fetched, Shown

LEMMA ShownIsStored ==
    ASSUME NEW g \in AllGVRs
    PROVE  Shown[g] = [k \in EntriesOf(StoreOf(g), g) |-> Bare(StoreOf(g)[k])]
BY DEF Shown, BareMap, Restrict

(***************************************************************************)
(* A publication shows what was fetched, and of other GVRs what was shown. *)
(***************************************************************************)
LEMMA StoreOfKind ==
    /\ \A g \in ClaimGVRs : StoreOf(g) = claims
    /\ \A g \in XRGVRs : StoreOf(g) = xrs
    /\ \A g \in MRGVRs : StoreOf(g) = mrs
BY KindsAssumption DEF StoreOf

LEMMA StoreOfKindNext ==
    /\ \A g \in ClaimGVRs : StoreOf(g)' = claims'
    /\ \A g \in XRGVRs : StoreOf(g)' = xrs'
    /\ \A g \in MRGVRs : StoreOf(g)' = mrs'
BY KindsAssumption DEF StoreOf

LEMMA PublishReplaces ==
    ASSUME NEW g \in AllGVRs, Publish(g)
    PROVE  \A h \in AllGVRs :
               \/ StoreOf(h)' = StoreOf(h) /\ h # g
               \/ /\ StoreOf(h) = StoreOf(g)
                  /\ StoreOf(h)' = Replace(StoreOf(g), g, items[g])
                  /\ \E kind \in {ClaimGVRs, XRGVRs, MRGVRs} : g \in kind /\ h \in kind
<1>1. CASE g \in ClaimGVRs
  BY <1>1, KindOfGVR, KindsAssumption, StoreOfKind, StoreOfKindNext
     DEF Publish, ReplaceClaims, AllGVRs
<1>2. CASE g \in XRGVRs
  BY <1>2, KindOfGVR, KindsAssumption, StoreOfKind, StoreOfKindNext
     DEF Publish, ReplaceXRs, AllGVRs
<1>3. CASE g \in MRGVRs
  BY <1>3, KindOfGVR, KindsAssumption, StoreOfKind, StoreOfKindNext
     DEF Publish, ReplaceMRs, AllGVRs
<1> QED
  BY <1>1, <1>2, <1>3 DEF AllGVRs

LEMMA PublishShows ==
    ASSUME NoSharedKeys, ListInv, NEW g \in AllGVRs, Publish(g)
    PROVE  Shown' = [Shown EXCEPT ![g] = BareMap(items[g])]
<1>1. OwnKeys(items[g], g) /\ AllOwnKeys(StoreOf(g))
  BY StoreOfKind DEF ListInv, StoreOwnKeys, AllGVRs
<1>2. ASSUME NEW h \in AllGVRs, h # g PROVE Shown'[h] = Shown[h]
  <2>1. CASE StoreOf(h)' = StoreOf(h)
    BY <2>1 DEF Shown
  <2>2. CASE /\ StoreOf(h) = StoreOf(g)
             /\ StoreOf(h)' = Replace(StoreOf(g), g, items[g])
             /\ KeysOf(g) \cap KeysOf(h) = {}
    <3>1. /\ EntriesOf(StoreOf(h)', h) = EntriesOf(StoreOf(h), h)
          /\ \A k \in EntriesOf(StoreOf(h), h) : StoreOf(h)'[k] = StoreOf(h)[k]
      BY <1>1, <1>2, <2>2, ReplaceKeepsOthers
    <3>2. Shown'[h] = [k \in EntriesOf(StoreOf(h)', h) |-> Bare(StoreOf(h)'[k])]
      BY DEF Shown, BareMap, Restrict
    <3> QED
      BY <3>1, <3>2, ShownIsStored
  <2> QED
    BY <1>2, <2>1, <2>2, PublishReplaces DEF NoSharedKeys
<1>3. Shown'[g] = BareMap(items[g])
  <2>1. StoreOf(g)' = Replace(StoreOf(g), g, items[g])
    BY PublishReplaces
  <2>2. /\ EntriesOf(StoreOf(g)', g) = DOMAIN items[g]
        /\ \A k \in DOMAIN items[g] : StoreOf(g)'[k] = items[g][k]
    BY <1>1, <2>1, ReplaceEntries DEF OwnKeys
  <2>3. Shown'[g] = [k \in EntriesOf(StoreOf(g)', g) |-> Bare(StoreOf(g)'[k])]
    BY DEF Shown, BareMap, Restrict
  <2> QED
    BY <2>2, <2>3 DEF BareMap
<1> QED
  BY <1>2, <1>3 DEF Shown

(***************************************************************************)
(* The enrichment changes nothing that is shown.                           *)
(***************************************************************************)
LEMMA BareClaim ==
    ASSUME NEW o \in ClaimInfo, NEW p, SameClaim(p, o) PROVE Bare(p) = Bare(o)
<1>1. p = [o EXCEPT !.composition = p.composition]
  BY DEF SameClaim
<1>2. p.gvr = o.gvr /\ o.gvr \in ClaimGVRs
  BY <1>1 DEF ClaimInfo
<1>3. [p EXCEPT !.composition = NoComposition] = [o EXCEPT !.composition = NoComposition]
  BY <1>1 DEF ClaimInfo
<1> QED
  BY <1>2, <1>3 DEF Bare

LEMMA BareLinked ==
    ASSUME NEW o \in XRInfo \cup MRInfo, NEW p, SameLinked(p, o) PROVE Bare(p) = Bare(o)
<1>1. p = [o EXCEPT !.claimName = p.claimName, !.claimNS = p.claimNS]
  BY DEF SameLinked
<1>2. p.gvr = o.gvr /\ o.gvr \notin ClaimGVRs
  BY <1>1, KindsAssumption DEF XRInfo, MRInfo
<1>3. [p EXCEPT !.claimName = NoName, !.claimNS = NoNS]
        = [o EXCEPT !.claimName = NoName, !.claimNS = NoNS]
  BY <1>1 DEF XRInfo, MRInfo
<1> QED
  BY <1>2, <1>3 DEF Bare

LEMMA SameShown ==
    ASSUME \A g \in AllGVRs :
              /\ DOMAIN StoreOf(g)' = DOMAIN StoreOf(g)
              /\ \A k \in DOMAIN StoreOf(g) : /\ StoreOf(g)'[k].gvr = StoreOf(g)[k].gvr
                                              /\ Bare(StoreOf(g)'[k]) = Bare(StoreOf(g)[k])
    PROVE  Shown' = Shown
<1>1. ASSUME NEW g \in AllGVRs PROVE Shown'[g] = Shown[g]
  <2>1. EntriesOf(StoreOf(g)', g) = EntriesOf(StoreOf(g), g)
    BY DEF EntriesOf
  <2>2. Shown'[g] = [k \in EntriesOf(StoreOf(g)', g) |-> Bare(StoreOf(g)'[k])]
    BY DEF Shown, BareMap, Restrict
  <2>3. \A k \in EntriesOf(StoreOf(g), g) : Bare(StoreOf(g)'[k]) = Bare(StoreOf(g)[k])
    BY DEF EntriesOf
  <2> QED
    BY <2>1, <2>2, <2>3, ShownIsStored
<1> QED
  BY <1>1 DEF Shown

LEMMA EnrichShowsNothing ==
    ASSUME StoreTypeOK, EnrichClaimCompositions \/ EnrichXRClaims \/ EnrichMRClaims
    PROVE  Shown' = Shown
<1>1. CASE EnrichClaimCompositions
  <2>1. ASSUME NEW k \in DOMAIN claims
        PROVE  claims'[k].gvr = claims[k].gvr /\ Bare(claims'[k]) = Bare(claims[k])
    <3>1. claims[k] \in ClaimInfo
      BY DEF StoreTypeOK, IsMap
    <3>2. SameClaim(claims[k], claims[k])
      BY <3>1 DEF SameClaim, ClaimInfo
    <3>3. SameClaim(claims'[k], claims[k]) /\ claims'[k].gvr = claims[k].gvr
      BY <1>1, <3>1, <3>2, EnrichKeepsClaims
    <3> QED
      BY <3>1, <3>3, BareClaim
  <2>2. DOMAIN claims' = DOMAIN claims /\ xrs' = xrs /\ mrs' = mrs
    BY <1>1 DEF EnrichClaimCompositions
  <2> QED
    BY <2>1, <2>2, SameShown, StoreOfKind, StoreOfKindNext DEF AllGVRs
<1>2. CASE EnrichXRClaims
  <2>1. ASSUME NEW k \in DOMAIN xrs
        PROVE  xrs'[k].gvr = xrs[k].gvr /\ Bare(xrs'[k]) = Bare(xrs[k])
    <3>1. xrs[k] \in XRInfo
      BY DEF StoreTypeOK, IsMap
    <3>2. SameLinked(xrs[k], xrs[k])
      BY <3>1 DEF SameLinked, XRInfo
    <3>3. SameLinked(xrs'[k], xrs[k]) /\ xrs'[k].gvr = xrs[k].gvr
      BY <1>2, <3>1, <3>2, EnrichKeepsXRs
    <3> QED
      BY <3>1, <3>3, BareLinked
  <2>2. DOMAIN xrs' = DOMAIN xrs /\ claims' = claims /\ mrs' = mrs
    BY <1>2, EnrichKeepsXRs DEF EnrichXRClaims
  <2> QED
    BY <2>1, <2>2, SameShown, StoreOfKind, StoreOfKindNext DEF AllGVRs
<1>3. CASE EnrichMRClaims
  <2>1. ASSUME NEW k \in DOMAIN mrs
        PROVE  mrs'[k].gvr = mrs[k].gvr /\ Bare(mrs'[k]) = Bare(mrs[k])
    <3>1. mrs[k] \in MRInfo
      BY DEF StoreTypeOK, IsMap
    <3>2. SameLinked(mrs[k], mrs[k])
      BY <3>1 DEF SameLinked, MRInfo
    <3>3. SameLinked(mrs'[k], mrs[k]) /\ mrs'[k].gvr = mrs[k].gvr
      BY <1>3, <3>1, <3>2, EnrichKeepsMRs
    <3> QED
      BY <3>1, <3>3, BareLinked
  <2>2. DOMAIN mrs' = DOMAIN mrs /\ claims' = claims /\ xrs' = xrs
    BY <1>3 DEF EnrichMRClaims
  <2> QED
    BY <2>1, <2>2, SameShown, StoreOfKind, StoreOfKindNext DEF AllGVRs
<1> QED
  BY <1>1, <1>2, <1>3

-----------------------------------------------------------------------------
LEMMA MirrorInitially == PollerInit => Mirror!MirrorInit
<1> SUFFICES ASSUME PollerInit PROVE Mirror!MirrorInit
  OBVIOUS
<1>1. \A g \in AllGVRs : Listed(g, NoNS) \in Lists[g]
  BY PollerTypeInit, ListedWhole
<1>2. \A g \in AllGVRs : There[g] \in {BareMap(m) : m \in Lists[g]}
  BY <1>1 DEF There
<1>3. There \in [AllGVRs -> UNION {{BareMap(m) : m \in Lists[g]} : g \in AllGVRs}]
  BY <1>2 DEF There
<1>4. Fetched = [g \in AllGVRs |-> NoList]
  BY DEF Fetched, FetchedBy, PollerInit, NoPolls
<1>5. Shown = [g \in AllGVRs |-> EmptyMap]
  <2>1. \A g \in AllGVRs : StoreOf(g) = EmptyMap
    BY StoreOfKind DEF PollerInit, StoreInit, AllGVRs
  <2>2. \A g \in AllGVRs : EntriesOf(EmptyMap, g) = {}
    BY DEF EntriesOf, EmptyMap
  <2>3. \A g \in AllGVRs : Shown[g] = EmptyMap
    BY <2>1, <2>2, ShownIsStored DEF EmptyMap
  <2> QED
    BY <2>3 DEF Shown
<1> QED
  BY <1>2, <1>3, <1>4, <1>5 DEF Mirror!MirrorInit, There, Fetched, Shown

(***************************************************************************)
(* Each step of the poller is a change of the cluster, a fetch, a          *)
(* publication, or nothing that the mirror sees.                           *)
(***************************************************************************)
MirrorInv == PollerTypeOK /\ EnrichedInv /\ ListInv /\ JobInv

LEMMA StepOfMirror ==
    ASSUME NoSharedKeys, Scope = <<>>, MirrorInv, [PollerNext]_pollerVars
    PROVE  [Mirror!MirrorNext]_(Mirror!mirrorVars)
<1> USE DEF MirrorInv
<1>1. cluster' = cluster => There' = There
  BY DEF There, Listed
<1>2. UNCHANGED jobVars => Fetched' = Fetched
  BY DEF jobVars, Fetched, FetchedBy
<1>3. UNCHANGED storeVars => Shown' = Shown
  BY DEF storeVars, Shown, StoreOf
<1>4. ASSUME NEW g \in AllGVRs, ClusterChange(g) PROVE Mirror!Change(g)
  <2>1. Fetched' = Fetched /\ Shown' = Shown
    BY <1>2, <1>3, <1>4 DEF ClusterChange
  <2>2. There' = [There EXCEPT ![g] = There'[g]]
    <3>1. \A h \in AllGVRs \ {g} : cluster'[h] = cluster[h]
      BY <1>4 DEF ClusterChange, PollerTypeOK
    <3>2. \A h \in AllGVRs \ {g} : There'[h] = There[h]
      BY <3>1 DEF There, Listed
    <3> QED
      BY <3>2 DEF There
  <2>3. There'[g] \in {BareMap(m) : m \in Lists[g]}
    <3>1. PollerTypeOK'
      BY PollerTypeStep
    <3>2. cluster'[g] \in Lists[g]
      BY <3>1 DEF PollerTypeOK
    <3>3. Listed(g, NoNS)' \in Lists[g]
      BY <3>2, ListedIsList DEF Listed
    <3> QED
      BY <3>3 DEF There
  <2> QED
    BY <2>1, <2>2, <2>3 DEF Mirror!Change, There, Fetched, Shown
<1>5. CASE StartCycle
  <2>1. \A g \in AllGVRs : ~FetchedBy(g)
    BY <1>5 DEF StartCycle, EnrichedInv, RunningPolls, FetchedBy
  <2>2. \A g \in AllGVRs : ~FetchedBy(g)'
    BY <1>5 DEF StartCycle, NoPolls, FetchedBy
  <2>3. Fetched' = Fetched
    BY <2>1, <2>2 DEF Fetched
  <2> QED
    BY <1>1, <1>3, <1>5, <2>3, MirrorStutters DEF StartCycle
<1>6. ASSUME NEW g \in AllGVRs, StartPoll(g) PROVE UNCHANGED Mirror!mirrorVars
  <2>1. at[g] = 1 /\ status[g] = "waiting"
    BY <1>6 DEF StartPoll, JobInv
  <2>2. ~FetchedBy(g) /\ ~FetchedBy(g)'
    BY <1>6, <2>1, AtTheTarget DEF StartPoll, FetchedBy
  <2>3. \A h \in AllGVRs \ {g} : FetchedBy(h)' = FetchedBy(h)
    BY <1>6 DEF StartPoll, FetchedBy, PollerTypeOK
  <2>4. Fetched' = Fetched
    BY <1>6, <2>2, <2>3 DEF Fetched, StartPoll
  <2> QED
    BY <1>1, <1>3, <1>6, <2>4, MirrorStutters DEF StartPoll
<1>7. ASSUME NEW g \in AllGVRs, ListSucceeds(g) PROVE Mirror!Fetch(g)
  <2>1. at[g] = 1 /\ Targets[1] = NoNS /\ status[g] = "running"
    BY <1>7, AtTheTarget, OneTarget DEF ListSucceeds, Listing
  <2>2. items[g] = EmptyMap /\ ~errs[g]
    BY <2>1 DEF JobInv
  <2>3. items' = [items EXCEPT ![g] = Listed(g, NoNS)]
    BY <1>7, <2>1, <2>2, ListedWhole DEF ListSucceeds
  <2>4. at' = [at EXCEPT ![g] = 2] /\ UNCHANGED <<status, errs>>
    BY <1>7, <2>1 DEF ListSucceeds
  <2>5. ~FetchedBy(g) /\ FetchedBy(g)'
    <3>1. at'[g] = 2 /\ status'[g] = "running" /\ ~errs'[g]
      BY <2>1, <2>2, <2>4 DEF PollerTypeOK
    <3>2. at'[g] > Len(Targets)
      <4>1. Len(Targets) = 1
        BY OneTarget
      <4>2. \A n : n = 1 => 2 > n
        OBVIOUS
      <4> QED
        BY <3>1, <4>1, <4>2
    <3>3. ~FetchedBy(g)
      BY <2>1, AtTheTarget DEF FetchedBy
    <3> QED
      BY <3>1, <3>2, <3>3 DEF FetchedBy
  <2>6. \A h \in AllGVRs \ {g} : (FetchedBy(h)' <=> FetchedBy(h)) /\ items'[h] = items[h]
    BY <2>3, <2>4 DEF FetchedBy, PollerTypeOK
  <2>7. items'[g] = Listed(g, NoNS)
    BY <2>3 DEF PollerTypeOK
  <2>8. Fetched[g] = NoList /\ Fetched' = [Fetched EXCEPT ![g] = There[g]]
    BY <2>5, <2>6, <2>7 DEF Fetched, There
  <2>9. There' = There /\ Shown' = Shown
    BY <1>1, <1>3, <1>7 DEF ListSucceeds
  <2> QED
    BY <2>8, <2>9 DEF Mirror!Fetch, There, Fetched, Shown
<1>8. ASSUME NEW g \in AllGVRs, ListFails(g) PROVE UNCHANGED Mirror!mirrorVars
  <2>1. at[g] = 1
    BY <1>8, AtTheTarget DEF ListFails, Listing
  <2>2. ~FetchedBy(g) /\ ~FetchedBy(g)'
    <3>1. errs'[g]
      BY <1>8 DEF ListFails, PollerTypeOK
    <3> QED
      BY <2>1, <3>1, AtTheTarget DEF FetchedBy
  <2>3. \A h \in AllGVRs \ {g} : FetchedBy(h)' <=> FetchedBy(h)
    BY <1>8 DEF ListFails, FetchedBy, PollerTypeOK
  <2>4. Fetched' = Fetched
    BY <1>8, <2>2, <2>3 DEF Fetched, ListFails
  <2> QED
    BY <1>1, <1>3, <1>8, <2>4, MirrorStutters DEF ListFails
<1>9. ASSUME NEW g \in AllGVRs, FinishPoll(g)
      PROVE  Mirror!Show(g) \/ UNCHANGED Mirror!mirrorVars
  <2>1. /\ status[g] = "running" /\ at[g] > Len(Targets)
        /\ status' = [status EXCEPT ![g] = "done"]
        /\ UNCHANGED <<cluster, at, items, errs>>
    BY <1>9 DEF FinishPoll
  <2>2. ~FetchedBy(g)' /\ (FetchedBy(g) <=> ~errs[g])
    BY <2>1 DEF FetchedBy, PollerTypeOK
  <2>3. \A h \in AllGVRs \ {g} : FetchedBy(h)' <=> FetchedBy(h)
    BY <2>1 DEF FetchedBy, PollerTypeOK
  <2>4. CASE errs[g]
    <3>1. Shown' = Shown
      BY <1>3, <1>9, <2>4 DEF FinishPoll, KeepsStore
    <3>2. Fetched' = Fetched
      BY <2>1, <2>2, <2>3, <2>4 DEF Fetched
    <3> QED
      BY <1>1, <2>1, <3>1, <3>2, MirrorStutters
  <2>5. CASE ~errs[g]
    <3>1. Publish(g)
      BY <1>9, <2>5 DEF FinishPoll, KeepsStore
    <3>2. Fetched[g] = BareMap(items[g])
      BY <2>2, <2>5 DEF Fetched
    <3>3. Fetched[g] # NoList
      <4>1. at[g] # 1
        BY <2>1, AtTheTarget
      <4> QED
        BY <2>5, <3>2, <4>1, NoListAssumption DEF JobInv
    <3>4. Fetched' = [Fetched EXCEPT ![g] = NoList]
      BY <2>1, <2>2, <2>3 DEF Fetched
    <3>5. Shown' = [Shown EXCEPT ![g] = Fetched[g]]
      BY <3>1, <3>2, PublishShows
    <3>6. There' = There
      BY <1>1, <2>1
    <3> QED
      BY <3>3, <3>4, <3>5, <3>6 DEF Mirror!Show, There, Fetched, Shown
  <2> QED
    BY <2>4, <2>5
<1>10. CASE EnrichClaims \/ EnrichXRs \/ EnrichMRs
  <2>1. /\ UNCHANGED <<cluster, jobVars>>
        /\ EnrichClaimCompositions \/ EnrichXRClaims \/ EnrichMRClaims
    BY <1>10 DEF EnrichClaims, EnrichXRs, EnrichMRs
  <2> QED
    BY <1>1, <1>2, <2>1, EnrichShowsNothing, MirrorStutters DEF PollerTypeOK
<1>11. CASE Cancel \/ Stop \/ SkipPersist \/ PersistSucceeds \/ PersistFails \/ Report
            \/ UNCHANGED pollerVars
  <2>1. UNCHANGED <<cluster, jobVars, storeVars>>
    BY <1>11 DEF Cancel, Stop, SkipPersist, PersistSucceeds, PersistFails, Report, pollerVars,
                 jobVars, storeVars
  <2> QED
    BY <1>1, <1>2, <1>3, <2>1, MirrorStutters
<1> QED
  BY <1>4, <1>5, <1>6, <1>7, <1>8, <1>9, <1>10, <1>11
     DEF PollerNext, PollerStep, Mirror!MirrorNext

(***************************************************************************)
(* For any kinds, clusters and pool sizes, a poller of the whole cluster   *)
(* shows of each GVR one past state of it after the other: a failed list,  *)
(* a list of another GVR at the same time, or the enrichment, never        *)
(* changes which objects it shows.                                         *)
(***************************************************************************)
THEOREM PollerFollowsMirror ==
    ASSUME NoSharedKeys, Scope = <<>> PROVE PollerSpec => FollowsMirror
<1>1. PollerInit => MirrorInv
  BY PollerTypeInit, EnrichedInit, ListInit, JobInit DEF MirrorInv
<1>2. MirrorInv /\ [PollerNext]_pollerVars => MirrorInv'
  BY PollerTypeStep, EnrichedStep, ListStep, JobStep DEF MirrorInv
<1>3. MirrorInv /\ [PollerNext]_pollerVars => [Mirror!MirrorNext]_(Mirror!mirrorVars)
  BY StepOfMirror
<1> QED
  BY <1>1, <1>2, <1>3, MirrorInitially, PTL DEF PollerSpec, FollowsMirror
===============================================================================
