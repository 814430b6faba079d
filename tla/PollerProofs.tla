----------------------------- MODULE PollerProofs -----------------------------
(***************************************************************************)
(* Type correctness of the poller, and that the store is enriched between  *)
(* cycles and in every snapshot, for any cluster, any configuration and    *)
(* any failures.                                                           *)
(***************************************************************************)
EXTENDS Poller, MemoryStoreProofs, FiniteSetTheorems

LEMMA TargetsType == Len(Targets) \in Nat \ {0}
<1>1. CASE Scope = <<>>
  BY <1>1 DEF Targets
<1>2. CASE Scope # <<>>
  <2>1. Scope \in Seq(Namespaces)
    BY ScopeAssumption
  <2>2. Len(Scope) \in Nat /\ Len(Scope) # 0
    BY <1>2, <2>1
  <2>3. QED  BY <1>2, <2>2 DEF Targets
<1>3. QED  BY <1>1, <1>2

(***************************************************************************)
(* The kind of a GVR is that of the maps of its objects.                   *)
(***************************************************************************)
LEMMA KindOfGVR ==
    /\ \A g \in ClaimGVRs : g \in AllGVRs /\ KindInfo(g) = ClaimInfo
    /\ \A g \in XRGVRs : g \in AllGVRs /\ g \notin ClaimGVRs /\ KindInfo(g) = XRInfo
    /\ \A g \in MRGVRs : g \in AllGVRs /\ g \notin ClaimGVRs /\ g \notin XRGVRs
                         /\ KindInfo(g) = MRInfo
  BY KindsAssumption DEF KindInfo, AllGVRs

LEMMA ListedIsMap ==
    ASSUME NEW g \in AllGVRs, cluster[g] \in Lists[g], NEW ns
    PROVE  IsMap(Listed(g, ns), KindInfo(g))
<1>1. IsMap(cluster[g], KindInfo(g))
  BY ListsAreMaps, KindOfGVR DEF AllGVRs
<1>2. QED  BY <1>1, RestrictIsMap DEF Listed

LEMMA EmptyMapIsListed == \A g \in AllGVRs : EmptyMap \in Lists[g]
<1> SUFFICES ASSUME NEW g \in AllGVRs PROVE EmptyMap \in Lists[g]
  OBVIOUS
<1> DEFINE maps(D) == {m \in [D -> Objects[g]] : \A k \in D : KeyOf(m[k]) = k}
<1>1. EmptyMap \in maps({})
  BY DEF EmptyMap
<1>2. {} \in SUBSET {KeyOf(o) : o \in Objects[g]}
  OBVIOUS
<1>3. Lists[g] = UNION {maps(D) : D \in SUBSET {KeyOf(o) : o \in Objects[g]}}
  BY DEF Lists
<1> HIDE DEF maps
<1>4. QED  BY <1>1, <1>2, <1>3

(***************************************************************************)
(* What the end of a poll does to the types of the store.                  *)
(***************************************************************************)
LEMMA PublishType ==
    ASSUME StoreTypeOK, NEW g \in AllGVRs, IsMap(items[g], KindInfo(g)), Publish(g)
    PROVE  StoreTypeOK'
<1>1. CASE g \in ClaimGVRs
  <2>1. ReplaceClaims(g, items[g])
    BY <1>1, KindOfGVR DEF Publish
  <2>2. QED  BY <1>1, <2>1, KindOfGVR, ReplaceIsMap DEF ReplaceClaims, StoreTypeOK
<1>2. CASE g \in XRGVRs
  <2>1. ReplaceXRs(g, items[g])
    BY <1>2, KindOfGVR DEF Publish
  <2>2. QED  BY <1>2, <2>1, KindOfGVR, ReplaceIsMap DEF ReplaceXRs, StoreTypeOK
<1>3. CASE g \in MRGVRs
  <2>1. ReplaceMRs(g, items[g])
    BY <1>3, KindOfGVR DEF Publish
  <2>2. QED  BY <1>3, <2>1, KindOfGVR, ReplaceIsMap DEF ReplaceMRs, StoreTypeOK
<1>4. QED  BY <1>1, <1>2, <1>3 DEF AllGVRs

LEMMA StoreContentsType ==
    ASSUME StoreTypeOK PROVE IsStore(StoreContents)
  BY DEF StoreTypeOK, IsStore, StoreContents

(***************************************************************************)
(* Keys are finite in number, so the counts of a report are numbers.       *)
(***************************************************************************)
LEMMA CountsAreNumbers ==
    ASSUME NEW V, NEW m, IsMap(m, V) PROVE Cardinality(DOMAIN m) \in Nat
<1>1. IsFiniteSet(AnyNS)
  BY NamesAssumption, FS_AddElement DEF AnyNS
<1>2. IsFiniteSet(Key)
  BY <1>1, NamesAssumption, FS_Product DEF Key
<1>3. IsFiniteSet(DOMAIN m)
  BY <1>2, FS_Subset DEF IsMap
<1>4. QED  BY <1>3, FS_CardinalityType

-----------------------------------------------------------------------------
LEMMA PollerTypeInit == PollerInit => PollerTypeOK
<1> SUFFICES ASSUME PollerInit PROVE PollerTypeOK
  OBVIOUS
<1>1. StoreTypeOK
  BY EmptyMapIsMap DEF PollerInit, StoreInit, StoreTypeOK
<1>2. cfg \in Config
  BY ConfigsAssumption DEF PollerInit
<1>3. DOMAIN cluster = AllGVRs /\ \A g \in AllGVRs : cluster[g] \in Lists[g]
  BY EmptyMapIsListed DEF PollerInit
<1>4. /\ status \in [AllGVRs -> {"waiting", "running", "done"}]
      /\ at \in [AllGVRs -> 1..(Len(Targets) + 1)]
      /\ DOMAIN items = AllGVRs
      /\ \A g \in AllGVRs : IsMap(items[g], KindInfo(g))
      /\ errs \in [AllGVRs -> BOOLEAN]
  BY TargetsType, EmptyMapIsMap DEF PollerInit, NoPolls
<1>5. QED  BY <1>1, <1>2, <1>3, <1>4 DEF PollerInit, PollerTypeOK

LEMMA PollerTypeStep == PollerTypeOK /\ [PollerNext]_pollerVars => PollerTypeOK'
<1> SUFFICES ASSUME PollerTypeOK, [PollerNext]_pollerVars PROVE PollerTypeOK'
  OBVIOUS
<1>1. ASSUME NEW g \in AllGVRs, ClusterChange(g) PROVE PollerTypeOK'
  <2>1. PICK objects \in Lists[g] : cluster' = [cluster EXCEPT ![g] = objects]
    BY <1>1 DEF ClusterChange
  <2>2. DOMAIN cluster' = AllGVRs /\ \A h \in AllGVRs : cluster'[h] \in Lists[h]
    BY <2>1 DEF PollerTypeOK
  <2>3. QED
    BY <1>1, <2>2 DEF ClusterChange, PollerTypeOK, storeVars, StoreTypeOK, jobVars
<1>2. CASE StartCycle
  <2>1. /\ status' \in [AllGVRs -> {"waiting", "running", "done"}]
        /\ at' \in [AllGVRs -> 1..(Len(Targets) + 1)]
        /\ DOMAIN items' = AllGVRs
        /\ \A g \in AllGVRs : IsMap(items'[g], KindInfo(g))
        /\ errs' \in [AllGVRs -> BOOLEAN]
    BY <1>2, TargetsType, EmptyMapIsMap DEF StartCycle, NoPolls
  <2>2. QED  BY <1>2, <2>1 DEF StartCycle, PollerTypeOK, storeVars, StoreTypeOK
<1>3. CASE Stop
  BY <1>3 DEF Stop, PollerTypeOK, storeVars, StoreTypeOK, jobVars
<1>4. CASE Cancel
  BY <1>4 DEF Cancel, PollerTypeOK, storeVars, StoreTypeOK, jobVars
<1>5. ASSUME NEW g \in AllGVRs, StartPoll(g) PROVE PollerTypeOK'
  BY <1>5 DEF StartPoll, PollerTypeOK, storeVars, StoreTypeOK
<1>6. ASSUME NEW g \in AllGVRs, ListSucceeds(g) PROVE PollerTypeOK'
  <2>1. at' \in [AllGVRs -> 1..(Len(Targets) + 1)]
    BY <1>6, TargetsType DEF ListSucceeds, Listing, PollerTypeOK
  <2>2. IsMap(Listed(g, Targets[at[g]]), KindInfo(g))
    BY ListedIsMap DEF PollerTypeOK
  <2>3. DOMAIN items' = AllGVRs /\ \A h \in AllGVRs : IsMap(items'[h], KindInfo(h))
    BY <1>6, <2>2, OverwriteIsMap DEF ListSucceeds, PollerTypeOK
  <2>4. QED  BY <1>6, <2>1, <2>3 DEF ListSucceeds, PollerTypeOK, storeVars, StoreTypeOK
<1>7. ASSUME NEW g \in AllGVRs, ListFails(g) PROVE PollerTypeOK'
  <2>1. at' \in [AllGVRs -> 1..(Len(Targets) + 1)]
    BY <1>7, TargetsType DEF ListFails, Listing, PollerTypeOK
  <2>2. QED  BY <1>7, <2>1 DEF ListFails, PollerTypeOK, storeVars, StoreTypeOK
<1>8. ASSUME NEW g \in AllGVRs, FinishPoll(g) PROVE PollerTypeOK'
  <2>1. StoreTypeOK'
    <3>1. CASE KeepsStore(g)
      BY <1>8, <3>1 DEF FinishPoll, PollerTypeOK, storeVars, StoreTypeOK
    <3>2. CASE ~KeepsStore(g)
      BY <1>8, <3>2, PublishType DEF FinishPoll, PollerTypeOK
    <3>3. QED  BY <3>1, <3>2
  <2>2. QED  BY <1>8, <2>1 DEF FinishPoll, PollerTypeOK
<1>9. CASE EnrichClaims
  <2>1. StoreTypeOK'
    BY <1>9, EnrichClaimsType DEF EnrichClaims, PollerTypeOK
  <2>2. QED  BY <1>9, <2>1 DEF EnrichClaims, PollerTypeOK, jobVars
<1>10. CASE EnrichXRs
  <2>1. StoreTypeOK'
    BY <1>10, EnrichXRsType DEF EnrichXRs, PollerTypeOK
  <2>2. QED  BY <1>10, <2>1 DEF EnrichXRs, PollerTypeOK, jobVars
<1>11. CASE EnrichMRs
  <2>1. StoreTypeOK'
    BY <1>11, EnrichMRsType DEF EnrichMRs, PollerTypeOK
  <2>2. QED  BY <1>11, <2>1 DEF EnrichMRs, PollerTypeOK, jobVars
<1>12. CASE SkipPersist
  BY <1>12 DEF SkipPersist, PollerTypeOK, storeVars, StoreTypeOK, jobVars
<1>13. CASE PersistSucceeds \/ PersistFails
  <2>1. s3' = s3 \/ s3' = StoreContents
    BY <1>13 DEF PersistSucceeds, PersistFails
  <2>2. s3' # NoSnapshot => IsStore(s3')
    BY <2>1, StoreContentsType DEF PollerTypeOK
  <2>3. /\ UNCHANGED <<storeVars, cluster, cfg, jobVars, gauges, ctxDone>>
        /\ phase' = "report"
    BY <1>13 DEF PersistSucceeds, PersistFails
  <2>4. QED  BY <2>2, <2>3 DEF PollerTypeOK, storeVars, StoreTypeOK, jobVars
<1>14. CASE Report
  <2>1. gauges' \in [claims : Nat, xrs : Nat, mrs : Nat]
    BY <1>14, CountsAreNumbers DEF Report, PollerTypeOK, StoreTypeOK
  <2>2. QED  BY <1>14, <2>1 DEF Report, PollerTypeOK, storeVars, StoreTypeOK, jobVars
<1>15. CASE UNCHANGED pollerVars
  BY <1>15 DEF pollerVars, PollerTypeOK, StoreTypeOK
<1>16. QED
  BY <1>1, <1>2, <1>3, <1>4, <1>5, <1>6, <1>7, <1>8, <1>9, <1>10, <1>11, <1>12, <1>13,
     <1>14, <1>15 DEF PollerNext, PollerStep

(***************************************************************************)
(* The poller keeps its types, for any constants.                          *)
(***************************************************************************)
THEOREM PollerTypeCorrect == PollerSpec => []PollerTypeOK
  BY PollerTypeInit, PollerTypeStep, PTL DEF PollerSpec

-----------------------------------------------------------------------------
(***************************************************************************)
(* What each enrichment establishes, and what the later ones keep.         *)
(***************************************************************************)
LEMMA AfterEnrichClaims ==
    ASSUME StoreTypeOK, EnrichClaimCompositions
    PROVE  ClaimsEnriched(StoreContents)'
<1>1. DOMAIN claims' = DOMAIN claims /\ xrs' = xrs
  BY DEF EnrichClaimCompositions
<1>2. ASSUME NEW k \in DOMAIN claims, RefersTo(claims'[k], xrs)
      PROVE  claims'[k].composition = xrs[ObjectKey(NoNS, claims'[k].xrRef)].composition
  <2>1. claims[k] \in ClaimInfo
    BY DEF StoreTypeOK, IsMap
  <2>2. CASE RefersTo(claims[k], xrs)
    <3> DEFINE c == xrs[ObjectKey(NoNS, claims[k].xrRef)].composition
    <3>1. claims'[k] = [claims[k] EXCEPT !.composition = c]
      BY <2>2 DEF EnrichClaimCompositions
    <3> HIDE DEF c
    <3>2. claims'[k].composition = c /\ claims'[k].xrRef = claims[k].xrRef
      BY <2>1, <3>1 DEF ClaimInfo
    <3>3. QED  BY <3>2 DEF c
  <2>3. CASE ~RefersTo(claims[k], xrs)
    <3>1. claims'[k] = claims[k]
      BY <2>3 DEF EnrichClaimCompositions
    <3>2. QED  BY <1>2, <2>3, <3>1
  <2>4. QED  BY <2>2, <2>3
<1>3. QED  BY <1>1, <1>2 DEF ClaimsEnriched, StoreContents

LEMMA AfterEnrichXRs ==
    ASSUME StoreTypeOK, EnrichXRClaims
    PROVE  /\ XRsEnriched(StoreContents)'
           /\ ClaimsEnriched(StoreContents) => ClaimsEnriched(StoreContents)'
<1>1. /\ DOMAIN xrs' = DOMAIN xrs
      /\ claims' = claims
  BY EnrichXRsEffect
<1>2. ASSUME NEW k \in DOMAIN xrs
      PROVE  /\ xrs'[k].composition = xrs[k].composition
             /\ xrs'[k].name = xrs[k].name
             /\ xrs'[k].claimName = NoName => Referrers(xrs[k]) = {}
  <2>1. xrs[k] \in XRInfo
    BY DEF StoreTypeOK, IsMap
  <2>2. CASE k \in Linkable
    <3>1. PICK c \in Referrers(xrs[k]) :
            xrs'[k] = [xrs[k] EXCEPT !.claimName = claims[c].name, !.claimNS = claims[c].ns]
      BY <2>2, EnrichXRsEffect
    <3>2. claims[c].name # NoName
      BY <3>1, NamesAssumption DEF Referrers, StoreTypeOK, IsMap, ClaimInfo
    <3>3. QED  BY <2>1, <3>1, <3>2 DEF XRInfo
  <2>3. CASE k \notin Linkable
    <3>1. xrs'[k] = xrs[k]
      BY <2>3, EnrichXRsEffect
    <3>2. QED  BY <2>3, <3>1 DEF Linkable
  <2>4. QED  BY <2>2, <2>3
<1>3. XRsEnriched(StoreContents)'
  BY <1>1, <1>2 DEF XRsEnriched, StoreContents, Referrers
<1>4. ClaimsEnriched(StoreContents) => ClaimsEnriched(StoreContents)'
  BY <1>1, <1>2 DEF ClaimsEnriched, StoreContents, RefersTo
<1>5. QED  BY <1>3, <1>4

LEMMA AfterEnrichMRs ==
    ASSUME StoreTypeOK, EnrichMRClaims
    PROVE  /\ MRsEnriched(StoreContents)'
           /\ ClaimsEnriched(StoreContents) => ClaimsEnriched(StoreContents)'
           /\ XRsEnriched(StoreContents) => XRsEnriched(StoreContents)'
<1>1. DOMAIN mrs' = DOMAIN mrs /\ claims' = claims /\ xrs' = xrs
  BY DEF EnrichMRClaims
<1>2. ASSUME NEW k \in DOMAIN mrs, mrs'[k].claimName = NoName, BackedBy(mrs'[k], xrs)
      PROVE  xrs[ObjectKey(NoNS, mrs'[k].xrName)].claimName = NoName
  <2>1. mrs[k] \in MRInfo
    BY DEF StoreTypeOK, IsMap
  <2>2. CASE mrs[k].claimName = NoName /\ BackedBy(mrs[k], xrs)
    <3> DEFINE xr == xrs[ObjectKey(NoNS, mrs[k].xrName)]
    <3>1. mrs'[k] = [mrs[k] EXCEPT !.claimName = xr.claimName, !.claimNS = xr.claimNS]
      BY <2>2 DEF EnrichMRClaims
    <3> HIDE DEF xr
    <3>2. mrs'[k].claimName = xr.claimName /\ mrs'[k].xrName = mrs[k].xrName
      BY <2>1, <3>1 DEF MRInfo
    <3>3. QED  BY <1>2, <3>2 DEF xr
  <2>3. CASE ~(mrs[k].claimName = NoName /\ BackedBy(mrs[k], xrs))
    <3>1. mrs'[k] = mrs[k]
      BY <2>3 DEF EnrichMRClaims
    <3>2. QED  BY <1>2, <2>3, <3>1
  <2>4. QED  BY <2>2, <2>3
<1>3. MRsEnriched(StoreContents)'
  BY <1>1, <1>2 DEF MRsEnriched, StoreContents
<1>4. QED  BY <1>1, <1>3 DEF ClaimsEnriched, XRsEnriched, StoreContents

(***************************************************************************)
(* The inductive invariant: how much is enriched in which phase.  A poll   *)
(* rewrites the store, so it must be known not to run outside "listing",   *)
(* and for that, to be one of those the end of "listing" waits for.        *)
(***************************************************************************)
RunningPolls == \A g \in AllGVRs : status[g] = "running" => phase = "listing" /\ g \in Polled

EnrichedInv ==
    /\ RunningPolls
    /\ phase \in {"enrichXRs", "enrichMRs"} \/ AtRest => ClaimsEnriched(StoreContents)
    /\ phase = "enrichMRs" \/ AtRest => XRsEnriched(StoreContents)
    /\ AtRest => MRsEnriched(StoreContents)
    /\ s3 # NoSnapshot => Enriched(s3)

(***************************************************************************)
(* An element of a concatenation is one of its parts'.                     *)
(***************************************************************************)
LEMMA ConcatElement ==
    ASSUME NEW S, NEW s \in Seq(S), NEW T, NEW t \in Seq(T), NEW i \in DOMAIN (s \o t)
    PROVE  \/ i \in DOMAIN s /\ (s \o t)[i] = s[i]
           \/ i - Len(s) \in DOMAIN t /\ (s \o t)[i] = t[i - Len(s)]
<1>1. s \in Seq(S \cup T) /\ t \in Seq(S \cup T)
  OBVIOUS
<1>2. i \in 1..(Len(s) + Len(t)) /\ Len(s) \in Nat /\ Len(t) \in Nat
  BY <1>1
<1>3. CASE i <= Len(s)
  BY <1>1, <1>2, <1>3
<1>4. CASE i > Len(s)
  <2>1. i - Len(s) \in 1..Len(t)
    BY <1>2, <1>4
  <2>2. QED  BY <1>1, <1>2, <1>4, <2>1
<1>5. QED  BY <1>2, <1>3, <1>4

LEMMA StartedIsPolled ==
    ASSUME NEW g, cfg \in Config, MayStart(g)
    PROVE  g \in Polled
<1>1. CASE \E i \in DOMAIN Sequential : g = Sequential[i]
  <2>1. cfg.xrs \in Seq(XRGVRs) /\ cfg.claims \in Seq(ClaimGVRs)
    BY DEF Config
  <2>2. PICK i \in DOMAIN (cfg.xrs \o cfg.claims) : g = (cfg.xrs \o cfg.claims)[i]
    BY <1>1 DEF Sequential
  <2>3. \/ i \in DOMAIN cfg.xrs /\ g = cfg.xrs[i]
        \/ i - Len(cfg.xrs) \in DOMAIN cfg.claims /\ g = cfg.claims[i - Len(cfg.xrs)]
    BY <2>1, <2>2, ConcatElement
  <2>4. QED  BY <2>3 DEF Polled, Range
<1>2. CASE \E i \in DOMAIN cfg.mrs : g = cfg.mrs[i]
  BY <1>2 DEF Polled, Range
<1>3. QED  BY <1>1, <1>2 DEF MayStart

LEMMA EnrichedInit == PollerInit => EnrichedInv
  BY DEF PollerInit, NoPolls, EnrichedInv, RunningPolls, AtRest

LEMMA EnrichedStep ==
    PollerTypeOK /\ EnrichedInv /\ [PollerNext]_pollerVars => EnrichedInv'
<1> SUFFICES ASSUME PollerTypeOK, EnrichedInv, [PollerNext]_pollerVars
             PROVE  EnrichedInv'
  OBVIOUS
<1> USE DEF RunningPolls
<1>1. ASSUME UNCHANGED <<storeVars, cfg, phase, status, s3>> PROVE EnrichedInv'
  BY <1>1 DEF EnrichedInv, AtRest, storeVars, StoreContents, Polled,
              ClaimsEnriched, XRsEnriched, MRsEnriched
<1>2. ASSUME NEW g \in AllGVRs, ClusterChange(g) PROVE EnrichedInv'
  BY <1>1, <1>2 DEF ClusterChange, jobVars
<1>3. CASE StartCycle
  BY <1>3 DEF StartCycle, NoPolls, EnrichedInv, AtRest
<1>4. ASSUME storeVars' = storeVars, cfg' = cfg, status' = status, s3' = s3 \/ s3' = StoreContents,
             AtRest, AtRest'
      PROVE  EnrichedInv'
  <2>1. /\ ClaimsEnriched(StoreContents)
        /\ XRsEnriched(StoreContents)
        /\ MRsEnriched(StoreContents)
    BY <1>4 DEF EnrichedInv
  <2>2. StoreContents' = StoreContents
    BY <1>4 DEF storeVars, StoreContents
  <2>3. /\ ClaimsEnriched(StoreContents)'
        /\ XRsEnriched(StoreContents)'
        /\ MRsEnriched(StoreContents)'
    BY <2>1, <2>2 DEF ClaimsEnriched, XRsEnriched, MRsEnriched, RefersTo, BackedBy
  <2>4. s3' # NoSnapshot => Enriched(s3')
    BY <1>4, <2>1 DEF EnrichedInv, Enriched
  <2>5. RunningPolls'
    BY <1>4 DEF EnrichedInv, AtRest, Polled
  <2>6. QED  BY <2>3, <2>4, <2>5 DEF EnrichedInv
<1>5. CASE Stop
  BY <1>4, <1>5 DEF Stop, AtRest, jobVars
<1>6. CASE Cancel
  BY <1>1, <1>6 DEF Cancel, jobVars
<1>7. ASSUME NEW g \in AllGVRs, StartPoll(g) PROVE EnrichedInv'
  <2>1. g \in Polled
    BY <1>7, StartedIsPolled DEF StartPoll, PollerTypeOK
  <2>2. RunningPolls'
    BY <1>7, <2>1 DEF StartPoll, EnrichedInv, PollerTypeOK, Polled
  <2>3. QED  BY <1>7, <2>2 DEF StartPoll, EnrichedInv, AtRest
<1>8. ASSUME NEW g \in AllGVRs, ListSucceeds(g) PROVE EnrichedInv'
  BY <1>1, <1>8 DEF ListSucceeds
<1>9. ASSUME NEW g \in AllGVRs, ListFails(g) PROVE EnrichedInv'
  BY <1>1, <1>9 DEF ListFails
<1>10. ASSUME NEW g \in AllGVRs, FinishPoll(g) PROVE EnrichedInv'
  <2>1. phase = "listing" /\ phase' = "listing" /\ s3' = s3
    BY <1>10 DEF FinishPoll, EnrichedInv
  <2>2. RunningPolls'
    BY <1>10, <2>1 DEF FinishPoll, EnrichedInv, PollerTypeOK, Polled
  <2>3. QED  BY <2>1, <2>2 DEF EnrichedInv, AtRest
<1>11. CASE EnrichClaims
  <2>1. ClaimsEnriched(StoreContents)'
    BY <1>11, AfterEnrichClaims DEF EnrichClaims, PollerTypeOK
  <2>2. \A g \in AllGVRs : status[g] # "running"
    BY <1>11 DEF EnrichClaims, EnrichedInv
  <2>3. QED  BY <1>11, <2>1, <2>2 DEF EnrichClaims, EnrichedInv, AtRest, jobVars
<1>12. CASE EnrichXRs
  <2>1. ClaimsEnriched(StoreContents)' /\ XRsEnriched(StoreContents)'
    BY <1>12, AfterEnrichXRs DEF EnrichXRs, EnrichedInv, PollerTypeOK
  <2>2. QED  BY <1>12, <2>1 DEF EnrichXRs, EnrichedInv, AtRest, jobVars
<1>13. CASE EnrichMRs
  <2>1. /\ ClaimsEnriched(StoreContents)'
        /\ XRsEnriched(StoreContents)'
        /\ MRsEnriched(StoreContents)'
    BY <1>13, AfterEnrichMRs DEF EnrichMRs, EnrichedInv, PollerTypeOK
  <2>2. QED  BY <1>13, <2>1 DEF EnrichMRs, EnrichedInv, AtRest, jobVars
<1>14. CASE SkipPersist
  BY <1>4, <1>14 DEF SkipPersist, AtRest, jobVars
<1>15. CASE PersistSucceeds \/ PersistFails
  BY <1>4, <1>15 DEF PersistSucceeds, PersistFails, AtRest, jobVars
<1>16. CASE Report
  BY <1>4, <1>16 DEF Report, AtRest, jobVars
<1>17. CASE UNCHANGED pollerVars
  BY <1>1, <1>17 DEF pollerVars, storeVars
<1>18. QED
  BY <1>2, <1>3, <1>5, <1>6, <1>7, <1>8, <1>9, <1>10, <1>11, <1>12, <1>13, <1>14, <1>15,
     <1>16, <1>17 DEF PollerNext, PollerStep

(***************************************************************************)
(* Whatever fails and whatever the cluster does, the store is enriched     *)
(* between cycles, and so is every snapshot that reaches the bucket.       *)
(***************************************************************************)
THEOREM EnrichedBetweenCycles == PollerSpec => []EnrichedAtRest
<1>1. EnrichedInv => EnrichedAtRest
  BY DEF EnrichedInv, EnrichedAtRest, Enriched, AtRest
<1>2. QED
  BY <1>1, EnrichedInit, EnrichedStep, PollerTypeCorrect, PTL DEF PollerSpec
-----------------------------------------------------------------------------
(***************************************************************************)
(* How a cycle moves on.                                                   *)
(***************************************************************************)
LEMMA LeastPosition ==
    ASSUME NEW P \in SUBSET Nat, P # {} PROVE \E i \in P : \A j \in P : i <= j
<1>1. \E i \in P : \A j \in P : <<j, i>> \notin OpToRel(<, Nat)
  BY NatLessThanWellFounded, WFMin
<1>2. \A i, j \in Nat : j < i => <<j, i>> \in OpToRel(<, Nat)
  BY DEF OpToRel
<1> HIDE DEF OpToRel
<1>3. \E i \in P : \A j \in P : ~(j < i)
  BY <1>1, <1>2
<1> QED
  BY <1>3

(***************************************************************************)
(* What a cycle can do next for g: start its poll, make its next call, or  *)
(* finish it.                                                              *)
(***************************************************************************)
CanMove(g) ==
    \/ status[g] = "waiting" /\ MayStart(g)
    \/ Listing(g)
    \/ status[g] = "running" /\ at[g] > Len(Targets)

NeverStuck ==
    phase = "listing" => \/ \A g \in Polled : status[g] = "done"
                         \/ \E g \in Polled : CanMove(g)

(***************************************************************************)
(* How far the poll of g is; it goes no further than Len(Targets) + 2.     *)
(***************************************************************************)
Progress(g) ==
    IF status[g] = "waiting" THEN 0 ELSE IF status[g] = "running" THEN at[g] ELSE Len(Targets) + 2

MovesOn ==
    phase = "listing" =>
        /\ phase' = "listing" => \A g \in AllGVRs : Progress(g)' >= Progress(g)
        /\ PollerStep => \/ phase' = "enrichXRs" /\ \A g \in Polled : status[g] = "done"
                         \/ \E g \in AllGVRs : Progress(g)' > Progress(g)

LEMMA ConcatRange ==
    ASSUME NEW S, NEW s \in Seq(S), NEW t \in Seq(S)
    PROVE  \A x : (\E i \in DOMAIN (s \o t) : (s \o t)[i] = x) <=> x \in Range(s) \cup Range(t)
<1>1. /\ s \o t \in Seq(S) /\ Len(s \o t) = Len(s) + Len(t)
      /\ Len(s) \in Nat /\ Len(t) \in Nat
      /\ DOMAIN s = 1..Len(s) /\ DOMAIN t = 1..Len(t) /\ DOMAIN (s \o t) = 1..(Len(s) + Len(t))
  OBVIOUS
<1>2. ASSUME NEW i \in DOMAIN (s \o t) PROVE (s \o t)[i] \in Range(s) \cup Range(t)
  BY ConcatElement DEF Range
<1>3. ASSUME NEW i \in DOMAIN s PROVE i \in DOMAIN (s \o t) /\ (s \o t)[i] = s[i]
  <2>1. i \in 1..(Len(s) + Len(t)) /\ i <= Len(s)
    BY <1>1
  <2> QED
    BY <1>1, <2>1
<1>4. ASSUME NEW i \in DOMAIN t
      PROVE  Len(s) + i \in DOMAIN (s \o t) /\ (s \o t)[Len(s) + i] = t[i]
  <2>1. Len(s) + i \in 1..(Len(s) + Len(t)) /\ ~(Len(s) + i <= Len(s)) /\ i = Len(s) + i - Len(s)
    BY <1>1
  <2> QED
    BY <1>1, <2>1
<1> QED
  BY <1>2, <1>3, <1>4 DEF Range

LEMMA SequentialType ==
    ASSUME cfg \in Config
    PROVE  /\ Sequential \in Seq(AllGVRs) /\ cfg.mrs \in Seq(AllGVRs)
           /\ \A i \in DOMAIN Sequential : Sequential[i] \in Polled
           /\ \A i \in DOMAIN cfg.mrs : cfg.mrs[i] \in Polled
           /\ \A g \in Polled : \/ \E i \in DOMAIN Sequential : g = Sequential[i]
                                \/ \E i \in DOMAIN cfg.mrs : g = cfg.mrs[i]
<1>1. cfg.xrs \in Seq(AllGVRs) /\ cfg.claims \in Seq(AllGVRs) /\ cfg.mrs \in Seq(AllGVRs)
  BY DEF Config, AllGVRs
<1>2. Sequential \in Seq(AllGVRs)
  BY <1>1 DEF Sequential
<1>3. \A x : (\E i \in DOMAIN Sequential : Sequential[i] = x)
                <=> x \in Range(cfg.xrs) \cup Range(cfg.claims)
  BY <1>1, ConcatRange DEF Sequential
<1> QED
  BY <1>1, <1>2, <1>3 DEF Polled, Range

LEMMA SomePollCanMove == PollerTypeOK => NeverStuck
<1> SUFFICES ASSUME PollerTypeOK, \E g \in Polled : status[g] # "done"
             PROVE  \E g \in Polled : CanMove(g)
  BY DEF NeverStuck
<1>1. Polled \subseteq AllGVRs
  BY DEF PollerTypeOK, Polled, Config, AllGVRs, Range
<1>2. CASE \E g \in Polled : status[g] = "running"
  <2>1. PICK g \in Polled : status[g] = "running"
    BY <1>2
  <2>2. at[g] <= Len(Targets) \/ at[g] > Len(Targets)
    BY <1>1, TargetsType DEF PollerTypeOK
  <2> QED
    BY <2>1, <2>2 DEF CanMove, Listing
<1>3. CASE \A g \in Polled : status[g] # "running"
  <2>1. \A g \in Polled : status[g] \in {"waiting", "done"}
    BY <1>1, <1>3 DEF PollerTypeOK
  <2>2. CASE \E i \in DOMAIN Sequential : status[Sequential[i]] = "waiting"
    <3> DEFINE W == {i \in DOMAIN Sequential : status[Sequential[i]] = "waiting"}
    <3>1. DOMAIN Sequential = 1..Len(Sequential) /\ Len(Sequential) \in Nat
      BY SequentialType DEF PollerTypeOK
    <3>2. W \in SUBSET Nat /\ W # {}
      BY <2>2, <3>1
    <3>3. PICK i \in W : \A j \in W : i <= j
      BY <3>2, LeastPosition
    <3>4. ASSUME NEW j \in 1..(i - 1) PROVE status[Sequential[j]] = "done"
      <4>1. j \in DOMAIN Sequential /\ ~(i <= j)
        BY <3>1, <3>3
      <4>2. Sequential[j] \in Polled /\ status[Sequential[j]] # "waiting"
        BY <3>3, <4>1, SequentialType DEF PollerTypeOK
      <4> QED
        BY <2>1, <4>2
    <3>5. MayStart(Sequential[i]) /\ Sequential[i] \in Polled
      BY <3>3, <3>4, SequentialType DEF MayStart, PollerTypeOK
    <3> QED
      BY <3>3, <3>5 DEF CanMove
  <2>3. CASE \A i \in DOMAIN Sequential : status[Sequential[i]] # "waiting"
    <3> DEFINE W == {i \in DOMAIN cfg.mrs : status[cfg.mrs[i]] = "waiting"}
    <3>1. DOMAIN cfg.mrs = 1..Len(cfg.mrs) /\ Len(cfg.mrs) \in Nat
      BY SequentialType DEF PollerTypeOK
    <3>2. \A i \in DOMAIN Sequential : status[Sequential[i]] = "done"
      BY <2>1, <2>3, SequentialType DEF PollerTypeOK
    <3>3. W \in SUBSET Nat /\ W # {}
      <4>1. PICK g \in Polled : status[g] = "waiting"
        BY <2>1
      <4>2. PICK i \in DOMAIN cfg.mrs : g = cfg.mrs[i]
        BY <3>2, <4>1, SequentialType DEF PollerTypeOK
      <4> QED
        BY <3>1, <4>1, <4>2
    <3>4. PICK i \in W : \A j \in W : i <= j
      BY <3>3, LeastPosition
    <3>5. \A j \in 1..(i - 1) : status[cfg.mrs[j]] # "waiting"
      BY <3>1, <3>4
    <3>6. PoolHasRoom
      <4>1. {h \in Range(cfg.mrs) : status[h] = "running"} = {}
        BY <1>3 DEF Polled
      <4> QED
        BY <4>1, FS_EmptySet, MaxParallelAssumption DEF PoolHasRoom
    <3>7. MayStart(cfg.mrs[i]) /\ cfg.mrs[i] \in Polled
      BY <3>2, <3>4, <3>5, <3>6, SequentialType DEF MayStart, PollerTypeOK
    <3> QED
      BY <3>4, <3>7 DEF CanMove
  <2> QED
    BY <2>2, <2>3
<1> QED
  BY <1>2, <1>3

LEMMA StepMovesOn == PollerTypeOK /\ [PollerNext]_pollerVars => MovesOn
<1> SUFFICES ASSUME PollerTypeOK, [PollerNext]_pollerVars, phase = "listing"
             PROVE  /\ phase' = "listing" => \A g \in AllGVRs : Progress(g)' >= Progress(g)
                    /\ PollerStep => \/ /\ phase' = "enrichXRs"
                                        /\ \A g \in Polled : status[g] = "done"
                                     \/ \E g \in AllGVRs : Progress(g)' > Progress(g)
  BY DEF MovesOn
<1>1. Len(Targets) \in Nat /\ \A g \in AllGVRs : Progress(g) \in Nat
  BY TargetsType DEF PollerTypeOK, Progress
<1>2. ASSUME NEW g \in AllGVRs,
             StartPoll(g) \/ ListSucceeds(g) \/ ListFails(g) \/ FinishPoll(g)
      PROVE  /\ Progress(g)' > Progress(g)
             /\ \A h \in AllGVRs : h # g => Progress(h)' = Progress(h)
  <2>1. \A h \in AllGVRs : h # g => status'[h] = status[h] /\ at'[h] = at[h]
    BY <1>2 DEF StartPoll, ListSucceeds, ListFails, FinishPoll, PollerTypeOK
  <2>2. at[g] \in 1..(Len(Targets) + 1)
    BY DEF PollerTypeOK
  <2>3. CASE StartPoll(g)
    BY <2>2, <2>3 DEF StartPoll, Progress, PollerTypeOK
  <2>4. CASE ListSucceeds(g) \/ ListFails(g)
    BY <2>2, <2>4 DEF ListSucceeds, ListFails, Listing, Progress, PollerTypeOK
  <2>5. CASE FinishPoll(g)
    <3>1. status[g] = "running" /\ status'[g] = "done"
      BY <2>5 DEF FinishPoll, PollerTypeOK
    <3> QED
      BY <1>1, <2>1, <2>2, <3>1 DEF Progress
  <2> QED
    BY <1>2, <2>1, <2>3, <2>4, <2>5 DEF Progress
<1>3. PollerStep => \/ EnrichClaims
                    \/ \E g \in AllGVRs : \/ StartPoll(g) \/ FinishPoll(g)
                                          \/ ListSucceeds(g) \/ ListFails(g)
  BY DEF PollerStep, StartCycle, EnrichXRs, EnrichMRs, SkipPersist, PersistSucceeds,
         PersistFails, Report, Stop
<1>4. PollerStep => \/ phase' = "enrichXRs" /\ \A g \in Polled : status[g] = "done"
                    \/ \E g \in AllGVRs : Progress(g)' > Progress(g)
  <2>1. EnrichClaims => phase' = "enrichXRs" /\ \A g \in Polled : status[g] = "done"
    BY DEF EnrichClaims
  <2> QED
    BY <1>2, <1>3, <2>1
<1>5. phase' = "listing" => \A g \in AllGVRs : Progress(g)' >= Progress(g)
  <2>1. CASE \E g \in AllGVRs : \/ StartPoll(g) \/ FinishPoll(g)
                                \/ ListSucceeds(g) \/ ListFails(g)
    <3>1. PICK g \in AllGVRs : /\ Progress(g)' > Progress(g)
                               /\ \A h \in AllGVRs : h # g => Progress(h)' = Progress(h)
      BY <1>2, <2>1
    <3>2. \A h \in AllGVRs : h # g => Progress(h)' >= Progress(h)
      BY <1>1, <3>1
    <3>3. Progress(g)' >= Progress(g)
      <4>1. Progress(g)' \in Nat /\ Progress(g) \in Nat
        BY <1>1, PollerTypeStep, TargetsType DEF PollerTypeOK, Progress
      <4> QED
        BY <3>1, <4>1
    <3> QED
      BY <3>2, <3>3
  <2>2. CASE EnrichClaims
    BY <2>2 DEF EnrichClaims
  <2>3. CASE (\E g \in AllGVRs : ClusterChange(g)) \/ Cancel \/ UNCHANGED pollerVars
    <3>1. status' = status /\ at' = at
      BY <2>3 DEF ClusterChange, Cancel, pollerVars, jobVars
    <3>2. \A g \in AllGVRs : Progress(g)' = Progress(g)
      BY <3>1 DEF Progress
    <3> QED
      BY <1>1, <3>2
  <2> QED
    BY <1>3, <2>1, <2>2, <2>3 DEF PollerNext
<1> QED
  BY <1>4, <1>5

(***************************************************************************)
(* The safety part of CyclesComplete.  While a cycle lists, some poll can  *)
(* move on, however many fill the pool (poller.go:208-234); a step of the  *)
(* poller moves one on, whether its call works or fails; and none ever     *)
(* moves back.                                                             *)
(***************************************************************************)
THEOREM CyclesMoveOn == PollerSpec => []NeverStuck /\ [][MovesOn]_pollerVars
<1>1. PollerInit => PollerTypeOK
  BY PollerTypeInit
<1>2. PollerTypeOK /\ [PollerNext]_pollerVars => PollerTypeOK'
  BY PollerTypeStep
<1>3. PollerTypeOK => NeverStuck
  BY SomePollCanMove
<1>4. PollerTypeOK /\ [PollerNext]_pollerVars => [MovesOn]_pollerVars
  BY StepMovesOn
<1> QED
  BY <1>1, <1>2, <1>3, <1>4, PTL DEF PollerSpec
=============================================================================
