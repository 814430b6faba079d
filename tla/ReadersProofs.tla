----------------------------- MODULE ReadersProofs -----------------------------
(***************************************************************************)
(* What a reader gets: the series of a scrape count one object each, in    *)
(* any state of the store, and once a cycle over a quiet cluster is        *)
(* complete every response shows that cluster.                             *)
(***************************************************************************)
EXTENDS Readers, PollerListProofs

LEMMA ReadersPoll == [ReadersNext]_readersVars => [PollerNext]_pollerVars
BY DEF ReadersNext, Ask, HandlerStep, ReadStore, ReadGauges, Answer, readersVars

-----------------------------------------------------------------------------
(***************************************************************************)
(* The grouping into series.                                               *)
(*                                                                         *)
(* When no two infos have the same labels, there are as many series as     *)
(* infos, and each counts its info alone.                                  *)
(***************************************************************************)
Distinguishes(labels, m) ==
    /\ DOMAIN labels = DOMAIN m
    /\ \A j, k \in DOMAIN m : labels[j] = labels[k] => j = k

CountsEach(series, labels, m) ==
    /\ DOMAIN series = {labels[k] : k \in DOMAIN m}
    /\ Cardinality(DOMAIN series) = Cardinality(DOMAIN m)
    /\ \A k \in DOMAIN m :
          series[labels[k]] = [total |-> 1, ready |-> IF m[k].ready THEN 1 ELSE 0]

LEMMA AggregateCounts ==
    ASSUME NEW m, IsFiniteSet(DOMAIN m), \A k \in DOMAIN m : m[k].ready \in BOOLEAN,
           NEW labels, Distinguishes(labels, m)
    PROVE  CountsEach(Aggregate(m, labels), labels, m)
<1> DEFINE s == Aggregate(m, labels)
           T == {labels[k] : k \in DOMAIN m}
           group(l) == {k \in DOMAIN m : labels[k] = l}
<1>1. s = [l \in T |-> [total |-> Cardinality(group(l)),
                        ready |-> Cardinality({k \in group(l) : m[k].ready})]]
  BY DEF Aggregate
<1>2. DOMAIN s = T
  BY <1>1
<1>3. Cardinality(T) = Cardinality(DOMAIN m)
  <2> DEFINE f == [k \in DOMAIN m |-> labels[k]]
  <2>1. f \in Bijection(DOMAIN m, T)
    BY DEF Distinguishes, Bijection, Injection, Surjection, IsInjective
  <2>2. ExistsBijection(DOMAIN m, T)
    BY <2>1 DEF ExistsBijection
  <2> QED
    BY <2>2, FS_Bijection
<1>4. ASSUME NEW k \in DOMAIN m
      PROVE  s[labels[k]] = [total |-> 1, ready |-> IF m[k].ready THEN 1 ELSE 0]
  <2>1. group(labels[k]) = {k}
    BY DEF Distinguishes
  <2>2. {j \in group(labels[k]) : m[j].ready} = IF m[k].ready THEN {k} ELSE {}
    BY <2>1
  <2>3. Cardinality({k}) = 1 /\ Cardinality({}) = 0
    BY FS_Singleton, FS_EmptySet
  <2>4. labels[k] \in T
    OBVIOUS
  <2>5. s[labels[k]] = [total |-> Cardinality(group(labels[k])),
                        ready |-> Cardinality({j \in group(labels[k]) : m[j].ready})]
    BY <1>1, <2>4
  <2> QED
    BY <2>1, <2>2, <2>3, <2>5
<1> HIDE DEF s, T
<1> QED
  BY <1>2, <1>3, <1>4 DEF CountsEach, T, s

(***************************************************************************)
(* The labels of the three collectors tell all objects of a kind apart:    *)
(* namespace and name are the key of the store.                            *)
(***************************************************************************)
PartInfo(p) == CASE p = "claims" -> ClaimInfo
                 [] p = "xrs"    -> XRInfo
                 [] p = "mrs"    -> MRInfo

IsLabelling(m, labels) ==
    /\ DOMAIN labels = DOMAIN m
    /\ \A k \in DOMAIN m : /\ labels[k].gvr = m[k].gvr
                           /\ labels[k].ns = m[k].ns
                           /\ labels[k].name = m[k].name

LEMMA CollectIsAggregate ==
    ASSUME NEW p \in StoreParts, NEW m
    PROVE  \E labels : IsLabelling(m, labels) /\ Collect(p, m) = Aggregate(m, labels)
<1>1. CASE p = "claims"
  <2> DEFINE labels == [k \in DOMAIN m |-> ClaimLabels(m[k])]
  <2>1. IsLabelling(m, labels)
    BY DEF IsLabelling, ClaimLabels
  <2>2. Collect(p, m) = Aggregate(m, labels)
    BY <1>1 DEF Collect, CollectClaims
  <2> QED
    BY <2>1, <2>2
<1>2. CASE p = "xrs"
  <2> DEFINE labels == [k \in DOMAIN m |-> XRLabels(m[k])]
  <2>1. IsLabelling(m, labels)
    BY DEF IsLabelling, XRLabels
  <2>2. Collect(p, m) = Aggregate(m, labels)
    BY <1>2 DEF Collect, CollectXRs
  <2> QED
    BY <2>1, <2>2
<1>3. CASE p = "mrs"
  <2> DEFINE labels == [k \in DOMAIN m |-> MRLabels(m[k])]
  <2>1. IsLabelling(m, labels)
    BY DEF IsLabelling, MRLabels
  <2>2. Collect(p, m) = Aggregate(m, labels)
    BY <1>3 DEF Collect, CollectMRs
  <2> QED
    BY <2>1, <2>2
<1> QED
  BY <1>1, <1>2, <1>3 DEF StoreParts

LEMMA KeysAreFinite ==
    ASSUME NEW V, NEW m, IsMap(m, V) PROVE IsFiniteSet(DOMAIN m)
<1>1. IsFiniteSet(AnyNS)
  BY NamesAssumption, FS_AddElement DEF AnyNS
<1>2. IsFiniteSet(Key)
  BY <1>1, NamesAssumption, FS_Product DEF Key
<1> QED
  BY <1>2, FS_Subset DEF IsMap

LEMMA CollectCounts ==
    ASSUME NEW p \in StoreParts, NEW m, IsMap(m, PartInfo(p))
    PROVE  \E labels : IsLabelling(m, labels) /\ CountsEach(Collect(p, m), labels, m)
<1>1. PICK labels : IsLabelling(m, labels) /\ Collect(p, m) = Aggregate(m, labels)
  BY CollectIsAggregate
<1>2. \A k \in DOMAIN m : k = <<m[k].ns, m[k].name>> /\ m[k].ready \in BOOLEAN
  BY DEF StoreParts, PartInfo, ClaimInfo, XRInfo, MRInfo, IsMap, KeyOf, ObjectKey
<1>3. Distinguishes(labels, m)
  BY <1>1, <1>2 DEF IsLabelling, Distinguishes
<1> QED
  BY <1>1, <1>2, <1>3, KeysAreFinite, AggregateCounts
-----------------------------------------------------------------------------
(***************************************************************************)
(* A request between its first and its last snapshot.                      *)
(***************************************************************************)
LEMMA ReadStoreAdds ==
    ASSUME NEW p \in StoreParts, ReadStore(p)
    PROVE  /\ DOMAIN read' = DOMAIN read \cup {p}
           /\ \A q \in DOMAIN read : read'[q] = read[q]
           /\ p \notin DOMAIN read
           /\ read'[p] = IF request = "scrape" THEN Collect(p, StoreContents[p])
                         ELSE StoreContents[p]
           /\ request # "none"
           /\ UNCHANGED <<pollerVars, request>>
<1> DEFINE part == IF request = "scrape" THEN Collect(p, StoreContents[p]) ELSE StoreContents[p]
<1>1. /\ p \notin DOMAIN read
      /\ read' = With(p, part)
      /\ request # "none" /\ UNCHANGED <<pollerVars, request>>
  BY DEF ReadStore
<1> HIDE DEF part
<1>2. \A q \in DOMAIN read : read'[q] = read[q]
  BY <1>1 DEF With
<1>3. DOMAIN read' = DOMAIN read \cup {p} /\ read'[p] = part
  BY <1>1 DEF With
<1> QED
  BY <1>1, <1>2, <1>3 DEF part

LEMMA ReadGaugesAdds ==
    ASSUME ReadGauges
    PROVE  /\ DOMAIN read' = DOMAIN read \cup {"gauges"}
           /\ \A q \in DOMAIN read : read'[q] = read[q]
           /\ "gauges" \notin DOMAIN read
           /\ read'["gauges"] = gauges
           /\ request = "scrape"
           /\ UNCHANGED <<pollerVars, request>>
<1>1. /\ "gauges" \notin DOMAIN read
      /\ read' = With("gauges", gauges)
      /\ request = "scrape" /\ UNCHANGED <<pollerVars, request>>
  BY DEF ReadGauges
<1>2. \A q \in DOMAIN read : read'[q] = read[q]
  BY <1>1 DEF With
<1>3. DOMAIN read' = DOMAIN read \cup {"gauges"} /\ read'["gauges"] = gauges
  BY <1>1 DEF With
<1> QED
  BY <1>1, <1>2, <1>3
LEMMA StorePartIsMap ==
    ASSUME StoreTypeOK, NEW p \in StoreParts PROVE IsMap(StoreContents[p], PartInfo(p))
<1>1. CASE p = "claims"
  BY <1>1 DEF StoreTypeOK, StoreContents, PartInfo
<1>2. CASE p = "xrs"
  BY <1>2 DEF StoreTypeOK, StoreContents, PartInfo
<1>3. CASE p = "mrs"
  BY <1>3 DEF StoreTypeOK, StoreContents, PartInfo
<1> QED
  BY <1>1, <1>2, <1>3 DEF StoreParts

OneEach(series) ==
    /\ \A l \in DOMAIN series : series[l].total = 1 /\ series[l].ready \in {0, 1}
    /\ \A j, l \in DOMAIN series : j.ns = l.ns /\ j.name = l.name => j = l

EachSeriesCountsOne ==
    request = "scrape" => \A p \in DOMAIN read \cap StoreParts : OneEach(read[p])

LEMMA CollectCountsOne ==
    ASSUME StoreTypeOK, NEW p \in StoreParts PROVE OneEach(Collect(p, StoreContents[p]))
<1> DEFINE m == StoreContents[p]
           s == Collect(p, m)
<1>1. IsMap(m, PartInfo(p))
  BY StorePartIsMap
<1> HIDE DEF m
<1>2. PICK labels : IsLabelling(m, labels) /\ CountsEach(s, labels, m)
  BY <1>1, CollectCounts
<1> HIDE DEF s
<1>3. \A k \in DOMAIN m : k = <<m[k].ns, m[k].name>>
  BY <1>1 DEF StoreParts, PartInfo, ClaimInfo, XRInfo, MRInfo, IsMap, KeyOf, ObjectKey
<1>4. \A l \in DOMAIN s : \E k \in DOMAIN m : l = labels[k]
  BY <1>2 DEF CountsEach
<1>5. ASSUME NEW l \in DOMAIN s PROVE s[l].total = 1 /\ s[l].ready \in {0, 1}
  <2>1. PICK k \in DOMAIN m : l = labels[k]
    BY <1>4
  <2>2. s[l] = [total |-> 1, ready |-> IF m[k].ready THEN 1 ELSE 0]
    BY <1>2, <2>1 DEF CountsEach
  <2> QED
    BY <2>2
<1>6. ASSUME NEW j \in DOMAIN s, NEW l \in DOMAIN s, j.ns = l.ns, j.name = l.name PROVE j = l
  <2>1. PICK k \in DOMAIN m : j = labels[k]
    BY <1>4
  <2>2. PICK i \in DOMAIN m : l = labels[i]
    BY <1>4
  <2>3. k = i
    BY <1>2, <1>3, <1>6, <2>1, <2>2 DEF IsLabelling
  <2> QED
    BY <2>1, <2>2, <2>3
<1> QED
  BY <1>5, <1>6 DEF OneEach, s, m

(***************************************************************************)
(* Every series of a scrape counts one object, and no object is in two     *)
(* series, in whatever state of a cycle the collectors look at the store   *)
(* and however links and readiness change in between: the labels of        *)
(* claim_collector.go:108, xr_collector.go:107 and mr_collector.go:116     *)
(* hold the key of the store.                                              *)
(***************************************************************************)
THEOREM SeriesCountOne == ReadersSpec => []EachSeriesCountsOne
<1> DEFINE Inv == PollerTypeOK /\ EachSeriesCountsOne /\ (request = "none" => read = NothingRead)
<1>1. ReadersInit => Inv
  BY PollerTypeInit DEF ReadersInit, EachSeriesCountsOne
<1>2. Inv /\ [ReadersNext]_readersVars => Inv'
  <2> SUFFICES ASSUME Inv, [ReadersNext]_readersVars PROVE Inv'
    OBVIOUS
  <2>1. PollerTypeOK'
    BY ReadersPoll, PollerTypeStep
  <2>2. CASE UNCHANGED readerVars
    BY <2>1, <2>2 DEF readerVars, EachSeriesCountsOne
  <2>3. CASE Ask
    BY <2>1, <2>3 DEF Ask, NothingRead, EachSeriesCountsOne
  <2>4. ASSUME NEW p \in StoreParts, ReadStore(p) PROVE Inv'
    <3>1. request = "scrape" => OneEach(read'[p])
      BY <2>4, ReadStoreAdds, CollectCountsOne DEF PollerTypeOK
    <3>2. request = "scrape" => \A q \in DOMAIN read' \cap StoreParts : OneEach(read'[q])
      BY <2>4, <3>1, ReadStoreAdds DEF EachSeriesCountsOne
    <3> QED
      BY <2>1, <2>4, <3>2, ReadStoreAdds DEF EachSeriesCountsOne
  <2>5. CASE ReadGauges
    <3>1. \A q \in DOMAIN read' \cap StoreParts : OneEach(read'[q])
      BY <2>5, ReadGaugesAdds DEF EachSeriesCountsOne, StoreParts
    <3> QED
      BY <2>1, <2>5, <3>1, ReadGaugesAdds DEF EachSeriesCountsOne
  <2>6. CASE Answer
    BY <2>1, <2>6 DEF Answer, EachSeriesCountsOne
  <2> QED
    BY <2>2, <2>3, <2>4, <2>5, <2>6 DEF ReadersNext, HandlerStep, readersVars, readerVars
<1>3. Inv => EachSeriesCountsOne
  OBVIOUS
<1> QED
  BY <1>1, <1>2, <1>3, PTL DEF ReadersSpec
-----------------------------------------------------------------------------
(***************************************************************************)
(* What the store shows of a quiet cluster.                                *)
(*                                                                         *)
(* It has entries of polled kinds only.                                    *)
(***************************************************************************)
OnlyPolled ==
    /\ \A k \in DOMAIN claims : claims[k].gvr \in Polled
    /\ \A k \in DOMAIN xrs : xrs[k].gvr \in Polled
    /\ \A k \in DOMAIN mrs : mrs[k].gvr \in Polled

LEMMA ReplaceOnlyPolled ==
    ASSUME NEW m, \A k \in DOMAIN m : m[k].gvr \in Polled,
           NEW g \in Polled, NEW objects, \A k \in DOMAIN objects : objects[k].gvr = g
    PROVE  \A k \in DOMAIN Replace(m, g, objects) : Replace(m, g, objects)[k].gvr \in Polled
BY DEF Replace, Overwrite, Restrict

LEMMA OnlyPolledInit == PollerInit => OnlyPolled
BY DEF PollerInit, StoreInit, EmptyMap, OnlyPolled

LEMMA OnlyPolledStep ==
    ASSUME PollerTypeOK, EnrichedInv, ListInv, OnlyPolled, [PollerNext]_pollerVars
    PROVE  OnlyPolled'
<1>1. Polled' = Polled
  BY DEF PollerNext, PollerStep, pollerVars, ClusterChange, Cancel, StartCycle, StartPoll,
         ListSucceeds, ListFails, FinishPoll, EnrichClaims, EnrichXRs, EnrichMRs, SkipPersist,
         PersistSucceeds, PersistFails, Report, Stop, Polled
<1>2. CASE UNCHANGED storeVars
  BY <1>1, <1>2 DEF storeVars, OnlyPolled
<1>3. ASSUME NEW g \in AllGVRs, FinishPoll(g) PROVE OnlyPolled'
  <2>1. CASE KeepsStore(g)
    BY <1>2, <1>3, <2>1 DEF FinishPoll
  <2>2. CASE ~KeepsStore(g)
    <3>1. Publish(g) /\ g \in Polled
      BY <1>3, <2>2 DEF FinishPoll, EnrichedInv, RunningPolls
    <3>2. \A k \in DOMAIN items[g] : items[g][k].gvr = g
      BY DEF ListInv, OwnKeys
    <3>3. CASE g \in ClaimGVRs
      <4>1. claims' = Replace(claims, g, items[g]) /\ UNCHANGED <<xrs, mrs>>
        BY <3>1, <3>3, KindOfGVR DEF Publish, ReplaceClaims
      <4>2. \A k \in DOMAIN claims' : claims'[k].gvr \in Polled
        BY <3>1, <3>2, <4>1, ReplaceOnlyPolled DEF OnlyPolled
      <4> QED
        BY <1>1, <4>1, <4>2 DEF OnlyPolled
    <3>4. CASE g \in XRGVRs
      <4>1. xrs' = Replace(xrs, g, items[g]) /\ UNCHANGED <<claims, mrs>>
        BY <3>1, <3>4, KindOfGVR DEF Publish, ReplaceXRs
      <4>2. \A k \in DOMAIN xrs' : xrs'[k].gvr \in Polled
        BY <3>1, <3>2, <4>1, ReplaceOnlyPolled DEF OnlyPolled
      <4> QED
        BY <1>1, <4>1, <4>2 DEF OnlyPolled
    <3>5. CASE g \in MRGVRs
      <4>1. mrs' = Replace(mrs, g, items[g]) /\ UNCHANGED <<claims, xrs>>
        BY <3>1, <3>5, KindOfGVR DEF Publish, ReplaceMRs
      <4>2. \A k \in DOMAIN mrs' : mrs'[k].gvr \in Polled
        BY <3>1, <3>2, <4>1, ReplaceOnlyPolled DEF OnlyPolled
      <4> QED
        BY <1>1, <4>1, <4>2 DEF OnlyPolled
    <3> QED
      BY <1>3, <3>3, <3>4, <3>5 DEF AllGVRs
  <2> QED
    BY <2>1, <2>2
<1>4. CASE EnrichClaims
  <2>1. EnrichClaimCompositions /\ UNCHANGED <<xrs, mrs>>
    BY <1>4 DEF EnrichClaims, EnrichClaimCompositions
  <2>2. DOMAIN claims' = DOMAIN claims /\ \A k \in DOMAIN claims : claims'[k].gvr = claims[k].gvr
    BY <2>1, EnrichKeepsClaims DEF PollerTypeOK
  <2> QED
    BY <1>1, <2>1, <2>2 DEF OnlyPolled
<1>5. CASE EnrichXRs
  <2>1. EnrichXRClaims /\ UNCHANGED <<claims, mrs>>
    BY <1>5 DEF EnrichXRs, EnrichXRClaims
  <2>2. DOMAIN xrs' = DOMAIN xrs /\ \A k \in DOMAIN xrs : xrs'[k].gvr = xrs[k].gvr
    BY <2>1, EnrichKeepsXRs DEF PollerTypeOK
  <2> QED
    BY <1>1, <2>1, <2>2 DEF OnlyPolled
<1>6. CASE EnrichMRs
  <2>1. EnrichMRClaims /\ UNCHANGED <<claims, xrs>>
    BY <1>6 DEF EnrichMRs, EnrichMRClaims
  <2>2. DOMAIN mrs' = DOMAIN mrs /\ \A k \in DOMAIN mrs : mrs'[k].gvr = mrs[k].gvr
    BY <2>1, EnrichKeepsMRs DEF PollerTypeOK
  <2> QED
    BY <1>1, <2>1, <2>2 DEF OnlyPolled
<1> QED
  BY <1>2, <1>3, <1>4, <1>5, <1>6 DEF PollerNext, PollerStep, pollerVars, storeVars,
     ClusterChange, Cancel, StartCycle, StartPoll, ListSucceeds, ListFails, SkipPersist,
     PersistSucceeds, PersistFails, Report, Stop

(***************************************************************************)
(* A part of a store that mirrors the cluster, kind by kind.               *)
(***************************************************************************)
PartMirrors(p, m) ==
    /\ \A k \in DOMAIN m : m[k].gvr \in Polled /\ PartOf(m[k].gvr) = p
    /\ \A g \in Polled : PartOf(g) = p =>
          /\ EntriesOf(m, g) = DOMAIN Wanted(g)
          /\ \A k \in DOMAIN Wanted(g) : m[k].ready = Wanted(g)[k].ready

LEMMA KindOfPart ==
    /\ \A g \in ClaimGVRs : PartOf(g) = "claims"
    /\ \A g \in XRGVRs : PartOf(g) = "xrs"
    /\ \A g \in MRGVRs : PartOf(g) = "mrs"
    /\ \A g \in AllGVRs : /\ PartOf(g) = "claims" => g \in ClaimGVRs
                          /\ PartOf(g) = "xrs" => g \in XRGVRs
                          /\ PartOf(g) = "mrs" => g \in MRGVRs
BY KindsAssumption DEF PartOf, AllGVRs

LEMMA SameIsReady ==
    /\ \A o \in ClaimInfo : \A s : SameClaim(s, o) => s.ready = o.ready
    /\ \A o \in XRInfo \cup MRInfo : \A s : SameLinked(s, o) => s.ready = o.ready
<1>1. ASSUME NEW o \in ClaimInfo, NEW s, SameClaim(s, o) PROVE s.ready = o.ready
  <2>1. s = [o EXCEPT !.composition = s.composition]
    BY <1>1 DEF SameClaim
  <2>2. [o EXCEPT !.composition = s.composition].ready = o.ready
    BY DEF ClaimInfo
  <2> QED
    BY <2>1, <2>2
<1>2. ASSUME NEW o \in XRInfo \cup MRInfo, NEW s, SameLinked(s, o) PROVE s.ready = o.ready
  <2>1. s = [o EXCEPT !.claimName = s.claimName, !.claimNS = s.claimNS]
    BY <1>2 DEF SameLinked
  <2>2. [o EXCEPT !.claimName = s.claimName, !.claimNS = s.claimNS].ready = o.ready
    BY DEF XRInfo, MRInfo
  <2> QED
    BY <2>1, <2>2
<1> QED
  BY <1>1, <1>2

LEMMA StorePartMirrors ==
    ASSUME PollerTypeOK, OnlyPolled, Mirrored, NEW p \in StoreParts
    PROVE  PartMirrors(p, StoreContents[p])
<1>0. Polled \subseteq AllGVRs
  BY PolledAreGVRs DEF PollerTypeOK
<1>1. CASE p = "claims"
  <2>1. \A k \in DOMAIN claims : claims[k].gvr \in Polled \cap ClaimGVRs
    BY DEF OnlyPolled, PollerTypeOK, StoreTypeOK, IsMap, ClaimInfo
  <2>2. ASSUME NEW g \in Polled, PartOf(g) = p
        PROVE  /\ EntriesOf(claims, g) = DOMAIN Wanted(g)
               /\ \A k \in DOMAIN Wanted(g) : claims[k].ready = Wanted(g)[k].ready
    <3>1. g \in ClaimGVRs
      BY <1>0, <1>1, <2>2, KindOfPart
    <3>2. /\ EntriesOf(claims, g) = DOMAIN Wanted(g)
          /\ \A k \in DOMAIN Wanted(g) : SameClaim(claims[k], Wanted(g)[k])
      BY <3>1 DEF Mirrored, Holds, StoreContents
    <3>3. \A k \in DOMAIN Wanted(g) : Wanted(g)[k] \in ClaimInfo
      BY <3>1, WantedIsMap, KindOfGVR DEF IsMap
    <3> QED
      BY <3>2, <3>3, SameIsReady
  <2> QED
    BY <1>1, <2>1, <2>2, KindOfPart DEF PartMirrors, StoreContents
<1>2. CASE p = "xrs"
  <2>1. \A k \in DOMAIN xrs : xrs[k].gvr \in Polled \cap XRGVRs
    BY DEF OnlyPolled, PollerTypeOK, StoreTypeOK, IsMap, XRInfo
  <2>2. ASSUME NEW g \in Polled, PartOf(g) = p
        PROVE  /\ EntriesOf(xrs, g) = DOMAIN Wanted(g)
               /\ \A k \in DOMAIN Wanted(g) : xrs[k].ready = Wanted(g)[k].ready
    <3>1. g \in XRGVRs
      BY <1>0, <1>2, <2>2, KindOfPart
    <3>2. /\ EntriesOf(xrs, g) = DOMAIN Wanted(g)
          /\ \A k \in DOMAIN Wanted(g) : SameLinked(xrs[k], Wanted(g)[k])
      BY <3>1 DEF Mirrored, Holds, StoreContents
    <3>3. \A k \in DOMAIN Wanted(g) : Wanted(g)[k] \in XRInfo
      BY <3>1, WantedIsMap, KindOfGVR DEF IsMap
    <3> QED
      BY <3>2, <3>3, SameIsReady
  <2> QED
    BY <1>2, <2>1, <2>2, KindOfPart DEF PartMirrors, StoreContents
<1>3. CASE p = "mrs"
  <2>1. \A k \in DOMAIN mrs : mrs[k].gvr \in Polled \cap MRGVRs
    BY DEF OnlyPolled, PollerTypeOK, StoreTypeOK, IsMap, MRInfo
  <2>2. ASSUME NEW g \in Polled, PartOf(g) = p
        PROVE  /\ EntriesOf(mrs, g) = DOMAIN Wanted(g)
               /\ \A k \in DOMAIN Wanted(g) : mrs[k].ready = Wanted(g)[k].ready
    <3>1. g \in MRGVRs
      BY <1>0, <1>3, <2>2, KindOfPart
    <3>2. /\ EntriesOf(mrs, g) = DOMAIN Wanted(g)
          /\ \A k \in DOMAIN Wanted(g) : SameLinked(mrs[k], Wanted(g)[k])
      BY <3>1 DEF Mirrored, Holds, StoreContents
    <3>3. \A k \in DOMAIN Wanted(g) : Wanted(g)[k] \in MRInfo
      BY <3>1, WantedIsMap, KindOfGVR DEF IsMap
    <3> QED
      BY <3>2, <3>3, SameIsReady
  <2> QED
    BY <1>3, <2>1, <2>2, KindOfPart DEF PartMirrors, StoreContents
<1> QED
  BY <1>1, <1>2, <1>3 DEF StoreParts
LEMMA CountsAreThere ==
    ASSUME NEW p \in StoreParts, NEW m, IsMap(m, PartInfo(p)), PartMirrors(p, m)
    PROVE  Cardinality(DOMAIN m) = Cardinality(There(p))
<1> DEFINE f == [k \in DOMAIN m |-> <<m[k].gvr, k>>]
<1>1. \A k \in DOMAIN m : k \in Key /\ m[k].gvr \in Polled /\ PartOf(m[k].gvr) = p
                          /\ k \in DOMAIN Wanted(m[k].gvr)
  BY DEF IsMap, PartMirrors, EntriesOf
<1>2. \A k \in DOMAIN m : f[k] \in There(p)
  BY <1>1 DEF There
<1>3. ASSUME NEW gk \in There(p) PROVE gk[2] \in DOMAIN m /\ f[gk[2]] = gk
  <2>1. /\ gk \in Polled \X Key /\ gk = <<gk[1], gk[2]>>
        /\ PartOf(gk[1]) = p /\ gk[2] \in DOMAIN Wanted(gk[1])
    BY <1>3 DEF There
  <2>2. EntriesOf(m, gk[1]) = DOMAIN Wanted(gk[1])
    BY <2>1 DEF PartMirrors
  <2> QED
    BY <2>1, <2>2 DEF EntriesOf
<1>4. f \in Bijection(DOMAIN m, There(p))
  <2>1. f \in [DOMAIN m -> There(p)]
    BY <1>2
  <2>2. \A j, k \in DOMAIN m : f[j] = f[k] => j = k
    OBVIOUS
  <2>3. \A gk \in There(p) : \E k \in DOMAIN m : f[k] = gk
    BY <1>3
  <2> HIDE DEF f
  <2> QED
    BY <2>1, <2>2, <2>3 DEF Bijection, Injection, Surjection, IsInjective
<1>5. ExistsBijection(DOMAIN m, There(p))
  BY <1>4 DEF ExistsBijection
<1> QED
  BY <1>5, KeysAreFinite, FS_Bijection

LEMMA MirrorIsMeasured ==
    ASSUME PollerTypeOK, NEW p \in StoreParts, NEW m, IsMap(m, PartInfo(p)), PartMirrors(p, m)
    PROVE  Measures(p, Collect(p, m))
<1> DEFINE s == Collect(p, m)
<1>1. PICK labels : IsLabelling(m, labels) /\ CountsEach(s, labels, m)
  BY CollectCounts
<1> HIDE DEF s
<1>2. \A k \in DOMAIN m : k = <<m[k].ns, m[k].name>>
  BY DEF StoreParts, PartInfo, ClaimInfo, XRInfo, MRInfo, IsMap, KeyOf, ObjectKey
<1>3. Cardinality(DOMAIN s) = Cardinality(There(p))
  BY <1>1, CountsAreThere DEF CountsEach
<1>4. ASSUME NEW g \in Polled, PartOf(g) = p, NEW o \in Range(Wanted(g))
      PROVE  \E l \in SeriesOf(s, g, o) :
                /\ SeriesOf(s, g, o) = {l}
                /\ s[l] = [total |-> 1, ready |-> IF o.ready THEN 1 ELSE 0]
  <2>1. PICK k \in DOMAIN Wanted(g) : o = Wanted(g)[k]
    BY <1>4 DEF Range
  <2>2. k \in DOMAIN m /\ m[k].gvr = g /\ m[k].ready = o.ready
    BY <1>4, <2>1 DEF PartMirrors, EntriesOf
  <2>3. k = <<o.ns, o.name>>
    <3>1. g \in AllGVRs
      BY PolledAreGVRs DEF PollerTypeOK
    <3>2. IsMap(Wanted(g), KindInfo(g))
      BY <3>1, WantedIsMap
    <3> QED
      BY <2>1, <3>2 DEF IsMap, KeyOf, ObjectKey
  <2>4. o.ns = m[k].ns /\ o.name = m[k].name
    BY <1>2, <2>2, <2>3
  <2>5. labels[k] \in SeriesOf(s, g, o)
    BY <1>1, <2>2, <2>4 DEF SeriesOf, IsLabelling, CountsEach
  <2>6. ASSUME NEW l \in SeriesOf(s, g, o) PROVE l = labels[k]
    <3>1. PICK j \in DOMAIN m : l = labels[j]
      BY <1>1, <2>6 DEF SeriesOf, CountsEach
    <3>2. m[j].ns = o.ns /\ m[j].name = o.name
      BY <1>1, <2>6, <3>1 DEF SeriesOf, IsLabelling
    <3> QED
      BY <1>2, <2>3, <3>1, <3>2
  <2>7. s[labels[k]] = [total |-> 1, ready |-> IF o.ready THEN 1 ELSE 0]
    BY <1>1, <2>2 DEF CountsEach
  <2> QED
    BY <2>5, <2>6, <2>7
<1> QED
  BY <1>3, <1>4 DEF Measures, s

LEMMA StoreIsCounted ==
    ASSUME PollerTypeOK, OnlyPolled, Mirrored
    PROVE  Counts([p \in StoreParts |-> Cardinality(DOMAIN StoreContents[p])])
<1>1. ASSUME NEW p \in StoreParts PROVE Cardinality(DOMAIN StoreContents[p]) = Cardinality(There(p))
  <2>1. IsMap(StoreContents[p], PartInfo(p))
    BY StorePartIsMap DEF PollerTypeOK
  <2> QED
    BY <2>1, StorePartMirrors, CountsAreThere
<1> QED
  BY <1>1 DEF Counts
-----------------------------------------------------------------------------
(***************************************************************************)
(* What a request has read of a quiet cluster, part by part.               *)
(***************************************************************************)
Shows(p, m) ==
    \A g \in Polled : PartOf(g) = p => Holds([q \in StoreParts |-> m], g, Wanted(g))

ReadsShow(req, parts) ==
    /\ req = "bookkeeping" => \A p \in DOMAIN parts \cap StoreParts : Shows(p, parts[p])
    /\ req = "scrape" =>
          /\ \A p \in DOMAIN parts \cap StoreParts : Measures(p, parts[p])
          /\ "gauges" \in DOMAIN parts => Counts(parts["gauges"])

PartOfHolds(g) ==
    \A s, t, objects :
        s[PartOf(g)] = t[PartOf(g)] /\ Holds(s, g, objects) => Holds(t, g, objects)

LEMMA PartIsHeld == \A g \in AllGVRs : PartOfHolds(g)
<1> SUFFICES ASSUME NEW g \in AllGVRs, NEW s, NEW t, NEW objects,
                    s[PartOf(g)] = t[PartOf(g)], Holds(s, g, objects)
             PROVE  Holds(t, g, objects)
  BY DEF PartOfHolds
<1>1. CASE g \in ClaimGVRs
  BY <1>1, KindOfPart, KindOfGVR, KindsAssumption DEF Holds
<1>2. CASE g \in XRGVRs
  BY <1>2, KindOfPart, KindOfGVR, KindsAssumption DEF Holds
<1>3. CASE g \in MRGVRs
  BY <1>3, KindOfPart, KindOfGVR, KindsAssumption DEF Holds
<1> QED
  BY <1>1, <1>2, <1>3 DEF AllGVRs

LEMMA PartIsPart == \A g : PartOf(g) \in StoreParts
BY DEF PartOf, StoreParts

LEMMA MirrorShows ==
    ASSUME PollerTypeOK, Mirrored, NEW p \in StoreParts PROVE Shows(p, StoreContents[p])
<1> SUFFICES ASSUME NEW g \in Polled, PartOf(g) = p
             PROVE  Holds([q \in StoreParts |-> StoreContents[p]], g, Wanted(g))
  BY DEF Shows
<1>1. g \in AllGVRs /\ Holds(StoreContents, g, Wanted(g))
  BY PolledAreGVRs DEF PollerTypeOK, Mirrored
<1>2. StoreContents[PartOf(g)] = [q \in StoreParts |-> StoreContents[p]][PartOf(g)]
  OBVIOUS
<1> QED
  BY <1>1, <1>2, PartIsHeld DEF PartOfHolds

LEMMA ShownIsCluster ==
    ASSUME PollerTypeOK, \A p \in StoreParts : Shows(p, read[p]) PROVE ShowsCluster
<1> SUFFICES ASSUME NEW g \in Polled PROVE Holds([p \in StoreParts |-> read[p]], g, Wanted(g))
  BY DEF ShowsCluster
<1>1. g \in AllGVRs /\ PartOf(g) \in StoreParts
  BY PolledAreGVRs, PartIsPart DEF PollerTypeOK
<1>2. Holds([q \in StoreParts |-> read[PartOf(g)]], g, Wanted(g))
  BY <1>1 DEF Shows
<1>3. [q \in StoreParts |-> read[PartOf(g)]][PartOf(g)] = [p \in StoreParts |-> read[p]][PartOf(g)]
  BY <1>1
<1> QED
  BY <1>1, <1>2, <1>3, PartIsHeld DEF PartOfHolds

(***************************************************************************)
(* While nothing changes, what has been read goes on to show it.           *)
(***************************************************************************)
LEMMA CfgStays == [PollerNext]_pollerVars => Polled' = Polled
BY DEF PollerNext, PollerStep, pollerVars, ClusterChange, Cancel, StartCycle, StartPoll,
       ListSucceeds, ListFails, FinishPoll, EnrichClaims, EnrichXRs, EnrichMRs, SkipPersist,
       PersistSucceeds, PersistFails, Report, Stop, Polled

LEMMA ShownStays ==
    ASSUME UNCHANGED cluster, Polled' = Polled
    PROVE  /\ \A p : There(p)' = There(p)
           /\ Counts(gauges') => Counts(gauges)'
           /\ ReadsShow(request', read') => ReadsShow(request, read)'
<1>1. \A h : Wanted(h)' = Wanted(h)
  BY SameThere
<1>2. \A p : There(p)' = There(p)
  BY <1>1 DEF There
<1>3. Counts(gauges') => Counts(gauges)'
  BY <1>2 DEF Counts
<1>4. ASSUME NEW p \in StoreParts, Shows(p, read'[p]) PROVE Shows(p, read[p])'
  BY <1>1, <1>4 DEF Shows
<1>5. ASSUME NEW p \in StoreParts, Measures(p, read'[p]) PROVE Measures(p, read[p])'
  BY <1>1, <1>2, <1>5 DEF Measures
<1>6. Counts(read'["gauges"]) => Counts(read["gauges"])'
  BY <1>2 DEF Counts
<1> QED
  BY <1>2, <1>3, <1>4, <1>5, <1>6 DEF ReadsShow

LEMMA ReportCounts ==
    ASSUME PollerTypeOK, OnlyPolled, Mirrored, Report PROVE Counts(gauges')
<1>1. \A p \in StoreParts : gauges'[p] = Cardinality(DOMAIN StoreContents[p])
  BY DEF Report, StoreParts, StoreContents
<1> QED
  BY <1>1, StoreIsCounted DEF Counts

LEMMA GaugesStep ==
    ASSUME PollerTypeOK, OnlyPolled, AtRest => Mirrored, [PollerNext]_pollerVars,
           phase \in {"idle", "stopped"} => Counts(gauges)
    PROVE  phase' \in {"idle", "stopped"} => Counts(gauges')
<1>1. CASE Report
  BY <1>1, ReportCounts DEF Report, AtRest
<1>2. CASE ~Report
  <2>1. gauges' = gauges /\ (phase' \in {"idle", "stopped"} => phase \in {"idle", "stopped"})
    BY <1>2 DEF PollerNext, PollerStep, pollerVars, ClusterChange, Cancel, StartCycle, StartPoll,
           ListSucceeds, ListFails, FinishPoll, EnrichClaims, EnrichXRs, EnrichMRs, SkipPersist,
           PersistSucceeds, PersistFails, Stop
  <2> QED
    BY <2>1
<1> QED
  BY <1>1, <1>2

LEMMA ReadsStep ==
    ASSUME PollerTypeOK, OnlyPolled, Mirrored, Counts(gauges), ReadsShow(request, read),
           request = "none" => read = NothingRead, [ReadersNext]_readersVars
    PROVE  ReadsShow(request', read')
<1>1. CASE UNCHANGED readerVars
  BY <1>1 DEF readerVars
<1>2. CASE Ask
  BY <1>2 DEF Ask, NothingRead, ReadsShow
<1>3. ASSUME NEW p \in StoreParts, ReadStore(p) PROVE ReadsShow(request', read')
  <2>1. IsMap(StoreContents[p], PartInfo(p)) /\ PartMirrors(p, StoreContents[p])
    BY StorePartIsMap, StorePartMirrors DEF PollerTypeOK
  <2>2. request = "scrape" => Measures(p, read'[p])
    <3>1. Measures(p, Collect(p, StoreContents[p]))
      BY <2>1, MirrorIsMeasured
    <3> QED
      BY <1>3, <3>1, ReadStoreAdds
  <2>3. request = "bookkeeping" => Shows(p, read'[p])
    BY <1>3, ReadStoreAdds, MirrorShows
  <2>4. p # "gauges"
    BY DEF StoreParts
  <2> QED
    BY <1>3, <2>2, <2>3, <2>4, ReadStoreAdds DEF ReadsShow
<1>4. CASE ReadGauges
  BY <1>4, ReadGaugesAdds DEF ReadsShow, StoreParts
<1>5. CASE Answer
  BY <1>5 DEF Answer, ReadsShow
<1> QED
  BY <1>1, <1>2, <1>3, <1>4, <1>5 DEF ReadersNext, HandlerStep, readersVars, readerVars

(***************************************************************************)
(* The safety part of ResponsesConverge.  When the cluster stands still    *)
(* and no list fails from the beginning of some cycle on, every request    *)
(* that begins after its end gets all objects of the cluster and no        *)
(* others, and a scrape one series for each and their numbers, although    *)
(* later cycles replace and enrich the store while its parts are read.     *)
(***************************************************************************)
THEOREM ResponsesShowCluster ==
    ASSUME NoSharedKeys
    PROVE  ReadersSpec =>
              [](CycleBegins /\ [][StillStands]_readersVars
                    => [](phase = "idle" /\ request = "none" => []ShowsAtAnswer))
<1> DEFINE Inv == /\ PollerTypeOK /\ EnrichedInv /\ ListInv /\ WaitingInv /\ OnlyPolled
                  /\ request = "none" => read = NothingRead
           Still == StillInv /\ (phase \in {"idle", "stopped"} => Counts(gauges))
           Good == Mirrored /\ Counts(gauges) /\ ReadsShow(request, read)
<1>1. ReadersInit => Inv
  BY PollerTypeInit, EnrichedInit, ListInit, WaitingInit, OnlyPolledInit DEF ReadersInit
<1>2. Inv /\ [ReadersNext]_readersVars => Inv'
  <2> SUFFICES ASSUME Inv, [ReadersNext]_readersVars PROVE Inv'
    OBVIOUS
  <2>1. [PollerNext]_pollerVars
    BY ReadersPoll
  <2>2. (request = "none" => read = NothingRead)'
    BY DEF ReadersNext, Ask, HandlerStep, ReadStore, ReadGauges, Answer, readersVars, readerVars
  <2> QED
    BY <2>1, <2>2, PollerTypeStep, EnrichedStep, ListStep, WaitingStep, OnlyPolledStep
<1>3. Inv /\ CycleBegins => Still
  BY StillBegins DEF CycleBegins
<1>4. Inv /\ Still => (AtRest => Mirrored)
  BY RestIsMirrored
<1>5. UNCHANGED pollerVars => /\ UNCHANGED <<cluster, phase, status, at, items, errs, gauges>>
                             /\ Polled' = Polled /\ StoreContents' = StoreContents
                             /\ \A g, n : SoFar(g, n)' = SoFar(g, n)
                             /\ \A h : Wanted(h)' = Wanted(h)
  BY SameThere DEF pollerVars, Polled, StoreContents
<1>6. [ReadersNext]_readersVars /\ [StillStands]_readersVars
        => /\ [PollerNext]_pollerVars
           /\ UNCHANGED pollerVars \/ StillStands
           /\ UNCHANGED cluster /\ Polled' = Polled
  BY ReadersPoll, CfgStays, <1>5 DEF readersVars, StillStands
<1>7. Inv /\ Still /\ [ReadersNext]_readersVars /\ [StillStands]_readersVars => Still'
  <2> SUFFICES ASSUME Inv, Still, [ReadersNext]_readersVars, [StillStands]_readersVars
               PROVE  Still'
    OBVIOUS
  <2>1. StillInv'
    <3>1. CASE UNCHANGED pollerVars
      BY <1>5, <3>1 DEF StillInv
    <3>2. CASE StillStands
      BY <1>6, <3>2, StillStep
    <3> QED
      BY <1>6, <3>1, <3>2
  <2>2. phase' \in {"idle", "stopped"} => Counts(gauges')
    BY <1>4, <1>6, GaugesStep
  <2> QED
    BY <1>6, <2>1, <2>2, ShownStays
<1>8. Inv /\ Still => (phase = "idle" /\ request = "none" => Good)
  BY <1>4 DEF AtRest, ReadsShow
<1>9. Inv /\ Still /\ Good /\ [ReadersNext]_readersVars /\ [StillStands]_readersVars => Good'
  <2> SUFFICES ASSUME Inv, Still, Good, [ReadersNext]_readersVars, [StillStands]_readersVars
               PROVE  Good'
    OBVIOUS
  <2>1. Mirrored'
    <3>1. CASE UNCHANGED pollerVars
      BY <1>5, <3>1 DEF Mirrored
    <3>2. CASE StillStands
      BY <1>6, <3>2, MirroredStays
    <3> QED
      BY <1>6, <3>1, <3>2
  <2>2. Counts(gauges')
    <3>1. CASE Report
      BY <3>1, ReportCounts
    <3>2. CASE ~Report
      BY <1>6, <3>2 DEF PollerNext, PollerStep, pollerVars, ClusterChange, Cancel, StartCycle,
         StartPoll, ListSucceeds, ListFails, FinishPoll, EnrichClaims, EnrichXRs, EnrichMRs,
         SkipPersist, PersistSucceeds, PersistFails, Stop
    <3> QED
      BY <3>1, <3>2
  <2>3. ReadsShow(request', read')
    BY ReadsStep
  <2> QED
    BY <1>6, <2>1, <2>2, <2>3, ShownStays
<1>10. Inv /\ Good => ShowsAtAnswer
  <2> SUFFICES ASSUME Inv, Good, Answered
               PROVE  IF request = "scrape" THEN MeasuresCluster ELSE ShowsCluster
    BY DEF ShowsAtAnswer
  <2>1. CASE request = "scrape"
    BY <2>1 DEF Answered, ReadsShow, MeasuresCluster
  <2>2. CASE request # "scrape"
    <3>1. request = "bookkeeping" /\ DOMAIN read = StoreParts
      BY <2>2 DEF Answered
    <3>2. \A p \in StoreParts : Shows(p, read[p])
      BY <3>1 DEF ReadsShow
    <3> QED
      BY <2>2, <3>2, ShownIsCluster
  <2> QED
    BY <2>1, <2>2
<1> HIDE DEF Inv, Still, Good
<1> QED
  BY <1>1, <1>2, <1>3, <1>7, <1>8, <1>9, <1>10, PTL DEF ReadersSpec
=============================================================================
