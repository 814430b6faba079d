---------------------------- MODULE PollerListProofs ----------------------------
(***************************************************************************)
(* When no two kinds share object keys, the store holds of each GVR what   *)
(* its poll listed, only complete snapshots reach the bucket, and a link   *)
(* that the enrichment fills in is one between what is stored.             *)
(***************************************************************************)
EXTENDS PollerProofs

(***************************************************************************)
(* Objects of a GVR are under keys of the GVR, in the cluster, in the jobs *)
(* and in the store.                                                       *)
(***************************************************************************)
OwnKeys(m, g) == \A k \in DOMAIN m : k \in KeysOf(g) /\ m[k].gvr = g

AllOwnKeys(m) == \A k \in DOMAIN m : k \in KeysOf(m[k].gvr)

LEMMA ListsOwnKeys == \A g \in AllGVRs : \A m \in Lists[g] : OwnKeys(m, g)
<1> SUFFICES ASSUME NEW g \in AllGVRs, NEW m \in Lists[g] PROVE OwnKeys(m, g)
  OBVIOUS
<1>1. PICK D \in SUBSET {KeyOf(o) : o \in Objects[g]} :
            m \in {n \in [D -> Objects[g]] : \A k \in D : KeyOf(n[k]) = k}
  BY DEF Lists
<1>2. \A k \in DOMAIN m : m[k] \in Objects[g] /\ k \in KeysOf(g)
  BY <1>1 DEF KeysOf
<1>3. \A o \in Objects[g] : o.gvr = g
  BY ObjectsAssumption DEF AllGVRs
<1>4. QED  BY <1>2, <1>3 DEF OwnKeys

LEMMA ReplaceOwnKeys ==
    ASSUME NEW m, AllOwnKeys(m), NEW g, NEW objects, OwnKeys(objects, g)
    PROVE  AllOwnKeys(Replace(m, g, objects))
<1> DEFINE n == Replace(m, g, objects)
<1>1. ASSUME NEW k \in DOMAIN n PROVE k \in KeysOf(n[k].gvr)
  <2>1. CASE k \in DOMAIN objects
    <3>1. n[k] = objects[k]
      BY <2>1 DEF Replace, Overwrite
    <3>2. QED  BY <2>1, <3>1 DEF OwnKeys
  <2>2. CASE k \notin DOMAIN objects
    <3>1. k \in DOMAIN m /\ n[k] = m[k]
      BY <1>1, <2>2 DEF Replace, Overwrite, Restrict
    <3>2. QED  BY <3>1 DEF AllOwnKeys
  <2>3. QED  BY <2>1, <2>2
<1>2. QED  BY <1>1 DEF AllOwnKeys

(***************************************************************************)
(* Replace does not touch the entries of another GVR of the same kind.     *)
(***************************************************************************)
LEMMA ReplaceKeepsOthers ==
    ASSUME NEW m, AllOwnKeys(m), NEW g, NEW objects, OwnKeys(objects, g),
           NEW h, h # g, KeysOf(g) \cap KeysOf(h) = {}
    PROVE  /\ EntriesOf(Replace(m, g, objects), h) = EntriesOf(m, h)
           /\ \A k \in EntriesOf(m, h) : Replace(m, g, objects)[k] = m[k]
<1>1. EntriesOf(m, h) \cap DOMAIN objects = {}
  BY DEF EntriesOf, AllOwnKeys, OwnKeys
<1>2. \A k \in DOMAIN objects : objects[k].gvr = g
  BY DEF OwnKeys
<1>3. /\ EntriesOf(Replace(m, g, objects), h) = EntriesOf(m, h) \ DOMAIN objects
      /\ \A k \in EntriesOf(m, h) \ DOMAIN objects : Replace(m, g, objects)[k] = m[k]
  BY <1>2, ReplaceEntries
<1>4. EntriesOf(m, h) \ DOMAIN objects = EntriesOf(m, h)
  BY <1>1
<1>5. QED  BY <1>3, <1>4

(***************************************************************************)
(* An enriched entry is still the object that was listed.                  *)
(***************************************************************************)
LEMMA EnrichKeepsClaims ==
    ASSUME StoreTypeOK, EnrichClaimCompositions
    PROVE  /\ DOMAIN claims' = DOMAIN claims
           /\ \A k \in DOMAIN claims :
                /\ claims'[k].gvr = claims[k].gvr
                /\ \A o \in ClaimInfo : SameClaim(claims[k], o) => SameClaim(claims'[k], o)
<1>1. ASSUME NEW k \in DOMAIN claims
      PROVE  /\ claims'[k].gvr = claims[k].gvr
             /\ \A o \in ClaimInfo : SameClaim(claims[k], o) => SameClaim(claims'[k], o)
  <2>1. claims[k] \in ClaimInfo
    BY DEF StoreTypeOK, IsMap
  <2>2. CASE RefersTo(claims[k], xrs)
    <3> DEFINE c == xrs[ObjectKey(NoNS, claims[k].xrRef)].composition
    <3>1. claims'[k] = [claims[k] EXCEPT !.composition = c]
      BY <2>2 DEF EnrichClaimCompositions
    <3> HIDE DEF c
    <3>2. QED  BY <2>1, <3>1 DEF ClaimInfo, SameClaim
  <2>3. CASE ~RefersTo(claims[k], xrs)
    BY <2>3 DEF EnrichClaimCompositions
  <2>4. QED  BY <2>2, <2>3
<1>2. QED  BY <1>1 DEF EnrichClaimCompositions

LEMMA EnrichKeepsXRs ==
    ASSUME StoreTypeOK, EnrichXRClaims
    PROVE  /\ DOMAIN xrs' = DOMAIN xrs
           /\ \A k \in DOMAIN xrs :
                /\ xrs'[k].gvr = xrs[k].gvr
                /\ \A o \in XRInfo : SameLinked(xrs[k], o) => SameLinked(xrs'[k], o)
<1>1. ASSUME NEW k \in DOMAIN xrs
      PROVE  /\ xrs'[k].gvr = xrs[k].gvr
             /\ \A o \in XRInfo : SameLinked(xrs[k], o) => SameLinked(xrs'[k], o)
  <2>1. xrs[k] \in XRInfo
    BY DEF StoreTypeOK, IsMap
  <2>2. CASE k \in Linkable
    <3>1. PICK c \in Referrers(xrs[k]) :
            xrs'[k] = [xrs[k] EXCEPT !.claimName = claims[c].name, !.claimNS = claims[c].ns]
      BY <2>2, EnrichXRsEffect
    <3>2. xrs[k].claimName = NoName
      BY <2>2 DEF Linkable
    <3>3. xrs'[k].gvr = xrs[k].gvr
      BY <2>1, <3>1 DEF XRInfo
    <3>4. \A o \in XRInfo : SameLinked(xrs[k], o) => SameLinked(xrs'[k], o)
      BY <2>1, <3>1, <3>2 DEF XRInfo, SameLinked
    <3>5. QED  BY <3>3, <3>4
  <2>3. CASE k \notin Linkable
    BY <2>3, EnrichXRsEffect
  <2>4. QED  BY <2>2, <2>3
<1>2. QED  BY <1>1, EnrichXRsEffect

LEMMA EnrichKeepsMRs ==
    ASSUME StoreTypeOK, EnrichMRClaims
    PROVE  /\ DOMAIN mrs' = DOMAIN mrs
           /\ \A k \in DOMAIN mrs :
                /\ mrs'[k].gvr = mrs[k].gvr
                /\ \A o \in MRInfo : SameLinked(mrs[k], o) => SameLinked(mrs'[k], o)
<1>1. ASSUME NEW k \in DOMAIN mrs
      PROVE  /\ mrs'[k].gvr = mrs[k].gvr
             /\ \A o \in MRInfo : SameLinked(mrs[k], o) => SameLinked(mrs'[k], o)
  <2>1. mrs[k] \in MRInfo
    BY DEF StoreTypeOK, IsMap
  <2>2. CASE mrs[k].claimName = NoName /\ BackedBy(mrs[k], xrs)
    <3> DEFINE xr == xrs[ObjectKey(NoNS, mrs[k].xrName)]
    <3>1. mrs'[k] = [mrs[k] EXCEPT !.claimName = xr.claimName, !.claimNS = xr.claimNS]
      BY <2>2 DEF EnrichMRClaims
    <3>2. mrs'[k].gvr = mrs[k].gvr
      BY <2>1, <3>1 DEF MRInfo
    <3> HIDE DEF xr
    <3>3. \A o \in MRInfo : SameLinked(mrs[k], o) => SameLinked(mrs'[k], o)
      BY <2>1, <2>2, <3>1 DEF MRInfo, SameLinked
    <3>4. QED  BY <3>2, <3>3
  <2>3. CASE ~(mrs[k].claimName = NoName /\ BackedBy(mrs[k], xrs))
    BY <2>3 DEF EnrichMRClaims
  <2>4. QED  BY <2>2, <2>3
<1>2. QED  BY <1>1 DEF EnrichMRClaims

(***************************************************************************)
(* A poll leaves in the store what it listed.                              *)
(***************************************************************************)
LEMMA PublishedIsHeld ==
    ASSUME PollerTypeOK, NEW g \in AllGVRs, OwnKeys(items[g], g), Publish(g)
    PROVE  Holds(StoreContents', g, items[g])
<1>1. \A k \in DOMAIN items[g] : items[g][k].gvr = g
  BY DEF OwnKeys
<1>2. IsMap(items[g], KindInfo(g))
  BY DEF PollerTypeOK
<1>3. CASE g \in ClaimGVRs
  <2>1. claims' = Replace(claims, g, items[g])
    BY <1>3, KindOfGVR DEF Publish, ReplaceClaims
  <2>2. /\ EntriesOf(claims', g) = DOMAIN items[g]
        /\ \A k \in DOMAIN items[g] : claims'[k] = items[g][k]
    BY <1>1, <2>1, ReplaceEntries
  <2>3. \A k \in DOMAIN items[g] : items[g][k] \in ClaimInfo
    BY <1>2, <1>3, KindOfGVR DEF IsMap
  <2>4. \A k \in DOMAIN items[g] : SameClaim(claims'[k], items[g][k])
    BY <2>2, <2>3 DEF SameClaim, ClaimInfo
  <2>5. g \notin XRGVRs /\ g \notin MRGVRs
    BY <1>3, KindsAssumption
  <2>6. QED  BY <2>2, <2>4, <2>5 DEF Holds, StoreContents
<1>4. CASE g \in XRGVRs
  <2>1. xrs' = Replace(xrs, g, items[g])
    BY <1>4, KindOfGVR DEF Publish, ReplaceXRs
  <2>2. /\ EntriesOf(xrs', g) = DOMAIN items[g]
        /\ \A k \in DOMAIN items[g] : xrs'[k] = items[g][k]
    BY <1>1, <2>1, ReplaceEntries
  <2>3. \A k \in DOMAIN items[g] : items[g][k] \in XRInfo
    BY <1>2, <1>4, KindOfGVR DEF IsMap
  <2>4. \A k \in DOMAIN items[g] : SameLinked(xrs'[k], items[g][k])
    BY <2>2, <2>3 DEF SameLinked, XRInfo
  <2>5. g \notin ClaimGVRs /\ g \notin MRGVRs
    BY <1>4, KindsAssumption
  <2>6. QED  BY <2>2, <2>4, <2>5 DEF Holds, StoreContents
<1>5. CASE g \in MRGVRs
  <2>1. mrs' = Replace(mrs, g, items[g])
    BY <1>5, KindOfGVR DEF Publish, ReplaceMRs
  <2>2. /\ EntriesOf(mrs', g) = DOMAIN items[g]
        /\ \A k \in DOMAIN items[g] : mrs'[k] = items[g][k]
    BY <1>1, <2>1, ReplaceEntries
  <2>3. \A k \in DOMAIN items[g] : items[g][k] \in MRInfo
    BY <1>2, <1>5, KindOfGVR DEF IsMap
  <2>4. \A k \in DOMAIN items[g] : SameLinked(mrs'[k], items[g][k])
    BY <2>2, <2>3 DEF SameLinked, MRInfo
  <2>5. g \notin ClaimGVRs /\ g \notin XRGVRs
    BY <1>5, KindsAssumption
  <2>6. QED  BY <2>2, <2>4, <2>5 DEF Holds, StoreContents
<1>6. QED  BY <1>3, <1>4, <1>5 DEF AllGVRs

(***************************************************************************)
(* It leaves there what other polls listed, since the keys are different.  *)
(***************************************************************************)
StoreOwnKeys == AllOwnKeys(claims) /\ AllOwnKeys(xrs) /\ AllOwnKeys(mrs)

LEMMA PublishKeepsOthers ==
    ASSUME NoSharedKeys, StoreOwnKeys, NEW g \in AllGVRs, OwnKeys(items[g], g), Publish(g),
           NEW h \in AllGVRs, h # g, NEW objects, Holds(StoreContents, h, objects)
    PROVE  Holds(StoreContents', h, objects)
<1>1. CASE g \in ClaimGVRs
  <2>1. claims' = Replace(claims, g, items[g]) /\ xrs' = xrs /\ mrs' = mrs
    BY <1>1, KindOfGVR DEF Publish, ReplaceClaims
  <2>2. CASE h \in ClaimGVRs
    <3>1. KeysOf(g) \cap KeysOf(h) = {}
      BY <1>1, <2>2 DEF NoSharedKeys
    <3>2. /\ EntriesOf(claims', h) = EntriesOf(claims, h)
          /\ \A k \in EntriesOf(claims, h) : claims'[k] = claims[k]
      BY <2>1, <3>1, ReplaceKeepsOthers DEF StoreOwnKeys
    <3>3. EntriesOf(claims, h) = DOMAIN objects
      BY <2>2 DEF Holds, StoreContents
    <3>4. \A k \in DOMAIN objects : SameClaim(claims'[k], objects[k])
      BY <2>2, <3>2, <3>3 DEF Holds, StoreContents
    <3>5. h \notin XRGVRs /\ h \notin MRGVRs
      BY <2>2, KindsAssumption
    <3>6. QED  BY <3>2, <3>3, <3>4, <3>5 DEF Holds, StoreContents
  <2>3. CASE h \notin ClaimGVRs
    BY <2>1, <2>3 DEF Holds, StoreContents
  <2>4. QED  BY <2>2, <2>3
<1>2. CASE g \in XRGVRs
  <2>1. xrs' = Replace(xrs, g, items[g]) /\ claims' = claims /\ mrs' = mrs
    BY <1>2, KindOfGVR DEF Publish, ReplaceXRs
  <2>2. CASE h \in XRGVRs
    <3>1. KeysOf(g) \cap KeysOf(h) = {}
      BY <1>2, <2>2 DEF NoSharedKeys
    <3>2. /\ EntriesOf(xrs', h) = EntriesOf(xrs, h)
          /\ \A k \in EntriesOf(xrs, h) : xrs'[k] = xrs[k]
      BY <2>1, <3>1, ReplaceKeepsOthers DEF StoreOwnKeys
    <3>3. EntriesOf(xrs, h) = DOMAIN objects
      BY <2>2 DEF Holds, StoreContents
    <3>4. \A k \in DOMAIN objects : SameLinked(xrs'[k], objects[k])
      BY <2>2, <3>2, <3>3 DEF Holds, StoreContents
    <3>5. h \notin ClaimGVRs /\ h \notin MRGVRs
      BY <2>2, KindsAssumption
    <3>6. QED  BY <3>2, <3>3, <3>4, <3>5 DEF Holds, StoreContents
  <2>3. CASE h \notin XRGVRs
    BY <2>1, <2>3 DEF Holds, StoreContents
  <2>4. QED  BY <2>2, <2>3
<1>3. CASE g \in MRGVRs
  <2>1. mrs' = Replace(mrs, g, items[g]) /\ claims' = claims /\ xrs' = xrs
    BY <1>3, KindOfGVR DEF Publish, ReplaceMRs
  <2>2. CASE h \in MRGVRs
    <3>1. KeysOf(g) \cap KeysOf(h) = {}
      BY <1>3, <2>2 DEF NoSharedKeys
    <3>2. /\ EntriesOf(mrs', h) = EntriesOf(mrs, h)
          /\ \A k \in EntriesOf(mrs, h) : mrs'[k] = mrs[k]
      BY <2>1, <3>1, ReplaceKeepsOthers DEF StoreOwnKeys
    <3>3. EntriesOf(mrs, h) = DOMAIN objects
      BY <2>2 DEF Holds, StoreContents
    <3>4. \A k \in DOMAIN objects : SameLinked(mrs'[k], objects[k])
      BY <2>2, <3>2, <3>3 DEF Holds, StoreContents
    <3>5. h \notin ClaimGVRs /\ h \notin XRGVRs
      BY <2>2, KindsAssumption
    <3>6. QED  BY <3>2, <3>3, <3>4, <3>5 DEF Holds, StoreContents
  <2>3. CASE h \notin MRGVRs
    BY <2>1, <2>3 DEF Holds, StoreContents
  <2>4. QED  BY <2>2, <2>3
<1>4. QED  BY <1>1, <1>2, <1>3 DEF AllGVRs

LEMMA PublishOwnKeys ==
    ASSUME StoreOwnKeys, NEW g \in AllGVRs, OwnKeys(items[g], g), Publish(g)
    PROVE  StoreOwnKeys'
<1>1. CASE g \in ClaimGVRs
  BY <1>1, KindOfGVR, ReplaceOwnKeys DEF Publish, ReplaceClaims, StoreOwnKeys
<1>2. CASE g \in XRGVRs
  BY <1>2, KindOfGVR, ReplaceOwnKeys DEF Publish, ReplaceXRs, StoreOwnKeys
<1>3. CASE g \in MRGVRs
  BY <1>3, KindOfGVR, ReplaceOwnKeys DEF Publish, ReplaceMRs, StoreOwnKeys
<1>4. QED  BY <1>1, <1>2, <1>3 DEF AllGVRs

(***************************************************************************)
(* The enrichment leaves there what was listed.                            *)
(***************************************************************************)
LEMMA EnrichKeepsHeld ==
    ASSUME PollerTypeOK, EnrichClaimCompositions \/ EnrichXRClaims \/ EnrichMRClaims,
           NEW g \in AllGVRs, NEW objects, IsMap(objects, KindInfo(g)),
           Holds(StoreContents, g, objects)
    PROVE  Holds(StoreContents', g, objects)
<1>1. StoreTypeOK /\ IsMap(objects, KindInfo(g))
  BY DEF PollerTypeOK
<1>2. CASE EnrichClaimCompositions
  <2>1. xrs' = xrs /\ mrs' = mrs
    BY <1>2 DEF EnrichClaimCompositions
  <2>2. CASE g \in ClaimGVRs
    <3>1. EntriesOf(claims', g) = EntriesOf(claims, g)
      BY <1>1, <1>2, EnrichKeepsClaims DEF EntriesOf
    <3>2. /\ EntriesOf(claims, g) = DOMAIN objects
          /\ \A k \in DOMAIN objects : SameClaim(claims[k], objects[k])
      BY <2>2 DEF Holds, StoreContents
    <3>3. \A k \in DOMAIN objects : k \in DOMAIN claims /\ objects[k] \in ClaimInfo
      BY <1>1, <2>2, <3>2, KindOfGVR DEF IsMap, EntriesOf
    <3>4. \A k \in DOMAIN objects : SameClaim(claims'[k], objects[k])
      BY <1>1, <1>2, <3>2, <3>3, EnrichKeepsClaims
    <3>5. g \notin XRGVRs /\ g \notin MRGVRs
      BY <2>2, KindsAssumption
    <3>6. QED  BY <3>1, <3>2, <3>4, <3>5 DEF Holds, StoreContents
  <2>3. CASE g \notin ClaimGVRs
    BY <2>1, <2>3 DEF Holds, StoreContents
  <2>4. QED  BY <2>2, <2>3
<1>3. CASE EnrichXRClaims
  <2>1. claims' = claims /\ mrs' = mrs
    BY <1>3 DEF EnrichXRClaims
  <2>2. CASE g \in XRGVRs
    <3>1. EntriesOf(xrs', g) = EntriesOf(xrs, g)
      BY <1>1, <1>3, EnrichKeepsXRs DEF EntriesOf
    <3>2. /\ EntriesOf(xrs, g) = DOMAIN objects
          /\ \A k \in DOMAIN objects : SameLinked(xrs[k], objects[k])
      BY <2>2 DEF Holds, StoreContents
    <3>3. \A k \in DOMAIN objects : k \in DOMAIN xrs /\ objects[k] \in XRInfo
      BY <1>1, <2>2, <3>2, KindOfGVR DEF IsMap, EntriesOf
    <3>4. \A k \in DOMAIN objects : SameLinked(xrs'[k], objects[k])
      BY <1>1, <1>3, <3>2, <3>3, EnrichKeepsXRs
    <3>5. g \notin ClaimGVRs /\ g \notin MRGVRs
      BY <2>2, KindsAssumption
    <3>6. QED  BY <3>1, <3>2, <3>4, <3>5 DEF Holds, StoreContents
  <2>3. CASE g \notin XRGVRs
    BY <2>1, <2>3 DEF Holds, StoreContents
  <2>4. QED  BY <2>2, <2>3
<1>4. CASE EnrichMRClaims
  <2>1. claims' = claims /\ xrs' = xrs
    BY <1>4 DEF EnrichMRClaims
  <2>2. CASE g \in MRGVRs
    <3>1. EntriesOf(mrs', g) = EntriesOf(mrs, g)
      BY <1>1, <1>4, EnrichKeepsMRs DEF EntriesOf
    <3>2. /\ EntriesOf(mrs, g) = DOMAIN objects
          /\ \A k \in DOMAIN objects : SameLinked(mrs[k], objects[k])
      BY <2>2 DEF Holds, StoreContents
    <3>3. \A k \in DOMAIN objects : k \in DOMAIN mrs /\ objects[k] \in MRInfo
      BY <1>1, <2>2, <3>2, KindOfGVR DEF IsMap, EntriesOf
    <3>4. \A k \in DOMAIN objects : SameLinked(mrs'[k], objects[k])
      BY <1>1, <1>4, <3>2, <3>3, EnrichKeepsMRs
    <3>5. g \notin ClaimGVRs /\ g \notin XRGVRs
      BY <2>2, KindsAssumption
    <3>6. QED  BY <3>1, <3>2, <3>4, <3>5 DEF Holds, StoreContents
  <2>3. CASE g \notin MRGVRs
    BY <2>1, <2>3 DEF Holds, StoreContents
  <2>4. QED  BY <2>2, <2>3
<1>5. QED  BY <1>2, <1>3, <1>4

LEMMA EnrichOwnKeys ==
    ASSUME StoreTypeOK, StoreOwnKeys,
           EnrichClaimCompositions \/ EnrichXRClaims \/ EnrichMRClaims
    PROVE  StoreOwnKeys'
<1>1. CASE EnrichClaimCompositions
  <2>1. xrs' = xrs /\ mrs' = mrs
    BY <1>1 DEF EnrichClaimCompositions
  <2>2. AllOwnKeys(claims')
    BY <1>1, EnrichKeepsClaims DEF StoreOwnKeys, AllOwnKeys
  <2>3. QED  BY <2>1, <2>2 DEF StoreOwnKeys
<1>2. CASE EnrichXRClaims
  <2>1. claims' = claims /\ mrs' = mrs
    BY <1>2 DEF EnrichXRClaims
  <2>2. AllOwnKeys(xrs')
    BY <1>2, EnrichKeepsXRs DEF StoreOwnKeys, AllOwnKeys
  <2>3. QED  BY <2>1, <2>2 DEF StoreOwnKeys
<1>3. CASE EnrichMRClaims
  <2>1. claims' = claims /\ xrs' = xrs
    BY <1>3 DEF EnrichMRClaims
  <2>2. AllOwnKeys(mrs')
    BY <1>3, EnrichKeepsMRs DEF StoreOwnKeys, AllOwnKeys
  <2>3. QED  BY <2>1, <2>2 DEF StoreOwnKeys
<1>4. QED  BY <1>1, <1>2, <1>3

(***************************************************************************)
(* The inductive invariant.  Of the jobs it says that they hold objects of *)
(* their own GVR and that none is left when the cycle goes on; of the      *)
(* store, that every entry is under a key of its own GVR, which is what    *)
(* makes a poll of one kind harmless to another.                           *)
(***************************************************************************)
ListInv ==
    /\ \A g \in AllGVRs : OwnKeys(items[g], g)
    /\ StoreOwnKeys
    /\ phase \in {"enrichXRs", "enrichMRs", "persist"} => \A g \in Polled : status[g] = "done"
    /\ StoreMatchesLists

LEMMA PolledAreGVRs == ASSUME cfg \in Config PROVE Polled \subseteq AllGVRs
  BY DEF Config, Polled, Range, AllGVRs

LEMMA ListInit == PollerInit => ListInv
<1> SUFFICES ASSUME PollerInit PROVE ListInv
  OBVIOUS
<1>1. \A g \in AllGVRs : items[g] = EmptyMap /\ status[g] = "waiting"
  BY DEF PollerInit, NoPolls
<1>2. DOMAIN EmptyMap = {}
  BY DEF EmptyMap
<1>3. StoreOwnKeys
  BY <1>2 DEF PollerInit, StoreInit, StoreOwnKeys, AllOwnKeys
<1>4. \A g \in Polled : status[g] # "done"
  BY <1>1, PolledAreGVRs, PollerTypeInit DEF PollerTypeOK
<1>5. QED  BY <1>1, <1>2, <1>3, <1>4 DEF ListInv, OwnKeys, StoreMatchesLists, PollerInit

LEMMA OverwriteOwnKeys ==
    ASSUME NEW g, NEW m, OwnKeys(m, g), NEW n, OwnKeys(n, g)
    PROVE  OwnKeys(Overwrite(m, n), g)
  BY DEF OwnKeys, Overwrite

LEMMA ListedOwnKeys ==
    ASSUME NEW g \in AllGVRs, cluster[g] \in Lists[g], NEW ns
    PROVE  OwnKeys(Listed(g, ns), g)
<1>1. OwnKeys(cluster[g], g)
  BY ListsOwnKeys
<1>2. QED  BY <1>1 DEF OwnKeys, Listed, Restrict

LEMMA ListStep ==
    NoSharedKeys /\ PollerTypeOK /\ ListInv /\ [PollerNext]_pollerVars => ListInv'
<1> SUFFICES ASSUME NoSharedKeys, PollerTypeOK, ListInv, [PollerNext]_pollerVars
             PROVE  ListInv'
  OBVIOUS
<1> USE DEF ListInv
<1>1. ASSUME UNCHANGED <<storeVars, cfg, status, items, errs>>,
             phase' \in {"enrichXRs", "enrichMRs", "persist"} => phase' = phase
      PROVE  ListInv'
  BY <1>1 DEF storeVars, StoreOwnKeys, StoreMatchesLists, StoreContents, Polled
<1>2. ASSUME NEW g \in AllGVRs, ClusterChange(g) PROVE ListInv'
  BY <1>1, <1>2 DEF ClusterChange, jobVars
<1>3. CASE Cancel \/ Stop \/ SkipPersist \/ PersistSucceeds \/ PersistFails \/ Report
  BY <1>1, <1>3 DEF Cancel, Stop, SkipPersist, PersistSucceeds, PersistFails, Report, jobVars
<1>4. CASE StartCycle
  <2>1. \A g \in AllGVRs : items'[g] = EmptyMap /\ status'[g] = "waiting"
    BY <1>4 DEF StartCycle, NoPolls
  <2>2. UNCHANGED <<storeVars, cfg>> /\ phase' = "listing"
    BY <1>4 DEF StartCycle
  <2>3. Polled' \subseteq AllGVRs
    BY <2>2, PolledAreGVRs DEF PollerTypeOK, Polled
  <2>4. \A g \in AllGVRs : OwnKeys(items'[g], g)
    BY <2>1 DEF OwnKeys, EmptyMap
  <2>5. StoreMatchesLists'
    BY <2>1, <2>3 DEF StoreMatchesLists
  <2>6. QED  BY <2>2, <2>4, <2>5 DEF storeVars, StoreOwnKeys
<1>5. ASSUME NEW g \in AllGVRs, StartPoll(g) PROVE ListInv'
  <2>1. status' = [status EXCEPT ![g] = "running"] /\ phase = "listing"
    BY <1>5 DEF StartPoll
  <2>2. UNCHANGED <<storeVars, cfg, phase, items, errs>>
    BY <1>5 DEF StartPoll
  <2>3. \A h \in AllGVRs : status'[h] = "done" => status[h] = "done"
    BY <2>1 DEF PollerTypeOK
  <2>4. Polled' = Polled /\ Polled \subseteq AllGVRs
    BY <2>2, PolledAreGVRs DEF PollerTypeOK, Polled
  <2>5. StoreContents' = StoreContents
    BY <2>2 DEF storeVars, StoreContents
  <2>6. StoreMatchesLists'
    BY <2>2, <2>3, <2>4, <2>5 DEF StoreMatchesLists
  <2>7. QED  BY <2>1, <2>2, <2>6 DEF storeVars, StoreOwnKeys
<1>6. ASSUME NEW g \in AllGVRs, status[g] = "running", UNCHANGED <<storeVars, cfg, phase, status>>,
             OwnKeys(items'[g], g),
             \A h \in AllGVRs \ {g} : items'[h] = items[h] /\ errs'[h] = errs[h]
      PROVE  ListInv'
  <2>1. Polled' = Polled /\ Polled \subseteq AllGVRs
    BY <1>6, PolledAreGVRs DEF PollerTypeOK, Polled
  <2>2. StoreContents' = StoreContents
    BY <1>6 DEF storeVars, StoreContents
  <2>3. StoreMatchesLists'
    BY <1>6, <2>1, <2>2 DEF StoreMatchesLists
  <2>4. \A h \in AllGVRs : OwnKeys(items'[h], h)
    BY <1>6
  <2>5. QED  BY <1>6, <2>1, <2>3, <2>4 DEF storeVars, StoreOwnKeys
<1>7. ASSUME NEW g \in AllGVRs, ListSucceeds(g) PROVE ListInv'
  <2>1. /\ items' = [items EXCEPT ![g] = Overwrite(items[g], Listed(g, Targets[at[g]]))]
        /\ status[g] = "running"
        /\ UNCHANGED <<storeVars, cfg, phase, status, errs>>
    BY <1>7 DEF ListSucceeds, Listing
  <2>2. OwnKeys(Overwrite(items[g], Listed(g, Targets[at[g]])), g)
    BY OverwriteOwnKeys, ListedOwnKeys DEF PollerTypeOK
  <2>3. OwnKeys(items'[g], g) /\ \A h \in AllGVRs \ {g} : items'[h] = items[h]
    BY <2>1, <2>2 DEF PollerTypeOK
  <2>4. QED  BY <1>6, <2>1, <2>3
<1>8. ASSUME NEW g \in AllGVRs, ListFails(g) PROVE ListInv'
  BY <1>6, <1>8 DEF ListFails, Listing, PollerTypeOK
<1>9. ASSUME NEW g \in AllGVRs, FinishPoll(g) PROVE ListInv'
  <2>1. UNCHANGED <<cfg, phase, items, errs>> /\ status' = [status EXCEPT ![g] = "done"]
    BY <1>9 DEF FinishPoll
  <2>2. Polled' = Polled /\ Polled \subseteq AllGVRs
    BY <2>1, PolledAreGVRs DEF PollerTypeOK, Polled
  <2>3. \A h \in AllGVRs \ {g} : status'[h] = status[h]
    BY <2>1 DEF PollerTypeOK
  <2>4. phase' \in {"enrichXRs", "enrichMRs", "persist"} => \A h \in Polled' : status'[h] = "done"
    BY <2>1, <2>2 DEF PollerTypeOK
  <2>5. CASE KeepsStore(g)
    <3>1. UNCHANGED storeVars
      BY <1>9, <2>5 DEF FinishPoll
    <3>2. StoreContents' = StoreContents
      BY <3>1 DEF storeVars, StoreContents
    <3>3. StoreMatchesLists'
      BY <2>1, <2>2, <2>3, <2>5, <3>2 DEF StoreMatchesLists, KeepsStore
    <3>4. QED  BY <2>1, <2>4, <3>1, <3>3 DEF storeVars, StoreOwnKeys
  <2>6. CASE ~KeepsStore(g)
    <3>1. Publish(g)
      BY <1>9, <2>6 DEF FinishPoll
    <3>2. StoreOwnKeys'
      BY <3>1, PublishOwnKeys
    <3>3. Holds(StoreContents', g, items[g])
      BY <3>1, PublishedIsHeld
    <3>4. ASSUME NEW h \in Polled, h # g, status[h] = "done", Scope # <<>> \/ ~errs[h]
          PROVE  Holds(StoreContents', h, items[h])
      <4>1. Holds(StoreContents, h, items[h])
        BY <3>4 DEF StoreMatchesLists
      <4>2. QED  BY <2>2, <3>1, <3>4, <4>1, PublishKeepsOthers
    <3>5. StoreMatchesLists'
      BY <2>1, <2>2, <2>3, <3>3, <3>4 DEF StoreMatchesLists
    <3>6. QED  BY <2>1, <2>4, <3>2, <3>5
  <2>7. QED  BY <2>5, <2>6
<1>10. ASSUME EnrichClaimCompositions \/ EnrichXRClaims \/ EnrichMRClaims,
              UNCHANGED <<cfg, status, items, errs>>, \A g \in Polled : status[g] = "done"
       PROVE  ListInv'
  <2>1. Polled' = Polled /\ Polled \subseteq AllGVRs
    BY <1>10, PolledAreGVRs DEF PollerTypeOK, Polled
  <2>2. StoreMatchesLists'
    BY <1>10, <2>1, EnrichKeepsHeld DEF StoreMatchesLists, PollerTypeOK
  <2>3. StoreOwnKeys'
    BY <1>10, EnrichOwnKeys DEF PollerTypeOK
  <2>4. QED  BY <1>10, <2>1, <2>2, <2>3
<1>11. CASE EnrichClaims \/ EnrichXRs \/ EnrichMRs
  BY <1>10, <1>11 DEF EnrichClaims, EnrichXRs, EnrichMRs, jobVars
<1>12. CASE UNCHANGED pollerVars
  BY <1>1, <1>12 DEF pollerVars, storeVars
<1>13. QED
  BY <1>2, <1>3, <1>4, <1>5, <1>7, <1>8, <1>9, <1>11, <1>12 DEF PollerNext, PollerStep

(***************************************************************************)
(* When no two kinds share keys, the store holds of each GVR, from the end *)
(* of its poll to the next cycle, exactly what the poll listed, whatever   *)
(* other polls run and fail and whatever the enrichment fills in.          *)
(***************************************************************************)
THEOREM StoreIsWhatWasListed ==
    ASSUME NoSharedKeys PROVE PollerSpec => []StoreMatchesLists
<1>1. ListInv => StoreMatchesLists
  BY DEF ListInv
<1>2. PollerTypeOK /\ ListInv /\ [PollerNext]_pollerVars => ListInv'
  BY ListStep
<1>3. QED
  BY <1>1, <1>2, ListInit, PollerTypeCorrect, PTL DEF PollerSpec

(***************************************************************************)
(* Under the same condition the snapshot in the bucket only ever becomes   *)
(* the complete lists of one cycle in which none failed, also when a write *)
(* is reported as failed.                                                  *)
(***************************************************************************)
THEOREM OnlyCompleteSnapshots ==
    ASSUME NoSharedKeys PROVE PollerSpec => SnapshotsAreComplete
<1>1. ASSUME ListInv, PersistSucceeds \/ PersistFails, s3' # s3, NEW g \in Polled
      PROVE  status[g] = "done" /\ ~errs[g] /\ Holds(s3', g, items[g])
  <2>1. phase = "persist" /\ ~HadErrors /\ s3' = StoreContents
    BY <1>1 DEF PersistSucceeds, PersistFails, SkipsPersist
  <2>2. status[g] = "done" /\ ~errs[g]
    BY <1>1, <2>1 DEF ListInv, HadErrors
  <2>3. Holds(StoreContents, g, items[g])
    BY <1>1, <2>2 DEF ListInv, StoreMatchesLists
  <2>4. QED  BY <2>1, <2>2, <2>3
<1>2. [PollerNext]_pollerVars /\ s3' # s3 => PersistSucceeds \/ PersistFails
  BY DEF PollerNext, PollerStep, pollerVars, ClusterChange, Cancel, StartCycle, StartPoll,
         ListSucceeds, ListFails, FinishPoll, EnrichClaims, EnrichXRs, EnrichMRs, SkipPersist,
         Report, Stop
<1>3. ListInv /\ [PollerNext]_pollerVars =>
        [ s3' # s3 => \A g \in Polled : /\ status[g] = "done"
                                        /\ ~errs[g]
                                        /\ Holds(s3', g, items[g]) ]_pollerVars
  BY <1>1, <1>2
<1>4. PollerTypeOK /\ ListInv /\ [PollerNext]_pollerVars => ListInv'
  BY ListStep
<1>5. QED
  BY <1>3, <1>4, ListInit, PollerTypeCorrect, PTL DEF PollerSpec, SnapshotsAreComplete

-----------------------------------------------------------------------------
(***************************************************************************)
(* Links that the enrichment fills in come from what this cycle listed,    *)
(* when no list failed and no two kinds share object keys.                 *)
(*                                                                         *)
(* The entries of the finished polls of one kind, as listed.               *)
(***************************************************************************)
Fresh(m, kind) ==
    \A g \in Polled \cap kind :
        status[g] = "done" /\ ~errs[g] => \A k \in DOMAIN items[g] : m[k] = items[g][k]

XRsLinked ==
    \A g \in Range(cfg.xrs) : \A k \in DOMAIN items[g] :
        items[g][k].claimName = NoName => BackfilledFromClaim(k)

MRsLinked ==
    \A g \in Range(cfg.mrs) : \A k \in DOMAIN items[g] :
        items[g][k].claimName = NoName => BackfilledFromXR(k)

(***************************************************************************)
(* The inductive invariant: until its own enrichment a kind is as listed,  *)
(* and without a link that no label gave; afterwards it is linked.         *)
(***************************************************************************)
LinkInv ==
    /\ phase \in {"listing", "enrichXRs"} => Fresh(xrs, XRGVRs)
    /\ phase \in {"listing", "enrichXRs", "enrichMRs"} => Fresh(mrs, MRGVRs)
    /\ (phase = "enrichMRs" \/ AtRest) /\ ~HadErrors => XRsLinked
    /\ AtRest /\ ~HadErrors => MRsLinked

LEMMA LinkInit == PollerInit => LinkInv
BY DEF PollerInit, LinkInv, AtRest

(***************************************************************************)
(* A poll leaves the kinds of the finished polls as they were listed.      *)
(***************************************************************************)
LEMMA ReplaceIsFresh ==
    ASSUME NEW m, AllOwnKeys(m), NEW g, NEW objects, OwnKeys(objects, g)
    PROVE  \A k \in DOMAIN objects : Replace(m, g, objects)[k] = objects[k]
BY ReplaceEntries DEF OwnKeys

LEMMA FinishedIsFresh ==
    ASSUME NoSharedKeys, PollerTypeOK, ListInv, NEW g \in AllGVRs, FinishPoll(g),
           NEW kind, NEW m, NEW n,
           \/ kind = XRGVRs /\ m = xrs /\ n = xrs'
           \/ kind = MRGVRs /\ m = mrs /\ n = mrs',
           Fresh(m, kind)
    PROVE  \A h \in Polled \cap kind :
               status'[h] = "done" /\ ~errs[h] => \A k \in DOMAIN items[h] : n[k] = items[h][k]
<1>1. Polled \subseteq AllGVRs
  BY PolledAreGVRs DEF PollerTypeOK
<1>2. SUFFICES ASSUME NEW h \in Polled \cap kind, status'[h] = "done", ~errs[h]
               PROVE  \A k \in DOMAIN items[h] : n[k] = items[h][k]
  OBVIOUS
<1>3. h \in AllGVRs /\ (h # g => status[h] = "done")
  BY <1>1, <1>2 DEF FinishPoll, PollerTypeOK
<1>4. AllOwnKeys(m) /\ OwnKeys(items[g], g) /\ OwnKeys(items[h], h)
  BY <1>3 DEF ListInv, StoreOwnKeys
<1>5. h # g => \A k \in DOMAIN items[h] : m[k] = items[h][k]
  BY <1>2, <1>3 DEF Fresh
<1>6. h # g => DOMAIN items[h] = EntriesOf(m, h)
  <2>1. h # g => Holds(StoreContents, h, items[h])
    BY <1>2, <1>3 DEF ListInv, StoreMatchesLists
  <2> QED
    BY <1>2, <2>1 DEF Holds, StoreContents
<1>7. CASE KeepsStore(g)
  <2>1. n = m /\ errs[g]
    BY <1>7 DEF FinishPoll, storeVars, KeepsStore
  <2> QED
    BY <1>2, <1>5, <2>1
<1>8. CASE ~KeepsStore(g) /\ g \in kind
  <2>1. n = Replace(m, g, items[g])
    BY <1>8, KindOfGVR DEF FinishPoll, Publish, ReplaceXRs, ReplaceMRs
  <2>2. CASE h = g
    BY <1>4, <2>1, <2>2, ReplaceIsFresh
  <2>3. CASE h # g
    <3>1. KeysOf(g) \cap KeysOf(h) = {}
      BY <1>2, <1>8, <2>3 DEF NoSharedKeys
    <3>2. \A k \in EntriesOf(m, h) : n[k] = m[k]
      BY <1>4, <2>1, <2>3, <3>1, ReplaceKeepsOthers
    <3> QED
      BY <1>5, <1>6, <2>3, <3>2
  <2> QED
    BY <2>2, <2>3
<1>9. CASE ~KeepsStore(g) /\ g \notin kind
  <2>1. n = m
    BY <1>9, KindOfGVR DEF FinishPoll, Publish, ReplaceClaims, ReplaceXRs, ReplaceMRs, AllGVRs
  <2> QED
    BY <1>2, <1>5, <1>9, <2>1
<1> QED
  BY <1>7, <1>8, <1>9

(***************************************************************************)
(* The enrichment of a fresh kind fills in only what it finds.             *)
(***************************************************************************)
LEMMA EnrichedXRsAreLinked ==
    ASSUME StoreTypeOK, EnrichXRClaims, NEW k \in DOMAIN xrs, xrs[k].claimName = NoName
    PROVE  BackfilledFromClaim(k)'
<1>1. xrs[k] \in XRInfo /\ claims' = claims
  BY EnrichXRsEffect DEF StoreTypeOK, IsMap
<1>2. CASE k \in Linkable
  <2>1. PICK c \in Referrers(xrs[k]) :
          xrs'[k] = [xrs[k] EXCEPT !.claimName = claims[c].name, !.claimNS = claims[c].ns]
    BY <1>2, EnrichXRsEffect
  <2>2. /\ xrs'[k].name = xrs[k].name
        /\ xrs'[k].claimName = claims[c].name
        /\ xrs'[k].claimNS = claims[c].ns
    BY <1>1, <2>1 DEF XRInfo
  <2>3. c \in DOMAIN claims /\ claims[c].xrRef = xrs[k].name
    BY DEF Referrers
  <2> QED
    BY <1>1, <2>2, <2>3 DEF BackfilledFromClaim
<1>3. CASE k \notin Linkable
  BY <1>3, EnrichXRsEffect DEF BackfilledFromClaim
<1> QED
  BY <1>2, <1>3

LEMMA EnrichedMRsAreLinked ==
    ASSUME StoreTypeOK, EnrichMRClaims, NEW k \in DOMAIN mrs, mrs[k].claimName = NoName
    PROVE  BackfilledFromXR(k)'
<1>1. mrs[k] \in MRInfo /\ xrs' = xrs
  BY DEF StoreTypeOK, IsMap, EnrichMRClaims
<1>2. CASE BackedBy(mrs[k], xrs)
  <2> DEFINE xr == xrs[ObjectKey(NoNS, mrs[k].xrName)]
  <2>1. mrs'[k] = [mrs[k] EXCEPT !.claimName = xr.claimName, !.claimNS = xr.claimNS]
    BY <1>2 DEF EnrichMRClaims
  <2> HIDE DEF xr
  <2>2. /\ mrs'[k].xrName = mrs[k].xrName
        /\ mrs'[k].claimName = xr.claimName
        /\ mrs'[k].claimNS = xr.claimNS
    BY <1>1, <2>1 DEF MRInfo
  <2> QED
    BY <1>1, <1>2, <2>2 DEF BackfilledFromXR, BackedBy, xr
<1>3. CASE ~BackedBy(mrs[k], xrs)
  BY <1>3 DEF EnrichMRClaims, BackfilledFromXR
<1> QED
  BY <1>2, <1>3

LEMMA LinkStep ==
    NoSharedKeys /\ PollerTypeOK /\ EnrichedInv /\ ListInv /\ LinkInv /\ [PollerNext]_pollerVars
        => LinkInv'
<1> SUFFICES ASSUME NoSharedKeys, PollerTypeOK, EnrichedInv, ListInv, LinkInv,
                    [PollerNext]_pollerVars
             PROVE  LinkInv'
  OBVIOUS
<1>1. Polled \subseteq AllGVRs
  BY PolledAreGVRs DEF PollerTypeOK
<1>2. ASSUME UNCHANGED <<storeVars, cfg, jobVars>>, phase' = phase \/ (AtRest /\ AtRest')
      PROVE  LinkInv'
  <2>1. /\ UNCHANGED <<xrs, mrs, claims, items, status, errs>>
        /\ Polled' = Polled
    BY <1>2 DEF storeVars, jobVars, Polled
  <2>2. (Fresh(xrs, XRGVRs) => Fresh(xrs, XRGVRs)') /\ (Fresh(mrs, MRGVRs) => Fresh(mrs, MRGVRs)')
    BY <2>1 DEF Fresh
  <2>3. (XRsLinked => XRsLinked') /\ (MRsLinked => MRsLinked') /\ (HadErrors' = HadErrors)
    BY <1>2, <2>1 DEF XRsLinked, MRsLinked, HadErrors, BackfilledFromClaim, BackfilledFromXR
  <2> QED
    BY <1>2, <2>2, <2>3 DEF LinkInv, AtRest
<1>3. CASE StartCycle
  <2>1. Polled' \subseteq AllGVRs /\ phase' = "listing" /\ \A g \in AllGVRs : status'[g] = "waiting"
    BY <1>1, <1>3 DEF StartCycle, NoPolls, Polled
  <2> QED
    BY <2>1 DEF LinkInv, Fresh, AtRest
<1>4. ASSUME NEW g \in AllGVRs, StartPoll(g) \/ ListSucceeds(g) \/ ListFails(g)
      PROVE  LinkInv'
  <2>1. phase = "listing"
    BY <1>4 DEF StartPoll, ListSucceeds, ListFails, Listing, EnrichedInv, RunningPolls
  <2>2. /\ UNCHANGED <<storeVars, cfg, phase>>
        /\ \A h \in AllGVRs : status'[h] = "done" => /\ status[h] = "done"
                                                     /\ items'[h] = items[h]
                                                     /\ errs'[h] = errs[h]
    BY <1>4 DEF StartPoll, ListSucceeds, ListFails, Listing, PollerTypeOK
  <2>3. xrs' = xrs /\ mrs' = mrs /\ Polled' = Polled
    BY <2>2 DEF storeVars, Polled
  <2> QED
    BY <1>1, <2>1, <2>2, <2>3 DEF LinkInv, Fresh, AtRest
<1>5. ASSUME NEW g \in AllGVRs, FinishPoll(g) PROVE LinkInv'
  <2>1. /\ phase = "listing" /\ phase' = phase
        /\ UNCHANGED <<items, errs>>
        /\ Polled' = Polled
    BY <1>5 DEF FinishPoll, EnrichedInv, RunningPolls, Polled
  <2>2. Fresh(xrs, XRGVRs) /\ Fresh(mrs, MRGVRs)
    BY <2>1 DEF LinkInv
  <2>3. Fresh(xrs, XRGVRs)'
    BY <1>5, <2>1, <2>2, FinishedIsFresh DEF Fresh
  <2>4. Fresh(mrs, MRGVRs)'
    BY <1>5, <2>1, <2>2, FinishedIsFresh DEF Fresh
  <2> QED
    BY <2>1, <2>3, <2>4 DEF LinkInv, AtRest
<1>6. CASE EnrichClaims
  <2>1. UNCHANGED <<xrs, mrs, cfg, items, status, errs>> /\ phase = "listing" /\ phase' = "enrichXRs"
    BY <1>6 DEF EnrichClaims, EnrichClaimCompositions, jobVars
  <2> QED
    BY <2>1 DEF LinkInv, Fresh, Polled, AtRest
<1>7. CASE EnrichXRs
  <2>1. /\ UNCHANGED <<mrs, cfg, items, status, errs>>
        /\ phase = "enrichXRs" /\ phase' = "enrichMRs"
        /\ EnrichXRClaims
    BY <1>7 DEF EnrichXRs, EnrichXRClaims, jobVars
  <2>2. ASSUME ~HadErrors, NEW g \in Range(cfg.xrs), NEW k \in DOMAIN items[g],
               items[g][k].claimName = NoName
        PROVE  BackfilledFromClaim(k)'
    <3>1. g \in Polled \cap XRGVRs /\ status[g] = "done" /\ ~errs[g]
      BY <2>1, <2>2 DEF Polled, PollerTypeOK, Config, Range, ListInv, HadErrors
    <3>2. k \in DOMAIN xrs
      BY <2>2, <3>1 DEF ListInv, StoreMatchesLists, Holds, StoreContents, EntriesOf
    <3>3. xrs[k].claimName = NoName
      BY <2>1, <2>2, <3>1 DEF LinkInv, Fresh
    <3> QED
      BY <2>1, <3>2, <3>3, EnrichedXRsAreLinked DEF PollerTypeOK
  <2>3. HadErrors' = HadErrors
    BY <2>1 DEF HadErrors, Polled
  <2>4. ~HadErrors' => XRsLinked'
    BY <2>1, <2>2, <2>3 DEF XRsLinked
  <2>5. Fresh(mrs, MRGVRs)'
    BY <2>1 DEF LinkInv, Fresh, Polled
  <2> QED
    BY <2>1, <2>4, <2>5 DEF LinkInv, AtRest
<1>8. CASE EnrichMRs
  <2>1. /\ UNCHANGED <<claims, xrs, cfg, items, status, errs>>
        /\ phase = "enrichMRs" /\ phase' = "persist"
        /\ EnrichMRClaims
    BY <1>8 DEF EnrichMRs, EnrichMRClaims, jobVars
  <2>2. ASSUME ~HadErrors, NEW g \in Range(cfg.mrs), NEW k \in DOMAIN items[g],
               items[g][k].claimName = NoName
        PROVE  BackfilledFromXR(k)'
    <3>1. g \in Polled \cap MRGVRs /\ status[g] = "done" /\ ~errs[g]
      BY <2>1, <2>2 DEF Polled, PollerTypeOK, Config, Range, ListInv, HadErrors
    <3>2. k \in DOMAIN mrs
      BY <2>2, <3>1 DEF ListInv, StoreMatchesLists, Holds, StoreContents, EntriesOf
    <3>3. mrs[k].claimName = NoName
      BY <2>1, <2>2, <3>1 DEF LinkInv, Fresh
    <3> QED
      BY <2>1, <3>2, <3>3, EnrichedMRsAreLinked DEF PollerTypeOK
  <2>3. HadErrors' = HadErrors
    BY <2>1 DEF HadErrors, Polled
  <2>4. ~HadErrors' => MRsLinked'
    BY <2>1, <2>2, <2>3 DEF MRsLinked
  <2>5. XRsLinked => XRsLinked'
    BY <2>1 DEF XRsLinked, BackfilledFromClaim
  <2> QED
    BY <2>1, <2>3, <2>4, <2>5 DEF LinkInv, AtRest
<1>9. CASE (\E g \in AllGVRs : ClusterChange(g)) \/ Cancel \/ Stop \/ SkipPersist
           \/ PersistSucceeds \/ PersistFails \/ Report \/ UNCHANGED pollerVars
  <2>1. UNCHANGED <<storeVars, cfg, jobVars>>
    BY <1>9 DEF ClusterChange, Cancel, Stop, SkipPersist, PersistSucceeds, PersistFails, Report,
                pollerVars, storeVars, jobVars
  <2>2. phase' = phase \/ (AtRest /\ AtRest')
    BY <1>9 DEF ClusterChange, Cancel, Stop, SkipPersist, PersistSucceeds, PersistFails, Report,
                pollerVars, AtRest
  <2> QED
    BY <1>2, <2>1, <2>2
<1> QED
  BY <1>3, <1>4, <1>5, <1>6, <1>7, <1>8, <1>9 DEF PollerNext, PollerStep

(***************************************************************************)
(* After a cycle without a failed list, a link that no label gave leads to *)
(* a claim or an XR that the store has after this cycle, whatever the      *)
(* cluster did between the lists and whichever claim a map order chose.    *)
(***************************************************************************)
THEOREM LinksAreOfThisCycle ==
    ASSUME NoSharedKeys PROVE PollerSpec => []LinkedFromThisCycle
<1> DEFINE Inv == PollerTypeOK /\ EnrichedInv /\ ListInv /\ LinkInv
<1>1. PollerInit => Inv
  BY PollerTypeInit, EnrichedInit, ListInit, LinkInit
<1>2. Inv /\ [PollerNext]_pollerVars => Inv'
  BY PollerTypeStep, EnrichedStep, ListStep, LinkStep
<1>3. Inv => LinkedFromThisCycle
  BY DEF LinkInv, LinkedFromThisCycle, XRsLinked, MRsLinked
<1> QED
  BY <1>1, <1>2, <1>3, PTL DEF PollerSpec

-----------------------------------------------------------------------------
(***************************************************************************)
(* What a cycle does when the cluster stands still and its lists work.     *)
(*                                                                         *)
(* The objects that the first n lists of a poll show, with no call between *)
(* them failed and nothing changed.                                        *)
(***************************************************************************)
SoFar(g, n) == Restrict(cluster[g], UNION {DOMAIN Listed(g, Targets[i]) : i \in 1..n})

LEMMA NothingSoFar == ASSUME NEW g PROVE SoFar(g, 0) = EmptyMap
BY DEF SoFar, Restrict, EmptyMap

LEMMA AllSoFar == ASSUME NEW g PROVE SoFar(g, Len(Targets)) = Wanted(g)
<1>1. DOMAIN Targets = 1..Len(Targets)
  <2>1. CASE Scope = <<>>
    BY <2>1 DEF Targets
  <2>2. CASE Scope # <<>>
    BY <2>2, ScopeAssumption DEF Targets
  <2> QED
    BY <2>1, <2>2
<1> QED
  BY <1>1 DEF SoFar, Wanted

LEMMA MoreSoFar ==
    ASSUME NEW g, NEW n \in Nat
    PROVE  Overwrite(SoFar(g, n), Listed(g, Targets[n + 1])) = SoFar(g, n + 1)
<1> DEFINE before == UNION {DOMAIN Listed(g, Targets[i]) : i \in 1..n}
           now    == DOMAIN Listed(g, Targets[n + 1])
           after  == UNION {DOMAIN Listed(g, Targets[i]) : i \in 1..(n + 1)}
<1>1. after = before \cup now
  <2>1. 1..(n + 1) = 1..n \cup {n + 1}
    OBVIOUS
  <2> QED
    BY <2>1
<1>2. Listed(g, Targets[n + 1]) = [k \in now |-> cluster[g][k]]
  BY DEF Listed, Restrict
<1>3. SoFar(g, n) = [k \in before |-> cluster[g][k]]
  BY DEF SoFar, Restrict
<1>4. SoFar(g, n + 1) = [k \in after |-> cluster[g][k]]
  BY DEF SoFar, Restrict
<1> HIDE DEF before, now, after
<1> QED
  BY <1>1, <1>2, <1>3, <1>4 DEF Overwrite

LEMMA SameThere ==
    ASSUME UNCHANGED cluster
    PROVE  /\ \A g, n : SoFar(g, n)' = SoFar(g, n)
           /\ \A h : Wanted(h)' = Wanted(h)
<1>1. \A g, ns : Listed(g, ns)' = Listed(g, ns)
  BY DEF Listed
<1> QED
  BY <1>1 DEF SoFar, Wanted

LEMMA WantedIsMap ==
    ASSUME PollerTypeOK, NEW g \in AllGVRs PROVE IsMap(Wanted(g), KindInfo(g))
<1>1. IsMap(cluster[g], KindInfo(g))
  BY ListsAreMaps, KindOfGVR DEF AllGVRs, PollerTypeOK
<1>2. UNION {DOMAIN Listed(g, Targets[i]) : i \in DOMAIN Targets} \in SUBSET DOMAIN cluster[g]
  BY DEF Listed, Restrict
<1> QED
  BY <1>1, <1>2, RestrictIsMap DEF Wanted

(***************************************************************************)
(* A poll that has not begun holds nothing of the last cycle.              *)
(***************************************************************************)
WaitingInv ==
    \A g \in AllGVRs : status[g] = "waiting" => at[g] = 1 /\ items[g] = EmptyMap /\ ~errs[g]

LEMMA WaitingInit == PollerInit => WaitingInv
BY DEF PollerInit, NoPolls, WaitingInv

LEMMA WaitingStep ==
    ASSUME PollerTypeOK, WaitingInv, [PollerNext]_pollerVars PROVE WaitingInv'
<1>1. CASE UNCHANGED jobVars
  BY <1>1 DEF jobVars, WaitingInv
<1>2. CASE StartCycle
  BY <1>2 DEF StartCycle, NoPolls, WaitingInv
<1>3. ASSUME NEW g \in AllGVRs, StartPoll(g) \/ FinishPoll(g) PROVE WaitingInv'
  BY <1>3 DEF StartPoll, FinishPoll, PollerTypeOK, WaitingInv
<1>4. ASSUME NEW g \in AllGVRs, ListSucceeds(g) \/ ListFails(g) PROVE WaitingInv'
  BY <1>4 DEF ListSucceeds, ListFails, Listing, PollerTypeOK, WaitingInv
<1>5. CASE (\E g \in AllGVRs : ClusterChange(g)) \/ Cancel \/ Stop \/ SkipPersist
           \/ PersistSucceeds \/ PersistFails \/ Report \/ EnrichClaims \/ EnrichXRs \/ EnrichMRs
           \/ UNCHANGED pollerVars
  <2>1. UNCHANGED jobVars
    BY <1>5 DEF ClusterChange, Cancel, Stop, SkipPersist, PersistSucceeds, PersistFails, Report,
                EnrichClaims, EnrichXRs, EnrichMRs, pollerVars, jobVars
  <2> QED
    BY <1>1, <2>1
<1> QED
  BY <1>2, <1>3, <1>4, <1>5 DEF PollerNext, PollerStep

(***************************************************************************)
(* From the beginning of such a cycle on, jobs hold what is there, and     *)
(* they are all done when it goes on.                                      *)
(***************************************************************************)
CycleBegins == phase = "listing" /\ \A g \in Polled : status[g] = "waiting"

StillInv ==
    /\ \A g \in Polled : /\ ~errs[g]
                         /\ items[g] = SoFar(g, at[g] - 1)
                         /\ status[g] = "done" => at[g] = Len(Targets) + 1
    /\ phase # "listing" => \A g \in Polled : status[g] = "done"

LEMMA StillBegins ==
    ASSUME PollerTypeOK, WaitingInv, CycleBegins PROVE StillInv
<1>1. Polled \subseteq AllGVRs
  BY PolledAreGVRs DEF PollerTypeOK
<1>2. \A g \in Polled : status[g] = "waiting" /\ at[g] = 1 /\ items[g] = EmptyMap /\ ~errs[g]
  BY <1>1 DEF CycleBegins, WaitingInv
<1>3. \A g \in Polled : items[g] = SoFar(g, at[g] - 1)
  BY <1>2, NothingSoFar
<1> QED
  BY <1>2, <1>3 DEF StillInv, CycleBegins

StillStands == UNCHANGED cluster /\ ~ \E g \in AllGVRs : ListFails(g)

LEMMA StillStep ==
    ASSUME PollerTypeOK, EnrichedInv, StillInv, [PollerNext]_pollerVars, StillStands
    PROVE  StillInv'
<1>1. Polled \subseteq AllGVRs /\ Len(Targets) \in Nat
  BY PolledAreGVRs, TargetsType DEF PollerTypeOK
<1>2. Polled' = Polled
  BY DEF PollerNext, PollerStep, pollerVars, ClusterChange, Cancel, StartCycle, StartPoll,
         ListSucceeds, ListFails, FinishPoll, EnrichClaims, EnrichXRs, EnrichMRs, SkipPersist,
         PersistSucceeds, PersistFails, Report, Stop, Polled
<1>3. \A g, n : SoFar(g, n)' = SoFar(g, n)
  BY SameThere DEF StillStands
<1>4. CASE UNCHANGED jobVars /\ (phase' # "listing" => phase # "listing"
                                                       \/ \A g \in Polled : status[g] = "done")
  BY <1>2, <1>3, <1>4 DEF jobVars, StillInv
<1>5. CASE StartCycle
  <2>1. phase' = "listing"
    BY <1>5 DEF StartCycle
  <2>2. \A g \in Polled : /\ status'[g] = "waiting" /\ at'[g] = 1
                          /\ items'[g] = EmptyMap /\ ~errs'[g]
    BY <1>1, <1>5 DEF StartCycle, NoPolls
  <2>3. \A g \in Polled : items'[g] = SoFar(g, at'[g] - 1)
    BY <2>2, NothingSoFar
  <2> QED
    BY <1>2, <1>3, <2>1, <2>2, <2>3 DEF StillInv
<1>6. ASSUME NEW g \in AllGVRs, StartPoll(g) \/ FinishPoll(g) PROVE StillInv'
  <2>1. phase' = "listing" /\ UNCHANGED <<at, items, errs>>
    BY <1>6 DEF StartPoll, FinishPoll, EnrichedInv, RunningPolls
  <2>2. \A h \in Polled : status'[h] = "done" => at[h] = Len(Targets) + 1
    <3>1. ASSUME NEW h \in Polled, status'[h] = "done", h # g PROVE at[h] = Len(Targets) + 1
      BY <1>1, <1>6, <3>1 DEF StartPoll, FinishPoll, PollerTypeOK, StillInv
    <3>2. CASE status'[g] = "done"
      <4>1. FinishPoll(g)
        BY <1>6, <3>2 DEF StartPoll, PollerTypeOK
      <4>2. at[g] > Len(Targets) /\ at[g] \in 1..(Len(Targets) + 1)
        BY <4>1 DEF FinishPoll, PollerTypeOK
      <4> QED
        BY <1>1, <3>1, <4>2
    <3> QED
      BY <3>1, <3>2
  <2> QED
    BY <1>2, <1>3, <2>1, <2>2 DEF StillInv
<1>7. ASSUME NEW g \in AllGVRs, ListSucceeds(g) PROVE StillInv'
  <2>1. /\ status[g] = "running" /\ at[g] <= Len(Targets)
        /\ items' = [items EXCEPT ![g] = Overwrite(items[g], Listed(g, Targets[at[g]]))]
        /\ at' = [at EXCEPT ![g] = at[g] + 1]
        /\ UNCHANGED <<phase, status, errs>>
    BY <1>7 DEF ListSucceeds, Listing
  <2>2. g \in Polled /\ phase = "listing" /\ at[g] \in Nat \ {0}
    BY <1>1, <2>1 DEF EnrichedInv, RunningPolls, PollerTypeOK
  <2>3. items'[g] = SoFar(g, at'[g] - 1) /\ at'[g] = at[g] + 1
    <3>1. items[g] = SoFar(g, at[g] - 1)
      BY <2>2 DEF StillInv
    <3>2. at[g] - 1 \in Nat /\ (at[g] - 1) + 1 = at[g]
      BY <2>2
    <3>3. Overwrite(SoFar(g, at[g] - 1), Listed(g, Targets[at[g]])) = SoFar(g, at[g])
      BY <3>2, MoreSoFar
    <3>4. items'[g] = SoFar(g, at[g]) /\ at'[g] = at[g] + 1
      BY <2>1, <3>1, <3>3 DEF PollerTypeOK
    <3> QED
      BY <2>2, <3>4
  <2>4. \A h \in Polled : h # g => items'[h] = items[h] /\ at'[h] = at[h]
    BY <1>1, <2>1 DEF PollerTypeOK
  <2> QED
    BY <1>2, <1>3, <2>1, <2>2, <2>3, <2>4 DEF StillInv
<1>8. CASE (\E g \in AllGVRs : ClusterChange(g)) \/ Cancel \/ Stop \/ SkipPersist
           \/ PersistSucceeds \/ PersistFails \/ Report \/ EnrichClaims \/ EnrichXRs \/ EnrichMRs
           \/ UNCHANGED pollerVars
  BY <1>4, <1>8 DEF ClusterChange, Cancel, Stop, SkipPersist, PersistSucceeds, PersistFails,
              Report, EnrichClaims, EnrichXRs, EnrichMRs, pollerVars, jobVars
<1> QED
  BY <1>5, <1>6, <1>7, <1>8 DEF PollerNext, PollerStep, StillStands

(***************************************************************************)
(* When it ends the store mirrors the cluster, and later cycles, which put *)
(* the same in its place, do not take that back.                           *)
(***************************************************************************)
LEMMA RestIsMirrored ==
    ASSUME PollerTypeOK, ListInv, StillInv, AtRest PROVE Mirrored
<1>1. \A g \in Polled : status[g] = "done" /\ ~errs[g] /\ items[g] = SoFar(g, at[g] - 1)
                        /\ at[g] = Len(Targets) + 1
  BY DEF StillInv, AtRest
<1>2. \A g \in Polled : items[g] = Wanted(g)
  BY <1>1, AllSoFar, TargetsType
<1> QED
  BY <1>1, <1>2 DEF ListInv, StoreMatchesLists, Mirrored

LEMMA MirroredStays ==
    ASSUME NoSharedKeys, PollerTypeOK, EnrichedInv, ListInv, StillInv, Mirrored,
           [PollerNext]_pollerVars, StillStands
    PROVE  Mirrored'
<1>1. Polled \subseteq AllGVRs /\ Len(Targets) \in Nat
  BY PolledAreGVRs, TargetsType DEF PollerTypeOK
<1>2. Polled' = Polled /\ \A h : Wanted(h)' = Wanted(h)
  <2>1. Polled' = Polled
    BY DEF PollerNext, PollerStep, pollerVars, ClusterChange, Cancel, StartCycle, StartPoll,
           ListSucceeds, ListFails, FinishPoll, EnrichClaims, EnrichXRs, EnrichMRs, SkipPersist,
           PersistSucceeds, PersistFails, Report, Stop, Polled
  <2>2. \A h : Wanted(h)' = Wanted(h)
    BY SameThere DEF StillStands
  <2> QED
    BY <2>1, <2>2
<1>3. SUFFICES ASSUME NEW h \in Polled PROVE Holds(StoreContents', h, Wanted(h))
  BY <1>2 DEF Mirrored
<1>4. Holds(StoreContents, h, Wanted(h)) /\ h \in AllGVRs
  BY <1>1, <1>3 DEF Mirrored
<1>5. CASE UNCHANGED storeVars
  BY <1>4, <1>5 DEF storeVars, StoreContents
<1>6. ASSUME NEW g \in AllGVRs, FinishPoll(g) PROVE Holds(StoreContents', h, Wanted(h))
  <2>1. g \in Polled /\ ~errs[g]
    BY <1>6 DEF FinishPoll, EnrichedInv, RunningPolls, StillInv
  <2>2. Publish(g)
    BY <1>6, <2>1 DEF FinishPoll, KeepsStore
  <2>3. items[g] = Wanted(g)
    <3>1. at[g] = Len(Targets) + 1
      BY <1>1, <1>6 DEF FinishPoll, PollerTypeOK
    <3> QED
      BY <1>1, <2>1, <3>1, AllSoFar DEF StillInv
  <2>4. OwnKeys(items[g], g) /\ StoreOwnKeys
    BY DEF ListInv
  <2>5. CASE h = g
    BY <2>2, <2>3, <2>4, <2>5, PublishedIsHeld
  <2>6. CASE h # g
    BY <1>4, <2>2, <2>4, <2>6, PublishKeepsOthers
  <2> QED
    BY <2>5, <2>6
<1>7. CASE EnrichClaims \/ EnrichXRs \/ EnrichMRs
  <2>1. EnrichClaimCompositions \/ EnrichXRClaims \/ EnrichMRClaims
    BY <1>7 DEF EnrichClaims, EnrichXRs, EnrichMRs
  <2> QED
    BY <1>4, <2>1, WantedIsMap, EnrichKeepsHeld
<1> QED
  BY <1>5, <1>6, <1>7 DEF PollerNext, PollerStep, pollerVars, storeVars, ClusterChange, Cancel,
     StartCycle, StartPoll, ListSucceeds, ListFails, SkipPersist, PersistSucceeds,
     PersistFails, Report, Stop

(***************************************************************************)
(* The safety part of Converges.  When the cluster stands still and no     *)
(* list fails from the beginning of some cycle on, the store holds the     *)
(* objects of the cluster when that cycle is over, deleted ones gone, and  *)
(* at every moment from then on, in the middle of later cycles too.        *)
(***************************************************************************)
THEOREM OneCycleMirrors ==
    ASSUME NoSharedKeys
    PROVE  PollerSpec => [](CycleBegins /\ [][StillStands]_pollerVars
                               => [](AtRest => []Mirrored))
<1> DEFINE Inv == PollerTypeOK /\ EnrichedInv /\ ListInv /\ WaitingInv
<1>1. PollerInit => Inv
  BY PollerTypeInit, EnrichedInit, ListInit, WaitingInit
<1>2. Inv /\ [PollerNext]_pollerVars => Inv'
  BY PollerTypeStep, EnrichedStep, ListStep, WaitingStep
<1>3. Inv /\ CycleBegins => StillInv
  BY StillBegins
<1>4. UNCHANGED pollerVars => /\ UNCHANGED <<phase, status, at, items, errs>>
                             /\ Polled' = Polled /\ StoreContents' = StoreContents
                             /\ \A g, n : SoFar(g, n)' = SoFar(g, n)
                             /\ \A h : Wanted(h)' = Wanted(h)
  BY SameThere DEF pollerVars, Polled, StoreContents
<1>5. Inv /\ StillInv /\ [PollerNext]_pollerVars /\ [StillStands]_pollerVars => StillInv'
  <2>1. ASSUME StillInv, UNCHANGED pollerVars PROVE StillInv'
    BY <1>4, <2>1 DEF StillInv
  <2> QED
    BY <2>1, StillStep
<1>6. Inv /\ StillInv => (AtRest => Mirrored)
  BY RestIsMirrored
<1>7. Inv /\ StillInv /\ Mirrored /\ [PollerNext]_pollerVars /\ [StillStands]_pollerVars
        => Mirrored'
  <2>1. ASSUME Mirrored, UNCHANGED pollerVars PROVE Mirrored'
    BY <1>4, <2>1 DEF Mirrored
  <2> QED
    BY <2>1, MirroredStays
<1> HIDE DEF Inv
<1> QED
  BY <1>1, <1>2, <1>3, <1>5, <1>6, <1>7, PTL DEF PollerSpec
=============================================================================
