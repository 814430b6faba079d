--------------------------- MODULE MemoryStoreProofs ---------------------------
(***************************************************************************)
(* Lemmas about the operators of the store, for any kinds, names and       *)
(* objects.                                                                *)
(***************************************************************************)
EXTENDS MemoryStore, TLAPS

(***************************************************************************)
(* What a list call returns is a map of infos of its kind.                 *)
(***************************************************************************)
LEMMA ListsAreMaps ==
    /\ \A g \in ClaimGVRs : \A m \in Lists[g] : IsMap(m, ClaimInfo)
    /\ \A g \in XRGVRs : \A m \in Lists[g] : IsMap(m, XRInfo)
    /\ \A g \in MRGVRs : \A m \in Lists[g] : IsMap(m, MRInfo)
<1>1. ASSUME NEW g \in AllGVRs, NEW m \in Lists[g]
      PROVE  \A k \in DOMAIN m : m[k] \in Objects[g] /\ KeyOf(m[k]) = k
  <2>1. PICK D \in SUBSET {KeyOf(o) : o \in Objects[g]} :
              m \in {n \in [D -> Objects[g]] : \A k \in D : KeyOf(n[k]) = k}
    BY <1>1 DEF Lists
  <2>2. QED  BY <2>1
<1>2. \A o : o \in ClaimInfo \/ o \in XRInfo \/ o \in MRInfo => KeyOf(o) \in Key
  BY DEF ClaimInfo, XRInfo, MRInfo, KeyOf, ObjectKey, Key
<1>3. ASSUME NEW g \in ClaimGVRs, NEW m \in Lists[g]
      PROVE  IsMap(m, ClaimInfo)
  <2>1. \A k \in DOMAIN m : m[k] \in ClaimInfo /\ KeyOf(m[k]) = k
    BY <1>1, ObjectsAssumption DEF AllGVRs
  <2>2. QED  BY <2>1, <1>2 DEF IsMap
<1>4. ASSUME NEW g \in XRGVRs, NEW m \in Lists[g]
      PROVE  IsMap(m, XRInfo)
  <2>1. \A k \in DOMAIN m : m[k] \in XRInfo /\ KeyOf(m[k]) = k
    BY <1>1, ObjectsAssumption DEF AllGVRs
  <2>2. QED  BY <2>1, <1>2 DEF IsMap
<1>5. ASSUME NEW g \in MRGVRs, NEW m \in Lists[g]
      PROVE  IsMap(m, MRInfo)
  <2>1. \A k \in DOMAIN m : m[k] \in MRInfo /\ KeyOf(m[k]) = k
    BY <1>1, ObjectsAssumption DEF AllGVRs
  <2>2. QED  BY <2>1, <1>2 DEF IsMap
<1>6. QED  BY <1>3, <1>4, <1>5

LEMMA EmptyMapIsMap == \A V : IsMap(EmptyMap, V)
  BY DEF EmptyMap, IsMap

(***************************************************************************)
(* The maps are closed under what the code does to them.                   *)
(***************************************************************************)
LEMMA RestrictIsMap ==
    ASSUME NEW V, NEW m, IsMap(m, V), NEW S \in SUBSET DOMAIN m
    PROVE  IsMap(Restrict(m, S), V)
  BY DEF IsMap, Restrict

LEMMA OverwriteIsMap ==
    ASSUME NEW V, NEW m, IsMap(m, V), NEW n, IsMap(n, V)
    PROVE  IsMap(Overwrite(m, n), V)
  BY DEF IsMap, Overwrite

LEMMA ReplaceIsMap ==
    ASSUME NEW V, NEW m, IsMap(m, V), NEW g, NEW items, IsMap(items, V)
    PROVE  IsMap(Replace(m, g, items), V)
  BY RestrictIsMap, OverwriteIsMap DEF Replace

(***************************************************************************)
(* After Replace the entries of the GVR are exactly the items, whatever    *)
(* the map was; those of the other GVRs are the ones that were there,      *)
(* except under a key that an item has (store.go:126-151).                 *)
(***************************************************************************)
LEMMA ReplaceEntries ==
    ASSUME NEW m, NEW g, NEW items, \A k \in DOMAIN items : items[k].gvr = g
    PROVE  /\ EntriesOf(Replace(m, g, items), g) = DOMAIN items
           /\ \A k \in DOMAIN items : Replace(m, g, items)[k] = items[k]
           /\ \A h : h # g =>
                 /\ EntriesOf(Replace(m, g, items), h) = EntriesOf(m, h) \ DOMAIN items
                 /\ \A k \in EntriesOf(m, h) \ DOMAIN items :
                        Replace(m, g, items)[k] = m[k]
<1> DEFINE kept == {k \in DOMAIN m : m[k].gvr # g}
           r == Replace(m, g, items)
<1>1. /\ DOMAIN r = kept \cup DOMAIN items
      /\ \A k \in DOMAIN items : r[k] = items[k]
      /\ \A k \in kept \ DOMAIN items : r[k] = m[k]
  BY DEF Replace, Overwrite, Restrict
<1>2. QED  BY <1>1 DEF EntriesOf

(***************************************************************************)
(* The enrichments keep the types.                                         *)
(***************************************************************************)
LEMMA EnrichClaimsType ==
    ASSUME StoreTypeOK, EnrichClaimCompositions
    PROVE  StoreTypeOK'
<1>1. IsMap(claims', ClaimInfo)
  <2>1. DOMAIN claims' = DOMAIN claims
    BY DEF EnrichClaimCompositions
  <2>2. ASSUME NEW k \in DOMAIN claims
        PROVE  claims'[k] \in ClaimInfo /\ KeyOf(claims'[k]) = k
    <3>1. claims[k] \in ClaimInfo /\ KeyOf(claims[k]) = k
      BY DEF StoreTypeOK, IsMap
    <3>2. CASE RefersTo(claims[k], xrs)
      <4> DEFINE c == xrs[ObjectKey(NoNS, claims[k].xrRef)].composition
      <4>1. c \in Compositions \cup {NoComposition}
        BY <3>2 DEF RefersTo, StoreTypeOK, IsMap, XRInfo
      <4>2. claims'[k] = [claims[k] EXCEPT !.composition = c]
        BY <3>2 DEF EnrichClaimCompositions
      <4>3. QED  BY <3>1, <4>1, <4>2 DEF ClaimInfo, KeyOf
    <3>3. CASE ~RefersTo(claims[k], xrs)
      BY <3>1, <3>3 DEF EnrichClaimCompositions
    <3>4. QED  BY <3>2, <3>3
  <2>3. QED  BY <2>1, <2>2 DEF IsMap, StoreTypeOK
<1>2. QED  BY <1>1 DEF StoreTypeOK, EnrichClaimCompositions

(***************************************************************************)
(* One step of the EnrichXRClaims loop for a key, with the claim it found. *)
(***************************************************************************)
LEMMA EnrichXRsEffect ==
    ASSUME EnrichXRClaims
    PROVE  /\ DOMAIN xrs' = DOMAIN xrs
           /\ \A k \in DOMAIN xrs \ Linkable : xrs'[k] = xrs[k]
           /\ \A k \in Linkable : \E c \in Referrers(xrs[k]) :
                 xrs'[k] = [xrs[k] EXCEPT !.claimName = claims[c].name, !.claimNS = claims[c].ns]
           /\ UNCHANGED <<claims, mrs>>
<1>1. PICK first \in [Linkable -> DOMAIN claims] :
          /\ \A k \in Linkable : first[k] \in Referrers(xrs[k])
          /\ xrs' = [k \in DOMAIN xrs |->
                       IF k \in Linkable
                       THEN [xrs[k] EXCEPT !.claimName = claims[first[k]].name,
                                           !.claimNS = claims[first[k]].ns]
                       ELSE xrs[k]]
  BY DEF EnrichXRClaims
<1>2. Linkable \subseteq DOMAIN xrs
  BY DEF Linkable
<1>3. \A k \in Linkable : first[k] \in Referrers(xrs[k]) /\
          xrs'[k] = [xrs[k] EXCEPT !.claimName = claims[first[k]].name,
                                   !.claimNS = claims[first[k]].ns]
  BY <1>1, <1>2
<1>4. QED  BY <1>1, <1>2, <1>3 DEF EnrichXRClaims

LEMMA EnrichXRsType ==
    ASSUME StoreTypeOK, EnrichXRClaims
    PROVE  StoreTypeOK'
<1>1. IsMap(xrs', XRInfo)
  <2>1. ASSUME NEW k \in DOMAIN xrs
        PROVE  xrs'[k] \in XRInfo /\ KeyOf(xrs'[k]) = k
    <3>1. xrs[k] \in XRInfo /\ KeyOf(xrs[k]) = k
      BY DEF StoreTypeOK, IsMap
    <3>2. CASE k \in Linkable
      <4>1. PICK c \in Referrers(xrs[k]) :
              xrs'[k] = [xrs[k] EXCEPT !.claimName = claims[c].name, !.claimNS = claims[c].ns]
        BY <3>2, EnrichXRsEffect
      <4>2. claims[c].name \in AnyName /\ claims[c].ns \in AnyNS
        BY <4>1 DEF Referrers, StoreTypeOK, IsMap, ClaimInfo, AnyName
      <4>3. QED  BY <3>1, <4>1, <4>2 DEF XRInfo, KeyOf
    <3>3. QED  BY <3>1, <3>2, EnrichXRsEffect
  <2>2. QED  BY <2>1, EnrichXRsEffect DEF IsMap, StoreTypeOK
<1>2. QED  BY <1>1, EnrichXRsEffect DEF StoreTypeOK

LEMMA EnrichMRsType ==
    ASSUME StoreTypeOK, EnrichMRClaims
    PROVE  StoreTypeOK'
<1>1. IsMap(mrs', MRInfo)
  <2>1. DOMAIN mrs' = DOMAIN mrs
    BY DEF EnrichMRClaims
  <2>2. ASSUME NEW k \in DOMAIN mrs
        PROVE  mrs'[k] \in MRInfo /\ KeyOf(mrs'[k]) = k
    <3>1. mrs[k] \in MRInfo /\ KeyOf(mrs[k]) = k
      BY DEF StoreTypeOK, IsMap
    <3>2. CASE mrs[k].claimName = NoName /\ BackedBy(mrs[k], xrs)
      <4> DEFINE xr == xrs[ObjectKey(NoNS, mrs[k].xrName)]
      <4>1. xr.claimName \in AnyName /\ xr.claimNS \in AnyNS
        BY <3>2 DEF BackedBy, StoreTypeOK, IsMap, XRInfo
      <4>2. mrs'[k] = [mrs[k] EXCEPT !.claimName = xr.claimName, !.claimNS = xr.claimNS]
        BY <3>2 DEF EnrichMRClaims
      <4>3. QED  BY <3>1, <4>1, <4>2 DEF MRInfo, KeyOf
    <3>3. CASE ~(mrs[k].claimName = NoName /\ BackedBy(mrs[k], xrs))
      BY <3>1, <3>3 DEF EnrichMRClaims
    <3>4. QED  BY <3>2, <3>3
  <2>3. QED  BY <2>1, <2>2 DEF IsMap, StoreTypeOK
<1>2. QED  BY <1>1 DEF StoreTypeOK, EnrichMRClaims
=============================================================================
