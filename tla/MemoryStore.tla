----------------------------- MODULE MemoryStore -----------------------------
(***************************************************************************)
(* The in-memory store of the exporter (pkg/store/store.go): three maps,   *)
(* of claims, composite resources (XRs) and provider managed resources     *)
(* (MRs), each from an object key to what the last list call said of the   *)
(* object.  Every public method holds the one mutex of the store for its   *)
(* whole body, so each method is one atomic action here.                   *)
(*                                                                         *)
(* A record keeps the fields the store's own code reads or writes; "ready" *)
(* stands for all the others, which it copies without looking at them      *)
(* (kind, creator, team, conditions, timestamps, provider attributes).     *)
(***************************************************************************)
EXTENDS Naturals, FiniteSets, Functions

CONSTANTS
    ClaimGVRs, XRGVRs, MRGVRs,    \* the group/version/resources of each kind
    Namespaces, Names,            \* Kubernetes namespaces and object names
    Compositions,                 \* names of Compositions
    NoNS, NoName, NoComposition,  \* Go's "" in each of these roles
    Objects                       \* Objects[g]: what objects of GVR g may look like

AllGVRs == ClaimGVRs \cup XRGVRs \cup MRGVRs
AnyNS   == Namespaces \cup {NoNS}
AnyName == Names \cup {NoName}

ClaimInfo == [gvr : ClaimGVRs, ns : AnyNS, name : Names, xrRef : AnyName,
              composition : Compositions \cup {NoComposition}, ready : BOOLEAN]

XRInfo == [gvr : XRGVRs, ns : AnyNS, name : Names, claimName : AnyName, claimNS : AnyNS,
           composition : Compositions \cup {NoComposition}, ready : BOOLEAN]

MRInfo == [gvr : MRGVRs, ns : AnyNS, name : Names, xrName : AnyName,
           claimName : AnyName, claimNS : AnyNS, ready : BOOLEAN]

(***************************************************************************)
(* The GVR sets are disjoint, "" is neither a name nor a namespace, and    *)
(* the objects of a GVR carry it.                                          *)
(***************************************************************************)
ASSUME KindsAssumption ==
    /\ ClaimGVRs \cap XRGVRs = {}
    /\ ClaimGVRs \cap MRGVRs = {}
    /\ XRGVRs \cap MRGVRs = {}

ASSUME NamesAssumption ==
    /\ NoNS \notin Namespaces
    /\ NoName \notin Names
    /\ NoComposition \notin Compositions
    /\ IsFiniteSet(Namespaces)
    /\ IsFiniteSet(Names)

ASSUME ObjectsAssumption ==
    /\ \A g \in ClaimGVRs : \A o \in Objects[g] : o \in ClaimInfo /\ o.gvr = g
    /\ \A g \in XRGVRs : \A o \in Objects[g] : o \in XRInfo /\ o.gvr = g
    /\ \A g \in MRGVRs : \A o \in Objects[g] : o \in MRInfo /\ o.gvr = g

(***************************************************************************)
(* objectKey joins namespace and name with "/", which Kubernetes allows in *)
(* neither: the pair is the key.  A cluster-scoped object has namespace "" *)
(* and is found by its bare name.  The key does not hold the GVR.          *)
(***************************************************************************)
Key == AnyNS \X Names
ObjectKey(ns, name) == <<ns, name>>
KeyOf(o) == ObjectKey(o.ns, o.name)

IsMap(m, V) == /\ DOMAIN m \subseteq Key
               /\ \A k \in DOMAIN m : m[k] \in V /\ KeyOf(m[k]) = k

EmptyMap == [k \in {} |-> {}]

(***************************************************************************)
(* Every set of objects of one GVR with distinct keys, as a map: what the  *)
(* API server may hold, and what a list call may return.                   *)
(***************************************************************************)
Lists ==
    [g \in AllGVRs |->
        LET maps(D) == {m \in [D -> Objects[g]] : \A k \in D : KeyOf(m[k]) = k}
        IN  UNION {maps(D) : D \in SUBSET {KeyOf(o) : o \in Objects[g]}}]

VARIABLES
    claims, xrs, mrs    \* MemoryStore.claims, .xrs and .mrs

storeVars == <<claims, xrs, mrs>>

StoreTypeOK ==
    /\ IsMap(claims, ClaimInfo)
    /\ IsMap(xrs, XRInfo)
    /\ IsMap(mrs, MRInfo)

StoreInit ==
    /\ claims = EmptyMap
    /\ xrs = EmptyMap
    /\ mrs = EmptyMap

-----------------------------------------------------------------------------
(***************************************************************************)
(* Writing every entry of a map into another one.                          *)
(***************************************************************************)
Overwrite(m, items) ==
    [k \in DOMAIN m \cup DOMAIN items |-> IF k \in DOMAIN items THEN items[k] ELSE m[k]]

(***************************************************************************)
(* ReplaceClaims, ReplaceXRs and ReplaceMRs: the items are written under   *)
(* their keys whatever was there, then every entry of this GVR that is not *)
(* an item is deleted.                                                     *)
(***************************************************************************)
ReplaceEveryGVR(m, gvr, items) ==    \* a mutated form: the GVR check is lost
    items

ReplaceNeverRemoves(m, gvr, items) ==    \* a mutated form: stale entries are kept
    Overwrite(m, items)

Replace(m, gvr, items) ==
    Overwrite(Restrict(m, {k \in DOMAIN m : m[k].gvr # gvr}), items)

ReplaceClaims(gvr, items) ==
    /\ claims' = Replace(claims, gvr, items)
    /\ UNCHANGED <<xrs, mrs>>

ReplaceXRs(gvr, items) ==
    /\ xrs' = Replace(xrs, gvr, items)
    /\ UNCHANGED <<claims, mrs>>

ReplaceMRs(gvr, items) ==
    /\ mrs' = Replace(mrs, gvr, items)
    /\ UNCHANGED <<claims, xrs>>

(***************************************************************************)
(* EnrichClaimCompositions: a claim that names an XR takes the composition *)
(* of the XR stored under that bare name, if there is one, even when the   *)
(* claim had one of its own.                                               *)
(***************************************************************************)
RefersTo(claim, x) == claim.xrRef # NoName /\ ObjectKey(NoNS, claim.xrRef) \in DOMAIN x

EnrichClaimCompositionsOnce ==    \* a mutated form: a composition is never updated
    /\ claims' = [k \in DOMAIN claims |->
                    IF RefersTo(claims[k], xrs) /\ claims[k].composition = NoComposition
                    THEN [claims[k] EXCEPT
                            !.composition = xrs[ObjectKey(NoNS, claims[k].xrRef)].composition]
                    ELSE claims[k]]
    /\ UNCHANGED <<xrs, mrs>>

EnrichClaimCompositions ==
    /\ claims' = [k \in DOMAIN claims |->
                    IF RefersTo(claims[k], xrs)
                    THEN [claims[k] EXCEPT
                            !.composition = xrs[ObjectKey(NoNS, claims[k].xrRef)].composition]
                    ELSE claims[k]]
    /\ UNCHANGED <<xrs, mrs>>

(***************************************************************************)
(* EnrichXRClaims: an XR without a claim takes one whose xrRef is the XR's *)
(* name.  The claims are visited in Go map order, so with several such     *)
(* claims any of them may be the first.                                    *)
(***************************************************************************)
Referrers(xr) == {k \in DOMAIN claims : claims[k].xrRef = xr.name}

Linkable == {k \in DOMAIN xrs : xrs[k].claimName = NoName /\ Referrers(xrs[k]) # {}}

EnrichXRClaims ==
    /\ \E first \in [Linkable -> DOMAIN claims] :
          /\ \A k \in Linkable : first[k] \in Referrers(xrs[k])
          /\ xrs' = [k \in DOMAIN xrs |->
                       IF k \in Linkable
                       THEN [xrs[k] EXCEPT !.claimName = claims[first[k]].name,
                                           !.claimNS = claims[first[k]].ns]
                       ELSE xrs[k]]
    /\ UNCHANGED <<claims, mrs>>

(***************************************************************************)
(* EnrichMRClaims: an MR without a claim takes that of the XR stored under *)
(* the bare name its composite label gives.                                *)
(***************************************************************************)
BackedBy(mr, x) == mr.xrName # NoName /\ ObjectKey(NoNS, mr.xrName) \in DOMAIN x

EnrichMRClaimsSwapped ==    \* a mutated form: name and namespace are swapped
    /\ mrs' = [k \in DOMAIN mrs |->
                 IF mrs[k].claimName = NoName /\ BackedBy(mrs[k], xrs)
                 THEN LET xr == xrs[ObjectKey(NoNS, mrs[k].xrName)]
                      IN  [mrs[k] EXCEPT !.claimName = xr.claimNS, !.claimNS = xr.claimName]
                 ELSE mrs[k]]
    /\ UNCHANGED <<claims, xrs>>

EnrichMRClaimsNameOnly ==    \* a mutated form: the namespace is not copied
    /\ mrs' = [k \in DOMAIN mrs |->
                 IF mrs[k].claimName = NoName /\ BackedBy(mrs[k], xrs)
                 THEN [mrs[k] EXCEPT
                         !.claimName = xrs[ObjectKey(NoNS, mrs[k].xrName)].claimName]
                 ELSE mrs[k]]
    /\ UNCHANGED <<claims, xrs>>

EnrichMRClaims ==
    /\ mrs' = [k \in DOMAIN mrs |->
                 IF mrs[k].claimName = NoName /\ BackedBy(mrs[k], xrs)
                 THEN LET xr == xrs[ObjectKey(NoNS, mrs[k].xrName)]
                      IN  [mrs[k] EXCEPT !.claimName = xr.claimName, !.claimNS = xr.claimNS]
                 ELSE mrs[k]]
    /\ UNCHANGED <<claims, xrs>>

-----------------------------------------------------------------------------
(***************************************************************************)
(* Properties.                                                             *)
(***************************************************************************)
EntriesOf(m, g) == {k \in DOMAIN m : m[k].gvr = g}

(***************************************************************************)
(* Whether an enriched entry is still what was listed: enrichment may      *)
(* change the composition of a claim and the claim of an XR or MR that has *)
(* no claim label, and nothing else.                                       *)
(***************************************************************************)
SameClaim(stored, listed) ==
    stored = [listed EXCEPT !.composition = stored.composition]

SameLinked(stored, listed) ==
    /\ stored = [listed EXCEPT !.claimName = stored.claimName, !.claimNS = stored.claimNS]
    /\ listed.claimName # NoName => stored.claimName = listed.claimName
                                    /\ stored.claimNS = listed.claimNS

(***************************************************************************)
(* "Items from other GVRs are left untouched" (store.go:129): no call      *)
(* adds, removes or rewrites entries of more than one GVR of a map, apart  *)
(* from the enrichment, which keeps every entry the same object.           *)
(***************************************************************************)
Untouched(m, n, g, Same(_, _)) ==
    /\ EntriesOf(m, g) = EntriesOf(n, g)
    /\ \A k \in EntriesOf(m, g) : Same(n[k], m[k])

OtherGVRsUntouched ==
    [][ /\ \A g, h \in ClaimGVRs : g # h =>
              \/ Untouched(claims, claims', g, SameClaim)
              \/ Untouched(claims, claims', h, SameClaim)
        /\ \A g, h \in XRGVRs : g # h =>
              \/ Untouched(xrs, xrs', g, SameLinked)
              \/ Untouched(xrs, xrs', h, SameLinked)
        /\ \A g, h \in MRGVRs : g # h =>
              \/ Untouched(mrs, mrs', g, SameLinked)
              \/ Untouched(mrs, mrs', h, SameLinked) ]_storeVars
=============================================================================
