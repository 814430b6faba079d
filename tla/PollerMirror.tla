----------------------------- MODULE PollerMirror -----------------------------
(***************************************************************************)
(* A poller that lists the whole cluster implements InventoryMirror, when  *)
(* no two kinds share object keys.  What it shows of a GVR are the entries *)
(* of the store, without the fields the enrichment fills in.               *)
(***************************************************************************)
EXTENDS Poller

CONSTANT NoList    \* no list has been fetched and not yet published

Bare(o) ==
    IF o.gvr \in ClaimGVRs
    THEN [o EXCEPT !.composition = NoComposition]
    ELSE [o EXCEPT !.claimName = NoName, !.claimNS = NoNS]

BareMap(m) == [k \in DOMAIN m |-> Bare(m[k])]

ASSUME NoListAssumption == \A g \in AllGVRs : \A m \in Lists[g] : BareMap(m) # NoList

StoreOf(g) == CASE g \in ClaimGVRs -> claims
                [] g \in XRGVRs    -> xrs
                [] g \in MRGVRs    -> mrs

FetchedBy(g) == status[g] = "running" /\ at[g] > Len(Targets) /\ ~errs[g]

Mirror == INSTANCE InventoryMirror WITH
    GVRs     <- AllGVRs,
    Contents <- [g \in AllGVRs |-> {BareMap(m) : m \in Lists[g]}],
    Nothing  <- EmptyMap,
    cluster  <- [g \in AllGVRs |-> BareMap(Listed(g, NoNS))],
    fetched  <- [g \in AllGVRs |-> IF FetchedBy(g) THEN BareMap(items[g]) ELSE NoList],
    shown    <- [g \in AllGVRs |-> BareMap(Restrict(StoreOf(g), EntriesOf(StoreOf(g), g)))]

(***************************************************************************)
(* The store shows of each GVR one past state of the cluster, replaced as  *)
(* a whole by a later one; neither a failed list, nor another GVR, nor the *)
(* enrichment ever changes which objects it shows (poller.go:129-272).     *)
(***************************************************************************)
ImplementsMirror == Mirror!MirrorSpec

(***************************************************************************)
(* Its safety part.                                                        *)
(***************************************************************************)
FollowsMirror == Mirror!MirrorInit /\ [][Mirror!MirrorNext]_(Mirror!mirrorVars)
=============================================================================
