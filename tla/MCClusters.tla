------------------------------ MODULE MCClusters ------------------------------
(***************************************************************************)
(* Sets of objects for small clusters.  "" is Go's empty string, in        *)
(* whichever role.                                                         *)
(***************************************************************************)
ClaimObjects(g, spaces, names, refs, labels) ==
    [gvr : {g}, ns : spaces, name : names, xrRef : refs, composition : labels, ready : {TRUE}]
XRObjects(g, name, labels, compositions) ==
    [gvr : {g}, ns : {""}, name : {name}, claimName : labels, claimNS : {""},
     composition : compositions, ready : {TRUE}]
MRObjects(g, spaces, name, backing, readiness) ==
    [gvr : {g}, ns : spaces, name : {name}, xrName : backing, claimName : {""},
     claimNS : {""}, ready : readiness]

OneConfig(x, c, m) == {[xrs |-> x, claims |-> c, mrs |-> m]}

(***************************************************************************)
(* A claim, its XR and an MR under it.                                     *)
(***************************************************************************)
LinkGVRs == {"claim", "xr", "mr"}
Link ==
    [g \in LinkGVRs |->
        CASE g = "claim" -> ClaimObjects(g, {"n1"}, {"a"}, {"x"}, {""})
          [] g = "xr"    -> XRObjects(g, "x", {""}, {"k1"})
          [] g = "mr"    -> MRObjects(g, {""}, "m", {"x"}, {TRUE})]

(***************************************************************************)
(* An XR with and without a claim label, an MR under it, and no claims.    *)
(***************************************************************************)
Labelled ==
    [g \in LinkGVRs |->
        CASE g = "claim" -> {}
          [] g = "xr"    -> XRObjects(g, "x", {"a", ""}, {"k1"})
          [] g = "mr"    -> MRObjects(g, {""}, "m", {"x"}, {TRUE})]

WholeCluster == <<>>
=============================================================================
