------------------------------- MODULE MCPoller -------------------------------
(***************************************************************************)
(* Small clusters for the poller.                                          *)
(***************************************************************************)
EXTENDS PollerMirror, MCClusters

TwoNamespaces == <<"n1", "n2">>

(***************************************************************************)
(* Two claims, of which both, one or none are there to name the XR, and    *)
(* two kinds of MRs, one of which has no objects.  The XR is without claim *)
(* labels, or labelled with a claim that is not there and then of another  *)
(* Composition.                                                            *)
(***************************************************************************)
Rivals ==
    [g \in LinkGVRs \cup {"none"} |->
        CASE g = "claim" -> ClaimObjects(g, {"n1"}, {"a", "b"}, {"x"}, {""})
          [] g = "xr"    -> XRObjects(g, "x", {""}, {"k1"}) \cup XRObjects(g, "x", {"z"}, {"k2"})
          [] g = "mr"    -> MRObjects(g, {""}, "m", {"x"}, {TRUE})
          [] g = "none"  -> {}]
PoolConfigs == OneConfig(<<"xr">>, <<"claim">>, <<"none", "mr">>)

(***************************************************************************)
(* Two kinds of claims that use the same namespace and name.               *)
(***************************************************************************)
Namesakes ==
    [g \in {"claimA", "claimB", "xr"} |->
        CASE g = "claimA" -> ClaimObjects(g, {"n1"}, {"a"}, {"x"}, {""})
          [] g = "claimB" -> ClaimObjects(g, {"n1"}, {"a"}, {"x"}, {""})
          [] g = "xr"     -> {}]
TwoClaimsConfigs == OneConfig(<<"xr">>, <<"claimA", "claimB">>, <<>>)

(***************************************************************************)
(* Two claims that name the same XR without labels.                        *)
(***************************************************************************)
Duel ==
    [g \in {"claimA", "claimB", "xr"} |->
        CASE g = "claimA" -> ClaimObjects(g, {"n1"}, {"a"}, {"x"}, {""})
          [] g = "claimB" -> ClaimObjects(g, {"n1"}, {"b"}, {"x"}, {""})
          [] g = "xr"     -> XRObjects(g, "x", {""}, {"k1"})]

(***************************************************************************)
(* Claims in two namespaces, with an XR that has none, and in one of them  *)
(* an MR that may lack the composite label.                                *)
(***************************************************************************)
Spaces ==
    [g \in LinkGVRs |->
        CASE g = "claim" -> ClaimObjects(g, {"n1", "n2"}, {"a"}, {"x"}, {""})
          [] g = "xr"    -> XRObjects(g, "x", {""}, {"k1"})
          [] g = "mr"    -> MRObjects(g, {"n2"}, "m", {"x", ""}, {TRUE})]
LinkConfigs == OneConfig(<<"xr">>, <<"claim">>, <<"mr">>)

(***************************************************************************)
(* Link with a second kind of MRs, to share the pool with.                 *)
(***************************************************************************)
Pool ==
    [g \in LinkGVRs \cup {"none"} |-> IF g = "none" THEN {} ELSE Link[g]]
=============================================================================
