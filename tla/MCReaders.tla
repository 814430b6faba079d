------------------------------- MODULE MCReaders -------------------------------
(***************************************************************************)
(* Small clusters for the readers.                                         *)
(***************************************************************************)
EXTENDS Readers, MCClusters

(***************************************************************************)
(* An XR with a claim label, and under it an MR in a namespace that is not *)
(* ready and gets its claim from the enrichment.                           *)
(***************************************************************************)
LabelledLink ==
    [g \in LinkGVRs |->
        CASE g = "claim" -> {}
          [] g = "xr"    -> XRObjects(g, "x", {"a"}, {"k1"})
          [] g = "mr"    -> MRObjects(g, {"n1"}, "m", {"x"}, {FALSE})]
LinkConfigs == OneConfig(<<"xr">>, <<"claim">>, <<"mr">>)
=============================================================================
