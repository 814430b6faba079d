------------------------------ MODULE MCExporter ------------------------------
(***************************************************************************)
(* Small clusters for the exporter process.                                *)
(***************************************************************************)
EXTENDS Exporter, MCClusters

(***************************************************************************)
(* A kind of MRs that is discovered at some starts of the process and not  *)
(* at others, as when its ManagedResourceDefinition is deactivated.        *)
(***************************************************************************)
ComingAndGoing == OneConfig(<<"xr">>, <<"claim">>, <<"mr">>)
                    \cup OneConfig(<<"xr">>, <<"claim">>, <<>>)
==============================================================================
