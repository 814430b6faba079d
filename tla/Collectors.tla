------------------------------ MODULE Collectors ------------------------------
(***************************************************************************)
(* The Collect methods of the claim, XR and MR collectors (pkg/metrics):   *)
(* the infos of a snapshot are grouped by their labels, and every group    *)
(* becomes one series of crossplane_*_total and one of crossplane_*_ready. *)
(* As in MemoryStore, "ready" stands for the status of an object; a label  *)
(* has it too.  The series of the synced count and of the times repeat the *)
(* grouping and are left out.                                              *)
(***************************************************************************)
EXTENDS FiniteSets

ClaimLabels(i) == [gvr |-> i.gvr, ns |-> i.ns, name |-> i.name, ready |-> i.ready]

XRLabels(i) == [gvr |-> i.gvr, ns |-> i.ns, name |-> i.name, claimName |-> i.claimName,
                claimNS |-> i.claimNS, ready |-> i.ready]

MRLabelsNameOnly(i) ==    \* a mutated form: the namespace is not among the labels
    [gvr |-> i.gvr, ns |-> "", name |-> i.name, xrName |-> i.xrName,
     claimName |-> i.claimName, claimNS |-> i.claimNS, ready |-> i.ready]

MRLabels(i) == [gvr |-> i.gvr, ns |-> i.ns, name |-> i.name, xrName |-> i.xrName,
                claimName |-> i.claimName, claimNS |-> i.claimNS, ready |-> i.ready]

Aggregate(infos, labels) ==
    LET group(l) == {k \in DOMAIN infos : labels[k] = l}
    IN  [l \in {labels[k] : k \in DOMAIN infos} |->
            [total |-> Cardinality(group(l)),
             ready |-> Cardinality({k \in group(l) : infos[k].ready})]]

CollectClaims(infos) == Aggregate(infos, [k \in DOMAIN infos |-> ClaimLabels(infos[k])])
CollectXRs(infos)    == Aggregate(infos, [k \in DOMAIN infos |-> XRLabels(infos[k])])
CollectMRs(infos)    == Aggregate(infos, [k \in DOMAIN infos |-> MRLabels(infos[k])])

Collect(part, infos) ==
    CASE part = "claims" -> CollectClaims(infos)
      [] part = "xrs"    -> CollectXRs(infos)
      [] part = "mrs"    -> CollectMRs(infos)
=============================================================================
