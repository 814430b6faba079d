------------------------------ MODULE Conversion ------------------------------
(***************************************************************************)
(* From the objects of the API server to the records of the store          *)
(* (pkg/kube/convert.go).  An object has a namespace ("" when it is        *)
(* cluster-scoped), a name, labels, annotations, the fields of its spec    *)
(* that are read, conditions in order, and is being deleted or not.  The   *)
(* arguments of a list travel with it as a job: the role of the kind       *)
(* ("claim", "xr" or "mr"), its GVR, the namespace, the label and          *)
(* annotation keys of the configuration, the provider.  The kind name and  *)
(* the time stamps are copied without a look and left out.                 *)
(***************************************************************************)
EXTENDS Naturals, Sequences, FiniteSetsExt, Functions

(***************************************************************************)
(* Reading a label, an annotation or a field that may not be there.        *)
(***************************************************************************)
Value(map, key) == IF key \in DOMAIN map THEN map[key] ELSE ""

(***************************************************************************)
(* strings.EqualFold with "true", for the spellings in use.                *)
(***************************************************************************)
IsTrue(s) == s \in {"true", "True", "TRUE"}

IsPaused(o) == IsTrue(Value(o.annotations, "crossplane.io/paused"))

(***************************************************************************)
(* extractReadyCondition and extractConditionStatus: the first condition   *)
(* of the type, whatever comes after it.                                   *)
(***************************************************************************)
FirstConditionOf(o, type) ==    \* a mutated form: the type is not compared
    IF o.conditions = <<>> THEN [type |-> type, status |-> "", reason |-> ""]
    ELSE Head(o.conditions)

ConditionOf(o, type) ==
    LET matching == {i \in DOMAIN o.conditions : o.conditions[i].type = type}
    IN  IF matching = {} THEN [type |-> type, status |-> "", reason |-> ""]
        ELSE o.conditions[Min(matching)]

ConditionStatus(o, type) == IsTrue(ConditionOf(o, type).status)

(***************************************************************************)
(* What the three conversions have in common.                              *)
(***************************************************************************)
Status(o) ==
    [paused |-> IsPaused(o), deleting |-> o.deleting,
     synced |-> ConditionStatus(o, "Synced"),
     ready  |-> ConditionStatus(o, "Ready"), reason |-> ConditionOf(o, "Ready").reason]

UnstructuredToClaim(o, job) ==
    [gvr |-> job.gvr, ns |-> o.ns, name |-> o.name,
     creator     |-> Value(o.annotations, job.keys.creator),
     team        |-> Value(o.annotations, job.keys.team),
     xrRef       |-> Value(o.spec, "resourceRef.name"),
     composition |-> Value(o.labels, job.keys.composition),
     status      |-> Status(o)]

UnstructuredToXR(o, job) ==
    [gvr |-> job.gvr, ns |-> o.ns, name |-> o.name,
     composition |-> Value(o.labels, job.keys.composition),
     claimName   |-> Value(o.labels, "crossplane.io/claim-name"),
     claimNS     |-> Value(o.labels, "crossplane.io/claim-namespace"),
     status      |-> Status(o)]

UnstructuredToMR(o, job) ==
    [gvr |-> job.gvr, ns |-> o.ns, name |-> o.name,
     provider  |-> job.provider,
     xrName    |-> Value(o.labels, job.keys.composite),
     claimName |-> Value(o.labels, "crossplane.io/claim-name"),
     claimNS   |-> Value(o.labels, "crossplane.io/claim-namespace"),
     externalName       |-> Value(o.annotations, "crossplane.io/external-name"),
     providerConfig     |-> Value(o.spec, "providerConfigRef.name"),
     managementPolicies |-> Value(o.spec, "managementPolicies"),
     status    |-> Status(o)]

Info(job, o) ==
    CASE job.role = "claim" -> UnstructuredToClaim(o, job)
      [] job.role = "xr"    -> UnstructuredToXR(o, job)
      [] job.role = "mr"    -> UnstructuredToMR(o, job)

(***************************************************************************)
(* listMRs drops an MR whose composite label is empty.                     *)
(***************************************************************************)
IsKept(job, o) == job.role = "mr" => Info(job, o).xrName # ""
=============================================================================
