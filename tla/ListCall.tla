------------------------------- MODULE ListCall -------------------------------
(***************************************************************************)
(* What a list of one kind promises to the poller: when it succeeds, its   *)
(* result is everything the API server held of the kind at one moment      *)
(* between the call and its return, converted; when it fails, nothing.     *)
(* Objects change all the time.                                            *)
(***************************************************************************)
EXTENDS Conversion

CONSTANTS
    Jobs,        \* the lists that can be asked for
    Contents     \* Contents[k]: the sets of objects kind k may have

VARIABLES
    world,       \* world[k]: the objects of kind k in the API server
    state,       \* "none", "asked", "read", "done" or "failed"
    job,         \* the list under way
    result,      \* what it returned
    chosen       \* internal: the result, once it has been settled

callVars == <<world, state, job, result, chosen>>

NoObjects == [k \in {} |-> {}]
NoJob     == <<>>

(***************************************************************************)
(* A kind is its group and resource, whichever version it is listed at.    *)
(***************************************************************************)
KindListed(j) == <<j.gvr.group, j.gvr.resource>>

(***************************************************************************)
(* What the API server selects for a list, by namespace and, of MRs, by    *)
(* the presence of the composite label; what the exporter makes of a set   *)
(* of objects; and the two together.  Objects have distinct keys.          *)
(***************************************************************************)
IsSelected(j, o) ==
    /\ j.ns \in {"", o.ns}
    /\ j.role = "mr" => j.keys.composite \in DOMAIN o.labels

Selected(j) ==
    LET objects == world[KindListed(j)]
    IN  Restrict(objects, {k \in DOMAIN objects : IsSelected(j, objects[k])})

Converted(j, objects) ==
    [k \in {o \in DOMAIN objects : IsKept(j, objects[o])} |-> Info(j, objects[k])]

Worlds ==
    {w \in [DOMAIN Contents -> UNION Range(Contents)] :
        \A k \in DOMAIN Contents : w[k] \in Contents[k]}

CallInit ==
    /\ world \in Worlds
    /\ state = "none"
    /\ job = NoJob
    /\ result = NoObjects
    /\ chosen = NoObjects

WorldChange ==
    /\ \E k \in DOMAIN Contents : \E objects \in Contents[k] :
          world' = [world EXCEPT ![k] = objects]
    /\ UNCHANGED <<state, job, result, chosen>>

Ask ==
    /\ state = "none"
    /\ job' \in Jobs
    /\ state' = "asked"
    /\ UNCHANGED <<world, result, chosen>>

Read ==
    /\ state = "asked"
    /\ state' = "read"
    /\ chosen' = Converted(job, Selected(job))
    /\ UNCHANGED <<world, job, result>>

Succeed ==
    /\ state' = "done"
    /\ \/ state = "asked" /\ result' = Converted(job, Selected(job))
       \/ state = "read" /\ result' = chosen
    /\ chosen' = NoObjects
    /\ UNCHANGED <<world, job>>

Fail ==
    /\ state \in {"asked", "read"}
    /\ state' = "failed"
    /\ result' = NoObjects
    /\ chosen' = NoObjects
    /\ UNCHANGED <<world, job>>

(***************************************************************************)
(* The caller takes the result, or goes away in the middle of the call.    *)
(***************************************************************************)
Forget ==
    /\ state # "none"
    /\ state' = "none"
    /\ job' = NoJob
    /\ result' = NoObjects
    /\ chosen' = NoObjects
    /\ UNCHANGED world

CallNext == WorldChange \/ Ask \/ Read \/ Succeed \/ Fail \/ Forget

CallSpec == CallInit /\ [][CallNext]_callVars
=============================================================================
