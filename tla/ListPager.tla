------------------------------- MODULE ListPager -------------------------------
(***************************************************************************)
(* The page loop of listClaims, listXRs and listMRs (pkg/kube/poller.go):  *)
(* pages of at most PageLimit objects, joined by a continue token, until   *)
(* one comes without a token; an error on any page fails the whole list.   *)
(*                                                                         *)
(* The API server answers all pages of a list from the version of its data *)
(* that the first one was read at.  The token stands for what is left of   *)
(* that version; when the version has been compacted away, the token has   *)
(* expired and the page fails, as it may for any other reason.             *)
(***************************************************************************)
EXTENDS Conversion, FiniteSets

CONSTANTS
    Jobs,        \* the lists that can be asked for
    Contents,    \* Contents[k]: the sets of objects kind k may have
    PageLimit    \* Limit of metav1.ListOptions

ASSUME PageLimitAssumption == PageLimit \in Nat \ {0}

VARIABLES
    world,       \* world[k]: the objects of kind k in the API server
    state,       \* "none", "first" or "next" page asked for, "done", "failed"
    job,         \* the list under way
    got,         \* what the pages so far held, converted
    token        \* the objects the continue token still leads to

pagerVars == <<world, state, job, got, token>>

NoObjects == [k \in {} |-> {}]
NoJob     == <<>>

(***************************************************************************)
(* The atomic call that the loop is to implement: nothing is returned      *)
(* before it is done, and from the first page on the rest is settled.      *)
(***************************************************************************)
Join(m, n) == [k \in DOMAIN m \cup DOMAIN n |-> IF k \in DOMAIN n THEN n[k] ELSE m[k]]

Converting(j, objects) ==
    [k \in {o \in DOMAIN objects : IsKept(j, objects[o])} |-> Info(j, objects[k])]

Call == INSTANCE ListCall WITH
            state  <- IF state = "first" THEN "asked"
                      ELSE IF state = "next" THEN "read" ELSE state,
            result <- IF state = "done" THEN got ELSE NoObjects,
            chosen <- IF state = "next" THEN Join(got, Converting(job, token)) ELSE NoObjects

ImplementsListCall == Call!CallSpec
-----------------------------------------------------------------------------
Worlds ==
    {w \in [DOMAIN Contents -> UNION Range(Contents)] :
        \A k \in DOMAIN Contents : w[k] \in Contents[k]}

PagerInit ==
    /\ world \in Worlds
    /\ state = "none"
    /\ job = NoJob
    /\ got = NoObjects
    /\ token = NoObjects

ObjectsChange(k) ==
    /\ \E objects \in Contents[k] : world' = [world EXCEPT ![k] = objects]
    /\ UNCHANGED <<state, job, got, token>>

List(j) ==
    /\ state = "none"
    /\ state' = "first"
    /\ job' = j
    /\ UNCHANGED <<world, got, token>>

(***************************************************************************)
(* One page: any objects of the version, at most PageLimit and not none    *)
(* while there are some.                                                   *)
(***************************************************************************)
Remaining == IF state = "first" THEN Call!Selected(job) ELSE token

Page ==
    /\ state \in {"first", "next"}
    /\ \E page \in SUBSET DOMAIN Remaining :
          /\ Cardinality(page) <= PageLimit
          /\ page = {} => Remaining = NoObjects
          /\ got' = Join(got, Converting(job, Restrict(Remaining, page)))
          /\ token' = Restrict(Remaining, DOMAIN Remaining \ page)
          /\ state' = IF page = DOMAIN Remaining THEN "done" ELSE "next"
    /\ UNCHANGED <<world, job>>

PageFailsKeeping ==    \* a mutated form: the pages before the error are returned
    /\ state \in {"first", "next"}
    /\ state' = "done"
    /\ token' = NoObjects
    /\ UNCHANGED <<world, job, got>>

PageFails ==
    /\ state \in {"first", "next"}
    /\ state' = "failed"
    /\ got' = NoObjects
    /\ token' = NoObjects
    /\ UNCHANGED <<world, job>>

(***************************************************************************)
(* The poll takes the result, or the process has died.                     *)
(***************************************************************************)
Return ==
    /\ state \in {"done", "failed"}
    /\ state' = "none"
    /\ job' = NoJob
    /\ got' = NoObjects
    /\ UNCHANGED <<world, token>>

Drop ==
    /\ state' = "none"
    /\ job' = NoJob
    /\ got' = NoObjects
    /\ token' = NoObjects
    /\ UNCHANGED world

PagerNext ==
    \/ \E k \in DOMAIN Contents : ObjectsChange(k)
    \/ \E j \in Jobs : List(j)
    \/ Page
    \/ PageFails
    \/ Return
    \/ Drop

PagerSpec == PagerInit /\ [][PagerNext]_pagerVars
=============================================================================
