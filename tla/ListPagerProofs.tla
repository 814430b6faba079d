---------------------------- MODULE ListPagerProofs ----------------------------
(***************************************************************************)
(* The page loop implements the atomic list call, for any lists, any       *)
(* objects and any page limit.                                             *)
(***************************************************************************)
EXTENDS ListPager, TLAPS

(***************************************************************************)
(* What the loop holds at each of its steps: nothing outside of a call and *)
(* before the first page, nothing left over at its end.                    *)
(***************************************************************************)
PagerInv ==
    /\ state \in {"none", "first", "next", "done", "failed"}
    /\ state = "none" => job = NoJob
    /\ state # "next" => token = NoObjects
    /\ state \notin {"next", "done"} => got = NoObjects

LEMMA PagerInvInductive ==
    PagerSpec => []PagerInv
<1>1. PagerInit => PagerInv
  BY DEF PagerInit, PagerInv
<1>2. PagerInv /\ [PagerNext]_pagerVars => PagerInv'
  <2> SUFFICES ASSUME PagerInv, [PagerNext]_pagerVars PROVE PagerInv'
    OBVIOUS
  <2>1. ASSUME NEW k \in DOMAIN Contents, ObjectsChange(k) PROVE PagerInv'
    BY <2>1 DEF ObjectsChange, PagerInv
  <2>2. ASSUME NEW j \in Jobs, List(j) PROVE PagerInv'
    BY <2>2 DEF List, PagerInv
  <2>3. CASE Page
    <3>1. PICK page \in SUBSET DOMAIN Remaining :
              /\ token' = Restrict(Remaining, DOMAIN Remaining \ page)
              /\ state' = IF page = DOMAIN Remaining THEN "done" ELSE "next"
      BY <2>3 DEF Page
    <3>2. state' = "done" => token' = NoObjects
      BY <3>1 DEF Restrict, NoObjects
    <3> QED
      BY <3>1, <3>2 DEF PagerInv
  <2>4. CASE PageFails
    BY <2>4 DEF PageFails, PagerInv
  <2>5. CASE Return
    BY <2>5 DEF Return, PagerInv
  <2>6. CASE Drop
    BY <2>6 DEF Drop, PagerInv
  <2>7. CASE UNCHANGED pagerVars
    BY <2>7 DEF pagerVars, PagerInv
  <2> QED
    BY <2>1, <2>2, <2>3, <2>4, <2>5, <2>6, <2>7 DEF PagerNext
<1> QED
  BY <1>1, <1>2, PTL DEF PagerSpec

-----------------------------------------------------------------------------
(***************************************************************************)
(* The two modules say the same of single objects and of a selection.      *)
(***************************************************************************)
LEMMA SameInfo ==
    ASSUME NEW j, NEW o
    PROVE  Call!Info(j, o) = Info(j, o)
<1>1. \A S : Call!Min(S) = Min(S)
  BY DEF Min, Call!Min
<1>2. \A type : Call!ConditionOf(o, type) = ConditionOf(o, type)
  BY <1>1 DEF ConditionOf, Call!ConditionOf
<1>3. \A map, key : Call!Value(map, key) = Value(map, key)
  BY DEF Value, Call!Value
<1>4. Call!Status(o) = Status(o)
  BY <1>2, <1>3 DEF Status, IsPaused, ConditionStatus, IsTrue, Call!Status,
         Call!IsPaused, Call!ConditionStatus, Call!IsTrue
<1> QED
  BY <1>3, <1>4 DEF Info, UnstructuredToClaim, UnstructuredToXR, UnstructuredToMR, Call!Info,
         Call!UnstructuredToClaim, Call!UnstructuredToXR, Call!UnstructuredToMR

LEMMA SameConverted ==
    ASSUME NEW j, NEW objects
    PROVE  Call!Converted(j, objects) = Converting(j, objects)
<1>1. \A o : Call!IsKept(j, o) <=> IsKept(j, o)
  BY SameInfo DEF IsKept, Call!IsKept
<1> QED
  BY <1>1, SameInfo DEF Converting, Call!Converted

(***************************************************************************)
(* What the first page and every later one leave to come is, with what     *)
(* they have brought, the result that was settled when the first was read. *)
(***************************************************************************)
LEMMA RestIsSettled ==
    ASSUME NEW j, NEW objects, NEW part, NEW page \in SUBSET DOMAIN objects
    PROVE  Join(Join(part, Converting(j, Restrict(objects, page))),
                Converting(j, Restrict(objects, DOMAIN objects \ page)))
              = Join(part, Converting(j, objects))
BY DEF Join, Converting, Restrict

LEMMA WholeIsSettled ==
    ASSUME NEW j, NEW objects
    PROVE  Converting(j, Restrict(objects, DOMAIN objects)) = Converting(j, objects)
BY DEF Converting, Restrict

LEMMA FirstPart ==
    ASSUME NEW j, NEW objects
    PROVE  Join(NoObjects, Converting(j, objects)) = Converting(j, objects)
BY DEF Join, Converting, NoObjects

-----------------------------------------------------------------------------
(***************************************************************************)
(* A page leaves the sum of what has come and what is to come.             *)
(***************************************************************************)
LEMMA PageAdds ==
    ASSUME Page
    PROVE  /\ state \in {"first", "next"} /\ UNCHANGED <<world, job>>
           /\ state' \in {"next", "done"}
           /\ state' = "next" =>
                 Join(got', Converting(job, token')) = Join(got, Converting(job, Remaining))
           /\ state' = "done" => got' = Join(got, Converting(job, Remaining))
<1>1. PICK page \in SUBSET DOMAIN Remaining :
          /\ got' = Join(got, Converting(job, Restrict(Remaining, page)))
          /\ token' = Restrict(Remaining, DOMAIN Remaining \ page)
          /\ state' = IF page = DOMAIN Remaining THEN "done" ELSE "next"
  BY DEF Page
<1>2. state \in {"first", "next"} /\ UNCHANGED <<world, job>>
  BY DEF Page
<1>3. state' = "next" => Join(got', Converting(job, token')) = Join(got, Converting(job, Remaining))
  BY <1>1, RestIsSettled
<1>4. state' = "done" => got' = Join(got, Converting(job, Remaining))
  BY <1>1, WholeIsSettled
<1> QED
  BY <1>1, <1>2, <1>3, <1>4

(***************************************************************************)
(* One page is the read and the return of the call at once, the read       *)
(* alone, a step towards the return, or the return.                        *)
(***************************************************************************)
LEMMA PageIsCallStep ==
    ASSUME PagerInv, Page
    PROVE  [Call!CallNext]_(Call!callVars)
<1>1. state' \in {"next", "done"}
  BY PageAdds
<1>2. state \in {"first", "next"} /\ UNCHANGED <<world, job>>
  BY PageAdds
<1>3. state' = "next" => Join(got', Converting(job', token')) = Join(got, Converting(job, Remaining))
  BY PageAdds
<1>4. state' = "done" => got' = Join(got, Converting(job, Remaining))
  BY PageAdds
<1>5. CASE state = "first"
  <2>1. Join(got, Converting(job, Remaining)) = Call!Converted(job, Call!Selected(job))
    BY <1>5, FirstPart, SameConverted DEF PagerInv, Remaining
  <2>2. CASE state' = "next"
    BY <1>2, <1>3, <1>5, <2>1, <2>2 DEF Call!CallNext, Call!Read
  <2>3. CASE state' = "done"
    BY <1>2, <1>4, <1>5, <2>1, <2>3 DEF Call!CallNext, Call!Succeed, NoObjects, Call!NoObjects
  <2> QED
    BY <1>1, <2>2, <2>3
<1>6. CASE state = "next"
  <2>1. Remaining = token
    BY <1>6 DEF Remaining
  <2>2. CASE state' = "next"
    BY <1>2, <1>3, <1>6, <2>1, <2>2 DEF Call!callVars
  <2>3. CASE state' = "done"
    BY <1>2, <1>4, <1>6, <2>1, <2>3 DEF Call!CallNext, Call!Succeed, NoObjects, Call!NoObjects
  <2> QED
    BY <1>1, <2>2, <2>3
<1> QED
  BY <1>2, <1>5, <1>6

(***************************************************************************)
(* For any lists, contents of the cluster and page limit, the loop of      *)
(* listClaims, listXRs and listMRs returns all of a kind as of one moment  *)
(* of the call, or fails and returns nothing (poller.go:274-382).          *)
(***************************************************************************)
THEOREM PagerImplementsListCall == PagerSpec => ImplementsListCall
<1>1. PagerInit => Call!CallInit
  BY DEF PagerInit, Call!CallInit, Worlds, Call!Worlds, Range, Call!Range, NoJob,
         Call!NoJob, NoObjects, Call!NoObjects
<1>2. PagerInv /\ [PagerNext]_pagerVars => [Call!CallNext]_(Call!callVars)
  <2> SUFFICES ASSUME PagerInv, [PagerNext]_pagerVars PROVE [Call!CallNext]_(Call!callVars)
    OBVIOUS
  <2> USE DEF NoObjects, Call!NoObjects, NoJob, Call!NoJob
  <2>1. ASSUME NEW k \in DOMAIN Contents, ObjectsChange(k) PROVE Call!WorldChange
    BY <2>1 DEF ObjectsChange, Call!WorldChange
  <2>2. ASSUME NEW j \in Jobs, List(j) PROVE Call!Ask
    BY <2>2 DEF List, Call!Ask, PagerInv
  <2>3. CASE PageFails
    <3>1. Call!Fail
      BY <2>3 DEF PageFails, Call!Fail, PagerInv
    <3> QED
      BY <3>1 DEF Call!CallNext
  <2>4. CASE Return
    <3>1. Call!Forget
      BY <2>4 DEF Return, Call!Forget, PagerInv
    <3> QED
      BY <3>1 DEF Call!CallNext
  <2>5. CASE Drop /\ state # "none"
    <3>1. Call!Forget
      BY <2>5 DEF Drop, Call!Forget, PagerInv
    <3> QED
      BY <3>1 DEF Call!CallNext
  <2>6. CASE Drop /\ state = "none"
    BY <2>6 DEF Drop, Call!callVars, PagerInv
  <2>7. CASE UNCHANGED pagerVars
    BY <2>7 DEF pagerVars, Call!callVars
  <2> QED
    BY <2>1, <2>2, <2>3, <2>4, <2>5, <2>6, <2>7, PageIsCallStep DEF PagerNext, Call!CallNext
<1> QED
  BY <1>1, <1>2, PagerInvInductive, PTL DEF PagerSpec, ImplementsListCall, Call!CallSpec
=============================================================================
