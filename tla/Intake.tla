-------------------------------- MODULE Intake --------------------------------
(***************************************************************************)
(* From definitions to records: a process that loads its configuration,    *)
(* discovers the kinds to poll (Discovery) and then lists them, one after  *)
(* the other and again and again, page by page (ListPager), while          *)
(* definitions and objects change and the process may die.  Poller has     *)
(* what becomes of the results, and the pool in which the MR kinds are     *)
(* listed at the same time.                                                *)
(***************************************************************************)
EXTENDS Discovery, ListPager

CONSTANT
    MaxLists     \* no cycle has more lists (for the liveness property only)

VARIABLE
    turn         \* the list to make next, as an index into Lists

intakeVars == <<discoveryVars, pagerVars, turn>>

(***************************************************************************)
(* The lists of a cycle: XRs, claims, MRs, in the order of the config, of  *)
(* the whole cluster or of one namespace after the other (poll).           *)
(***************************************************************************)
Tag(role, gvrs) == [i \in DOMAIN gvrs |-> <<role, gvrs[i]>>]

Targets == IF cfg.namespaces = <<>> THEN <<"">> ELSE cfg.namespaces

Lists ==
    LET kinds == Tag("xr", cfg.xrs) \o Tag("claim", cfg.claims) \o Tag("mr", cfg.mrs)
        n == Len(Targets)
    IN  [i \in 1..(Len(kinds) * n) |->
            LET kind == kinds[(i + n - 1) \div n]
                gvr  == kind[2]
            IN  [role |-> kind[1], gvr |-> gvr, keys |-> cfg.keys,
                 ns |-> Targets[((i - 1) % n) + 1],
                 provider |-> IF kind[1] = "mr" /\ gvr \in DOMAIN cfg.providers
                              THEN cfg.providers[gvr] ELSE ""]]

(***************************************************************************)
(* The lists there can be, for the environments and definitions given.     *)
(***************************************************************************)
EveryJob ==
    LET loaded == {Load(e) : e \in {x \in Envs : Accepted(x)}}
    IN  [role : {"xr", "claim", "mr"},
         gvr  : Discoverable \cup UNION {Range(c.mrs) : c \in loaded},
         keys : {c.keys : c \in loaded},
         ns   : {""} \cup UNION {Range(c.namespaces) : c \in loaded},
         provider : {""} \cup {ProviderFromMRD(m) : m \in UNION Range(MRDForms)}]

ASSUME JobsAssumption == EveryJob \subseteq Jobs

(***************************************************************************)
(* Kubernetes keeps at most one condition of a type.                       *)
(***************************************************************************)
ASSUME ContentsAssumption ==
    /\ \A j \in EveryJob : <<j.gvr.group, j.gvr.resource>> \in DOMAIN Contents
    /\ \A k \in DOMAIN Contents : \A objects \in Contents[k] : \A o \in Range(objects) :
          /\ o.conditions \in Seq(Range(o.conditions))
          /\ \A i, j \in DOMAIN o.conditions :
                o.conditions[i].type = o.conditions[j].type => i = j

(***************************************************************************)
(* The API server serves the versions that a definition says are served,   *)
(* of an MRD once it is active.                                            *)
(***************************************************************************)
Serves(d, g, plural) ==
    Kind(g) = <<d.group, plural>> /\ g.version \in ServedOf(d)

Served(g) ==
    \/ \E d \in Range(xrds) : Serves(d, g, d.plural) \/ Serves(d, g, d.claimPlural)
    \/ \E d \in ActiveMRDs : Serves(d, g, d.plural)
    \/ g \in PlainCRDs

-----------------------------------------------------------------------------
IntakeInit ==
    /\ DiscoveryInit
    /\ PagerInit
    /\ turn = 1

DefinitionsChange ==
    /\ \/ \E d \in DOMAIN XRDForms : XRDChange(d)
       \/ \E d \in DOMAIN MRDForms : MRDChange(d)
    /\ UNCHANGED <<pagerVars, turn>>

ClusterChange ==
    /\ \E k \in DOMAIN Contents : ObjectsChange(k)
    /\ UNCHANGED <<discoveryVars, turn>>

Discover ==
    /\ Start \/ DiscoverXRDs \/ DiscoverMRDs
    /\ UNCHANGED <<pagerVars, turn>>

DiscoverFails ==
    /\ DiscoveryFails
    /\ UNCHANGED <<pagerVars, turn>>

ListNext ==
    /\ pc = "polling"
    /\ List(Lists[turn])
    /\ UNCHANGED <<discoveryVars, turn>>

GetPage ==
    /\ state # "none" /\ Served(job.gvr)
    /\ Page
    /\ UNCHANGED <<discoveryVars, turn>>

GetNoPage ==
    /\ PageFails
    /\ UNCHANGED <<discoveryVars, turn>>

TakeResult ==
    /\ Return
    /\ turn' = (turn % Len(Lists)) + 1
    /\ UNCHANGED discoveryVars

Crash ==
    /\ Dies
    /\ Drop
    /\ turn' = 1

ProcessStep ==
    Discover \/ DiscoverFails \/ ListNext \/ GetPage \/ GetNoPage \/ TakeResult

IntakeNext == ProcessStep \/ Crash \/ DefinitionsChange \/ ClusterChange

(***************************************************************************)
(* Fairness: a process that is down is started, one that is up goes on,    *)
(* and its calls return.                                                   *)
(***************************************************************************)
IntakeSpec ==
    /\ IntakeInit
    /\ [][IntakeNext]_intakeVars
    /\ WF_intakeVars(ProcessStep)

-----------------------------------------------------------------------------
(***************************************************************************)
(* Once definitions and objects are left alone, the definitions can be     *)
(* used, what is polled is served and calls work, the process stays up and *)
(* lists every kind again and again, and every list shows each object the  *)
(* namespaces of the configuration have, as it is: linked by its labels,   *)
(* and ready if it has a Ready condition that is True.  (main.go:62,       *)
(* poller.go:274-382, convert.go.)                                         *)
(***************************************************************************)
CallsWork ==
    /\ <>[][UNCHANGED <<xrds, mrds, world>>]_intakeVars
    /\ <>[][~DiscoverFails /\ ~GetNoPage /\ ~Crash]_intakeVars
    /\ <>[](ClaimEnabled # {} /\ \A d \in Range(xrds) : Usable(d, SelectVersion(d)))
    /\ <>[](\A d \in ActiveMRDs : Usable(d, SelectCRDVersion(d)))
    /\ <>[](pc = "polling" => \A i \in DOMAIN Lists : Served(Lists[i].gvr))

IsWanted(o) ==
    /\ job.ns \in {"", o.ns}
    /\ job.role = "mr" => Value(o.labels, job.keys.composite) # ""

Shows(info, o) ==
    /\ info.ns = o.ns /\ info.name = o.name
    /\ info.status.ready <=>
          \E i \in DOMAIN o.conditions : /\ o.conditions[i].type = "Ready"
                                         /\ IsTrue(o.conditions[i].status)
    /\ job.role = "mr" => info.xrName = Value(o.labels, job.keys.composite)
    /\ job.role = "claim" => info.xrRef = Value(o.spec, "resourceRef.name")

ShowsAll ==
    LET objects == world[<<job.gvr.group, job.gvr.resource>>]
    IN  /\ DOMAIN got = {k \in DOMAIN objects : IsWanted(objects[k])}
        /\ \A k \in DOMAIN got : Shows(got[k], objects[k])

KeepsListing ==
    Accepted(env) /\ CallsWork =>
        /\ <>[](pc = "polling" /\ (state = "done" => ShowsAll))
        /\ \A i \in 1..MaxLists :
              []<>(pc = "polling" /\ (i <= Len(Lists) => turn = i /\ state = "done"))
=============================================================================
