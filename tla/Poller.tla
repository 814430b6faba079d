-------------------------------- MODULE Poller --------------------------------
(***************************************************************************)
(* The polling cycle (pkg/kube/poller.go) over the store of MemoryStore,   *)
(* with the S3 snapshot the cycle ends in (Persist of                      *)
(* pkg/store/s3store.go).  A cycle lists every configured XR kind, then    *)
(* every claim kind, one after the other, then all MR kinds in a bounded   *)
(* pool of goroutines, each in one list call for the whole cluster or one  *)
(* per configured namespace; it enriches, persists if no list failed, and  *)
(* sets the gauges.  The cluster changes under it at any moment.           *)
(*                                                                         *)
(* A list call is one step, as the page loop implements one (ListPager).   *)
(* It is apart from the step that replaces the listed objects in the       *)
(* store.                                                                  *)
(***************************************************************************)
EXTENDS MemoryStore, Sequences

CONSTANTS
    Scope,          \* config.Namespaces: a sequence, empty for the whole cluster
    MaxParallel,    \* mrPollConcurrency
    Backend,        \* config.StoreBackend: "memory" or "s3"
    Configs,        \* the possible outcomes of discovery: the kinds to poll
    MayCancel,      \* whether the context is ever cancelled
    NoSnapshot      \* there is no snapshot object in the bucket

Config == [xrs : Seq(XRGVRs), claims : Seq(ClaimGVRs), mrs : Seq(MRGVRs)]

ASSUME ScopeAssumption       == Scope \in Seq(Namespaces)
ASSUME MaxParallelAssumption == MaxParallel \in Nat \ {0}
ASSUME BackendAssumption     == Backend \in {"memory", "s3"}
ASSUME ConfigsAssumption     == \A c \in Configs : c \in Config
ASSUME MayCancelAssumption   == MayCancel \in BOOLEAN

VARIABLES
    cluster,    \* cluster[g]: the objects of GVR g the API server holds
    cfg,        \* the GVRs of the Config the poller was given
    phase,      \* how far poll() is
    status,     \* status[g]: whether this cycle's poll of g waits, runs or is done
    at,         \* at[g]: the target that poll lists next
    items,      \* items[g]: the objects it has listed, kept until the next cycle
    errs,       \* errs[g]: whether one of its list calls failed
    s3,         \* the snapshot object in the bucket
    gauges,     \* metrics.StoreClaims, StoreXRs and StoreMRs
    ctxDone     \* ctx is cancelled

jobVars    == <<status, at, items, errs>>
pollerVars == <<claims, xrs, mrs, cluster, cfg, phase, status, at, items, errs,
                s3, gauges, ctxDone>>

(***************************************************************************)
(* The values that list one namespace after the other, "" for all of them  *)
(* in one call.                                                            *)
(***************************************************************************)
Targets == IF Scope = <<>> THEN <<NoNS>> ELSE Scope

Polled == Range(cfg.xrs) \cup Range(cfg.claims) \cup Range(cfg.mrs)

(***************************************************************************)
(* What list calls return: everything in the namespace or in the cluster,  *)
(* of MRs only those with a composite label.                               *)
(***************************************************************************)
Listed(g, ns) ==
    Restrict(cluster[g], {k \in DOMAIN cluster[g] :
                             /\ ns \in {NoNS, k[1]}
                             /\ g \in MRGVRs => cluster[g][k].xrName # NoName})

-----------------------------------------------------------------------------
KindInfo(g) == CASE g \in ClaimGVRs -> ClaimInfo
                 [] g \in XRGVRs    -> XRInfo
                 [] g \in MRGVRs    -> MRInfo

IsStore(s) == /\ IsMap(s.claims, ClaimInfo)
              /\ IsMap(s.xrs, XRInfo)
              /\ IsMap(s.mrs, MRInfo)
              /\ s = [claims |-> s.claims, xrs |-> s.xrs, mrs |-> s.mrs]

PollerTypeOK ==
    /\ StoreTypeOK
    /\ cfg \in Config
    /\ phase \in {"start", "listing", "enrichXRs", "enrichMRs", "persist", "report",
                  "idle", "stopped"}
    /\ DOMAIN cluster = AllGVRs
    /\ \A g \in AllGVRs : cluster[g] \in Lists[g]
    /\ status \in [AllGVRs -> {"waiting", "running", "done"}]
    /\ at \in [AllGVRs -> 1..(Len(Targets) + 1)]
    /\ DOMAIN items = AllGVRs
    /\ \A g \in AllGVRs : IsMap(items[g], KindInfo(g))
    /\ errs \in [AllGVRs -> BOOLEAN]
    /\ s3 # NoSnapshot => IsStore(s3)
    /\ gauges \in [claims : Nat, xrs : Nat, mrs : Nat]
    /\ ctxDone \in BOOLEAN

(***************************************************************************)
(* The polls of a cycle before any of them has started.                    *)
(***************************************************************************)
NoPolls(st, pos, listed, failed) ==
    /\ st = [g \in AllGVRs |-> "waiting"]
    /\ pos = [g \in AllGVRs |-> 1]
    /\ listed = [g \in AllGVRs |-> EmptyMap]
    /\ failed = [g \in AllGVRs |-> FALSE]

(***************************************************************************)
(* A process that has just been started with an empty store, and a         *)
(* cluster that will hold anything by the time it is listed.               *)
(***************************************************************************)
PollerInit ==
    /\ StoreInit
    /\ cluster = [g \in AllGVRs |-> EmptyMap]
    /\ cfg \in Configs
    /\ phase = "start"
    /\ NoPolls(status, at, items, errs)
    /\ s3 = NoSnapshot
    /\ gauges = [claims |-> 0, xrs |-> 0, mrs |-> 0]
    /\ ctxDone = FALSE

-----------------------------------------------------------------------------
(***************************************************************************)
(* The cluster.                                                            *)
(***************************************************************************)
ClusterChange(g) ==
    /\ \E objects \in Lists[g] : cluster' = [cluster EXCEPT ![g] = objects]
    /\ UNCHANGED <<storeVars, cfg, phase, jobVars, s3, gauges, ctxDone>>

(***************************************************************************)
(* Run: a first cycle at once, then one per tick.  The select of an idle   *)
(* poller takes either of a tick and a cancelled context when it has both, *)
(* so a cycle may start after the cancellation.                            *)
(***************************************************************************)
StartCycle ==
    /\ phase \in {"start", "idle"}
    /\ phase' = "listing"
    /\ NoPolls(status', at', items', errs')
    /\ UNCHANGED <<storeVars, cluster, cfg, s3, gauges, ctxDone>>

Stop ==
    /\ phase = "idle"
    /\ ctxDone
    /\ phase' = "stopped"
    /\ UNCHANGED <<storeVars, cluster, cfg, jobVars, s3, gauges, ctxDone>>

Cancel ==
    /\ MayCancel
    /\ ~ctxDone
    /\ ctxDone' = TRUE
    /\ UNCHANGED <<storeVars, cluster, cfg, phase, jobVars, s3, gauges>>

(***************************************************************************)
(* The order of the polls: XR and claim kinds one at a time, then the MR   *)
(* kinds, started in order while fewer than MaxParallel are running.       *)
(***************************************************************************)
Sequential == cfg.xrs \o cfg.claims

PoolHasRoomLess ==    \* a mutated form: off by one
    Cardinality({h \in Range(cfg.mrs) : status[h] = "running"}) + 1 < MaxParallel

PoolHasRoom ==
    Cardinality({h \in Range(cfg.mrs) : status[h] = "running"}) < MaxParallel

MayStart(g) ==
    \/ \E i \in DOMAIN Sequential :
          /\ g = Sequential[i]
          /\ \A j \in 1..(i - 1) : status[Sequential[j]] = "done"
    \/ /\ \A i \in DOMAIN Sequential : status[Sequential[i]] = "done"
       /\ \E i \in DOMAIN cfg.mrs :
             /\ g = cfg.mrs[i]
             /\ \A j \in 1..(i - 1) : status[cfg.mrs[j]] # "waiting"
       /\ PoolHasRoom

StartPoll(g) ==
    /\ phase = "listing"
    /\ status[g] = "waiting"
    /\ MayStart(g)
    /\ status' = [status EXCEPT ![g] = "running"]
    /\ UNCHANGED <<storeVars, cluster, cfg, phase, at, items, errs, s3, gauges, ctxDone>>

(***************************************************************************)
(* One list call of listXRs, listClaims or listMRs.  After the             *)
(* cancellation every call fails.                                          *)
(***************************************************************************)
Listing(g) ==
    /\ status[g] = "running"
    /\ at[g] <= Len(Targets)

ListSucceeds(g) ==
    /\ Listing(g)
    /\ ~ctxDone
    /\ items' = [items EXCEPT ![g] = Overwrite(items[g], Listed(g, Targets[at[g]]))]
    /\ at' = [at EXCEPT ![g] = at[g] + 1]
    /\ UNCHANGED <<storeVars, cluster, cfg, phase, status, errs, s3, gauges, ctxDone>>

ListFailsAgain(g) ==    \* a mutated form: a failed call is made again
    /\ Listing(g)
    /\ errs' = [errs EXCEPT ![g] = TRUE]
    /\ UNCHANGED <<storeVars, cluster, cfg, phase, status, at, items, s3, gauges, ctxDone>>

ListFails(g) ==
    /\ Listing(g)
    /\ errs' = [errs EXCEPT ![g] = TRUE]
    /\ at' = [at EXCEPT ![g] = at[g] + 1]
    /\ UNCHANGED <<storeVars, cluster, cfg, phase, status, items, s3, gauges, ctxDone>>

(***************************************************************************)
(* The end of pollXRs, pollClaims or pollMRs.  A failed list of the whole  *)
(* cluster leaves the store alone; with namespaces, whatever the other     *)
(* calls returned replaces all entries of the GVR.                         *)
(***************************************************************************)
Publish(g) ==
    CASE g \in ClaimGVRs -> ReplaceClaims(g, items[g])
      [] g \in XRGVRs    -> ReplaceXRs(g, items[g])
      [] g \in MRGVRs    -> ReplaceMRs(g, items[g])

KeepsStoreNever(g) == FALSE    \* a mutated form: the early return is lost

KeepsStoreOnError(g) == errs[g]    \* a mutated form: partial results are dropped

KeepsStore(g) == Scope = <<>> /\ errs[g]

FinishPoll(g) ==
    /\ status[g] = "running"
    /\ at[g] > Len(Targets)
    /\ status' = [status EXCEPT ![g] = "done"]
    /\ IF KeepsStore(g) THEN UNCHANGED storeVars ELSE Publish(g)
    /\ UNCHANGED <<cluster, cfg, phase, at, items, errs, s3, gauges, ctxDone>>

HadXRErrors == \E g \in Range(cfg.xrs) : errs[g]    \* a mutated form: other errors are lost

HadErrors == \E g \in Polled : errs[g]

-----------------------------------------------------------------------------
(***************************************************************************)
(* The rest of the cycle.                                                  *)
(***************************************************************************)
EnrichClaims ==
    /\ phase = "listing"
    /\ \A g \in Polled : status[g] = "done"
    /\ EnrichClaimCompositions
    /\ phase' = "enrichXRs"
    /\ UNCHANGED <<cluster, cfg, jobVars, s3, gauges, ctxDone>>

EnrichXRs ==
    /\ phase = "enrichXRs"
    /\ EnrichXRClaims
    /\ phase' = "enrichMRs"
    /\ UNCHANGED <<cluster, cfg, jobVars, s3, gauges, ctxDone>>

EnrichMRs ==
    /\ phase = "enrichMRs"
    /\ EnrichMRClaims
    /\ phase' = "persist"
    /\ UNCHANGED <<cluster, cfg, jobVars, s3, gauges, ctxDone>>

(***************************************************************************)
(* Persist is skipped after a failed list and without the S3 backend.  A   *)
(* PutObject call that fails may have written the object.                  *)
(***************************************************************************)
StoreContents == [claims |-> claims, xrs |-> xrs, mrs |-> mrs]

SkipsPersist == HadErrors \/ Backend = "memory"

SkipPersist ==
    /\ phase = "persist"
    /\ SkipsPersist
    /\ phase' = "report"
    /\ UNCHANGED <<storeVars, cluster, cfg, jobVars, s3, gauges, ctxDone>>

PersistSucceeds ==
    /\ phase = "persist"
    /\ ~SkipsPersist
    /\ ~ctxDone
    /\ s3' = StoreContents
    /\ phase' = "report"
    /\ UNCHANGED <<storeVars, cluster, cfg, jobVars, gauges, ctxDone>>

PersistFails ==
    /\ phase = "persist"
    /\ ~SkipsPersist
    /\ s3' \in {s3, StoreContents}
    /\ phase' = "report"
    /\ UNCHANGED <<storeVars, cluster, cfg, jobVars, gauges, ctxDone>>

(***************************************************************************)
(* The counts are the last thing of a cycle.                               *)
(***************************************************************************)
Report ==
    /\ phase = "report"
    /\ gauges' = [claims |-> Cardinality(DOMAIN claims), xrs |-> Cardinality(DOMAIN xrs),
                  mrs |-> Cardinality(DOMAIN mrs)]
    /\ phase' = "idle"
    /\ UNCHANGED <<storeVars, cluster, cfg, jobVars, s3, ctxDone>>

-----------------------------------------------------------------------------
PollerStep ==
    \/ StartCycle
    \/ \E g \in AllGVRs : StartPoll(g) \/ ListSucceeds(g) \/ ListFails(g) \/ FinishPoll(g)
    \/ EnrichClaims
    \/ EnrichXRs
    \/ EnrichMRs
    \/ SkipPersist
    \/ PersistSucceeds
    \/ PersistFails
    \/ Report
    \/ Stop

PollerNext ==
    \/ PollerStep
    \/ \E g \in AllGVRs : ClusterChange(g)
    \/ Cancel

(***************************************************************************)
(* Fairness: the poller's goroutines are scheduled, list and PutObject     *)
(* calls return, and the ticker ticks; and the select of an idle poller,   *)
(* which picks at random among what is ready, takes the cancelled context  *)
(* some time.  Nothing is assumed of the cluster or of the caller of       *)
(* cancel, and any call may fail every time.                               *)
(***************************************************************************)
PollerSpec ==
    /\ PollerInit
    /\ [][PollerNext]_pollerVars
    /\ WF_pollerVars(PollerStep)
    /\ SF_pollerVars(Stop)

-----------------------------------------------------------------------------
(***************************************************************************)
(* Properties.  They are about kinds that do not share object keys; what   *)
(* the store does when they do is a question of MemoryStore.               *)
(***************************************************************************)
KeysOf(g) == {KeyOf(o) : o \in Objects[g]}

NoSharedKeys ==
    \A kind \in {ClaimGVRs, XRGVRs, MRGVRs} :
        \A g, h \in kind : g # h => KeysOf(g) \cap KeysOf(h) = {}

AtRest == phase \in {"persist", "report", "idle", "stopped"}

(***************************************************************************)
(* Whether a store holds exactly these objects of g, up to enrichment.     *)
(***************************************************************************)
Holds(store, g, objects) ==
    /\ g \in ClaimGVRs => /\ EntriesOf(store.claims, g) = DOMAIN objects
                          /\ \A k \in DOMAIN objects : SameClaim(store.claims[k], objects[k])
    /\ g \in XRGVRs => /\ EntriesOf(store.xrs, g) = DOMAIN objects
                       /\ \A k \in DOMAIN objects : SameLinked(store.xrs[k], objects[k])
    /\ g \in MRGVRs => /\ EntriesOf(store.mrs, g) = DOMAIN objects
                       /\ \A k \in DOMAIN objects : SameLinked(store.mrs[k], objects[k])

(***************************************************************************)
(* From the end of its poll to the next cycle, the store holds of a GVR    *)
(* exactly what that poll listed, with every value a label gave: no poll   *)
(* of another GVR, running at the same time or later, and no enrichment    *)
(* takes from it or adds to it (poller.go:157-163, store.go:126-260).      *)
(***************************************************************************)
StoreMatchesLists ==
    \A g \in Polled :
        status[g] = "done" /\ (Scope # <<>> \/ ~errs[g]) => Holds(StoreContents, g, items[g])

(***************************************************************************)
(* The snapshot in the bucket only ever becomes the complete lists of one  *)
(* cycle, in which no list failed: "Persisting a partial snapshot could    *)
(* overwrite a valid one with incomplete data" (poller.go:100).            *)
(***************************************************************************)
SnapshotsAreComplete ==
    [][ s3' # s3 => \A g \in Polled : /\ status[g] = "done"
                                      /\ ~errs[g]
                                      /\ Holds(s3', g, items[g]) ]_pollerVars

(***************************************************************************)
(* What the enrichment leaves nothing to do for: every claim has the       *)
(* composition of the stored XR it names, no XR without a claim is named   *)
(* by a stored claim, and no MR without a claim is under an XR with one.   *)
(***************************************************************************)
ClaimsEnriched(store) ==
    \A k \in DOMAIN store.claims :
        RefersTo(store.claims[k], store.xrs) =>
            store.claims[k].composition =
                store.xrs[ObjectKey(NoNS, store.claims[k].xrRef)].composition

XRsEnriched(store) ==
    \A k \in DOMAIN store.xrs : \A c \in DOMAIN store.claims :
        store.xrs[k].claimName = NoName => store.claims[c].xrRef # store.xrs[k].name

MRsEnriched(store) ==
    \A k \in DOMAIN store.mrs :
        store.mrs[k].claimName = NoName /\ BackedBy(store.mrs[k], store.xrs) =>
            store.xrs[ObjectKey(NoNS, store.mrs[k].xrName)].claimName = NoName

Enriched(store) == ClaimsEnriched(store) /\ XRsEnriched(store) /\ MRsEnriched(store)

(***************************************************************************)
(* Between cycles the store is enriched, and so is any snapshot, whatever  *)
(* failed: the three calls of poller.go:96-98 are in an order in which a   *)
(* later one undoes nothing of an earlier one.                             *)
(***************************************************************************)
EnrichedAtRest ==
    /\ AtRest => Enriched(StoreContents)
    /\ s3 # NoSnapshot => Enriched(s3)

(***************************************************************************)
(* After a cycle in which every list worked, a claim that was filled in on *)
(* an XR is a stored claim that names the XR, and one filled in on an MR   *)
(* is that of the stored XR over it (docs/metrics/reference.md:158).       *)
(***************************************************************************)
BackfilledFromClaim(k) ==
    xrs[k].claimName # NoName =>
        \E c \in DOMAIN claims : /\ claims[c].xrRef = xrs[k].name
                                 /\ claims[c].name = xrs[k].claimName
                                 /\ claims[c].ns = xrs[k].claimNS

BackfilledFromXR(k) ==
    mrs[k].claimName # NoName =>
        /\ BackedBy(mrs[k], xrs)
        /\ LET xr == xrs[ObjectKey(NoNS, mrs[k].xrName)]
           IN  mrs[k].claimName = xr.claimName /\ mrs[k].claimNS = xr.claimNS

LinkedFromThisCycle ==
    AtRest /\ ~HadErrors =>
        /\ \A g \in Range(cfg.xrs) : \A k \in DOMAIN items[g] :
              items[g][k].claimName = NoName => BackfilledFromClaim(k)
        /\ \A g \in Range(cfg.mrs) : \A k \in DOMAIN items[g] :
              items[g][k].claimName = NoName => BackfilledFromXR(k)

(***************************************************************************)
(* Every cycle comes to its end, whatever fails in it and however full the *)
(* pool of MR polls is (poller.go:208-234).                                *)
(***************************************************************************)
CyclesComplete == phase = "listing" ~> phase = "idle"

(***************************************************************************)
(* A cancelled poller stops (poller.go:54-62).                             *)
(***************************************************************************)
CancelStops == ctxDone ~> phase = "stopped"

(***************************************************************************)
(* Once the cluster is left alone and list calls work, the store comes to  *)
(* hold the objects of the cluster and stays so, deleted ones gone, unless *)
(* the poller is cancelled.                                                *)
(***************************************************************************)
Wanted(g) == Restrict(cluster[g], UNION {DOMAIN Listed(g, Targets[i]) : i \in DOMAIN Targets})

Mirrored == \A g \in Polled : Holds(StoreContents, g, Wanted(g))

Quiet == /\ <>[][UNCHANGED cluster]_pollerVars
         /\ <>[][~ \E g \in AllGVRs : ListFails(g)]_pollerVars

Converges == Quiet => <>[](ctxDone \/ Mirrored)

(***************************************************************************)
(* Statements of the documentation that the code does not live up to.      *)
(*                                                                         *)
(* "Cluster-scoped XRs are always polled globally", also with a list of    *)
(* namespaces (docs/configuration/environment-variables.md:75).            *)
(***************************************************************************)
ClusterScopedXRsPolled ==
    Quiet => <>[](\A g \in Range(cfg.xrs) : \A k \in DOMAIN cluster[g] :
                     k[1] = NoNS => k \in DOMAIN xrs)

(***************************************************************************)
(* An XR of a kind without claim labels gets its claim "from the claim     *)
(* whose spec.resourceRef.name matches the XR name"                        *)
(* (docs/metrics/reference.md:158), if there is one.                       *)
(***************************************************************************)
Unlabelled(g) == \A o \in Objects[g] : o.claimName = NoName

LinkedToAReferrer ==
    AtRest => \A k \in DOMAIN xrs :
                Unlabelled(xrs[k].gvr) /\ Referrers(xrs[k]) # {} =>
                    \E c \in Referrers(xrs[k]) : /\ claims[c].name = xrs[k].claimName
                                                 /\ claims[c].ns = xrs[k].claimNS
=============================================================================
