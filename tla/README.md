# A TLA+ model of xp-tracker

xp-tracker is a Prometheus exporter for Crossplane. It lists claims, composite
resources (XRs) and provider managed resources (MRs) from the Kubernetes API
every poll interval, keeps what it listed in an in-memory store, fills in the
links between the three kinds of objects, optionally saves the store as one
JSON object in S3, and serves aggregates of it to Prometheus and the whole of
it on `/bookkeeping`. This directory models the part in which it is hard to be
right: what is in the store at which moment, whatever fails, changes, crashes or
is cancelled; how objects and definitions get into it; and what is read from it.

## The system

| Part | State | Operations | Correct when |
|---|---|---|---|
| In-memory store, `pkg/store/store.go` | three maps from namespace/name to an info record, one mutex | `Replace*` of one GVR, three `Enrich*`, snapshots, counts | a GVR's entries are what was listed last; other GVRs are untouched; an enrichment changes only what it is there for |
| Poller, `pkg/kube/poller.go` | position in the cycle, lists in flight, errors | `Run`, `poll`, one poll per GVR, a pool of 20 for MRs, page loop | every cycle ends; a failed list takes nothing away; links come from this cycle; cancellation stops it |
| S3 persistence, `pkg/store/s3store.go` | one object in a bucket | `Persist` after a faultless cycle, `Restore` at start | only complete snapshots; restored whole or not at all |
| Process, `cmd/exporter/main.go` | configuration, readiness, goroutines | load, discover, restore, start, ready, signal, exit | recovers from any crash; ready when there is something to show |
| Discovery, `pkg/kube/discovery.go` | the GVRs of the `Config` | XRDs, then MRDs, to GVRs; merge with `MR_GVRS` | every definition polled once, claims at the version of their XRs |
| Conversion, `pkg/kube/convert.go` | none | unstructured object to info record | links and readiness are those of the object |
| HTTP server, `pkg/server/server.go` | listener, `ready` flag | serve, readiness, graceful shutdown | see Process |
| Kubernetes client, `pkg/kube/client.go` | none | build a client-go client | - |
| Bookkeeping, `pkg/server/bookkeeping.go` | none | three snapshots, one after the other, to JSON | one consistent picture |
| Collectors, `pkg/metrics/*_collector.go` | none | snapshot to grouped series | totals add up, no duplicate series |
| Self metrics, `pkg/metrics/self.go` | gauges, counters | set and incremented by the poller | gauges match the store |
| Configuration, `pkg/config/config.go` | the `Config` | environment to values, or refusal | no GVR twice; what is refused never polls |

The poller calls the store, under its mutex, and the API server; the HTTP
handlers read the store at any moment; the process owns both and one context
whose cancellation every call obeys. The behaviours that are hard: goroutines
that poll MR kinds at once, a cluster that changes between the lists of one
cycle and between the pages of one list, definitions that change between the two
calls of a discovery that is never repeated, lists that fail for one kind or one namespace of many, a write to S3
whose error does not say whether it was done, a process that is killed
anywhere, a cancellation in the middle of a cycle, and Go map order.
`PROJECT.json` lists each of these hazards at its line, with the properties that
watch it or the reason why none does.

## The modules

| Module | Models |
|---|---|
| `MemoryStore` | `store.go`: the maps, the keys, and each method that writes as one atomic action, since it holds the mutex throughout |
| `Poller` | `poller.go` and `Persist`: a cycle over that store, the cluster, the snapshot, cancellation |
| `InventoryMirror` | what a cluster-wide poller promises: for each GVR it shows a past state of the cluster, and never an older one after a newer one |
| `PollerMirror` | the refinement mapping from `Poller` to `InventoryMirror` |
| `Exporter` | `run` of `main.go` and `Restore` around the poller: start, restore, launch, readiness, signal, exit, crash, restart |
| `Collectors` | the grouping of a snapshot into series |
| `Readers` | requests to `/bookkeeping` and `/metrics` while the poller runs: each part of a response is read from the store at a moment of its own |
| `Configuration` | `Load`: what it refuses and what it makes of the environment, as operators |
| `Discovery` | `run` up to and with `discoverAndApplyGVRs`: two list calls, the choice of versions, the merge, the ways to fail |
| `Conversion` | `convert.go`, as operators |
| `ListCall` | what a list of one kind promises: everything of one moment, or nothing |
| `ListPager` | the page loop of `listClaims`, `listXRs` and `listMRs`, and the mapping to `ListCall` |
| `Intake` | `Discovery` and `ListPager` composed: a process that loads, discovers and lists, again and again, and dies |
| `MCClusters`, `MCPoller`, `MCExporter`, `MCReaders`, `MCIntake` | small clusters and configurations for TLC |
| `MemoryStoreProofs` | what `Replace` and the enrichments do to a map: lemmas all proofs below rest on |
| `PollerProofs` | types, enrichment, progress of a cycle |
| `PollerListProofs` | what the store and the snapshot hold, links, the quiet cluster |
| `PollerMirrorProofs`, `ListPagerProofs` | the two refinements |
| `ExporterProofs` | the same through crashes and restarts |
| `IntakeProofs` | what discovery polls, and what a list shows |
| `ReadersProofs` | what responses and scrapes show |

There are two compositions, because their product would be out of TLC's reach.
`Exporter` and `Readers` have everything from the result of a list call on, with
the outcome of discovery as a choice (`Configs`) and a list call as one step.
`Intake` has everything up to that result: it shows what outcomes discovery has
(`PolledOnce` is what `Configs` relies on) and that the page loop implements that
one step. `Intake` makes the lists of a cycle one after the other; the pool, in
which lists of different MR kinds overlap, is in `Poller`.

### State and actions

A record in a map keeps the fields that the store or the poller look at: GVR,
namespace, name, the name of the XR a claim refers to or an MR is labelled with,
claim name and namespace, composition. `ready` stands for everything else, which
is copied and never looked at. A key is the pair of namespace and name, because
Kubernetes allows "/" in neither, and it has no GVR in it, as in the code.

`phase` is the position in `poll()`. `status`, `at`, `items` and `errs` are the
local state of each per-GVR poll: waiting, running or done, the next namespace,
the objects so far, whether a call failed. `StartPoll` encodes the order of the
code (XRs, then claims, one at a time; then MRs, in order, as long as the pool
has room). `ListSucceeds` and `ListFails` are one list call, `FinishPoll` is the
`Replace` at the end with the early return of the cluster-wide case,
`EnrichClaims`, `EnrichXRs` and `EnrichMRs` are lines 96 to 98, `SkipPersist`,
`PersistSucceeds` and `PersistFails` lines 100 to 111, `Report` sets the gauges.
The jobs' results outlive their cycle in the model so that properties can
compare the store with them; the next `StartCycle` clears them.

A few decisions to know of:

- A list call is atomic in `Poller`. `ListPager` has the pages: with the continue
  token all of them come from one version of the data (which the API server
  promises), a page holds any of the objects that are left and at most
  `PageLimit`, and a page that fails, be it that the token has expired, fails the
  call. A list may fail in every state, after the cancellation it must.
- `Configs` is the outcome of discovery, and the process chooses it anew at every
  start. Sequences in it have no repetitions in the runs.
- Loops that keep some entries of a list (`SplitAndTrim`, `Deduplicate`) are `Keep`, the
  entries at certain positions, and `MapToSortedSlice` gives each GVR the place of
  its rank; neither is recursive, so that both can be proved about. That the
  sorted order is total is needed of discovered GVRs only (`BeforeAssumption`).
- In `Discovery` and `Intake`, a definition is a record of the fields that are read. The
  value of a list variable is the sequence of its entries, an entry the sequence of its
  segments, so that what is split, trimmed, dropped and refused can be said
  without strings. `Before` is the order of the GVR keys.
- The objects of a kind are the same at all its versions, and a list works only at
  a version that is served (`Served`, the API server's part).
- The cancellation is one step. Calls that were answered just before count as
  before it.
- `EnrichXRClaims` visits claims in Go map order, so the model picks any claim
  that names the XR, and each cycle may pick another one. Which claim is "first"
  is not defined by the code, although the comment at `store.go:201` says that
  the first match wins; no property depends on the choice.
- With namespaces configured, cluster-scoped objects are in no namespaced list. A list of
  a cluster-scoped kind under a namespace (`poller.go:186`) is answered by a real API
  server with 404. The model lets each such list return nothing or fail, which includes
  the behaviour with 404, where all of them fail in every cycle. Either way no
  cluster-scoped XR gets into the store, which is all `poller_cluster_scoped` says. With
  404 every cycle has an error, so `poll` skips `Persist` and no snapshot is ever
  written (a hazard).
- Whether a failed `PutObject` was done is left open. So is a snapshot that is
  being written when the process dies.
- `MarkReady` follows the code: 100 ms pass, then the server is ready, at any
  position of the first cycle, and also after the cancellation.
- `Signal` is every way to cancel the context of `run`: a signal, or an HTTP
  server that fails.

## What the runs check

Each run names its cluster in the `MC` modules. In all of them any object (in
`intake_lists` any MR and any definition) comes, goes and changes at any moment
between two steps, any list fails at any moment, and cycles repeat without a
bound: the state space is finite because nothing counts cycles. The only bounds are the sets of objects, kinds and namespaces.

| Run | Cluster and bounds | What it shows |
|---|---|---|
| `poller_cycle` | whole cluster, memory; two claims that name the XR; an XR with and without claim labels; two kinds of MRs, one of them empty, in a pool of two | types; `StoreMatchesLists`; `EnrichedAtRest`; `LinkedFromThisCycle` |
| `poller_namespaces` | two namespaces, S3, cancellation; an XR without a namespace, an MR with and without the composite label | `StoreMatchesLists` and `SnapshotsAreComplete` when partial results replace a GVR |
| `poller_live` | whole cluster, a pool of one for two MR kinds, cancellation | `ImplementsMirror`, `CyclesComplete`, `CancelStops`, `Converges` |
| `exporter_restarts` | S3, crash, signal and restart anywhere; an XR with and without a claim label and an MR under it, of a kind that only some processes discover | types; `RestoredWhole`; `StoreMatchesLists`; `CrashKeepsSnapshot`; `RecoversFromRestart` |
| `readers_converge` | whole cluster, memory; an XR with a claim label and an MR under it in a namespace, which gets its claim from the enrichment; one request at a time, of either sort, begun and served at any moment | `ResponsesConverge` |
| `intake_lists` | four environments (nothing set; `MR_GVRS` with a repeated kind, the discovered kind and a namespace list; `MR_GVRS` with another version of the discovered kind, together with `CLAIM_GVRS` and `XR_GVRS` that differ from what is discovered; one that is refused); an XRD with claims, one without, an MRD, each in up to three forms or absent; pages of one object, at most two objects of a kind | `PolledOnce`, `NothingMissed`, `ImplementsListCall`, `KeepsListing` |

The bounds are enough for the interesting cases: an enrichment has two claims
to choose between; an object can be listed in one cycle and be gone, relabelled
or under a failed list in the next; MR polls overlap, or wait for each other; a
GVR of the same kind is replaced while another one has entries; one namespace of
two fails; a snapshot holds kinds that the process does not poll; a list has a
second page; the version that is referenceable is not the first one that is
served, the storage version is not served, an MRD is inactive; and a discovered
kind is also configured, at the same version and at another one. `MaxLists` is the
length of the longest cycle of these environments. No action
treats a third claim, namespace or kind differently from the second.

The properties that say most, in a sentence or two each:

- `StoreMatchesLists`: from the end of its poll to the next cycle, the store
  holds of a GVR exactly what was listed, label values included, whatever other
  polls and the enrichment do.
- `EnrichedAtRest`: between cycles and in every snapshot no enrichment has
  anything left to do, also after failures. It fails if the three calls are
  swapped, or if one ever undoes another's work.
- `LinkedFromThisCycle`: after a faultless cycle a backfilled claim is a stored
  claim that names the XR, and an MR has the claim of its stored XR.
- `SnapshotsAreComplete`: the object in the bucket only becomes the complete
  lists of one faultless cycle.
- `CrashKeepsSnapshot`, `RestoredWhole`: the same across crashes and restarts,
  and a restart begins with all of a snapshot or with nothing.
- `ResponsesConverge`: with a quiet cluster every bookkeeping response comes to show
  exactly its objects, and every scrape to have one series for each of them, which
  counts it alone under its own GVR, namespace and name, and no other, although a
  request reads its parts at different moments of different cycles: no `Replace`
  ever shows a GVR half, and an object that an enrichment is about to change is
  there once.
- `ImplementsMirror`: the cluster-wide poller implements `InventoryMirror`,
  liveness included.
- `PolledOnce`: no kind is in the lists of a cycle twice, and at two versions only
  when `MR_GVRS` asks for one of them. Two polls of a kind replace each other's
  objects in the store, so `StoreMatchesLists` and `ImplementsMirror` rest on it.
- `NothingMissed`: a definition that did not change from the start of the process to
  its first cycle is polled, an XRD at a served version and its claims at the same one, and
  one that was not there or not active is not, unless `MR_GVRS` names it. Those that
  change in between are the ones that may be missed until the next start. It holds
  whatever `CLAIM_GVRS` and `XR_GVRS` say, which the documentation calls overrides (see
  below): had they the effect it speaks of, the third environment would violate it.
- `ImplementsListCall`: a list returns what the API server had at one moment during
  the call, converted, or nothing; in particular, never the pages before an error.
- `KeepsListing`: when definitions and objects are left alone and calls work, a
  process comes up, stays up, makes every list again and again, and each shows
  the objects it should, with their links and their readiness.

### Fairness

`PollerSpec` assumes weak fairness of the poller's steps together: goroutines are
scheduled, calls return, the ticker ticks. Calls do return only if the API server
and the network answer, since the code sets no timeout; a call that hangs for ever
is outside what is promised (a hazard lists it). It assumes strong fairness of
`Stop`: Go's `select` picks at random among ready cases, so with a tick and a
cancelled context both ready time after time it takes the second some time.
`ExporterSpec` assumes weak fairness of the process's steps together (Kubernetes
restarts it) and of the 100 ms sleep. `ReadersSpec` assumes weak fairness of the
poller and of the goroutine that serves a request, `IntakeSpec` of the process's
steps together: it is restarted, goes on, and its calls return. Nothing is assumed of the cluster, of
failures, or of crashes; `Converges`, `RecoversFromRestart` and `KeepsListing` have the quiet
cluster, the working calls and the end of crashes as premises of their own;
`KeepsListing` also that the definitions can be used and that what is polled is
served, because one unusable definition ends the process at every start and a
storage version that is not served is listed in vain for ever.

### Disagreements between code and documentation

Each is a run whose one property is the sentence of the documentation, and TLC
finds a behaviour of the code that breaks it.

| Run | The statement | What happens |
|---|---|---|
| `poller_namesakes` | "Items from other GVRs are left untouched" (`store.go:129`) | two kinds with an object of the same namespace and name overwrite each other's entry |
| `poller_cluster_scoped` | "Cluster-scoped XRs are always polled globally" (`environment-variables.md:75`) | with namespaces configured they are never listed |
| `poller_stale_link` | claims are backfilled "from the claim whose `spec.resourceRef.name` matches" (`reference.md:158`) | after a failed XR list the claim backfilled earlier passes for a label and stays, although another claim names the XR now |
| `readers_torn` | "The endpoint reflects the last completed polling cycle" (`README.md:365`) | a response read between a `Replace` and the enrichment shows linked objects unlinked, in every cycle |
| `exporter_ready` | not ready "until the first poll cycle completes" (`health.md:13`) | ready after 100 ms |
| `exporter_ghosts` | "Deleted resources will disappear from metrics after the next poll" (`README.md:764`) | restored objects of a kind that is no longer discovered are never replaced, and are saved again and again |

One more is no run of its own. The documentation calls `CLAIM_GVRS` and `XR_GVRS`
overrides (`README.md:178-179` and `209-216`, `environment-variables.md:9-10`), but
they have no effect in the code except that a malformed one ends the process: discovery
overwrites what was parsed (`main.go:156-157`). `Discovery` has it so, an environment
of `intake_lists` sets both, and `NothingMissed` holds regardless: the kinds that are
polled are those of the definitions.

## What is proved

TLAPS checks these for every value of the constants: any GVRs, names,
namespaces, objects, pool size, page size, backend and outcome of discovery.

| Theorem | Statement | If |
|---|---|---|
| `PollerTypeCorrect` | `PollerSpec => []PollerTypeOK` | |
| `EnrichedBetweenCycles` | `PollerSpec => []EnrichedAtRest` | |
| `CyclesMoveOn` | `PollerSpec => []NeverStuck /\ [][MovesOn]_pollerVars`, the safety part of `CyclesComplete` | |
| `StoreIsWhatWasListed` | `PollerSpec => []StoreMatchesLists` | `NoSharedKeys` |
| `OnlyCompleteSnapshots` | `PollerSpec => SnapshotsAreComplete` | `NoSharedKeys` |
| `LinksAreOfThisCycle` | `PollerSpec => []LinkedFromThisCycle` | `NoSharedKeys` |
| `OneCycleMirrors` | after one whole cycle on a quiet cluster, `[]Mirrored`: the safety part of `Converges` | `NoSharedKeys` |
| `PollerFollowsMirror` | `PollerSpec => FollowsMirror`, the safety part of `ImplementsMirror` | `NoSharedKeys`, `Scope = <<>>` |
| `PagerImplementsListCall` | `PagerSpec => ImplementsListCall` | |
| `ExporterTypeCorrect` | `ExporterSpec => []ExporterTypeOK` | |
| `RestoredWholeAlways` | `ExporterSpec => []RestoredWhole` | |
| `EnrichedAfterRestarts` | `ExporterSpec => []EnrichedAtRest` | |
| `StoreIsWhatWasListedAfterRestarts` | `ExporterSpec => []StoreMatchesLists` | `NoSharedKeys` |
| `NoCrashSpoilsSnapshot` | `ExporterSpec => CrashKeepsSnapshot` | `NoSharedKeys` |
| `LinksAreOfThisCycleAfterRestarts` | `ExporterSpec => []LinkedFromThisCycle` | `NoSharedKeys` |
| `OneCycleMirrorsAfterRestart` | the same as `OneCycleMirrors` for a process that stays up: the safety part of `RecoversFromRestart` | `NoSharedKeys` |
| `KindsPolledOnce` | `IntakeSpec => []PolledOnce` | `[]ClaimKindsDistinct` |
| `DiscoveryMissesNothing` | `IntakeSpec => NothingMissed` | `[]ReferenceablesServed` |
| `IntakeImplementsListCall` | `IntakeSpec => ImplementsListCall` | |
| `ListsShowWhatThereIs` | while the objects stay as they are, a list that succeeds shows all of them: the safety part of `KeepsListing` | |
| `SeriesCountOne` | `ReadersSpec => []EachSeriesCountsOne` | |
| `ResponsesShowCluster` | after one whole cycle on a quiet cluster, every response shows it: the safety part of `ResponsesConverge` | `NoSharedKeys` |

Every invariant and every action property a passing run checks is proved, some under
the hypothesis in the last column.

Each assumption on constants stands in the module that declares them.

- `MemoryStore`, `Poller`, `PollerMirror`: the
  kinds are disjoint, the empty string is no name, the objects of a GVR carry it, names and
  namespaces are finite in number (the counts of a report are numbers), the
  configuration has the types of the code, and the value that stands for "no list"
  is no list.
- `Discovery`: definitions are finite in number and named by plural and group, as
  Kubernetes names them; lists are sequences; `Before` orders the GVRs that can be
  discovered totally, as strings are.
- `ListPager`, `Intake`: `PageLimit` is positive, `Jobs` has every list a process can
  ask for, and an object has one condition of a type at most, which the API server
  sees to for status conditions.

What is not the code's to see to is a hypothesis of a theorem and not an
assumption. `NoSharedKeys`, that no two GVRs of a kind have objects with the same
namespace and name, is one: `poller_namesakes` is what happens without it. `Scope = <<>>`
is one too: with namespaces, a store is the sum of lists made at different moments and
mirrors no single one. `ClaimKindsDistinct` says that no two XRDs offer the same claim
kind, of which Crossplane establishes only one; the exporter does not look whether it was, and
would poll the kind at the versions of both. `ReferenceablesServed` says that
the version compositions refer to is served, which Crossplane demands of an XRD and
`selectVersion` does not check. The clusters of the runs satisfy all four where
the theorem needs them.

A "quiet cluster" in the table is `StillStands`: from the beginning of some cycle on no object
changes and no list fails. These theorems have the form
`[](CycleBegins /\ [][StillStands]_v => [](... => []...))`; the liveness properties they
are the safety part of add that such a cycle comes to its end.

The arguments.

- Type correctness is inductive as stated.
- `EnrichedAtRest` is not: the store becomes enriched one call after the other, so
  `EnrichedInv` says how much is done in which phase. It also has to say that no
  poll runs outside "listing", because a poll rewrites the store, and that a
  running poll is one of those the end of "listing" waits for (`RunningPolls`).
  Each enrichment has a lemma: what it establishes, and that it keeps what the
  one before established.
- `StoreMatchesLists` needs `ListInv`: jobs hold objects of their own GVR, every
  entry of the store is under a key of its own GVR, so a `Replace` of one kind
  meets no key of another (`ReplaceKeepsOthers`), and no job is left when the
  cycle goes on; the enrichments keep every entry the object that was listed
  (`EnrichKeepsHeld`). `OnlyCompleteSnapshots` follows from the same invariant.
- `LinkedFromThisCycle` needs `LinkInv` besides: until its own enrichment, a kind
  whose polls are done is in the store as it was listed (`Fresh`), so that a
  claim no label gave was filled in by this cycle's enrichment (`XRsLinked`,
  `MRsLinked`), from entries that no later step of the cycle takes away.
- `NeverStuck` says that while a cycle lists, some kind can start, make its next call or
  finish, unless all have. A running poll always has a step. If none runs, the kind that
  waits and has the least index in the order of the polls may start: those before it are done,
  and the pool is empty.
  With `MovesOn`, that each step moves one poll on and none goes back, and the bound of
  `Progress`, no cycle lists for ever: only the scheduling is left to fairness.
- `OneCycleMirrors` needs two invariants more: `WaitingInv`, that a poll that waits
  holds nothing of an earlier cycle, and, from the beginning of the quiet cycle on,
  `StillInv`, that a job holds exactly what the cluster has in the targets it has visited
  (`SoFar`). At the end that is the wanted store by `ListInv`, and later
  cycles replace every kind by what is there already.
- `FollowsMirror` is a simulation. `JobInv` says that a poll that is past its only
  target without an error holds one of the lists its GVR may have, and one that is
  not past it holds nothing; `MirrorInv` adds it to the invariants above. Every
  step is then shown to fetch or to publish one GVR, to change the cluster, or
  to leave the mirror alone. The enrichments leave it alone because the mapping
  compares objects without what an enrichment fills in.
- `PagerImplementsListCall` has `PagerInv`, which says what `got` and `token` are in
  each state. The abstract result is settled by the first page (`chosen` is what
  was got joined with what the token leads to), and every later page moves objects
  from one side of that join to the other.
- In `Exporter` the invariants of the poller hold except while the snapshot is
  replayed. `RestartInv` says that a replay under way has put exactly the entries
  of the kinds replayed so far into the store, from which `RestoredWhole` follows
  at its end, and that nothing is polled before it. `KeptInv` adds `ListInv`, and
  that the snapshot, too, has every entry under a key of its own GVR, so that
  a restored store meets what `ListInv` asks of one. `LinkInv` and `WaitingInv` hold
  besides, because a restore happens before any cycle has begun.
- About the lists of kinds, `DiscoveryMissesNothing` and `KindsPolledOnce` need that sorting
  and removing repetitions lose nothing and repeat nothing. That the
  place of a GVR is its rank makes `MapToSortedSlice` a bijection onto the set (`Before`
  is a strict total order, so ranks are distinct and fill 1..n), and the same holds of
  `Keep` for positions (`KeepFacts`); that the least position at which a value stands
  is kept, by the least-number principle, is what `Deduplicate` needs to lose nothing.
  None of it needs an induction over a sequence.
- `KindsPolledOnce` has `OnceInv`: claims and XRs have one version of a kind from the
  first list call on, because a definition is named by its kind; MRs from the merge on,
  which repeats no key, so that of two versions of a kind at most one was discovered and
  the other is one of `MR_GVRS`.
- `DiscoveryMissesNothing` has `TakenInv`: between the two calls, what did not change since
  the start is in the configuration. A change only ever takes definitions out of
  `unchanged`, which is why the second call can be at a later moment than the first.
- `IntakeImplementsListCall` shows that a step of the process is a step of the pager or a
  stutter, and takes the rest from `PagerImplementsListCall`. `ListsShowWhatThereIs` needs
  `JobsInv`, that the list under way is one of the configuration, whose every index
  is a kind and a target (an argument about division and remainder), and
  `SelectionInv`, that what was got and what the token leads to are together what the
  API server has, once the world stands still.
- `SeriesCountOne` rests on the types alone: an entry stands under the key of its own
  namespace and name, and both are among the labels of a series, so a group of `Aggregate` is a singleton, whose count is 1.
- `ResponsesShowCluster` carries `Mirrored` into the parts of a request that began after it
  held (`ReadsShow`). `OnlyPolled` says that the store has no entry of a kind that is
  not polled; then the parts of the store have no more than the cluster (`PartMirrors`),
  and the three gauges are its numbers of objects (`Counts`).

Only model-checked is liveness (`CyclesComplete`, `CancelStops`, `Converges`,
`RecoversFromRestart`, `ResponsesConverge`, `KeepsListing`, the liveness part of
`ImplementsMirror`): it rests on fairness, which the prover does not do. What is safety
in them is proved, except of `CancelStops`, which is nothing but liveness.

## What is not modelled

- The Kubernetes client and the S3 client, whose construction keeps no state of
  the exporter's own; logging, flags, JSON, HTTP framing; manifests and pages,
  which are read for what they promise.
- The graceful shutdown of the HTTP server. `run` returns on the signal that starts
  it and waits for nothing, so how much of it happens is up to the Go runtime.
- Times: creation and deletion times of objects and their series, durations,
  the poll interval (the model keeps its check, not the overflow of a huge one;
  a hazard). Error counters and histograms, which are only ever written. A
  scrape's synced series repeats the grouping of the ready one; its three gauges
  are set and read together, so a scrape that falls between two of the calls that
  set them is left out.
- Sizes, so neither the 100 MiB limit of `Restore` nor memory.
- Two processes at once, as in a rolling update; a call that never returns.
- Namespaced XRs, which the code looks up by bare name only (a hazard); versions of
  a definition that are no records at all, which the API server does not admit.

## Plan

The order was: the store, the poller, the snapshot and the process; their readers;
then discovery, conversion, configuration and the page loop, up to the list call
that the poller starts from; and the proofs along the way. What is left, in order of
worth: to prove `NeverStuck` and `FollowsMirror` of the poller inside `Exporter`, through
restarts; a second process that writes the same snapshot during a rolling update;
namespaced XRs in `MCClusters`; the time stamps of the series.
