------------------------------- MODULE Exporter -------------------------------
(***************************************************************************)
(* The exporter process (run of cmd/exporter/main.go) around the poller:   *)
(* it discovers the kinds to poll, restores the S3 snapshot into an empty  *)
(* store (Restore of pkg/store/s3store.go), starts the poller and, 100 ms  *)
(* later, calls itself ready.  A signal ends it, and it can be killed at   *)
(* any moment; it is then started again, with what is discovered by then.  *)
(* Only the cluster and the bucket outlive it.                             *)
(***************************************************************************)
EXTENDS Poller

VARIABLES
    proc,        \* "down", "restoring" or "running"
    replay,      \* the GVRs of the snapshot that Restore has not replayed
    ready,       \* Server.ready
    polledOnce   \* auxiliary: this process has completed a polling cycle

procVars     == <<proc, replay, ready, polledOnce>>
exporterVars == <<pollerVars, procVars>>

ExporterTypeOK ==
    /\ PollerTypeOK
    /\ proc \in {"down", "restoring", "running"}
    /\ replay \subseteq AllGVRs
    /\ ready \in BOOLEAN
    /\ polledOnce \in BOOLEAN

ExporterInit ==
    /\ PollerInit
    /\ proc = "down"
    /\ replay = {}
    /\ ready = FALSE
    /\ polledOnce = FALSE

(***************************************************************************)
(* What a process keeps in memory, as it is in a new one.                  *)
(***************************************************************************)
ForgetMemory ==
    /\ claims' = EmptyMap
    /\ xrs' = EmptyMap
    /\ mrs' = EmptyMap
    /\ phase' = "start"
    /\ NoPolls(status', at', items', errs')
    /\ gauges' = [claims |-> 0, xrs |-> 0, mrs |-> 0]
    /\ ctxDone' = FALSE
    /\ replay' = {}
    /\ ready' = FALSE
    /\ polledOnce' = FALSE

-----------------------------------------------------------------------------
(***************************************************************************)
(* Discovery (module Discovery) has found a configuration; one that fails  *)
(* ends the process before it does anything.                               *)
(***************************************************************************)
Boot ==
    /\ proc = "down"
    /\ cfg' \in Configs
    /\ proc' = IF Backend = "s3" THEN "restoring" ELSE "running"
    /\ replay' = IF Backend = "s3" THEN AllGVRs ELSE {}
    /\ UNCHANGED <<storeVars, cluster, phase, jobVars, s3, gauges, ctxDone, ready, polledOnce>>

(***************************************************************************)
(* Restore.  Without a snapshot, or when it cannot be read, the store      *)
(* stays empty and the process goes on.  The snapshot is replayed one GVR  *)
(* after the other, in the order of a Go map among those of a kind, claims *)
(* before XRs before MRs; an absent GVR has no entries to replay.          *)
(***************************************************************************)
RestoreFails ==
    /\ proc = "restoring"
    /\ replay = AllGVRs
    /\ proc' = "running"
    /\ replay' = {}
    /\ UNCHANGED <<pollerVars, ready, polledOnce>>

SnapshotOf(kind, g) == Restrict(kind, EntriesOf(kind, g))

ReplayNext(g) ==
    CASE g \in ClaimGVRs -> ReplaceClaims(g, SnapshotOf(s3.claims, g))
      [] g \in XRGVRs    -> /\ replay \cap ClaimGVRs = {}
                            /\ ReplaceXRs(g, SnapshotOf(s3.xrs, g))
      [] g \in MRGVRs    -> /\ replay \cap (ClaimGVRs \cup XRGVRs) = {}
                            /\ ReplaceMRs(g, SnapshotOf(s3.mrs, g))

Replay(g) ==
    /\ proc = "restoring"
    /\ g \in replay
    /\ s3 # NoSnapshot
    /\ replay = AllGVRs => ~ctxDone
    /\ ReplayNext(g)
    /\ replay' = replay \ {g}
    /\ UNCHANGED <<cluster, cfg, phase, jobVars, s3, gauges, ctxDone, proc, ready, polledOnce>>

LaunchEarly ==    \* a mutated form: the restore is not waited for
    /\ proc = "restoring"
    /\ proc' = "running"
    /\ UNCHANGED <<pollerVars, replay, ready, polledOnce>>

Launch ==
    /\ proc = "restoring"
    /\ replay = {}
    /\ proc' = "running"
    /\ UNCHANGED <<pollerVars, replay, ready, polledOnce>>

-----------------------------------------------------------------------------
(***************************************************************************)
(* The running process: the poller's steps, the goroutine that sleeps and  *)
(* then calls SetReady, the signal.                                        *)
(***************************************************************************)
Poll ==
    /\ proc = "running"
    /\ PollerStep
    /\ polledOnce' = (polledOnce \/ phase = "report")
    /\ UNCHANGED <<proc, replay, ready>>

MarkReady ==
    /\ proc = "running"
    /\ ready' = TRUE
    /\ UNCHANGED <<pollerVars, proc, replay, polledOnce>>

Signal ==
    /\ proc # "down"
    /\ Cancel
    /\ UNCHANGED procVars

(***************************************************************************)
(* run returns on the cancellation without waiting for the poller, and a   *)
(* crash waits for nothing either: a snapshot being written may still be   *)
(* written or be lost.                                                     *)
(***************************************************************************)
DownSaving ==    \* a mutated form: the store is saved on the way down
    /\ proc' = "down"
    /\ ForgetMemory
    /\ s3' = StoreContents
    /\ UNCHANGED <<cluster, cfg>>

Down ==
    /\ proc' = "down"
    /\ ForgetMemory
    /\ s3' \in IF phase = "persist" /\ ~SkipsPersist THEN {s3, StoreContents} ELSE {s3}
    /\ UNCHANGED <<cluster, cfg>>

Exit ==
    /\ proc = "running"
    /\ ctxDone
    /\ Down

Crash ==
    /\ proc # "down"
    /\ Down

ClusterMoves ==
    /\ \E g \in AllGVRs : ClusterChange(g)
    /\ UNCHANGED procVars

ProcessStep ==
    \/ Boot
    \/ RestoreFails
    \/ \E g \in AllGVRs : Replay(g)
    \/ Launch
    \/ Poll
    \/ Exit

ExporterNext ==
    \/ ProcessStep
    \/ MarkReady
    \/ Signal
    \/ Crash
    \/ ClusterMoves

(***************************************************************************)
(* Fairness: a process that is down is started, one that is up goes on.    *)
(***************************************************************************)
ExporterSpec ==
    /\ ExporterInit
    /\ [][ExporterNext]_exporterVars
    /\ WF_exporterVars(ProcessStep)
    /\ WF_exporterVars(MarkReady)

-----------------------------------------------------------------------------
(***************************************************************************)
(* A process starts to poll with nothing or with exactly the snapshot,     *)
(* never with a part of it (main.go:95-97, s3store.go:116-186).            *)
(***************************************************************************)
NoEntries == [claims |-> EmptyMap, xrs |-> EmptyMap, mrs |-> EmptyMap]

RestoredWhole ==
    proc = "running" /\ phase = "start" => StoreContents \in {NoEntries, s3}

(***************************************************************************)
(* A crash or a restart at any moment leaves the snapshot enriched and     *)
(* complete, as it was or as a whole cycle left it (poller.go:100-111).    *)
(***************************************************************************)
CrashKeepsSnapshot ==
    [][ s3' # s3 => /\ phase = "persist"
                    /\ Enriched(s3')
                    /\ \A g \in Polled : ~errs[g] /\ Holds(s3', g, items[g]) ]_exporterVars

(***************************************************************************)
(* When the process at last stays up, the cluster is left alone and list   *)
(* calls work, the store comes to hold the objects of the cluster, however *)
(* old the snapshot was that it restored.                                  *)
(***************************************************************************)
StaysUp == <>[][~Crash /\ ~Signal]_exporterVars

RecoversFromRestart ==
    StaysUp /\ Quiet => <>[](ctxDone \/ Mirrored)

(***************************************************************************)
(* Statements of the documentation that the code does not live up to.      *)
(*                                                                         *)
(* /readyz "Returns 503 until the first poll cycle completes"              *)
(* (docs/api/health.md:13, main.go:117).                                   *)
(***************************************************************************)
ReadyAfterFirstPoll == ready => polledOnce

(***************************************************************************)
(* "Deleted resources will disappear from metrics after the next poll"     *)
(* (README.md:764): once nothing changes and nothing fails, what is stored *)
(* is there.                                                               *)
(***************************************************************************)
Exists(k, o) == k \in DOMAIN cluster[o.gvr]

DeletedDisappear ==
    StaysUp /\ Quiet =>
        <>[] /\ \A k \in DOMAIN claims : Exists(k, claims[k])
             /\ \A k \in DOMAIN xrs : Exists(k, xrs[k])
             /\ \A k \in DOMAIN mrs : Exists(k, mrs[k])
=============================================================================
