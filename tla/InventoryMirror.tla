---------------------------- MODULE InventoryMirror ----------------------------
(***************************************************************************)
(* What a poller of the whole cluster promises, with no word of phases,    *)
(* errors, enrichment or keys.  For every GVR it shows a past state of the *)
(* cluster: it fetches the objects of the GVR as they are at one moment,   *)
(* and some time later shows them all at once in place of what it showed.  *)
(* No two fetches of a GVR overlap, so what it shows never goes back in    *)
(* time.  A fetch that fails is no step at all.                            *)
(***************************************************************************)
CONSTANTS
    GVRs,
    Contents,   \* Contents[g]: the possible contents of the cluster for g
    Nothing,    \* what is shown of a GVR before it is first fetched
    NoList      \* no fetch is under way

VARIABLES
    cluster,    \* cluster[g]: the objects of g there are
    fetched,    \* fetched[g]: the objects fetched and not yet shown
    shown       \* shown[g]: the objects shown

mirrorVars == <<cluster, fetched, shown>>

MirrorInit ==
    /\ cluster \in [GVRs -> UNION {Contents[g] : g \in GVRs}]
    /\ \A g \in GVRs : cluster[g] \in Contents[g]
    /\ fetched = [g \in GVRs |-> NoList]
    /\ shown = [g \in GVRs |-> Nothing]

Change(g) ==
    /\ \E objects \in Contents[g] : cluster' = [cluster EXCEPT ![g] = objects]
    /\ UNCHANGED <<fetched, shown>>

Fetch(g) ==
    /\ fetched[g] = NoList
    /\ fetched' = [fetched EXCEPT ![g] = cluster[g]]
    /\ UNCHANGED <<cluster, shown>>

Show(g) ==
    /\ fetched[g] # NoList
    /\ shown' = [shown EXCEPT ![g] = fetched[g]]
    /\ fetched' = [fetched EXCEPT ![g] = NoList]
    /\ UNCHANGED cluster

MirrorNext == \E g \in GVRs : Change(g) \/ Fetch(g) \/ Show(g)

(***************************************************************************)
(* What has been fetched is shown; nothing has to be fetched, since list   *)
(* calls may fail for ever.                                                *)
(***************************************************************************)
MirrorSpec ==
    /\ MirrorInit
    /\ [][MirrorNext]_mirrorVars
    /\ \A g \in GVRs : WF_mirrorVars(Show(g))
=============================================================================
