-------------------------------- MODULE Readers --------------------------------
(***************************************************************************)
(* Requests to the exporter while the poller runs: GET /bookkeeping        *)
(* (pkg/server/bookkeeping.go) and GET /metrics, for which the registry    *)
(* calls the three collectors (pkg/metrics) and reads the gauges, all at   *)
(* once and in any order.  Every snapshot is taken under the mutex of the  *)
(* store, but each on its own, so a request sees the store at three        *)
(* different moments.                                                      *)
(*                                                                         *)
(* A response of /bookkeeping is kept as the infos it is made of, one of   *)
(* /metrics as the series of the collectors.                               *)
(***************************************************************************)
EXTENDS Poller, Collectors

VARIABLES
    request,    \* the request under way: "none", "bookkeeping" or "scrape"
    read        \* read[p]: what it has read of part p

readerVars  == <<request, read>>
readersVars == <<pollerVars, readerVars>>

StoreParts == {"claims", "xrs", "mrs"}

NothingRead == [p \in {} |-> EmptyMap]

ReadersInit ==
    /\ PollerInit
    /\ request = "none"
    /\ read = NothingRead

-----------------------------------------------------------------------------
Ask ==
    /\ request = "none"
    /\ request' \in {"bookkeeping", "scrape"}
    /\ UNCHANGED <<pollerVars, read>>

(***************************************************************************)
(* The handler of /bookkeeping takes the snapshots in this order.          *)
(***************************************************************************)
InTurn(p) ==
    request = "bookkeeping" =>
        /\ p \in {"xrs", "mrs"} => "claims" \in DOMAIN read
        /\ p = "mrs" => "xrs" \in DOMAIN read

(***************************************************************************)
(* SnapshotClaims, SnapshotXRs and SnapshotMRs, from which a collector     *)
(* makes its series without another look at the store.                     *)
(***************************************************************************)
With(part, value) ==
    [q \in DOMAIN read \cup {part} |-> IF q = part THEN value ELSE read[q]]

ReadStore(p) ==
    /\ request # "none"
    /\ p \notin DOMAIN read
    /\ InTurn(p)
    /\ read' = With(p, IF request = "scrape" THEN Collect(p, StoreContents[p])
                       ELSE StoreContents[p])
    /\ UNCHANGED <<pollerVars, request>>

ReadGauges ==
    /\ request = "scrape"
    /\ "gauges" \notin DOMAIN read
    /\ read' = With("gauges", gauges)
    /\ UNCHANGED <<pollerVars, request>>

(***************************************************************************)
(* When all parts have been read, the response is written from them.       *)
(***************************************************************************)
Answered ==
    \/ request = "bookkeeping" /\ DOMAIN read = StoreParts
    \/ request = "scrape" /\ DOMAIN read = StoreParts \cup {"gauges"}

Answer ==
    /\ Answered
    /\ request' = "none"
    /\ read' = NothingRead
    /\ UNCHANGED pollerVars

HandlerStep ==
    \/ \E p \in StoreParts : ReadStore(p)
    \/ ReadGauges
    \/ Answer

ReadersNext ==
    \/ PollerNext /\ UNCHANGED readerVars
    \/ Ask
    \/ HandlerStep

(***************************************************************************)
(* Fairness: the poller's, and a handler goroutine is scheduled; nobody    *)
(* has to send a request.                                                  *)
(***************************************************************************)
ReadersSpec ==
    /\ ReadersInit
    /\ [][ReadersNext]_readersVars
    /\ WF_readersVars(PollerStep /\ UNCHANGED readerVars)
    /\ WF_readersVars(HandlerStep)

-----------------------------------------------------------------------------
(***************************************************************************)
(* Once the cluster is left alone and list calls work, every bookkeeping   *)
(* response shows exactly the objects of the cluster, and every scrape has *)
(* for each of them one series, which counts it alone and as ready when it *)
(* is, no other series, and gauges with their number, also when its parts  *)
(* were read in different cycles or in the middle of one (store.go:126-    *)
(* 195, poller.go:113-119, claim_collector.go:105-226).  Only the fields   *)
(* that the enrichment fills in may be those of a moment within a cycle.   *)
(***************************************************************************)
PartOf(g) == IF g \in ClaimGVRs THEN "claims" ELSE IF g \in XRGVRs THEN "xrs" ELSE "mrs"

There(p) == {gk \in Polled \X Key : PartOf(gk[1]) = p /\ gk[2] \in DOMAIN Wanted(gk[1])}

SeriesOf(series, g, o) ==
    {l \in DOMAIN series : l.gvr = g /\ l.ns = o.ns /\ l.name = o.name}

Measures(p, series) ==
    /\ Cardinality(DOMAIN series) = Cardinality(There(p))
    /\ \A g \in Polled : PartOf(g) = p =>
          \A o \in Range(Wanted(g)) :
             \E l \in SeriesOf(series, g, o) :
                /\ SeriesOf(series, g, o) = {l}
                /\ series[l] = [total |-> 1, ready |-> IF o.ready THEN 1 ELSE 0]

Counts(numbers) == \A p \in StoreParts : numbers[p] = Cardinality(There(p))

ShowsCluster == \A g \in Polled : Holds([p \in StoreParts |-> read[p]], g, Wanted(g))

MeasuresCluster ==
    /\ \A p \in StoreParts : Measures(p, read[p])
    /\ Counts(read["gauges"])

ShowsAtAnswer ==
    Answered => IF request = "scrape" THEN MeasuresCluster ELSE ShowsCluster

ResponsesConverge == Quiet => <>[](ctxDone \/ ShowsAtAnswer)

(***************************************************************************)
(* "The endpoint reflects the last completed polling cycle"                *)
(* (README.md:365).  A completed cycle leaves an enriched store            *)
(* (EnrichedAtRest), so a response in which an enrichment would still have *)
(* something to fill in reflects no completed cycle.                       *)
(***************************************************************************)
ReflectsCompletedCycle ==
    request = "bookkeeping" /\ Answered => Enriched([p \in StoreParts |-> read[p]])
=============================================================================
