------------------------------- MODULE MCIntake -------------------------------
(***************************************************************************)
(* A small cluster for the intake.                                         *)
(***************************************************************************)
EXTENDS Intake

(***************************************************************************)
(* The order of gvrKey, from that of the strings that occur.               *)
(***************************************************************************)
Alphabet == <<"clouds", "platform", "v1", "v2", "buckets", "dbs", "queues", "xdbs", "xnets">>
Place(s) == CHOOSE i \in DOMAIN Alphabet : Alphabet[i] = s
ByKey(g, h) ==
    LET rank(x) == 100 * Place(x.group) + 10 * Place(x.version) + Place(x.resource)
    IN  rank(g) < rank(h)

Version(name, flag, main, served) ==
    [name |-> name, served |-> served] @@ (flag :> main)

(***************************************************************************)
(* An XRD with claims, of which the second version is referenceable, or    *)
(* the first, or that has none; one without claims; an MRD that is served  *)
(* at its storage version, at another one only, or inactive.               *)
(***************************************************************************)
XRD(plural, claimPlural, versions) ==
    [group |-> "platform", plural |-> plural, claimPlural |-> claimPlural,
     versions |-> versions]
XV(name, main) == Version(name, "referenceable", main, TRUE)
SmallXRDs ==
    [d \in {"xdbs", "xnets"} |->
        IF d = "xdbs"
        THEN {XRD("xdbs", "dbs", <<XV("v1", FALSE), XV("v2", TRUE)>>),
              XRD("xdbs", "dbs", <<>>)}
        ELSE {XRD("xnets", "", <<XV("v1", FALSE)>>)}]

MRD(active, versions, package) ==
    [group |-> "clouds", plural |-> "buckets", state |-> active, versions |-> versions,
     package |-> package,
     owners |-> <<[kind |-> "Lock", name |-> "l"], [kind |-> "Provider", name |-> "cloud"]>>]
SmallMRDs ==
    [d \in {"buckets"} |->
        {MRD("Active", <<Version("v1", "storage", TRUE, TRUE)>>, ""),
         MRD("Active", <<Version("v1", "storage", TRUE, FALSE),
                         Version("v2", "storage", FALSE, TRUE)>>, "pkg"),
         MRD("Inactive", <<Version("v1", "storage", TRUE, TRUE)>>, "")}]

(***************************************************************************)
(* Without MR_GVRS; with a kind of its own, twice, the discovered kind,    *)
(* and a list of namespaces; with another version of the discovered kind,  *)
(* a claim kind at a version that is not referenceable, and the XR kind    *)
(* that is not always there; and one that Load refuses.                    *)
(***************************************************************************)
Plain ==
    [CLAIM_GVRS |-> <<>>, XR_GVRS |-> <<>>, MR_GVRS |-> <<>>, KUBE_NAMESPACE_SCOPE |-> <<>>,
     CREATOR_ANNOTATION_KEY |-> "creator", TEAM_ANNOTATION_KEY |-> "",
     COMPOSITION_LABEL_KEY |-> "", COMPOSITE_LABEL_KEY |-> "",
     POLL_INTERVAL_SECONDS |-> <<>>, STORE_BACKEND |-> "", S3_BUCKET |-> "",
     S3_KEY_PREFIX |-> <<>>]
SmallEnvs ==
    {Plain,
     [Plain EXCEPT !.MR_GVRS = <<<<"clouds", "v1", "queues">>, <<"">>, <<"clouds", "v1", "buckets">>,
                                 <<"clouds", "v1", "queues">>>>,
                   !.KUBE_NAMESPACE_SCOPE = <<<<"n1">>, <<"">>>>],
     [Plain EXCEPT !.MR_GVRS = <<<<"clouds", "v2", "buckets">>>>,
                   !.CLAIM_GVRS = <<<<"platform", "v1", "dbs">>>>,
                   !.XR_GVRS = <<<<"platform", "v1", "xnets">>>>],
     [Plain EXCEPT !.MR_GVRS = <<<<"">>>>]}
SmallCRDs == {[group |-> "clouds", version |-> "v1", resource |-> "queues"]}

(***************************************************************************)
(* A claim and its XR that stay, and two MRs that come and go, one of them *)
(* in a namespace, and with the composite label or an empty one.           *)
(***************************************************************************)
Object(ns, name, labels) ==
    [ns |-> ns, name |-> name, labels |-> labels,
     annotations |-> ("crossplane.io/paused" :> "True"),
     spec |-> ("resourceRef.name" :> "x"), deleting |-> FALSE,
     conditions |-> <<[type |-> "Synced", status |-> "False", reason |-> "r"],
                      [type |-> "Ready", status |-> "True", reason |-> "Available"]>>]
One(o)    == <<o.ns, o.name>> :> o
Under(xr) == "crossplane.io/composite" :> xr
SmallContents ==
       (<<"platform", "xdbs">>  :> {One(Object("", "x", "crossplane.io/claim-name" :> "a"))})
    @@ (<<"platform", "dbs">>   :> {One(Object("n1", "a", <<>>))})
    @@ (<<"platform", "xnets">> :> {NoObjects})
    @@ (<<"clouds", "queues">>  :> {NoObjects})
    @@ (<<"clouds", "buckets">> :>
          {NoObjects,
           One(Object("n1", "m1", Under("x"))) @@ One(Object("", "m2", Under("x"))),
           One(Object("n1", "m1", Under("x"))) @@ One(Object("", "m2", Under("")))})

AnyJob ==
    [role : {"xr", "claim", "mr"},
     gvr : [group : {"platform", "clouds"}, version : {"v1", "v2"},
            resource : {"xdbs", "dbs", "xnets", "buckets", "queues"}],
     ns : {"", "n1"}, keys : {Load(e).keys : e \in {x \in SmallEnvs : Accepted(x)}},
     provider : {"", "pkg", "cloud"}]
=============================================================================
