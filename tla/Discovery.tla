------------------------------ MODULE Discovery ------------------------------
(***************************************************************************)
(* What the exporter polls: run of cmd/exporter/main.go up to and with     *)
(* discoverAndApplyGVRs, and pkg/kube/discovery.go.  A process lists the   *)
(* CompositeResourceDefinitions (XRDs), then the ManagedResourceDefini-    *)
(* tions (MRDs), which change between the two calls and after them, and    *)
(* never lists them again.  When a call fails, or a definition cannot be   *)
(* used, the process ends and is started again.                            *)
(***************************************************************************)
EXTENDS Configuration, Functions

CONSTANTS
    Envs,            \* the environments to consider
    XRDForms,        \* XRDForms[d]: what the XRD named d may look like
    MRDForms,        \* MRDForms[d]: what the MRD named d may look like
    PlainCRDs,       \* GVRs served without any of these definitions
    Before(_, _)     \* the string order of gvrKey, on GVRs

(***************************************************************************)
(* Kubernetes names a definition by its plural and its group, and keeps    *)
(* XRDs and MRDs apart from claim kinds.                                   *)
(***************************************************************************)
Kind(g) == <<g.group, g.resource>>

Definitions(forms) ==
    {m \in UNION {[D -> UNION Range(forms)] : D \in SUBSET DOMAIN forms} :
        \A d \in DOMAIN m : m[d] \in forms[d]}

AreDefinitions(forms) ==
    /\ IsFiniteSet(DOMAIN forms)
    /\ \A d, e \in DOMAIN forms : \A x \in forms[d], y \in forms[e] :
          /\ x.versions \in Seq(Range(x.versions))
          /\ x.group = y.group /\ x.plural = y.plural => d = e

ASSUME DefinitionsAssumption ==
    /\ DOMAIN XRDForms \cap DOMAIN MRDForms = {}
    /\ AreDefinitions(XRDForms)
    /\ AreDefinitions(MRDForms)

ASSUME EnvsAssumption ==
    \A e \in Envs : \A value \in {e.MR_GVRS, e.KUBE_NAMESPACE_SCOPE} : value \in Seq(Range(value))

VARIABLES
    env,           \* the environment of the container
    xrds, mrds,    \* the definitions the API server holds
    pc,            \* how far run() is: "down", "XRDs", "MRDs" or "polling"
    cfg,           \* its Config
    unchanged      \* auxiliary: during discovery, the definitions that have
                   \* not changed since the process started

discoveryVars == <<env, xrds, mrds, pc, cfg, unchanged>>

NoConfig == <<>>

DiscoveryInit ==
    /\ env \in Envs
    /\ xrds \in Definitions(XRDForms)
    /\ mrds \in Definitions(MRDForms)
    /\ pc = "down"
    /\ cfg = NoConfig
    /\ unchanged = {}

-----------------------------------------------------------------------------
(***************************************************************************)
(* selectVersion of an XRD and selectCRDVersion of an MRD: the first       *)
(* version with a name and the flag "referenceable" or "storage", or else  *)
(* the first one that is served.                                           *)
(***************************************************************************)
NoVersion == ""

FirstWith(versions, flag) ==
    LET named == {i \in DOMAIN versions : versions[i][flag] /\ versions[i].name # ""}
    IN  IF named = {} THEN NoVersion ELSE versions[Min(named)].name

SelectVersion(d) ==
    OrDefault(FirstWith(d.versions, "referenceable"), FirstWith(d.versions, "served"))

SelectCRDVersion(d) ==
    OrDefault(FirstWith(d.versions, "storage"), FirstWith(d.versions, "served"))

Usable(d, version) == d.group # "" /\ d.plural # "" /\ version # NoVersion

XRGVR(d) == [group |-> d.group, version |-> SelectVersion(d), resource |-> d.plural]

ClaimGVR(d) == [XRGVR(d) EXCEPT !.resource = d.claimPlural]

MRGVR(d) == [group |-> d.group, version |-> SelectCRDVersion(d), resource |-> d.plural]

ClaimEnabled == {d \in Range(xrds) : d.claimPlural # ""}

ActiveMRDs == {d \in Range(mrds) : d.state = "Active"}

(***************************************************************************)
(* providerFromMRD: the package label, or else the first Provider that     *)
(* owns the definition.                                                    *)
(***************************************************************************)
ProviderFromMRD(d) ==
    LET owners == {i \in DOMAIN d.owners :
                      d.owners[i].kind = "Provider" /\ d.owners[i].name # ""}
    IN  IF d.package # "" THEN d.package
        ELSE IF owners = {} THEN "" ELSE d.owners[Min(owners)].name

(***************************************************************************)
(* The GVRs in their order: the nth is the one that n of them, with it,    *)
(* are not after.  Those of definitions have distinct keys.                *)
(***************************************************************************)
MapToSortedSlice(gvrs) ==
    [n \in 1..Cardinality(gvrs) |->
        CHOOSE g \in gvrs : Cardinality({h \in gvrs : h = g \/ Before(h, g)}) = n]

Discoverable ==
    LET xrs == {d \in UNION Range(XRDForms) : Usable(d, SelectVersion(d))}
        mrs == {d \in UNION Range(MRDForms) : Usable(d, SelectCRDVersion(d))}
    IN  {XRGVR(d) : d \in xrs} \cup {MRGVR(d) : d \in mrs}
          \cup {ClaimGVR(d) : d \in {x \in xrs : x.claimPlural # ""}}

ASSUME BeforeAssumption ==
    /\ \A g \in Discoverable : ~Before(g, g)
    /\ \A g, h \in Discoverable : g = h \/ Before(g, h) \/ Before(h, g)
    /\ \A g, h, i \in Discoverable : Before(g, h) /\ Before(h, i) => Before(g, i)

-----------------------------------------------------------------------------
(***************************************************************************)
(* The definitions.                                                        *)
(***************************************************************************)
XRDChange(d) ==
    /\ xrds' \in {m \in Definitions(XRDForms) :
                     \A e \in DOMAIN XRDForms \ {d} :
                         Restrict(m, DOMAIN m \cap {e}) = Restrict(xrds, DOMAIN xrds \cap {e})}
    /\ unchanged' = unchanged \ {d}
    /\ UNCHANGED <<env, mrds, pc, cfg>>

MRDChange(d) ==
    /\ mrds' \in {m \in Definitions(MRDForms) :
                     \A e \in DOMAIN MRDForms \ {d} :
                         Restrict(m, DOMAIN m \cap {e}) = Restrict(mrds, DOMAIN mrds \cap {e})}
    /\ unchanged' = unchanged \ {d}
    /\ UNCHANGED <<env, xrds, pc, cfg>>

(***************************************************************************)
(* A process that is down is started; it stays down with an environment    *)
(* that Load refuses.                                                      *)
(***************************************************************************)
Start ==
    /\ pc = "down"
    /\ Accepted(env)
    /\ cfg' = Load(env)
    /\ pc' = "XRDs"
    /\ unchanged' = DOMAIN XRDForms \cup DOMAIN MRDForms
    /\ UNCHANGED <<env, xrds, mrds>>

(***************************************************************************)
(* DiscoverFromXRD.  One XRD that cannot be used fails it, and so does a   *)
(* cluster without claims.  What CLAIM_GVRS and XR_GVRS gave is replaced.  *)
(***************************************************************************)
DiscoverXRDs ==
    /\ pc = "XRDs"
    /\ \A d \in Range(xrds) : Usable(d, SelectVersion(d))
    /\ ClaimEnabled # {}
    /\ cfg' = [cfg EXCEPT !.claims = MapToSortedSlice({ClaimGVR(d) : d \in ClaimEnabled}),
                          !.xrs = MapToSortedSlice({XRGVR(d) : d \in Range(xrds)})]
    /\ pc' = "MRDs"
    /\ UNCHANGED <<env, xrds, mrds, unchanged>>

(***************************************************************************)
(* DiscoverMRGVRsFromMRDs and the merge: the kinds of active MRDs first,   *)
(* then those of MR_GVRS that are not among them.                          *)
(***************************************************************************)
MergeOverride(found, configured) ==    \* a mutated form: the configured kinds win
    IF configured = <<>> THEN found ELSE configured

Merge(found, configured) == Deduplicate(found \o configured)

DiscoverMRDs ==
    /\ pc = "MRDs"
    /\ \A d \in ActiveMRDs : Usable(d, SelectCRDVersion(d))
    /\ LET found == {MRGVR(d) : d \in ActiveMRDs}
       IN  cfg' = [cfg EXCEPT
                     !.mrs = Merge(MapToSortedSlice(found), cfg.mrs),
                     !.providers = [g \in found |->
                         ProviderFromMRD(CHOOSE d \in ActiveMRDs : MRGVR(d) = g)]]
    /\ pc' = "polling"
    /\ unchanged' = {}
    /\ UNCHANGED <<env, xrds, mrds>>

(***************************************************************************)
(* run returns an error: either list call may fail, and must when a        *)
(* definition cannot be used.  A process also dies at any other moment.    *)
(***************************************************************************)
Exits ==
    /\ pc' = "down"
    /\ cfg' = NoConfig
    /\ unchanged' = {}
    /\ UNCHANGED <<env, xrds, mrds>>

DiscoveryFails == pc \in {"XRDs", "MRDs"} /\ Exits

Dies == pc # "down" /\ Exits

-----------------------------------------------------------------------------
(***************************************************************************)
(* Properties.                                                             *)
(*                                                                         *)
(* No kind is polled twice: not at one version, and at two of them only    *)
(* when MR_GVRS asks for one (main.go:171-190).  Two polls of a kind would *)
(* replace each other's objects in the store, and the poller relies on it. *)
(***************************************************************************)
AskedFor(g) == g \in Range(ParseGVRs(env.MR_GVRS))

PolledOnce ==
    pc = "polling" =>
        /\ \A kinds \in {cfg.claims, cfg.xrs, cfg.mrs} : IsInjective(kinds)
        /\ \A kinds \in {cfg.claims, cfg.xrs} : \A g, h \in Range(kinds) :
              Kind(g) = Kind(h) => g = h
        /\ \A g, h \in Range(cfg.mrs) :
              Kind(g) = Kind(h) => g = h \/ AskedFor(g) \/ AskedFor(h)

(***************************************************************************)
(* A definition that was there when the process started, and did not       *)
(* change until it polls, is polled at a version of its own, an XRD at one *)
(* that is served and its claims at that same version, so that the         *)
(* enrichment can link the two; one that was not there, or not active, is  *)
(* not polled, unless MR_GVRS names it (README.md:194-207).  This is so    *)
(* whatever CLAIM_GVRS and XR_GVRS say, which README.md:178-179 calls      *)
(* overrides: main.go:156-157 replaces what they gave.                     *)
(***************************************************************************)
NamesOf(d)  == {d.versions[i].name : i \in DOMAIN d.versions}
ServedOf(d) == {v.name : v \in {w \in Range(d.versions) : w.served}}

PolledAt(gvrs, group, version, resource) ==
    [group |-> group, version |-> version, resource |-> resource] \in Range(gvrs)

XRDsPolled(c) ==
    \A d \in unchanged \cap DOMAIN XRDForms :
        IF d \in DOMAIN xrds
        THEN LET x == xrds[d]
             IN  \E v \in ServedOf(x) :
                    /\ PolledAt(c.xrs, x.group, v, x.plural)
                    /\ x.claimPlural # "" => PolledAt(c.claims, x.group, v, x.claimPlural)
        ELSE \A x \in XRDForms[d] : \A g \in Range(c.xrs) : Kind(g) # <<x.group, x.plural>>

MRDsPolled(c) ==
    \A d \in unchanged \cap DOMAIN MRDForms :
        IF d \in DOMAIN mrds /\ mrds[d].state = "Active"
        THEN \E v \in NamesOf(mrds[d]) : PolledAt(c.mrs, mrds[d].group, v, mrds[d].plural)
        ELSE \A m \in MRDForms[d] : \A g \in Range(c.mrs) :
                Kind(g) = <<m.group, m.plural>> => AskedFor(g)

NothingMissed ==
    [][pc # "polling" /\ pc' = "polling" => XRDsPolled(cfg') /\ MRDsPolled(cfg')]_discoveryVars
=============================================================================
