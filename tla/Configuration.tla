---------------------------- MODULE Configuration ----------------------------
(***************************************************************************)
(* Load of pkg/config/config.go: from the environment of the container to  *)
(* the Config of the exporter, or to an error that ends the process.       *)
(*                                                                         *)
(* The value of a list variable is a sequence of the entries between its   *)
(* commas, an entry a sequence of its segments, at most three (SplitN), "" *)
(* for one that is empty or blank; a variable that is not set is <<>>.     *)
(* Settings that are copied and only shown (addresses, region, endpoint)   *)
(* are left out.                                                           *)
(***************************************************************************)
EXTENDS Integers, FiniteSets, SequencesExt

(***************************************************************************)
(* What a loop with "continue" keeps of a sequence: the entries at some of *)
(* its positions, the nth of them being the one with n up to it.  (Said    *)
(* without recursion, so that it can be proved about.)                     *)
(***************************************************************************)
Keep(s, positions) ==
    [n \in 1..Cardinality(positions) |->
        s[CHOOSE i \in positions : Cardinality({j \in positions : j <= i}) = n]]

(***************************************************************************)
(* splitAndTrim drops entries in which there is nothing but space.         *)
(***************************************************************************)
SplitAndTrim(entries) == Keep(entries, {i \in DOMAIN entries : entries[i] # <<"">>})

IsGVR(e) == Len(e) = 3 /\ ~Contains(e, "")

ParseGVR(e) == [group |-> e[1], version |-> e[2], resource |-> e[3]]

(***************************************************************************)
(* The loops that keep the first of equal GVRs.                            *)
(***************************************************************************)
DeduplicateNever(gvrs) == gvrs    \* a mutated form: the seen set is never asked

Deduplicate(gvrs) ==
    Keep(gvrs, {i \in DOMAIN gvrs : \A j \in 1..(i - 1) : gvrs[j] # gvrs[i]})

IsGVRList(entries) ==
    LET parts == SplitAndTrim(entries)
    IN  parts # <<>> /\ \A i \in DOMAIN parts : IsGVR(parts[i])

ParseGVRs(entries) ==
    LET parts == SplitAndTrim(entries)
    IN  Deduplicate([i \in DOMAIN parts |-> ParseGVR(parts[i])])

(***************************************************************************)
(* What Load refuses.  An interval that is no number counts as 0.  The     *)
(* prefix is a sequence of the segments between its slashes, in which ".." *)
(* stands for every segment that contains it.                              *)
(***************************************************************************)
Accepted(env) ==
    /\ \A v \in {"CLAIM_GVRS", "XR_GVRS", "MR_GVRS"} : env[v] # <<>> => IsGVRList(env[v])
    /\ env.POLL_INTERVAL_SECONDS # <<>> => env.POLL_INTERVAL_SECONDS[1] >= 1
    /\ env.STORE_BACKEND \in {"", "memory", "s3"}
    /\ env.STORE_BACKEND = "s3" => env.S3_BUCKET # ""
    /\ ~Contains(env.S3_KEY_PREFIX, "..")

OrDefault(value, default) == IF value = "" THEN default ELSE value

(***************************************************************************)
(* A scope of nothing but commas and blanks is an empty one: the whole     *)
(* cluster.                                                                *)
(***************************************************************************)
Load(env) ==
    LET scope == SplitAndTrim(env.KUBE_NAMESPACE_SCOPE)
    IN  [claims     |-> ParseGVRs(env.CLAIM_GVRS),
         xrs        |-> ParseGVRs(env.XR_GVRS),
         mrs        |-> ParseGVRs(env.MR_GVRS),
         providers  |-> <<>>,
         namespaces |-> [i \in DOMAIN scope |-> scope[i][1]],
         keys       |-> [creator     |-> env.CREATOR_ANNOTATION_KEY,
                         team        |-> env.TEAM_ANNOTATION_KEY,
                         composition |-> OrDefault(env.COMPOSITION_LABEL_KEY,
                                                   "crossplane.io/composition-name"),
                         composite   |-> OrDefault(env.COMPOSITE_LABEL_KEY,
                                                   "crossplane.io/composite")],
         interval   |-> IF env.POLL_INTERVAL_SECONDS = <<>> THEN 30
                        ELSE env.POLL_INTERVAL_SECONDS[1],
         backend    |-> OrDefault(env.STORE_BACKEND, "memory"),
         prefix     |-> LET p == env.S3_KEY_PREFIX
                            named == {i \in DOMAIN p : p[i] # ""}
                        IN  IF named = {} THEN <<"xp-tracker">>
                            ELSE SubSeq(p, Min(named), Max(named))]
=============================================================================
