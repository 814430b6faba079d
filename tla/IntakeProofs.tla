----------------------------- MODULE IntakeProofs -----------------------------
(***************************************************************************)
(* What is polled, and that the lists of it implement the atomic call.     *)
(***************************************************************************)
EXTENDS Intake, ListPagerProofs, FiniteSetTheorems, FunctionTheorems

(***************************************************************************)
(* The first of some positions (Min of FiniteSetsExt).                     *)
(***************************************************************************)
LEMMA FirstPosition ==
    ASSUME NEW P \in SUBSET Nat, P # {}
    PROVE  Min(P) \in P /\ \A i \in P : Min(P) <= i
<1>1. \E i \in P : \A j \in P : <<j, i>> \notin OpToRel(<, Nat)
  BY NatLessThanWellFounded, WFMin
<1>2. \A i, j \in Nat : j < i => <<j, i>> \in OpToRel(<, Nat)
  BY DEF OpToRel
<1> HIDE DEF OpToRel
<1>3. \E i \in P : \A j \in P : ~(j < i)
  BY <1>1, <1>2
<1>4. \E i \in P : \A j \in P : i <= j
  BY <1>3
<1> QED
  BY <1>4 DEF Min

UpTo(S, R, x) == {y \in S : y = x \/ <<y, x>> \in R}

RankIn(S, R) == [x \in S |-> Cardinality(UpTo(S, R, x))]

(***************************************************************************)
(* In a finite set in a strict order, an element is where its rank says:   *)
(* the rank is one to one, onto the numbers up to the size of the set.     *)
(***************************************************************************)
LEMMA RankIsBijection ==
    ASSUME NEW S, IsFiniteSet(S), NEW R,
           \A x \in S : <<x, x>> \notin R,
           \A x, y \in S : x = y \/ <<x, y>> \in R \/ <<y, x>> \in R,
           \A x, y, z \in S : <<x, y>> \in R /\ <<y, z>> \in R => <<x, z>> \in R
    PROVE  RankIn(S, R) \in Bijection(S, 1..Cardinality(S))
<1> DEFINE upTo(x) == UpTo(S, R, x)
           rank == [x \in S |-> Cardinality(upTo(x))]
           n == Cardinality(S)
<1>1. ASSUME NEW x \in S
      PROVE  IsFiniteSet(upTo(x)) /\ rank[x] \in 1..n
  <2>1. upTo(x) \in SUBSET S /\ upTo(x) # {}
    BY DEF UpTo
  <2> HIDE DEF upTo
  <2>2. IsFiniteSet(upTo(x)) /\ Cardinality(upTo(x)) <= n
    BY <2>1, FS_Subset
  <2>3. Cardinality(upTo(x)) \in Nat /\ Cardinality(upTo(x)) # 0 /\ n \in Nat
    BY <2>1, <2>2, FS_CardinalityType, FS_EmptySet
  <2> QED
    BY <2>2, <2>3
<1>2. ASSUME NEW x \in S, NEW y \in S, <<x, y>> \in R
      PROVE  rank[x] # rank[y]
  <2>1. upTo(x) \in SUBSET upTo(y) /\ upTo(x) # upTo(y)
    <3>1. upTo(x) \in SUBSET upTo(y)
      BY <1>2 DEF UpTo
    <3>2. y \in upTo(y) /\ y \notin upTo(x)
      BY <1>2 DEF UpTo
    <3> QED
      BY <3>1, <3>2
  <2> HIDE DEF upTo
  <2>2. Cardinality(upTo(x)) # Cardinality(upTo(y))
    BY <1>1, <2>1, FS_Subset
  <2> QED
    BY <2>2
<1>3. rank \in Injection(S, 1..n)
  <2> HIDE DEF upTo
  <2>1. rank \in [S -> 1..n]
    BY <1>1
  <2>2. \A x, y \in S : rank[x] = rank[y] => x = y
    BY <1>2
  <2> HIDE DEF rank
  <2> QED
    BY <2>1, <2>2 DEF Injection, IsInjective
<1>4. n \in Nat /\ IsFiniteSet(1..n) /\ Cardinality(1..n) = n
  BY FS_CardinalityType, FS_Interval
<1>5. rank \in Surjection(S, 1..n)
  BY <1>3, <1>4, FS_Injection
<1> QED
  BY <1>3, <1>5 DEF Bijection, RankIn

(***************************************************************************)
(* And what is found at each rank goes once through the set.               *)
(***************************************************************************)
LEMMA InverseIsBijection ==
    ASSUME NEW S, NEW n, NEW rank \in Bijection(S, 1..n),
           NEW order, DOMAIN order = 1..n, order = [m \in 1..n |-> order[m]],
           \A m \in 1..n : order[m] \in S /\ rank[order[m]] = m
    PROVE  order \in Bijection(1..n, S)
<1>1. /\ rank \in [S -> 1..n]
      /\ \A x, y \in S : rank[x] = rank[y] => x = y
  BY DEF Bijection, Injection, IsInjective
<1>2. order \in [1..n -> S]
  OBVIOUS
<1>3. IsInjective(order)
  BY DEF IsInjective
<1>4. \A x \in S : \E m \in 1..n : order[m] = x
  BY <1>1
<1> QED
  BY <1>2, <1>3, <1>4 DEF Bijection, Injection, Surjection

LEMMA FoundAtRank ==
    ASSUME NEW S, NEW n, NEW rank \in Bijection(S, 1..n), NEW m \in 1..n
    PROVE  \E x \in S : rank[x] = m
BY DEF Bijection, Surjection

-----------------------------------------------------------------------------
(***************************************************************************)
(* mapToSortedSlice has each GVR of the map once; Keep, each of the        *)
(* positions once.                                                         *)
(***************************************************************************)
LEMMA SortedSlice ==
    ASSUME NEW gvrs \in SUBSET Discoverable, IsFiniteSet(gvrs)
    PROVE  MapToSortedSlice(gvrs) \in Bijection(1..Cardinality(gvrs), gvrs)
<1> DEFINE R == {p \in gvrs \X gvrs : Before(p[1], p[2])}
           size(g) == Cardinality({h \in gvrs : h = g \/ Before(h, g)})
           rank == RankIn(gvrs, R)
           n == Cardinality(gvrs)
           order == [m \in 1..n |-> CHOOSE g \in gvrs : size(g) = m]
<1>1. \A g, h \in gvrs : <<g, h>> \in R <=> Before(g, h)
  OBVIOUS
<1>2. rank \in Bijection(gvrs, 1..n)
  <2> HIDE DEF R
  <2>1. /\ \A g \in gvrs : <<g, g>> \notin R
        /\ \A g, h \in gvrs : g = h \/ <<g, h>> \in R \/ <<h, g>> \in R
        /\ \A g, h, i \in gvrs : <<g, h>> \in R /\ <<h, i>> \in R => <<g, i>> \in R
    BY <1>1, BeforeAssumption
  <2> QED
    BY <2>1, RankIsBijection
<1>3. \A g \in gvrs : rank[g] = size(g)
  <2> SUFFICES ASSUME NEW g \in gvrs PROVE rank[g] = size(g)
    OBVIOUS
  <2>1. UpTo(gvrs, R, g) = {h \in gvrs : h = g \/ Before(h, g)}
    BY <1>1 DEF UpTo
  <2> QED
    BY <2>1 DEF RankIn
<1> HIDE DEF rank, size, n
<1>4. \A m \in 1..n : order[m] \in gvrs /\ rank[order[m]] = m
  <2>1. \A m \in 1..n : \E g \in gvrs : size(g) = m
    BY <1>2, <1>3, FoundAtRank
  <2>2. \A m \in 1..n : order[m] \in gvrs /\ size(order[m]) = m
    BY <2>1
  <2> QED
    BY <1>3, <2>2
<1>5. order \in Bijection(1..n, gvrs)
  <2>1. DOMAIN order = 1..n /\ order = [m \in 1..n |-> order[m]]
    OBVIOUS
  <2> HIDE DEF order
  <2> QED
    BY <1>2, <1>4, <2>1, InverseIsBijection
<1>6. MapToSortedSlice(gvrs) = order
  BY DEF MapToSortedSlice, size, n
<1> QED
  BY <1>5, <1>6 DEF n

LEMMA Kept ==
    ASSUME NEW s, NEW positions \in SUBSET Nat, IsFiniteSet(positions)
    PROVE  \E order \in Bijection(1..Cardinality(positions), positions) :
               Keep(s, positions) = [n \in 1..Cardinality(positions) |-> s[order[n]]]
<1> DEFINE R == {p \in positions \X positions : p[1] < p[2]}
           size(i) == Cardinality({j \in positions : j <= i})
           rank == RankIn(positions, R)
           n == Cardinality(positions)
           order == [m \in 1..n |-> CHOOSE i \in positions : size(i) = m]
<1>1. \A i, j \in positions : <<i, j>> \in R <=> i < j
  OBVIOUS
<1>2. rank \in Bijection(positions, 1..n)
  <2> HIDE DEF R
  <2>1. /\ \A i \in positions : <<i, i>> \notin R
        /\ \A i, j \in positions : i = j \/ <<i, j>> \in R \/ <<j, i>> \in R
        /\ \A i, j, k \in positions : <<i, j>> \in R /\ <<j, k>> \in R => <<i, k>> \in R
    BY <1>1
  <2> QED
    BY <2>1, RankIsBijection
<1>3. \A i \in positions : rank[i] = size(i)
  <2> SUFFICES ASSUME NEW i \in positions PROVE rank[i] = size(i)
    OBVIOUS
  <2> HIDE DEF R
  <2>1. \A j \in positions : (j = i \/ <<j, i>> \in R) <=> j <= i
    BY <1>1
  <2>2. UpTo(positions, R, i) = {j \in positions : j <= i}
    BY <2>1, Zenon DEF UpTo
  <2> QED
    BY <2>2 DEF RankIn
<1> HIDE DEF rank, size, n
<1>4. \A m \in 1..n : order[m] \in positions /\ rank[order[m]] = m
  <2>1. \A m \in 1..n : \E i \in positions : size(i) = m
    <3> SUFFICES ASSUME NEW m \in 1..n PROVE \E i \in positions : size(i) = m
      OBVIOUS
    <3>1. PICK i \in positions : rank[i] = m
      BY <1>2 DEF Bijection, Surjection
    <3> QED
      BY <1>3, <3>1
  <2>2. \A m \in 1..n : order[m] \in positions /\ size(order[m]) = m
    BY <2>1
  <2> QED
    BY <1>3, <2>2
<1>5. order \in Bijection(1..n, positions)
  <2>1. DOMAIN order = 1..n /\ order = [m \in 1..n |-> order[m]]
    OBVIOUS
  <2> HIDE DEF order
  <2> QED
    BY <1>2, <1>4, <2>1, InverseIsBijection
<1>6. Keep(s, positions) = [m \in 1..n |-> s[order[m]]]
  BY DEF Keep, size, n
<1> HIDE DEF order
<1> QED
  BY <1>5, <1>6 DEF n

LEMMA BijectionFacts ==
    ASSUME NEW n \in Nat, NEW T, NEW f \in Bijection(1..n, T)
    PROVE  f \in Seq(T) /\ Len(f) = n /\ IsInjective(f) /\ Range(f) = T
<1>1. /\ f \in [1..n -> T]
      /\ IsInjective(f)
      /\ \A t \in T : \E i \in 1..n : f[i] = t
  BY DEF Bijection, Injection, Surjection
<1>2. Range(f) = T
  BY <1>1 DEF Range
<1> QED
  BY <1>1, <1>2

LEMMA SliceFacts ==
    ASSUME NEW gvrs \in SUBSET Discoverable, IsFiniteSet(gvrs)
    PROVE  /\ MapToSortedSlice(gvrs) \in Seq(gvrs)
           /\ IsInjective(MapToSortedSlice(gvrs))
           /\ Range(MapToSortedSlice(gvrs)) = gvrs
BY SortedSlice, BijectionFacts, FS_CardinalityType

LEMMA KeepFacts ==
    ASSUME NEW X, NEW s \in Seq(X), NEW positions \in SUBSET DOMAIN s
    PROVE  /\ Keep(s, positions) \in Seq(X)
           /\ Range(Keep(s, positions)) = {s[i] : i \in positions}
           /\ (\A i, j \in positions : s[i] = s[j] => i = j) => IsInjective(Keep(s, positions))
<1> DEFINE n == Cardinality(positions)
<1>1. positions \in SUBSET Nat /\ IsFiniteSet(positions) /\ n \in Nat
  <2>1. DOMAIN s = 1..Len(s) /\ Len(s) \in Nat
    OBVIOUS
  <2>2. IsFiniteSet(1..Len(s))
    BY <2>1, FS_Interval
  <2> QED
    BY <2>1, <2>2, FS_Subset, FS_CardinalityType
<1>2. PICK order \in Bijection(1..n, positions) : Keep(s, positions) = [m \in 1..n |-> s[order[m]]]
  BY <1>1, Kept
<1>3. order \in [1..n -> positions] /\ IsInjective(order) /\ Range(order) = positions
  BY <1>1, BijectionFacts DEF Bijection, Injection
<1> HIDE DEF n
<1>4. Keep(s, positions) \in [1..n -> X]
  BY <1>2, <1>3
<1>5. Range(Keep(s, positions)) = {s[i] : i \in positions}
  BY <1>2, <1>3 DEF Range
<1>6. (\A i, j \in positions : s[i] = s[j] => i = j) => IsInjective(Keep(s, positions))
  BY <1>2, <1>3 DEF IsInjective
<1> QED
  BY <1>1, <1>4, <1>5, <1>6

(***************************************************************************)
(* Deduplicate keeps every entry, and each of them once.                   *)
(***************************************************************************)
LEMMA DeduplicateFacts ==
    ASSUME NEW X, NEW s \in Seq(X)
    PROVE  /\ Deduplicate(s) \in Seq(X)
           /\ IsInjective(Deduplicate(s))
           /\ Range(Deduplicate(s)) = Range(s)
<1> DEFINE first == {i \in DOMAIN s : \A j \in 1..(i - 1) : s[j] # s[i]}
<1>1. Deduplicate(s) = Keep(s, first)
  BY DEF Deduplicate
<1>2. DOMAIN s = 1..Len(s) /\ Len(s) \in Nat
  OBVIOUS
<1>3. \A i, j \in first : s[i] = s[j] => i = j
  BY <1>2
<1>4. ASSUME NEW i \in DOMAIN s
      PROVE  \E k \in first : s[k] = s[i]
  <2> DEFINE same == {k \in DOMAIN s : s[k] = s[i]}
  <2>1. same \in SUBSET Nat /\ same # {}
    BY <1>2
  <2>2. Min(same) \in same /\ \A k \in same : Min(same) <= k
    BY <2>1, FirstPosition
  <2>3. ASSUME NEW j \in 1..(Min(same) - 1) PROVE s[j] # s[Min(same)]
    <3>1. Min(same) \in 1..Len(s) /\ s[Min(same)] = s[i]
      BY <1>2, <2>2
    <3>2. j \in DOMAIN s /\ ~(Min(same) <= j)
      BY <1>2, <3>1
    <3> QED
      BY <2>2, <3>1, <3>2
  <2> QED
    BY <2>2, <2>3
<1>5. {s[i] : i \in first} = Range(s)
  BY <1>4 DEF Range
<1>6. first \in SUBSET DOMAIN s
  OBVIOUS
<1> HIDE DEF first
<1>7. /\ Keep(s, first) \in Seq(X)
      /\ Range(Keep(s, first)) = {s[i] : i \in first}
      /\ IsInjective(Keep(s, first))
  BY <1>3, <1>6, KeepFacts
<1> QED
  BY <1>1, <1>5, <1>7
-----------------------------------------------------------------------------
(***************************************************************************)
(* Where discovery stands: what Load gave for MR_GVRS is still there       *)
(* before the MRDs have been listed.                                       *)
(***************************************************************************)
DiscoveryInv ==
    /\ env \in Envs
    /\ xrds \in Definitions(XRDForms)
    /\ mrds \in Definitions(MRDForms)
    /\ pc \in {"down", "XRDs", "MRDs", "polling"}
    /\ pc # "down" => {"claims", "xrs", "mrs", "providers", "namespaces", "keys"} \subseteq DOMAIN cfg
    /\ pc \in {"XRDs", "MRDs"} => cfg.mrs = ParseGVRs(env.MR_GVRS)

(***************************************************************************)
(* What a step of the intake can do to it.                                 *)
(***************************************************************************)
LEMMA DiscoverySteps ==
    ASSUME [IntakeNext]_intakeVars
    PROVE  \/ \E d \in DOMAIN XRDForms : XRDChange(d)
           \/ \E d \in DOMAIN MRDForms : MRDChange(d)
           \/ Start \/ DiscoverXRDs \/ DiscoverMRDs \/ Exits
           \/ UNCHANGED discoveryVars
BY DEF IntakeNext, ProcessStep, intakeVars, Discover, DiscoverFails, ListNext, GetPage,
       GetNoPage, TakeResult, Crash, DefinitionsChange, ClusterChange, DiscoveryFails, Dies

LEMMA DiscoveryInvInit == IntakeInit => DiscoveryInv
BY DEF IntakeInit, DiscoveryInit, DiscoveryInv

LEMMA DiscoveryInvStep ==
    ASSUME DiscoveryInv, [IntakeNext]_intakeVars
    PROVE  DiscoveryInv'
<1>1. ASSUME NEW d, XRDChange(d) PROVE DiscoveryInv'
  BY <1>1 DEF XRDChange, DiscoveryInv
<1>2. ASSUME NEW d, MRDChange(d) PROVE DiscoveryInv'
  BY <1>2 DEF MRDChange, DiscoveryInv
<1>3. CASE Start
  BY <1>3 DEF Start, Load, DiscoveryInv
<1>4. CASE DiscoverXRDs
  BY <1>4 DEF DiscoverXRDs, DiscoveryInv
<1>5. CASE DiscoverMRDs
  BY <1>5 DEF DiscoverMRDs, DiscoveryInv
<1>6. CASE Exits
  BY <1>6 DEF Exits, DiscoveryInv
<1>7. CASE UNCHANGED discoveryVars
  BY <1>7 DEF discoveryVars, DiscoveryInv
<1> QED
  BY <1>1, <1>2, <1>3, <1>4, <1>5, <1>6, <1>7, DiscoverySteps

-----------------------------------------------------------------------------
(***************************************************************************)
(* What the definitions of a cluster give: finitely many GVRs, in an order.*)
(***************************************************************************)
LEMMA FiniteRange ==
    ASSUME NEW S, IsFiniteSet(S), NEW T, NEW f \in [S -> T]
    PROVE  IsFiniteSet(Range(f))
<1>1. f \in Surjection(S, Range(f))
  BY DEF Surjection, Range
<1> QED
  BY <1>1, FS_Surjection

LEMMA DefinitionsFacts ==
    ASSUME NEW forms, AreDefinitions(forms), NEW m \in Definitions(forms)
    PROVE  /\ DOMAIN m \subseteq DOMAIN forms
           /\ \A d \in DOMAIN m : m[d] \in forms[d]
           /\ IsFiniteSet(Range(m))
           /\ Range(m) \subseteq UNION Range(forms)
           /\ \A x \in Range(m) : \E d \in DOMAIN m : x = m[d]
           /\ \A x, y \in Range(m) : x.group = y.group /\ x.plural = y.plural => x = y
<1>1. PICK D \in SUBSET DOMAIN forms : m \in [D -> UNION Range(forms)]
  BY DEF Definitions
<1>2. DOMAIN m = D /\ \A d \in D : m[d] \in forms[d]
  BY <1>1 DEF Definitions
<1>3. IsFiniteSet(D)
  BY <1>1, FS_Subset DEF AreDefinitions
<1>4. IsFiniteSet(Range(m))
  BY <1>1, <1>3, FiniteRange
<1>5. /\ Range(m) \subseteq UNION Range(forms)
      /\ \A x \in Range(m) : \E d \in DOMAIN m : x = m[d]
  BY <1>1, <1>2 DEF Range
<1>6. \A d, e \in D : m[d].group = m[e].group /\ m[d].plural = m[e].plural => d = e
  BY <1>2 DEF AreDefinitions
<1> QED
  BY <1>1, <1>2, <1>4, <1>5, <1>6

FoundXRs    == {XRGVR(d) : d \in Range(xrds)}
FoundClaims == {ClaimGVR(d) : d \in ClaimEnabled}
FoundMRs    == {MRGVR(d) : d \in ActiveMRDs}

LEMMA FoundFromXRDs ==
    ASSUME DiscoveryInv, \A d \in Range(xrds) : Usable(d, SelectVersion(d))
    PROVE  /\ FoundXRs \in SUBSET Discoverable /\ IsFiniteSet(FoundXRs)
           /\ FoundClaims \in SUBSET Discoverable /\ IsFiniteSet(FoundClaims)
<1>1. IsFiniteSet(Range(xrds)) /\ Range(xrds) \subseteq UNION Range(XRDForms)
  BY DefinitionsFacts, DefinitionsAssumption DEF DiscoveryInv
<1>2. ClaimEnabled \subseteq Range(xrds) /\ IsFiniteSet(ClaimEnabled)
  BY <1>1, FS_Subset DEF ClaimEnabled
<1>3. FoundXRs \in SUBSET Discoverable /\ FoundClaims \in SUBSET Discoverable
  BY <1>1, <1>2 DEF FoundXRs, FoundClaims, Discoverable, ClaimEnabled
<1>4. IsFiniteSet(FoundXRs)
  <2> DEFINE f == [d \in Range(xrds) |-> XRGVR(d)]
  <2>1. f \in [Range(xrds) -> FoundXRs] /\ Range(f) = FoundXRs
    BY DEF FoundXRs, Range
  <2> QED
    BY <1>1, <2>1, FiniteRange
<1>5. IsFiniteSet(FoundClaims)
  <2> DEFINE f == [d \in ClaimEnabled |-> ClaimGVR(d)]
  <2>1. f \in [ClaimEnabled -> FoundClaims] /\ Range(f) = FoundClaims
    BY DEF FoundClaims, Range
  <2> QED
    BY <1>2, <2>1, FiniteRange
<1> QED
  BY <1>3, <1>4, <1>5

LEMMA FoundFromMRDs ==
    ASSUME DiscoveryInv, \A d \in ActiveMRDs : Usable(d, SelectCRDVersion(d))
    PROVE  FoundMRs \in SUBSET Discoverable /\ IsFiniteSet(FoundMRs)
<1>1. IsFiniteSet(Range(mrds)) /\ Range(mrds) \subseteq UNION Range(MRDForms)
  BY DefinitionsFacts, DefinitionsAssumption DEF DiscoveryInv
<1>2. ActiveMRDs \subseteq Range(mrds) /\ IsFiniteSet(ActiveMRDs)
  BY <1>1, FS_Subset DEF ActiveMRDs
<1>3. FoundMRs \in SUBSET Discoverable
  BY <1>1, <1>2 DEF FoundMRs, Discoverable
<1> DEFINE f == [d \in ActiveMRDs |-> MRGVR(d)]
<1>4. f \in [ActiveMRDs -> FoundMRs] /\ Range(f) = FoundMRs
  BY DEF FoundMRs, Range
<1> QED
  BY <1>2, <1>3, <1>4, FiniteRange
-----------------------------------------------------------------------------
(***************************************************************************)
(* What the two list calls make of it: the claim and XR kinds are those of *)
(* the XRDs, the MR kinds those of the active MRDs and of MR_GVRS, each of *)
(* them once.                                                              *)
(***************************************************************************)
Configured == ParseGVRs(env.MR_GVRS)

LEMMA ConfiguredIsSequence ==
    ASSUME DiscoveryInv
    PROVE  Configured \in Seq(Range(Configured))
<1> DEFINE entries == env.MR_GVRS
           parts == SplitAndTrim(entries)
           Y == {ParseGVR(e) : e \in Range(entries)}
           parsed == [i \in DOMAIN parts |-> ParseGVR(parts[i])]
<1>1. entries \in Seq(Range(entries))
  BY EnvsAssumption DEF DiscoveryInv
<1>2. parts \in Seq(Range(entries))
  BY <1>1, KeepFacts DEF SplitAndTrim
<1>3. parsed \in Seq(Y)
  <2>1. parts \in [1..Len(parts) -> Range(entries)] /\ DOMAIN parts = 1..Len(parts)
    BY <1>2
  <2>2. Len(parts) \in Nat
    BY <1>2
  <2> HIDE DEF parts, entries
  <2>3. parsed \in [1..Len(parts) -> Y]
    BY <2>1
  <2> QED
    BY <2>2, <2>3
<1>4. Configured = Deduplicate(parsed)
  BY DEF Configured, ParseGVRs
<1> HIDE DEF parsed, Y
<1>5. Configured \in Seq(Y)
  BY <1>3, <1>4, DeduplicateFacts
<1> QED
  BY <1>5 DEF Range

LEMMA ConcatFacts ==
    ASSUME NEW s, NEW t, s \in Seq(Range(s)), t \in Seq(Range(t))
    PROVE  s \o t \in Seq(Range(s \o t)) /\ Range(s \o t) = Range(s) \cup Range(t)
<1>1. /\ Len(s) \in Nat /\ DOMAIN s = 1..Len(s)
      /\ Len(t) \in Nat /\ DOMAIN t = 1..Len(t)
      /\ DOMAIN (s \o t) = 1..(Len(s) + Len(t))
      /\ \A i \in 1..(Len(s) + Len(t)) :
            (s \o t)[i] = IF i <= Len(s) THEN s[i] ELSE t[i - Len(s)]
  OBVIOUS
<1>2. s \o t \in Seq(Range(s) \cup Range(t))
  OBVIOUS
<1>3. Range(s \o t) \subseteq Range(s) \cup Range(t)
  BY <1>1 DEF Range
<1>4. Range(s) \subseteq Range(s \o t)
  BY <1>1 DEF Range
<1>5. ASSUME NEW i \in DOMAIN t PROVE t[i] \in Range(s \o t)
  <2>1. Len(s) + i \in DOMAIN (s \o t) /\ (s \o t)[Len(s) + i] = t[i]
    BY <1>1
  <2> QED
    BY <2>1 DEF Range
<1>6. Range(s \o t) = Range(s) \cup Range(t)
  BY <1>3, <1>4, <1>5 DEF Range
<1> QED
  BY <1>2, <1>6

LEMMA AfterXRDs ==
    ASSUME DiscoveryInv, DiscoverXRDs
    PROVE  /\ pc' = "MRDs" /\ cfg'.mrs = cfg.mrs
           /\ IsInjective(cfg'.claims) /\ Range(cfg'.claims) = FoundClaims
           /\ IsInjective(cfg'.xrs) /\ Range(cfg'.xrs) = FoundXRs
           /\ cfg'.claims \in Seq(FoundClaims) /\ cfg'.xrs \in Seq(FoundXRs)
<1>1. /\ pc' = "MRDs" /\ cfg'.mrs = cfg.mrs
      /\ cfg'.claims = MapToSortedSlice(FoundClaims)
      /\ cfg'.xrs = MapToSortedSlice(FoundXRs)
  BY DEF DiscoverXRDs, DiscoveryInv, FoundClaims, FoundXRs
<1>2. /\ FoundXRs \in SUBSET Discoverable /\ IsFiniteSet(FoundXRs)
      /\ FoundClaims \in SUBSET Discoverable /\ IsFiniteSet(FoundClaims)
  BY FoundFromXRDs DEF DiscoverXRDs
<1> QED
  BY <1>1, <1>2, SliceFacts

LEMMA AfterMRDs ==
    ASSUME DiscoveryInv, DiscoverMRDs
    PROVE  /\ pc' = "polling" /\ cfg'.claims = cfg.claims /\ cfg'.xrs = cfg.xrs
           /\ IsInjective(cfg'.mrs) /\ Range(cfg'.mrs) = FoundMRs \cup Range(Configured)
           /\ cfg'.mrs \in Seq(FoundMRs \cup Range(Configured))
<1>1. /\ pc' = "polling" /\ cfg'.claims = cfg.claims /\ cfg'.xrs = cfg.xrs
      /\ cfg'.mrs = Deduplicate(MapToSortedSlice(FoundMRs) \o Configured)
  BY DEF DiscoverMRDs, DiscoveryInv, FoundMRs, Merge, Configured
<1>2. FoundMRs \in SUBSET Discoverable /\ IsFiniteSet(FoundMRs)
  BY FoundFromMRDs DEF DiscoverMRDs
<1>3. /\ MapToSortedSlice(FoundMRs) \in Seq(FoundMRs)
      /\ Range(MapToSortedSlice(FoundMRs)) = FoundMRs
  BY <1>2, SliceFacts
<1> DEFINE merged == MapToSortedSlice(FoundMRs) \o Configured
<1>4. merged \in Seq(Range(merged)) /\ Range(merged) = FoundMRs \cup Range(Configured)
  BY <1>3, ConfiguredIsSequence, ConcatFacts
<1> HIDE DEF merged
<1>5. /\ IsInjective(Deduplicate(merged)) /\ Range(Deduplicate(merged)) = Range(merged)
      /\ Deduplicate(merged) \in Seq(Range(merged))
  BY <1>4, DeduplicateFacts
<1>6. cfg'.mrs = Deduplicate(merged)
  BY <1>1 DEF merged
<1> QED
  BY <1>1, <1>4, <1>5, <1>6

(***************************************************************************)
(* Nothing else touches the kinds until the process ends.                  *)
(***************************************************************************)
LEMMA KindsStay ==
    ASSUME DiscoveryInv, [IntakeNext]_intakeVars, pc' \in {"MRDs", "polling"}
    PROVE  \/ DiscoverXRDs
           \/ DiscoverMRDs
           \/ pc' = pc /\ cfg' = cfg /\ env' = env
<1>1. ASSUME NEW d, XRDChange(d) PROVE pc' = pc /\ cfg' = cfg /\ env' = env
  BY <1>1 DEF XRDChange
<1>2. ASSUME NEW d, MRDChange(d) PROVE pc' = pc /\ cfg' = cfg /\ env' = env
  BY <1>2 DEF MRDChange
<1>3. ~Start /\ ~Exits
  BY DEF Start, Exits
<1> QED
  BY <1>1, <1>2, <1>3, DiscoverySteps DEF discoveryVars

-----------------------------------------------------------------------------
(***************************************************************************)
(* Two XRDs may offer one claim kind: Crossplane then establishes only one *)
(* of them, and the exporter may poll the kind at both their versions.     *)
(* Here it is assumed not to be so.                                        *)
(***************************************************************************)
ClaimKindsDistinct ==
    \A d, e \in ClaimEnabled : Kind(ClaimGVR(d)) = Kind(ClaimGVR(e)) => d = e

OnceInv ==
    /\ pc \in {"MRDs", "polling"} =>
          \A kinds \in {cfg.claims, cfg.xrs} :
              /\ IsInjective(kinds)
              /\ \A g, h \in Range(kinds) : Kind(g) = Kind(h) => g = h
    /\ pc = "polling" =>
          /\ IsInjective(cfg.mrs)
          /\ \A g, h \in Range(cfg.mrs) : Kind(g) = Kind(h) => g = h \/ AskedFor(g) \/ AskedFor(h)

LEMMA FoundOnce ==
    ASSUME DiscoveryInv
    PROVE  /\ \A g, h \in FoundXRs : Kind(g) = Kind(h) => g = h
           /\ \A g, h \in FoundMRs : Kind(g) = Kind(h) => g = h
           /\ ClaimKindsDistinct => \A g, h \in FoundClaims : Kind(g) = Kind(h) => g = h
<1>1. /\ \A d, e \in Range(xrds) : d.group = e.group /\ d.plural = e.plural => d = e
      /\ \A d, e \in Range(mrds) : d.group = e.group /\ d.plural = e.plural => d = e
  BY DefinitionsFacts, DefinitionsAssumption DEF DiscoveryInv
<1>2. \A d, e \in Range(xrds) : Kind(XRGVR(d)) = Kind(XRGVR(e)) => d = e
  BY <1>1 DEF Kind, XRGVR
<1>3. \A d, e \in ActiveMRDs : Kind(MRGVR(d)) = Kind(MRGVR(e)) => d = e
  BY <1>1 DEF Kind, MRGVR, ActiveMRDs
<1>4. \A g, h \in FoundXRs : Kind(g) = Kind(h) => g = h
  BY <1>2 DEF FoundXRs
<1>5. \A g, h \in FoundMRs : Kind(g) = Kind(h) => g = h
  BY <1>3 DEF FoundMRs
<1> QED
  BY <1>4, <1>5 DEF ClaimKindsDistinct, FoundClaims

(***************************************************************************)
(* As long as no two XRDs offer one claim kind, no kind is polled twice,   *)
(* and at two versions only one that MR_GVRS asks for (main.go:171-190).   *)
(***************************************************************************)
THEOREM KindsPolledOnce == IntakeSpec /\ []ClaimKindsDistinct => []PolledOnce
<1>1. IntakeInit => OnceInv
  BY DEF IntakeInit, DiscoveryInit, OnceInv
<1>2. DiscoveryInv /\ OnceInv /\ ClaimKindsDistinct /\ [IntakeNext]_intakeVars => OnceInv'
  <2> SUFFICES ASSUME DiscoveryInv, OnceInv, ClaimKindsDistinct, [IntakeNext]_intakeVars,
                      pc' \in {"MRDs", "polling"}
               PROVE  OnceInv'
    BY DEF OnceInv
  <2>1. CASE DiscoverXRDs
    <3>1. /\ IsInjective(cfg'.claims) /\ Range(cfg'.claims) = FoundClaims
          /\ IsInjective(cfg'.xrs) /\ Range(cfg'.xrs) = FoundXRs
          /\ pc' = "MRDs"
      BY <2>1, AfterXRDs
    <3> QED
      BY <3>1, FoundOnce DEF OnceInv
  <2>2. CASE DiscoverMRDs
    <3>1. /\ cfg'.claims = cfg.claims /\ cfg'.xrs = cfg.xrs /\ pc = "MRDs" /\ env' = env
          /\ IsInjective(cfg'.mrs) /\ Range(cfg'.mrs) = FoundMRs \cup Range(Configured)
      BY <2>2, AfterMRDs DEF DiscoverMRDs
    <3>2. \A g : AskedFor(g)' <=> g \in Range(Configured)
      BY <3>1 DEF AskedFor, Configured
    <3>3. \A g, h \in Range(cfg'.mrs) :
              Kind(g) = Kind(h) => g = h \/ AskedFor(g)' \/ AskedFor(h)'
      BY <3>1, <3>2, FoundOnce
    <3> QED
      BY <3>1, <3>3 DEF OnceInv
  <2>3. CASE pc' = pc /\ cfg' = cfg /\ env' = env
    BY <2>3 DEF OnceInv, AskedFor
  <2> QED
    BY <2>1, <2>2, <2>3, KindsStay
<1>3. OnceInv => PolledOnce
  BY DEF OnceInv, PolledOnce
<1>4. DiscoveryInv /\ [IntakeNext]_intakeVars => DiscoveryInv'
  BY DiscoveryInvStep
<1> QED
  BY <1>1, <1>2, <1>3, <1>4, DiscoveryInvInit, PTL DEF IntakeSpec
-----------------------------------------------------------------------------
(***************************************************************************)
(* The version that is selected is one of the definition.                  *)
(***************************************************************************)
LEMMA FirstWithFacts ==
    ASSUME NEW versions, versions \in Seq(Range(versions)), NEW flag,
           FirstWith(versions, flag) # NoVersion
    PROVE  \E i \in DOMAIN versions :
               versions[i][flag] /\ versions[i].name = FirstWith(versions, flag)
<1> DEFINE named == {i \in DOMAIN versions : versions[i][flag] /\ versions[i].name # ""}
<1>1. named # {} /\ FirstWith(versions, flag) = versions[Min(named)].name
  BY DEF FirstWith
<1>2. named \in SUBSET Nat
  <2>1. DOMAIN versions = 1..Len(versions) /\ Len(versions) \in Nat
    OBVIOUS
  <2>2. DOMAIN versions \subseteq Nat
    BY <2>1
  <2> QED
    BY <2>2
<1>3. Min(named) \in named
  BY <1>1, <1>2, FirstPosition
<1> QED
  BY <1>1, <1>3

LEMMA XRDVersionIsOwn ==
    ASSUME NEW x, x.versions \in Seq(Range(x.versions)), Usable(x, SelectVersion(x)),
           \A i \in DOMAIN x.versions : x.versions[i].referenceable => x.versions[i].served
    PROVE  SelectVersion(x) \in ServedOf(x)
<1>1. \/ SelectVersion(x) = FirstWith(x.versions, "referenceable")
      \/ SelectVersion(x) = FirstWith(x.versions, "served")
  BY DEF SelectVersion, OrDefault
<1>2. SelectVersion(x) # NoVersion
  BY DEF Usable
<1>3. \E i \in DOMAIN x.versions : x.versions[i].served /\ x.versions[i].name = SelectVersion(x)
  BY <1>1, <1>2, FirstWithFacts
<1> QED
  BY <1>3 DEF ServedOf, Range

LEMMA MRDVersionIsOwn ==
    ASSUME NEW m, m.versions \in Seq(Range(m.versions)), Usable(m, SelectCRDVersion(m))
    PROVE  SelectCRDVersion(m) \in NamesOf(m)
<1>1. \/ SelectCRDVersion(m) = FirstWith(m.versions, "storage")
      \/ SelectCRDVersion(m) = FirstWith(m.versions, "served")
  BY DEF SelectCRDVersion, OrDefault
<1>2. SelectCRDVersion(m) # NoVersion
  BY DEF Usable
<1>3. \E i \in DOMAIN m.versions : m.versions[i].name = SelectCRDVersion(m)
  BY <1>1, <1>2, FirstWithFacts
<1> QED
  BY <1>3 DEF NamesOf

(***************************************************************************)
(* A change of one definition leaves the others as they were.              *)
(***************************************************************************)
LEMMA OthersStay ==
    ASSUME NEW e, NEW m, NEW n,
           Restrict(m, DOMAIN m \cap {e}) = Restrict(n, DOMAIN n \cap {e})
    PROVE  (e \in DOMAIN m <=> e \in DOMAIN n) /\ (e \in DOMAIN m => m[e] = n[e])
<1>1. DOMAIN m \cap {e} = DOMAIN n \cap {e}
  BY DEF Restrict
<1>2. \A x \in DOMAIN m \cap {e} : Restrict(m, DOMAIN m \cap {e})[x] = m[x]
  BY DEF Restrict
<1>3. \A x \in DOMAIN n \cap {e} : Restrict(n, DOMAIN n \cap {e})[x] = n[x]
  BY DEF Restrict
<1> QED
  BY <1>1, <1>2, <1>3

(***************************************************************************)
(* Crossplane serves the version of an XRD that compositions may refer to. *)
(***************************************************************************)
ReferenceablesServed ==
    \A x \in Range(xrds) : \A i \in DOMAIN x.versions :
        x.versions[i].referenceable => x.versions[i].served

(***************************************************************************)
(* Between the two list calls, the definitions that have not changed since *)
(* the process started are in the configuration.                           *)
(***************************************************************************)
TakenInv == pc = "MRDs" => XRDsPolled(cfg)

LEMMA TakenByXRDs ==
    ASSUME DiscoveryInv, ReferenceablesServed, DiscoverXRDs
    PROVE  XRDsPolled(cfg)'
<1>1. /\ Range(cfg'.claims) = FoundClaims /\ Range(cfg'.xrs) = FoundXRs
      /\ xrds' = xrds /\ unchanged' = unchanged
  BY AfterXRDs DEF DiscoverXRDs
<1>2. /\ \A d \in DOMAIN xrds : xrds[d] \in XRDForms[d] /\ xrds[d] \in Range(xrds)
      /\ \A x \in Range(xrds) : \E d \in DOMAIN xrds : x = xrds[d]
      /\ DOMAIN xrds \subseteq DOMAIN XRDForms
  BY DefinitionsFacts, DefinitionsAssumption DEF DiscoveryInv, Range
<1>3. ASSUME NEW d \in DOMAIN xrds
      PROVE  LET x == xrds[d]
             IN  \E v \in ServedOf(x) :
                    /\ PolledAt(cfg'.xrs, x.group, v, x.plural)
                    /\ x.claimPlural # "" => PolledAt(cfg'.claims, x.group, v, x.claimPlural)
  <2> DEFINE x == xrds[d]
             v == SelectVersion(x)
  <2>1. x \in Range(xrds) /\ x.versions \in Seq(Range(x.versions))
    BY <1>2, DefinitionsAssumption DEF AreDefinitions
  <2>2. v \in ServedOf(x)
    BY <2>1, XRDVersionIsOwn DEF ReferenceablesServed, DiscoverXRDs
  <2>3. PolledAt(cfg'.xrs, x.group, v, x.plural)
    <3>1. XRGVR(x) \in Range(cfg'.xrs)
      BY <1>1, <2>1 DEF FoundXRs
    <3> QED
      BY <3>1 DEF XRGVR, PolledAt
  <2>4. ASSUME x.claimPlural # ""
        PROVE  PolledAt(cfg'.claims, x.group, v, x.claimPlural)
    <3>1. ClaimGVR(x) \in Range(cfg'.claims)
      BY <1>1, <2>1, <2>4 DEF FoundClaims, ClaimEnabled
    <3>2. ClaimGVR(x) = [group |-> x.group, version |-> v, resource |-> x.claimPlural]
      BY DEF ClaimGVR, XRGVR
    <3> QED
      BY <3>1, <3>2 DEF PolledAt
  <2> HIDE DEF v, x
  <2>5. \E w \in ServedOf(x) :
           /\ PolledAt(cfg'.xrs, x.group, w, x.plural)
           /\ x.claimPlural # "" => PolledAt(cfg'.claims, x.group, w, x.claimPlural)
    BY <2>2, <2>3, <2>4
  <2> QED
    BY <2>5 DEF x
<1>4. ASSUME NEW d \in DOMAIN XRDForms \ DOMAIN xrds, NEW x \in XRDForms[d],
             NEW g \in Range(cfg'.xrs)
      PROVE  Kind(g) # <<x.group, x.plural>>
  <2>1. PICK e \in DOMAIN xrds : g = XRGVR(xrds[e])
    BY <1>1, <1>2 DEF FoundXRs
  <2>2. ~(xrds[e].group = x.group /\ xrds[e].plural = x.plural)
    BY <1>2, DefinitionsAssumption DEF AreDefinitions
  <2> QED
    BY <2>1, <2>2 DEF Kind, XRGVR
<1> QED
  BY <1>1, <1>3, <1>4 DEF XRDsPolled

(***************************************************************************)
(* A change of a definition forgets that one only.                         *)
(***************************************************************************)
LEMMA TakenStays ==
    ASSUME DiscoveryInv, TakenInv, pc' = pc, cfg' = cfg,
           NEW d, unchanged' = unchanged \ {d},
           \A e \in DOMAIN XRDForms \ {d} :
               /\ e \in DOMAIN xrds' <=> e \in DOMAIN xrds
               /\ e \in DOMAIN xrds => xrds'[e] = xrds[e]
    PROVE  TakenInv'
<1> SUFFICES ASSUME pc = "MRDs" PROVE XRDsPolled(cfg)'
  BY DEF TakenInv
<1>1. XRDsPolled(cfg)
  BY DEF TakenInv
<1>2. ASSUME NEW e \in unchanged' \cap DOMAIN XRDForms
      PROVE  /\ e \in unchanged
             /\ e \in DOMAIN xrds' <=> e \in DOMAIN xrds
             /\ e \in DOMAIN xrds => xrds'[e] = xrds[e]
  OBVIOUS
<1> QED
  BY <1>1, <1>2 DEF XRDsPolled

LEMMA TakenInvStep ==
    ASSUME DiscoveryInv, TakenInv, ReferenceablesServed, [IntakeNext]_intakeVars
    PROVE  TakenInv'
<1>1. ASSUME NEW d \in DOMAIN XRDForms, XRDChange(d) PROVE TakenInv'
  <2>1. \A e \in DOMAIN XRDForms \ {d} :
            Restrict(xrds', DOMAIN xrds' \cap {e}) = Restrict(xrds, DOMAIN xrds \cap {e})
    BY <1>1 DEF XRDChange
  <2>2. pc' = pc /\ cfg' = cfg /\ unchanged' = unchanged \ {d}
    BY <1>1 DEF XRDChange
  <2>3. ASSUME NEW e \in DOMAIN XRDForms \ {d}
        PROVE  /\ e \in DOMAIN xrds' <=> e \in DOMAIN xrds
               /\ e \in DOMAIN xrds => xrds'[e] = xrds[e]
    BY <2>1, OthersStay
  <2> QED
    BY <2>2, <2>3, TakenStays
<1>2. ASSUME NEW d \in DOMAIN MRDForms, MRDChange(d) PROVE TakenInv'
  <2>1. pc' = pc /\ cfg' = cfg /\ unchanged' = unchanged \ {d} /\ xrds' = xrds
    BY <1>2 DEF MRDChange
  <2> QED
    BY <2>1, TakenStays
<1>3. CASE Start
  BY <1>3 DEF Start, TakenInv
<1>4. CASE DiscoverXRDs
  BY <1>4, TakenByXRDs DEF TakenInv
<1>5. CASE DiscoverMRDs
  BY <1>5 DEF DiscoverMRDs, TakenInv
<1>6. CASE Exits
  BY <1>6 DEF Exits, TakenInv
<1>7. CASE UNCHANGED discoveryVars
  BY <1>7 DEF discoveryVars, TakenInv, XRDsPolled
<1> QED
  BY <1>1, <1>2, <1>3, <1>4, <1>5, <1>6, <1>7, DiscoverySteps

LEMMA TakenByMRDs ==
    ASSUME DiscoveryInv, DiscoverMRDs
    PROVE  MRDsPolled(cfg')
<1>1. Range(cfg'.mrs) = FoundMRs \cup Range(Configured)
  BY AfterMRDs
<1>2. /\ \A d \in DOMAIN mrds : mrds[d] \in MRDForms[d] /\ mrds[d] \in Range(mrds)
      /\ \A m \in Range(mrds) : \E d \in DOMAIN mrds : m = mrds[d]
      /\ DOMAIN mrds \subseteq DOMAIN MRDForms
  BY DefinitionsFacts, DefinitionsAssumption DEF DiscoveryInv, Range
<1>3. ASSUME NEW d \in DOMAIN mrds, mrds[d].state = "Active"
      PROVE  \E v \in NamesOf(mrds[d]) :
                PolledAt(cfg'.mrs, mrds[d].group, v, mrds[d].plural)
  <2> DEFINE m == mrds[d]
  <2>1. m \in ActiveMRDs /\ m.versions \in Seq(Range(m.versions))
    BY <1>2, <1>3, DefinitionsAssumption DEF AreDefinitions, ActiveMRDs
  <2>2. SelectCRDVersion(m) \in NamesOf(m)
    BY <2>1, MRDVersionIsOwn DEF DiscoverMRDs
  <2> HIDE DEF m
  <2>3. MRGVR(m) \in Range(cfg'.mrs)
    BY <1>1, <2>1 DEF FoundMRs
  <2>4. PolledAt(cfg'.mrs, m.group, SelectCRDVersion(m), m.plural)
    BY <2>3 DEF MRGVR, PolledAt
  <2>5. \E v \in NamesOf(m) : PolledAt(cfg'.mrs, m.group, v, m.plural)
    BY <2>2, <2>4
  <2> QED
    BY <2>5 DEF m
<1>4. ASSUME NEW d \in DOMAIN MRDForms, ~(d \in DOMAIN mrds /\ mrds[d].state = "Active"),
             NEW m \in MRDForms[d], NEW g \in Range(cfg'.mrs), Kind(g) = <<m.group, m.plural>>
      PROVE  AskedFor(g)
  <2>1. CASE g \in FoundMRs
    <3>1. PICK e \in DOMAIN mrds : g = MRGVR(mrds[e]) /\ mrds[e].state = "Active"
      BY <1>2, <2>1 DEF FoundMRs, ActiveMRDs
    <3>2. mrds[e].group = m.group /\ mrds[e].plural = m.plural
      BY <1>4, <3>1 DEF Kind, MRGVR
    <3>3. e = d
      BY <1>2, <3>2, DefinitionsAssumption DEF AreDefinitions
    <3> QED
      BY <1>4, <3>1, <3>3
  <2>2. CASE g \in Range(Configured)
    BY <2>2 DEF AskedFor, Configured
  <2> QED
    BY <1>1, <2>1, <2>2
<1> QED
  BY <1>3, <1>4 DEF MRDsPolled

(***************************************************************************)
(* As long as referenceable versions are served, a process that begins to  *)
(* poll, polls what there was when it started and has not changed since,   *)
(* the claims of an XRD at the version of its XRs, and nothing of what was *)
(* not there, unless MR_GVRS names it (README.md:194-207), whatever the    *)
(* environment (main.go:145-193).                                          *)
(***************************************************************************)
THEOREM DiscoveryMissesNothing == IntakeSpec /\ []ReferenceablesServed => NothingMissed
<1>1. IntakeInit => TakenInv
  BY DEF IntakeInit, DiscoveryInit, TakenInv
<1>2. DiscoveryInv /\ TakenInv /\ ReferenceablesServed /\ [IntakeNext]_intakeVars => TakenInv'
  BY TakenInvStep
<1>3. DiscoveryInv /\ TakenInv /\ [IntakeNext]_intakeVars
        => [pc # "polling" /\ pc' = "polling" => XRDsPolled(cfg') /\ MRDsPolled(cfg')]_discoveryVars
  <2> SUFFICES ASSUME DiscoveryInv, TakenInv, [IntakeNext]_intakeVars,
                      pc # "polling", pc' = "polling"
               PROVE  XRDsPolled(cfg') /\ MRDsPolled(cfg')
    OBVIOUS
  <2>1. DiscoverMRDs
    BY KindsStay DEF DiscoverXRDs
  <2>2. XRDsPolled(cfg) /\ cfg'.claims = cfg.claims /\ cfg'.xrs = cfg.xrs
    BY <2>1, AfterMRDs DEF TakenInv, DiscoverMRDs
  <2>3. XRDsPolled(cfg')
    BY <2>2 DEF XRDsPolled
  <2> QED
    BY <2>1, <2>3, TakenByMRDs
<1>4. DiscoveryInv /\ [IntakeNext]_intakeVars => DiscoveryInv'
  BY DiscoveryInvStep
<1> QED
  BY <1>1, <1>2, <1>3, <1>4, DiscoveryInvInit, PTL DEF IntakeSpec, NothingMissed
-----------------------------------------------------------------------------
(***************************************************************************)
(* The lists of a cycle.                                                   *)
(***************************************************************************)
LEMMA ModRange ==
    ASSUME NEW n \in Nat \ {0}, NEW i \in Nat
    PROVE  (i % n) + 1 \in 1..n
OBVIOUS

LEMMA DivRange ==
    ASSUME NEW k \in Nat, NEW n \in Nat \ {0}, NEW i \in 1..(k * n)
    PROVE  (i + n - 1) \div n \in 1..k
<1> DEFINE q == (i + n - 1) \div n
<1>1. q \in Int /\ q * n <= i + n - 1 /\ i + n - 1 < q * n + n
  OBVIOUS
<1>2. i <= k * n /\ k * n \in Int /\ q * n \in Int
  BY <1>1
<1> HIDE DEF q
<1>3. q >= 1
  <2>1. q * n > 0
    BY <1>1, <1>2
  <2> QED
    BY <1>1, <2>1
<1>4. q <= k
  <2>1. q * n < (k + 1) * n
    BY <1>1, <1>2
  <2> QED
    BY <1>1, <2>1
<1> QED
  BY <1>1, <1>3, <1>4 DEF q

Providers == {ProviderFromMRD(m) : m \in UNION Range(MRDForms)}

(***************************************************************************)
(* A process calls the API server for objects only while it polls, and     *)
(* then at one of the lists of its configuration; the first there always   *)
(* is (ListsFacts).                                                        *)
(***************************************************************************)
JobsInv ==
    /\ pc # "polling" => state = "none" /\ turn = 1
    /\ pc # "down" =>
          /\ Accepted(env)
          /\ cfg.keys = Load(env).keys /\ cfg.namespaces = Load(env).namespaces
    /\ pc \in {"MRDs", "polling"} =>
          /\ cfg.claims \in Seq(Discoverable) /\ cfg.claims # <<>>
          /\ cfg.xrs \in Seq(Discoverable)
    /\ pc = "polling" =>
          /\ cfg.mrs \in Seq(Discoverable \cup Range(Configured))
          /\ \A g \in DOMAIN cfg.providers : cfg.providers[g] \in Providers
          /\ turn = 1 \/ turn \in 1..Len(Lists)

LEMMA NamespacesAreSequence ==
    ASSUME DiscoveryInv
    PROVE  Load(env).namespaces \in Seq(Range(Load(env).namespaces))
<1> DEFINE value == env.KUBE_NAMESPACE_SCOPE
           scope == SplitAndTrim(value)
           namespaces == [i \in DOMAIN scope |-> scope[i][1]]
<1>1. value \in Seq(Range(value))
  BY EnvsAssumption DEF DiscoveryInv
<1>2. scope \in Seq(Range(value))
  BY <1>1, KeepFacts DEF SplitAndTrim
<1>3. Load(env).namespaces = namespaces
  BY DEF Load
<1>4. DOMAIN scope = 1..Len(scope) /\ Len(scope) \in Nat
  BY <1>2
<1> HIDE DEF scope
<1>5. namespaces \in [1..Len(scope) -> Range(namespaces)]
  BY <1>4 DEF Range
<1> HIDE DEF namespaces
<1> QED
  BY <1>3, <1>4, <1>5

LEMMA OneFacts ==
    ASSUME NEW x
    PROVE  <<x>> \in Seq(Range(<<x>>)) /\ Len(<<x>>) = 1 /\ Range(<<x>>) = {x}
<1> DEFINE s == <<x>>
<1>1. s \in Seq({x}) /\ Len(s) = 1 /\ s[1] = x
  OBVIOUS
<1> HIDE DEF s
<1>2. DOMAIN s = 1..1
  BY <1>1
<1>3. Range(s) = {x}
  BY <1>1, <1>2 DEF Range
<1>4. s \in Seq(Range(s)) /\ Len(s) = 1 /\ Range(s) = {x}
  BY <1>1, <1>3
<1> QED
  BY <1>4 DEF s

LEMMA TagFacts ==
    ASSUME NEW role, NEW G, NEW gvrs \in Seq(G)
    PROVE  Tag(role, gvrs) \in Seq({role} \X G) /\ Len(Tag(role, gvrs)) = Len(gvrs)
<1>1. Len(gvrs) \in Nat /\ DOMAIN gvrs = 1..Len(gvrs) /\ \A i \in DOMAIN gvrs : gvrs[i] \in G
  OBVIOUS
<1>2. Tag(role, gvrs) \in [1..Len(gvrs) -> {role} \X G]
  BY <1>1 DEF Tag
<1> QED
  BY <1>1, <1>2

GVRs == Discoverable \cup Range(Configured)

LEMMA ListsFacts ==
    ASSUME DiscoveryInv,
           cfg.xrs \in Seq(GVRs), cfg.claims \in Seq(GVRs), cfg.claims # <<>>,
           cfg.mrs \in Seq(GVRs),
           cfg.namespaces = Load(env).namespaces
    PROVE  /\ Len(Lists) \in Nat \ {0} /\ DOMAIN Lists = 1..Len(Lists)
           /\ \A i \in DOMAIN Lists :
                \E kind \in {"xr", "claim", "mr"} \X GVRs, ns \in Range(Targets) :
                   Lists[i] = [role |-> kind[1], gvr |-> kind[2], keys |-> cfg.keys, ns |-> ns,
                               provider |-> IF kind[1] = "mr" /\ kind[2] \in DOMAIN cfg.providers
                                            THEN cfg.providers[kind[2]] ELSE ""]
<1> DEFINE kinds == Tag("xr", cfg.xrs) \o Tag("claim", cfg.claims) \o Tag("mr", cfg.mrs)
           n == Len(Targets)
           K == {"xr", "claim", "mr"} \X GVRs
<1>1. Targets \in Seq(Range(Targets)) /\ n \in Nat \ {0} /\ DOMAIN Targets = 1..n
  <2>1. CASE cfg.namespaces = <<>>
    <3>1. Targets = <<"">>
      BY <2>1 DEF Targets
    <3>2. Targets \in Seq(Range(Targets)) /\ n = 1
      BY <3>1, OneFacts
    <3> QED
      BY <3>2
  <2>2. CASE cfg.namespaces # <<>>
    BY <2>2, NamespacesAreSequence DEF Targets
  <2> QED
    BY <2>1, <2>2
<1>2. kinds \in Seq(K) /\ Len(kinds) \in Nat \ {0}
  <2>1. /\ Tag("xr", cfg.xrs) \in Seq({"xr"} \X GVRs)
        /\ Tag("claim", cfg.claims) \in Seq({"claim"} \X GVRs)
        /\ Tag("mr", cfg.mrs) \in Seq({"mr"} \X GVRs)
        /\ Len(Tag("claim", cfg.claims)) = Len(cfg.claims)
    BY TagFacts
  <2>2. Len(cfg.claims) \in Nat \ {0}
    OBVIOUS
  <2>3. /\ Tag("xr", cfg.xrs) \in Seq(K)
        /\ Tag("claim", cfg.claims) \in Seq(K)
        /\ Tag("mr", cfg.mrs) \in Seq(K)
    BY <2>1
  <2> QED
    BY <2>1, <2>2, <2>3
<1>3. DOMAIN kinds = 1..Len(kinds) /\ \A j \in DOMAIN kinds : kinds[j] \in K
  BY <1>2
<1> DEFINE total == Len(kinds) * n
           listOf(i) == LET kind == kinds[(i + n - 1) \div n]
                        IN  [role |-> kind[1], gvr |-> kind[2], keys |-> cfg.keys,
                             ns |-> Targets[((i - 1) % n) + 1],
                             provider |-> IF kind[1] = "mr" /\ kind[2] \in DOMAIN cfg.providers
                                          THEN cfg.providers[kind[2]] ELSE ""]
<1>4. Lists = [i \in 1..total |-> listOf(i)]
  BY DEF Lists
<1> HIDE DEF kinds, n
<1>5. total \in Nat \ {0}
  BY <1>1, <1>2
<1>6. Len(Lists) = total /\ DOMAIN Lists = 1..total
  <2> HIDE DEF total, listOf
  <2>1. Lists \in [1..total -> Range(Lists)] /\ DOMAIN Lists = 1..total
    BY <1>4 DEF Range
  <2> QED
    BY <1>5, <2>1
<1>7. ASSUME NEW i \in 1..total
      PROVE  /\ (i + n - 1) \div n \in DOMAIN kinds
             /\ ((i - 1) % n) + 1 \in DOMAIN Targets
  <2>1. (i + n - 1) \div n \in 1..Len(kinds)
    BY <1>1, <1>2, DivRange
  <2>2. i - 1 \in Nat
    BY <1>5
  <2>3. ((i - 1) % n) + 1 \in 1..n
    BY <1>1, <2>2, ModRange
  <2> QED
    BY <1>1, <1>3, <2>1, <2>3
<1>8. ASSUME NEW i \in 1..total
      PROVE  \E kind \in K, ns \in Range(Targets) :
                Lists[i] = [role |-> kind[1], gvr |-> kind[2], keys |-> cfg.keys, ns |-> ns,
                            provider |-> IF kind[1] = "mr" /\ kind[2] \in DOMAIN cfg.providers
                                         THEN cfg.providers[kind[2]] ELSE ""]
  <2>1. kinds[(i + n - 1) \div n] \in K /\ Targets[((i - 1) % n) + 1] \in Range(Targets)
    BY <1>3, <1>7 DEF Range
  <2>2. Lists[i] = listOf(i)
    BY <1>4
  <2> QED
    BY <2>1, <2>2
<1> QED
  BY <1>5, <1>6, <1>8
LEMMA ListsAreJobs ==
    ASSUME DiscoveryInv, JobsInv, pc = "polling"
    PROVE  \A i \in DOMAIN Lists : Lists[i] \in EveryJob
<1> DEFINE loaded == {Load(e) : e \in {x \in Envs : Accepted(x)}}
<1>1. Load(env) \in loaded
  BY DEF JobsInv, DiscoveryInv
<1>2. GVRs \subseteq Discoverable \cup UNION {Range(c.mrs) : c \in loaded}
  <2>1. Configured = Load(env).mrs
    BY DEF Load, Configured
  <2> HIDE DEF loaded
  <2> QED
    BY <1>1, <2>1 DEF GVRs
<1>3. Range(Targets) \subseteq {""} \cup UNION {Range(c.namespaces) : c \in loaded}
  <2> HIDE DEF loaded
  <2>1. CASE cfg.namespaces = <<>>
    BY <2>1, OneFacts DEF Targets
  <2>2. CASE cfg.namespaces # <<>>
    BY <1>1, <2>2 DEF Targets, JobsInv
  <2> QED
    BY <2>1, <2>2
<1>4. cfg.keys \in {c.keys : c \in loaded}
  <2> HIDE DEF loaded
  <2> QED
    BY <1>1 DEF JobsInv
<1>5. ASSUME NEW i \in DOMAIN Lists PROVE Lists[i] \in EveryJob
  <2>1. /\ cfg.xrs \in Seq(GVRs) /\ cfg.claims \in Seq(GVRs) /\ cfg.claims # <<>>
        /\ cfg.mrs \in Seq(GVRs) /\ cfg.namespaces = Load(env).namespaces
    BY DEF JobsInv, GVRs
  <2>2. PICK kind \in {"xr", "claim", "mr"} \X GVRs, ns \in Range(Targets) :
             Lists[i] = [role |-> kind[1], gvr |-> kind[2], keys |-> cfg.keys, ns |-> ns,
                         provider |-> IF kind[1] = "mr" /\ kind[2] \in DOMAIN cfg.providers
                                      THEN cfg.providers[kind[2]] ELSE ""]
    BY <1>5, <2>1, ListsFacts
  <2> DEFINE p == IF kind[1] = "mr" /\ kind[2] \in DOMAIN cfg.providers
                  THEN cfg.providers[kind[2]] ELSE ""
  <2>3. p \in {""} \cup Providers
    BY DEF JobsInv
  <2>4. kind[1] \in {"xr", "claim", "mr"} /\ kind[2] \in GVRs
    OBVIOUS
  <2> HIDE DEF p
  <2> DEFINE G == Discoverable \cup UNION {Range(c.mrs) : c \in loaded}
             K == {c.keys : c \in loaded}
             N == {""} \cup UNION {Range(c.namespaces) : c \in loaded}
             P == {""} \cup Providers
  <2>5. kind[2] \in G /\ cfg.keys \in K /\ ns \in N /\ p \in P
    BY <1>2, <1>3, <1>4, <2>3, <2>4
  <2>6. Lists[i] = [role |-> kind[1], gvr |-> kind[2], keys |-> cfg.keys, ns |-> ns,
                    provider |-> p]
    BY <2>2 DEF p
  <2>7. EveryJob = [role : {"xr", "claim", "mr"}, gvr : G, keys : K, ns : N, provider : P]
    BY DEF EveryJob, Providers
  <2> HIDE DEF G, K, N, P
  <2> QED
    BY <2>4, <2>5, <2>6, <2>7
<1> QED
  BY <1>5
LEMMA TurnIsAList ==
    ASSUME DiscoveryInv, JobsInv, pc = "polling"
    PROVE  /\ Len(Lists) \in Nat \ {0} /\ DOMAIN Lists = 1..Len(Lists)
           /\ turn \in DOMAIN Lists
<1>1. /\ cfg.xrs \in Seq(GVRs) /\ cfg.claims \in Seq(GVRs) /\ cfg.claims # <<>>
      /\ cfg.mrs \in Seq(GVRs) /\ cfg.namespaces = Load(env).namespaces
  BY DEF JobsInv, GVRs
<1>2. Len(Lists) \in Nat \ {0} /\ DOMAIN Lists = 1..Len(Lists)
  BY <1>1, ListsFacts
<1> QED
  BY <1>2 DEF JobsInv

(***************************************************************************)
(* A step that touches neither the configuration nor the turn.             *)
(***************************************************************************)
LEMMA JobsStay ==
    ASSUME JobsInv, pc' = pc, cfg' = cfg, env' = env,
           pc # "polling" => state' = "none" /\ turn' = 1,
           pc = "polling" => turn' = turn \/ turn' \in 1..Len(Lists)
    PROVE  JobsInv'
<1>1. Lists' = Lists /\ Configured' = Configured
  BY DEF Lists, Targets, Configured
<1> QED
  BY <1>1 DEF JobsInv

LEMMA JobsInvStep ==
    ASSUME DiscoveryInv, JobsInv, [IntakeNext]_intakeVars
    PROVE  JobsInv'
<1>1. CASE DefinitionsChange
  <2>1. UNCHANGED <<pc, cfg, env, state, turn>>
    BY <1>1 DEF DefinitionsChange, XRDChange, MRDChange, pagerVars
  <2> QED
    BY <2>1, JobsStay DEF JobsInv
<1>2. CASE ClusterChange
  <2>1. UNCHANGED <<pc, cfg, env, state, turn>>
    BY <1>2 DEF ClusterChange, ObjectsChange, discoveryVars
  <2> QED
    BY <2>1, JobsStay DEF JobsInv
<1>3. CASE Discover
  <2>1. state' = "none" /\ turn' = 1
    BY <1>3 DEF Discover, Start, DiscoverXRDs, DiscoverMRDs, JobsInv, pagerVars
  <2>2. CASE Start
    BY <2>1, <2>2 DEF Start, JobsInv
  <2>3. CASE DiscoverXRDs
    <3>1. /\ cfg'.claims \in Seq(FoundClaims) /\ Range(cfg'.claims) = FoundClaims
          /\ cfg'.xrs \in Seq(FoundXRs)
          /\ pc' = "MRDs"
      BY <2>3, AfterXRDs
    <3>2. FoundClaims \in SUBSET Discoverable /\ FoundXRs \in SUBSET Discoverable
      BY <2>3, FoundFromXRDs DEF DiscoverXRDs
    <3>3. FoundClaims # {}
      BY <2>3 DEF DiscoverXRDs, FoundClaims
    <3>4. cfg'.claims # <<>>
      BY <3>1, <3>3 DEF Range
    <3>5. cfg'.keys = cfg.keys /\ cfg'.namespaces = cfg.namespaces /\ env' = env
      BY <2>3 DEF DiscoverXRDs, DiscoveryInv
    <3>6. cfg'.claims \in Seq(Discoverable) /\ cfg'.xrs \in Seq(Discoverable)
      BY <3>1, <3>2
    <3>7. pc = "XRDs"
      BY <2>3 DEF DiscoverXRDs
    <3> QED
      BY <2>1, <3>1, <3>4, <3>5, <3>6, <3>7 DEF JobsInv
  <2>4. CASE DiscoverMRDs
    <3>1. /\ cfg'.claims = cfg.claims /\ cfg'.xrs = cfg.xrs
          /\ cfg'.mrs \in Seq(FoundMRs \cup Range(Configured))
          /\ pc = "MRDs" /\ pc' = "polling"
      BY <2>4, AfterMRDs DEF DiscoverMRDs
    <3>2. FoundMRs \in SUBSET Discoverable
      BY <2>4, FoundFromMRDs DEF DiscoverMRDs
    <3>3. /\ cfg'.keys = cfg.keys /\ cfg'.namespaces = cfg.namespaces /\ env' = env
          /\ cfg'.providers = [g \in FoundMRs |->
                ProviderFromMRD(CHOOSE d \in ActiveMRDs : MRGVR(d) = g)]
      BY <2>4 DEF DiscoverMRDs, DiscoveryInv, FoundMRs
    <3>4. ASSUME NEW g \in DOMAIN cfg'.providers PROVE cfg'.providers[g] \in Providers
      <4> DEFINE d == CHOOSE x \in ActiveMRDs : MRGVR(x) = g
      <4>1. g \in FoundMRs
        BY <3>3
      <4>2. d \in ActiveMRDs
        BY <4>1 DEF FoundMRs
      <4>3. ActiveMRDs \subseteq UNION Range(MRDForms)
        BY DefinitionsFacts, DefinitionsAssumption DEF DiscoveryInv, ActiveMRDs
      <4>4. cfg'.providers[g] = ProviderFromMRD(d)
        BY <3>3, <4>1
      <4> HIDE DEF d
      <4> QED
        BY <4>2, <4>3, <4>4 DEF Providers
    <3>5. Configured' = Configured
      BY <3>3 DEF Configured
    <3>6. cfg'.mrs \in Seq(Discoverable \cup Range(Configured))
      BY <3>1, <3>2
    <3> QED
      BY <2>1, <3>1, <3>3, <3>4, <3>5, <3>6 DEF JobsInv
  <2> QED
    BY <1>3, <2>2, <2>3, <2>4 DEF Discover
<1>4. CASE DiscoverFails
  <2>1. pc' = "down" /\ state' = state /\ turn' = turn /\ pc \in {"XRDs", "MRDs"}
    BY <1>4 DEF DiscoverFails, DiscoveryFails, Exits, pagerVars
  <2> QED
    BY <2>1 DEF JobsInv
<1>5. CASE ListNext \/ GetPage \/ GetNoPage
  <2>1. UNCHANGED <<pc, cfg, env, turn>> /\ pc = "polling"
    BY <1>5 DEF ListNext, GetPage, GetNoPage, PageFails, discoveryVars, JobsInv
  <2> QED
    BY <2>1, JobsStay
<1>6. CASE TakeResult
  <2>1. UNCHANGED <<pc, cfg, env>> /\ pc = "polling" /\ turn' = (turn % Len(Lists)) + 1
    BY <1>6 DEF TakeResult, Return, discoveryVars, JobsInv
  <2>2. Len(Lists) \in Nat \ {0} /\ turn \in 1..Len(Lists)
    BY <2>1, TurnIsAList
  <2>3. turn' \in 1..Len(Lists)
    BY <2>1, <2>2, ModRange
  <2> QED
    BY <2>1, <2>3, JobsStay
<1>7. CASE Crash
  <2>1. pc' = "down" /\ state' = "none" /\ turn' = 1
    BY <1>7 DEF Crash, Dies, Exits, Drop
  <2> QED
    BY <2>1 DEF JobsInv
<1>8. CASE UNCHANGED intakeVars
  <2>1. UNCHANGED <<pc, cfg, env, state, turn>>
    BY <1>8 DEF intakeVars, discoveryVars, pagerVars
  <2> QED
    BY <2>1, JobsStay DEF JobsInv
<1> QED
  BY <1>1, <1>2, <1>3, <1>4, <1>5, <1>6, <1>7, <1>8 DEF IntakeNext, ProcessStep

(***************************************************************************)
(* Seen from the pager, the process makes lists there can be.              *)
(***************************************************************************)
LEMMA IntakeLists == IntakeSpec => PagerSpec
<1>1. IntakeInit => DiscoveryInv /\ JobsInv /\ PagerInit
  BY DiscoveryInvInit DEF IntakeInit, DiscoveryInit, PagerInit, JobsInv
<1>2. DiscoveryInv /\ JobsInv /\ [IntakeNext]_intakeVars => (DiscoveryInv /\ JobsInv)'
  BY DiscoveryInvStep, JobsInvStep
<1>3. DiscoveryInv /\ JobsInv /\ [IntakeNext]_intakeVars => [PagerNext]_pagerVars
  <2> SUFFICES ASSUME DiscoveryInv, JobsInv, [IntakeNext]_intakeVars
               PROVE  [PagerNext]_pagerVars
    OBVIOUS
  <2>1. CASE ListNext
    <3>1. pc = "polling" /\ List(Lists[turn])
      BY <2>1 DEF ListNext
    <3>2. Lists[turn] \in Jobs
      BY <3>1, TurnIsAList, ListsAreJobs, JobsAssumption
    <3> QED
      BY <3>1, <3>2 DEF PagerNext
  <2>2. CASE GetPage \/ GetNoPage \/ TakeResult \/ Crash
    BY <2>2 DEF GetPage, GetNoPage, TakeResult, Crash, PagerNext
  <2>3. CASE ClusterChange
    BY <2>3 DEF ClusterChange, PagerNext
  <2>4. CASE DefinitionsChange \/ Discover \/ DiscoverFails \/ UNCHANGED intakeVars
    BY <2>4 DEF DefinitionsChange, Discover, DiscoverFails, intakeVars
  <2> QED
    BY <2>1, <2>2, <2>3, <2>4 DEF IntakeNext, ProcessStep
<1> QED
  BY <1>1, <1>2, <1>3, PTL DEF IntakeSpec, PagerSpec

(***************************************************************************)
(* Every list that a process makes, with whatever configuration it has     *)
(* found, implements the atomic call, while objects and definitions change *)
(* and the process dies and starts again (poller.go:274-382).              *)
(***************************************************************************)
THEOREM IntakeImplementsListCall == IntakeSpec => ImplementsListCall
BY IntakeLists, PagerImplementsListCall
-----------------------------------------------------------------------------
(***************************************************************************)
(* What a list shows of the objects there are.                             *)
(***************************************************************************)
LEMMA ReadyIsShown ==
    ASSUME NEW o, o.conditions \in Seq(Range(o.conditions)),
           \A i, j \in DOMAIN o.conditions :
               o.conditions[i].type = o.conditions[j].type => i = j
    PROVE  Status(o).ready <=>
               \E i \in DOMAIN o.conditions : /\ o.conditions[i].type = "Ready"
                                              /\ IsTrue(o.conditions[i].status)
<1> DEFINE matching == {i \in DOMAIN o.conditions : o.conditions[i].type = "Ready"}
<1>1. Status(o).ready = IsTrue(ConditionOf(o, "Ready").status)
  BY DEF Status, ConditionStatus
<1>2. CASE matching = {}
  <2>1. ConditionOf(o, "Ready").status = ""
    BY <1>2 DEF ConditionOf
  <2> QED
    BY <1>1, <1>2, <2>1 DEF IsTrue
<1>3. CASE matching # {}
  <2>1. DOMAIN o.conditions = 1..Len(o.conditions) /\ Len(o.conditions) \in Nat
    OBVIOUS
  <2>2. matching \in SUBSET Nat
    BY <2>1
  <2>3. Min(matching) \in matching
    BY <1>3, <2>2, FirstPosition
  <2>4. ConditionOf(o, "Ready") = o.conditions[Min(matching)]
    BY <1>3 DEF ConditionOf
  <2>5. \A i \in matching : i = Min(matching)
    BY <2>3
  <2> QED
    BY <1>1, <2>3, <2>4, <2>5
<1> QED
  BY <1>2, <1>3

LEMMA SelectedIsWanted ==
    ASSUME job.role \in {"xr", "claim", "mr"}, NEW o
    PROVE  IsWanted(o) <=> Call!IsSelected(job, o) /\ IsKept(job, o)
<1>1. job.role = "mr" => Info(job, o).xrName = Value(o.labels, job.keys.composite)
  BY DEF Info, UnstructuredToMR
<1>2. Value(o.labels, job.keys.composite) # "" => job.keys.composite \in DOMAIN o.labels
  BY DEF Value
<1> QED
  BY <1>1, <1>2 DEF IsWanted, Call!IsSelected, IsKept

LEMMA InfoShows ==
    ASSUME job.role \in {"xr", "claim", "mr"}, NEW o,
           o.conditions \in Seq(Range(o.conditions)),
           \A i, j \in DOMAIN o.conditions :
               o.conditions[i].type = o.conditions[j].type => i = j
    PROVE  Shows(Info(job, o), o)
<1>1. /\ Info(job, o).ns = o.ns /\ Info(job, o).name = o.name
      /\ Info(job, o).status = Status(o)
      /\ job.role = "mr" => Info(job, o).xrName = Value(o.labels, job.keys.composite)
      /\ job.role = "claim" => Info(job, o).xrRef = Value(o.spec, "resourceRef.name")
  BY DEF Info, UnstructuredToClaim, UnstructuredToXR, UnstructuredToMR
<1> QED
  BY <1>1, ReadyIsShown DEF Shows

LEMMA SelectionShowsAll ==
    ASSUME job \in EveryJob, world \in Worlds, got = Converting(job, Call!Selected(job))
    PROVE  ShowsAll
<1> DEFINE objects == world[<<job.gvr.group, job.gvr.resource>>]
<1>1. job.role \in {"xr", "claim", "mr"}
  BY DEF EveryJob
<1>2. Call!Selected(job) =
          [k \in {x \in DOMAIN objects : Call!IsSelected(job, objects[x])} |-> objects[k]]
  BY DEF Call!Selected, Call!KindListed, Call!Restrict
<1>3. <<job.gvr.group, job.gvr.resource>> \in DOMAIN Contents
  BY ContentsAssumption
<1>4. objects \in Contents[<<job.gvr.group, job.gvr.resource>>]
  BY <1>3 DEF Worlds
<1>5. \A k \in DOMAIN objects :
          /\ objects[k].conditions \in Seq(Range(objects[k].conditions))
          /\ \A i, j \in DOMAIN objects[k].conditions :
                objects[k].conditions[i].type = objects[k].conditions[j].type => i = j
  <2> SUFFICES ASSUME NEW k \in DOMAIN objects
               PROVE  LET o == objects[k]
                      IN  /\ o.conditions \in Seq(Range(o.conditions))
                          /\ \A i, j \in DOMAIN o.conditions :
                                o.conditions[i].type = o.conditions[j].type => i = j
    OBVIOUS
  <2> HIDE DEF objects
  <2>1. objects[k] \in Range(objects)
    BY DEF Range
  <2> QED
    BY <1>3, <1>4, <2>1, ContentsAssumption
<1> HIDE DEF objects
<1>6. DOMAIN got = {k \in DOMAIN objects :
                       Call!IsSelected(job, objects[k]) /\ IsKept(job, objects[k])}
  BY <1>2 DEF Converting
<1>7. \A k \in DOMAIN got : got[k] = Info(job, objects[k])
  BY <1>2 DEF Converting
<1>8. DOMAIN got = {k \in DOMAIN objects : IsWanted(objects[k])}
  BY <1>1, <1>6, SelectedIsWanted
<1>9. \A k \in DOMAIN got : Shows(got[k], objects[k])
  BY <1>1, <1>5, <1>7, <1>8, InfoShows
<1> QED
  BY <1>8, <1>9 DEF ShowsAll, objects

(***************************************************************************)
(* The list under way is one there can be, and what its pages have brought *)
(* and are to bring is what the API server has, as long as that does not   *)
(* change.                                                                 *)
(***************************************************************************)
UnderWayInv ==
    /\ world \in Worlds
    /\ state # "none" => job \in EveryJob

SelectionInv ==
    /\ state = "next" =>
          Join(got, Converting(job, token)) = Converting(job, Call!Selected(job))
    /\ state = "done" => got = Converting(job, Call!Selected(job))

LEMMA UnderWayInvStep ==
    ASSUME DiscoveryInv, JobsInv, UnderWayInv, [IntakeNext]_intakeVars
    PROVE  UnderWayInv'
<1>1. CASE ListNext
  <2>1. /\ pc = "polling" /\ job' = Lists[turn] /\ UNCHANGED world
        /\ env' = env
    BY <1>1 DEF ListNext, List, discoveryVars
  <2>2. Lists[turn] \in EveryJob
    BY <2>1, TurnIsAList, ListsAreJobs
  <2> QED
    BY <2>1, <2>2 DEF UnderWayInv
<1>2. CASE GetPage \/ GetNoPage \/ TakeResult \/ Crash
  <2>1. UNCHANGED world /\ (state' # "none" => state # "none" /\ job' = job)
    BY <1>2, PageAdds DEF GetPage, GetNoPage, TakeResult, Crash, PageFails, Return, Drop
  <2> QED
    BY <2>1 DEF UnderWayInv
<1>3. CASE ClusterChange
  <2>1. PICK k \in DOMAIN Contents : ObjectsChange(k)
    BY <1>3 DEF ClusterChange
  <2>2. PICK objects \in Contents[k] : world' = [world EXCEPT ![k] = objects]
    BY <2>1 DEF ObjectsChange
  <2>3. world' \in Worlds
    BY <2>2 DEF UnderWayInv, Worlds, Range
  <2> QED
    BY <2>1, <2>3 DEF UnderWayInv, ObjectsChange
<1>4. CASE DefinitionsChange \/ Discover \/ DiscoverFails \/ UNCHANGED intakeVars
  <2>1. UNCHANGED <<world, state, job>>
    BY <1>4 DEF DefinitionsChange, Discover, DiscoverFails, intakeVars, pagerVars
  <2> QED
    BY <2>1 DEF UnderWayInv
<1> QED
  BY <1>1, <1>2, <1>3, <1>4 DEF IntakeNext, ProcessStep

LEMMA SelectionInvStep ==
    ASSUME PagerInv, SelectionInv, [IntakeNext]_intakeVars, UNCHANGED world
    PROVE  SelectionInv'
<1>1. job' = job => Call!Selected(job)' = Call!Selected(job)
  BY DEF Call!Selected, Call!KindListed, Call!Restrict, Call!IsSelected
<1>2. CASE GetPage
  <2>1. Page /\ job' = job
    BY <1>2, PageAdds DEF GetPage
  <2>2. Join(got, Converting(job, Remaining)) = Converting(job, Call!Selected(job))
    <3>1. CASE state = "first"
      BY <3>1, FirstPart DEF PagerInv, Remaining
    <3>2. CASE state = "next"
      BY <3>2 DEF SelectionInv, Remaining
    <3> QED
      BY <2>1, <3>1, <3>2, PageAdds
  <2> QED
    BY <1>1, <2>1, <2>2, PageAdds DEF SelectionInv
<1>3. CASE ListNext \/ GetNoPage \/ TakeResult \/ Crash
  <2>1. state' \notin {"next", "done"}
    BY <1>3 DEF ListNext, GetNoPage, TakeResult, Crash, List, PageFails, Return, Drop
  <2> QED
    BY <2>1 DEF SelectionInv
<1>4. CASE ClusterChange \/ DefinitionsChange \/ Discover \/ DiscoverFails
              \/ UNCHANGED intakeVars
  <2>1. UNCHANGED <<state, job, got, token>>
    BY <1>4 DEF ClusterChange, ObjectsChange, DefinitionsChange, Discover, DiscoverFails,
           intakeVars, pagerVars
  <2> QED
    BY <1>1, <2>1 DEF SelectionInv
<1> QED
  BY <1>2, <1>3, <1>4 DEF IntakeNext, ProcessStep

(***************************************************************************)
(* From any moment between two lists on from which the objects stay as     *)
(* they are, and whatever the definitions, the process and its failures    *)
(* do, a list that succeeds returns every object of its kind that its      *)
(* namespace has, each as it is: linked by its labels, and ready if it has *)
(* a Ready condition that is True (poller.go:274-382, convert.go).         *)
(***************************************************************************)
THEOREM ListsShowWhatThereIs ==
    IntakeSpec =>
        [](state \notin {"next", "done"} /\ [][UNCHANGED world]_intakeVars
              => [](state = "done" => ShowsAll))
<1>1. IntakeInit => DiscoveryInv /\ JobsInv /\ PagerInv /\ UnderWayInv
  BY DiscoveryInvInit DEF IntakeInit, DiscoveryInit, PagerInit, JobsInv, PagerInv, UnderWayInv
<1>2. DiscoveryInv /\ JobsInv /\ UnderWayInv /\ [IntakeNext]_intakeVars
        => (DiscoveryInv /\ JobsInv /\ UnderWayInv)'
  BY DiscoveryInvStep, JobsInvStep, UnderWayInvStep
<1>3. IntakeSpec => PagerSpec
  BY IntakeLists
<1>4. PagerSpec => []PagerInv
  BY PagerInvInductive
<1>5. state \notin {"next", "done"} => SelectionInv
  BY DEF SelectionInv
<1>6. PagerInv /\ SelectionInv /\ [IntakeNext]_intakeVars /\ [UNCHANGED world]_intakeVars
        => SelectionInv'
  <2>1. [UNCHANGED world]_intakeVars => UNCHANGED world
    BY DEF intakeVars, pagerVars
  <2> QED
    BY <2>1, SelectionInvStep
<1>7. UnderWayInv /\ SelectionInv => (state = "done" => ShowsAll)
  BY SelectionShowsAll DEF UnderWayInv, SelectionInv
<1> QED
  BY <1>1, <1>2, <1>3, <1>4, <1>5, <1>6, <1>7, PTL DEF IntakeSpec
=============================================================================
