--------------------------- MODULE LlmRouterProofs --------------------------
(***************************************************************************)
(* Theorems about module LlmRouter, for any providers, settings and calls. *)
(***************************************************************************)
EXTENDS LlmRouter, FiniteSetTheorems, TLAPS

-----------------------------------------------------------------------------
(* The settings have one order: by priority, ties as they are listed.      *)

LEMMA EnabledFinite == IsFiniteSet(Enabled) /\ Cardinality(Enabled) \in Nat
<1>1. Len(Configs) \in Nat /\ 1 \in Int /\ Len(Configs) \in Int
  BY ConstantsAssumption
<1>2. IsFiniteSet(1..Len(Configs))
  BY <1>1, FS_Interval
<1>3. Enabled \in SUBSET (1..Len(Configs))
  BY DEF Enabled
<1> QED BY <1>2, <1>3, FS_Subset, FS_CardinalityType

LEMMA BeforeIsOrder ==
  ASSUME NEW i \in Enabled, NEW j \in Enabled, NEW k \in Enabled
  PROVE  /\ ~Before(i, i)
         /\ i # j => Before(i, j) \/ Before(j, i)
         /\ Before(i, j) /\ Before(j, k) => Before(i, k)
<1>1. \A l \in {i, j, k} : l \in Nat /\ Configs[l].priority \in Nat
  <2>1. \A l \in {i, j, k} : l \in 1..Len(Configs)
    BY DEF Enabled
  <2>2. Len(Configs) \in Nat
    BY ConstantsAssumption
  <2>3. \A l \in 1..Len(Configs) : Configs[l] \in [service : Services, priority : Nat, enabled : BOOLEAN]
    <3> DEFINE C == [service : Services, priority : Nat, enabled : BOOLEAN]
    <3>1. Configs \in Seq(C)
      BY ConstantsAssumption
    <3> HIDE DEF C
    <3>2. \A l \in 1..Len(Configs) : Configs[l] \in C
      BY <3>1
    <3> QED BY <3>2 DEF C
  <2>4. \A l \in 1..Len(Configs) : l \in Nat /\ Configs[l].priority \in Nat
    BY <2>2, <2>3
  <2> QED BY <2>1, <2>4
<1> QED BY <1>1 DEF Before

\* The rank of a setting counts those in front of it.
Rank(i) == Cardinality({j \in Enabled : Before(j, i)}) + 1

LEMMA RankFollowsOrder ==
  ASSUME NEW i \in Enabled, NEW j \in Enabled
  PROVE  /\ Rank(i) \in 1..Cardinality(Enabled)
         /\ Before(i, j) => Rank(i) < Rank(j)
<1> DEFINE Ahead(k) == {l \in Enabled : Before(l, k)}
<1>1. ASSUME NEW k \in Enabled
      PROVE  /\ IsFiniteSet(Ahead(k)) /\ Cardinality(Ahead(k)) \in Nat
             /\ Cardinality(Ahead(k)) < Cardinality(Enabled)
  <2>1. Ahead(k) \in SUBSET Enabled /\ Ahead(k) # Enabled
    BY BeforeIsOrder
  <2>2. /\ IsFiniteSet(Ahead(k)) /\ Cardinality(Ahead(k)) <= Cardinality(Enabled)
        /\ Cardinality(Enabled) # Cardinality(Ahead(k))
    BY <2>1, EnabledFinite, FS_Subset
  <2>3. Cardinality(Ahead(k)) \in Nat
    BY <2>2, FS_CardinalityType
  <2> QED BY <2>2, <2>3, EnabledFinite
<1>2. ASSUME Before(i, j) PROVE Cardinality(Ahead(i)) < Cardinality(Ahead(j))
  <2>1. \A l \in Ahead(i) : l \in Ahead(j)
    BY <1>2, BeforeIsOrder
  <2>2. i \in Ahead(j) /\ i \notin Ahead(i)
    BY <1>2, BeforeIsOrder
  <2>3. Ahead(i) \in SUBSET Ahead(j) /\ Ahead(i) # Ahead(j)
    BY <2>1, <2>2
  <2>4. /\ Cardinality(Ahead(i)) <= Cardinality(Ahead(j))
        /\ Cardinality(Ahead(j)) # Cardinality(Ahead(i))
    BY <1>1, <2>3, FS_Subset
  <2> QED BY <1>1, <2>4
<1>3. Rank(i) = Cardinality(Ahead(i)) + 1 /\ Rank(j) = Cardinality(Ahead(j)) + 1
  BY DEF Rank
<1> HIDE DEF Ahead
<1> QED BY <1>1, <1>2, <1>3, EnabledFinite

\* from_configs has exactly one order to choose from: the providers are the
\* enabled settings, each once, by priority and in the order of the settings
\* where priorities are equal.
THEOREM ProvidersSorted ==
  /\ Order \in Bijection(1..Cardinality(Enabled), Enabled)
  /\ \A j, k \in 1..Cardinality(Enabled) : j < k => Before(Order[j], Order[k])
<1> DEFINE n == Cardinality(Enabled)
           rank == [i \in Enabled |-> Rank(i)]
           order == [k \in 1..n |-> CHOOSE i \in Enabled : rank[i] = k]
<1>0. n \in Nat /\ IsFiniteSet(Enabled)
  BY EnabledFinite
<1>1. rank \in [Enabled -> 1..n]
  BY RankFollowsOrder
<1>2. \A i, j \in Enabled : Before(i, j) => rank[i] < rank[j] /\ rank[j] \in Nat /\ rank[i] \in Nat
  BY <1>0, RankFollowsOrder
<1>3. \A i, j \in Enabled : rank[i] = rank[j] => i = j
  <2> HIDE DEF rank
  <2> QED BY <1>2, BeforeIsOrder
<1>4. rank \in Surjection(Enabled, 1..n)
  <2>1. IsFiniteSet(1..n) /\ Cardinality(1..n) = n
    <3>1. 1 \in Int /\ n \in Int
      BY <1>0
    <3> HIDE DEF n
    <3> QED BY <1>0, <3>1, FS_Interval
  <2>2. rank \in Injection(Enabled, 1..n)
    <3> HIDE DEF rank
    <3> QED BY <1>1, <1>3 DEF Injection, IsInjective
  <2> HIDE DEF rank
  <2> QED BY <2>1, <2>2, FS_Injection
<1>5. \A k \in 1..n : order[k] \in Enabled /\ rank[order[k]] = k
  <2> HIDE DEF rank, n
  <2>1. \A k \in 1..n : \E i \in Enabled : rank[i] = k
    BY <1>4 DEF Surjection
  <2> QED BY <2>1
<1>6. order \in Bijection(1..n, Enabled)
  <2> HIDE DEF rank, n
  <2>1. order \in [1..n -> Enabled]
    BY <1>5
  <2>2. \A j, k \in 1..n : order[j] = order[k] => j = k
    BY <1>5
  <2>3. \A i \in Enabled : \E k \in 1..n : order[k] = i
    BY <1>1, <1>3, <1>5
  <2> HIDE DEF order
  <2> QED BY <2>1, <2>2, <2>3 DEF Bijection, Injection, Surjection, IsInjective
<1>7. \A j, k \in 1..n : j < k => Before(order[j], order[k])
  <2> SUFFICES ASSUME NEW j \in 1..n, NEW k \in 1..n, j < k
               PROVE  Before(order[j], order[k])
    OBVIOUS
  <2> HIDE DEF rank, order
  <2>1. order[j] \in Enabled /\ order[k] \in Enabled /\ order[j] # order[k]
    BY <1>0, <1>5
  <2>2. ~Before(order[k], order[j])
    BY <1>0, <1>2, <1>5, <2>1
  <2> QED BY <2>1, <2>2, BeforeIsOrder
<1> HIDE DEF order, rank, n
<1>8. \E f \in Bijection(1..n, Enabled) : \A j, k \in 1..n : j < k => Before(f[j], f[k])
  BY <1>6, <1>7
<1> QED BY <1>8 DEF Order, n
-----------------------------------------------------------------------------
(* Least and greatest numbers, which Advance and EndCheck choose.          *)

LEMMA LeastNumber ==
  ASSUME NEW T \in SUBSET Nat, T # {}
  PROVE  \E x \in T : \A y \in T : x <= y
<1>1. PICK x \in T : \A y \in T : ~(<<y, x>> \in OpToRel(<, Nat))
  BY NatLessThanWellFounded, WFMin
<1>2. \A y \in T : ~(y < x)
  BY <1>1 DEF OpToRel
<1> QED BY <1>2

LEMMA GreatestNumber ==
  ASSUME NEW n \in Nat, NEW T \in SUBSET (1..n), T # {}
  PROVE  Max(T) \in T
<1> DEFINE U == {n - x : x \in T}
<1>1. U \in SUBSET Nat /\ U # {}
  <2>1. \A x \in T : n - x \in Nat
    OBVIOUS
  <2> QED BY <2>1
<1>2. PICK u \in U : \A v \in U : u <= v
  <2> HIDE DEF U
  <2> QED BY <1>1, LeastNumber
<1>3. PICK x \in T : u = n - x
  OBVIOUS
<1>4. \A y \in T : x >= y
  <2>1. \A y \in T : n - x <= n - y
    BY <1>2, <1>3
  <2> QED BY <2>1
<1> QED BY <1>4 DEF Max

-----------------------------------------------------------------------------
(* Types.                                                                  *)

LEMMA SetOfSequence ==
  ASSUME NEW S, NEW s \in Seq(S)
  PROVE  /\ \A x : x \in ToSet(s) <=> \E i \in 1..Len(s) : s[i] = x
         /\ ToSet(s) \subseteq S
  BY DEF ToSet

LEMMA AdvanceAsksNext ==
  ASSUME TypeOK, NEW c \in Calls, NEW i \in Nat, i > 0, NEW h, Advance(c, i, h)
  PROVE  /\ call' \in [Calls -> [pc : {"new", "asking", "answered", "raised"}, i : Nat]]
         /\ \A d \in Calls : d # c => call'[d] = call[d]
         /\ \/ /\ call'[c].pc = "raised"
               /\ \A j \in i..Len(providers) : ~Healthy(j, h)
            \/ /\ call'[c].pc = "asking"
               /\ call'[c].i \in i..Len(providers)
               /\ \A j \in i..call'[c].i - 1 : ~Healthy(j, h)
<1> DEFINE left == {j \in i..Len(providers) : Healthy(j, h)}
           next == CHOOSE j \in left : \A k \in left : j <= k
           new == IF left = {} THEN [pc |-> "raised", i |-> 0] ELSE [pc |-> "asking", i |-> next]
<1>0. Len(providers) \in Nat /\ call \in [Calls -> [pc : {"new", "asking", "answered", "raised"}, i : Nat]]
  BY DEF TypeOK
<1>1. call' = [call EXCEPT ![c] = new]
  BY DEF Advance
<1>2. left # {} => next \in left /\ \A k \in left : next <= k
  <2>1. left \in SUBSET Nat
    BY <1>0
  <2> HIDE DEF left
  <2> QED BY <2>1, LeastNumber
<1>3. new \in [pc : {"new", "asking", "answered", "raised"}, i : Nat]
  <2>1. left \in SUBSET Nat
    BY <1>0
  <2> HIDE DEF left, next
  <2> QED BY <1>2, <2>1
<1>4. call'[c] = new /\ \A d \in Calls : d # c => call'[d] = call[d]
  <2> HIDE DEF new
  <2> QED BY <1>0, <1>1
<1>5. call' \in [Calls -> [pc : {"new", "asking", "answered", "raised"}, i : Nat]]
  <2> HIDE DEF new
  <2> QED BY <1>0, <1>1, <1>3
<1>6. CASE left = {}
  BY <1>4, <1>5, <1>6
<1>7. CASE left # {}
  <2>1. call'[c].pc = "asking" /\ call'[c].i = next
    <3> HIDE DEF left, next
    <3> QED BY <1>4, <1>7
  <2>2. next \in left /\ \A k \in left : next <= k
    BY <1>2, <1>7
  <2> HIDE DEF next, new
  <2>3. next \in i..Len(providers) /\ \A j \in i..Len(providers) : Healthy(j, h) => next <= j
    BY <2>2
  <2>4. \A j \in i..next - 1 : j \in i..Len(providers) /\ ~(next <= j)
    BY <1>0, <2>3
  <2> QED BY <1>4, <1>5, <2>1, <2>3, <2>4
<1> QED BY <1>6, <1>7

LEMMA ObserveType ==
  ASSUME TypeOK, Observe
  PROVE  reachable' \in [Calls \ Rejected -> SUBSET Services]
<1>1. ToSet(providers) \subseteq Services
  BY SetOfSequence DEF TypeOK
<1>2. \A c \in Calls \ Rejected : reachable[c] \subseteq Services
  BY DEF TypeOK
<1> QED BY <1>1, <1>2 DEF Observe

LEMMA InitType == Init => TypeOK
<1> SUFFICES ASSUME Init PROVE TypeOK
  OBVIOUS
<1>1. FromConfigs \in Seq(Services)
  <2>1. \A k \in 1..Cardinality(Enabled) : Order[k] \in 1..Len(Configs)
    BY ProvidersSorted DEF Bijection, Injection, Enabled
  <2>2. \A l \in 1..Len(Configs) : Configs[l].service \in Services
    <3> DEFINE C == [service : Services, priority : Nat, enabled : BOOLEAN]
    <3>1. Configs \in Seq(C)
      BY ConstantsAssumption
    <3> HIDE DEF C
    <3>2. \A l \in 1..Len(Configs) : Configs[l] \in C
      BY <3>1
    <3> QED BY <3>2 DEF C
  <2>3. \A k \in 1..Cardinality(Enabled) : Configs[Order[k]].service \in Services
    BY <2>1, <2>2
  <2> QED BY <2>3, EnabledFinite DEF FromConfigs
<1>2. NoResults \in UNION {[D -> BOOLEAN] : D \in SUBSET Services} /\ DOMAIN NoResults = {}
  <2>1. NoResults \in [{} -> BOOLEAN] /\ {} \in SUBSET Services
    BY DEF NoResults
  <2> QED BY <2>1
<1>3. check \in [pc : {"idle", "probing"}, snapshot : Seq(Services),
                 results : UNION {[D -> BOOLEAN] : D \in SUBSET Services}]
  <2> DEFINE R == UNION {[D -> BOOLEAN] : D \in SUBSET Services}
  <2>1. NoResults \in R
    BY <1>2
  <2> HIDE DEF R
  <2>2. check \in [pc : {"idle", "probing"}, snapshot : Seq(Services), results : R]
    BY <2>1 DEF Init
  <2> QED BY <2>2 DEF R
<1> QED BY <1>1, <1>2, <1>3 DEF Init, TypeOK
LEMMA FailMarks ==
  ASSUME TypeOK, NEW c \in Calls, Fail(c)
  PROVE  /\ call[c].i \in 1..Len(providers) /\ providers[call[c].i] \in Services
         /\ NameOf[providers[call[c].i]] \in Names
         /\ health' = [health EXCEPT ![NameOf[providers[call[c].i]]] = FALSE]
         /\ health' \in [Names -> BOOLEAN]
<1>1. call[c].i \in 1..Len(providers) /\ providers \in Seq(Services)
  BY DEF TypeOK, Fail
<1>2. providers[call[c].i] \in Services
  BY <1>1
<1>3. NameOf[providers[call[c].i]] \in Names
  BY <1>2, ConstantsAssumption
<1> QED BY <1>1, <1>2, <1>3 DEF Fail, TypeOK

LEMMA CallStepType ==
  ASSUME TypeOK, NEW c \in Calls, CallStep(c)
  PROVE  TypeOK'
<1>0. UNCHANGED <<providers, check, up>> /\ Observe /\ Len(providers) \in Nat
  <2>1. Len(providers) \in Nat
    BY DEF TypeOK
  <2> QED BY <2>1 DEF CallStep, Begin, Answer, Fail
<1>1. health' \in [Names -> BOOLEAN]
  <2>1. CASE Begin(c) \/ Answer(c)
    <3>1. health' = health
      BY <2>1 DEF Begin, Answer
    <3> QED BY <3>1 DEF TypeOK
  <2>2. CASE Fail(c)
    BY <2>2, FailMarks
  <2> QED BY <2>1, <2>2 DEF CallStep
<1>2. /\ call' \in [Calls -> [pc : {"new", "asking", "answered", "raised"}, i : Nat]]
      /\ \A d \in Calls : call'[d].pc = "asking" => call'[d].i \in 1..Len(providers)
  <2>0. /\ call \in [Calls -> [pc : {"new", "asking", "answered", "raised"}, i : Nat]]
        /\ \A d \in Calls : call[d].pc = "asking" => call[d].i \in 1..Len(providers)
    BY DEF TypeOK
  <2>1. CASE Begin(c)
    BY <1>0, <2>0, <2>1, AdvanceAsksNext DEF Begin, TypeOK
  <2>2. CASE Answer(c)
    <3>1. call' = [call EXCEPT ![c] = [pc |-> "answered", i |-> 0]]
      BY <2>2 DEF Answer
    <3> QED BY <2>0, <3>1
  <2>3. CASE Fail(c)
    <3>1. call[c].i + 1 \in Nat /\ call[c].i + 1 > 0 /\ Advance(c, call[c].i + 1, health')
      <4>1. Advance(c, call[c].i + 1, health')
        BY <2>3 DEF Fail
      <4>2. call[c].i \in 1..Len(providers)
        BY <2>3, FailMarks
      <4> QED BY <4>1, <4>2
    <3>2. /\ call' \in [Calls -> [pc : {"new", "asking", "answered", "raised"}, i : Nat]]
          /\ \A d \in Calls : d # c => call'[d] = call[d]
          /\ \/ call'[c].pc = "raised"
             \/ call'[c].i \in call[c].i + 1 .. Len(providers)
      BY <3>1, AdvanceAsksNext
    <3>3. call[c].i \in 1..Len(providers)
      BY <2>3, FailMarks
    <3>4. call'[c].pc = "asking" => call'[c].i \in 1..Len(providers)
      BY <1>0, <3>2, <3>3
    <3>5. \A d \in Calls : d # c /\ call[d].pc = "asking" => call[d].i \in 1..Len(providers)
      BY DEF TypeOK
    <3> QED BY <3>2, <3>4, <3>5
  <2> QED BY <2>1, <2>2, <2>3 DEF CallStep
<1> QED BY <1>0, <1>1, <1>2, ObserveType DEF TypeOK

LEMMA OperatorStepType ==
  ASSUME TypeOK,
         \/ BeginCheck \/ EndCheck
         \/ \E s \in Services : ProbeReturns(s) \/ AddProvider(s) \/ Flap(s)
         \/ \E n \in Names : ResetProvider(n)
  PROVE  TypeOK'
<1> DEFINE R == UNION {[D -> BOOLEAN] : D \in SUBSET Services}
<1>0. UNCHANGED call /\ Observe
  BY DEF BeginCheck, EndCheck, ProbeReturns, AddProvider, Flap, ResetProvider
<1>1. /\ providers \in Seq(Services) /\ providers' \in Seq(Services)
      /\ Len(providers) <= Len(providers') /\ Len(providers) \in Nat /\ Len(providers') \in Nat
  <2>1. CASE UNCHANGED providers
    BY <2>1 DEF TypeOK
  <2>2. CASE \E s \in Services : AddProvider(s)
    BY <2>2 DEF AddProvider, TypeOK
  <2> QED BY <2>1, <2>2 DEF BeginCheck, EndCheck, ProbeReturns, Flap, ResetProvider
<1>2. up' \in [Services -> BOOLEAN]
  BY DEF TypeOK, BeginCheck, EndCheck, ProbeReturns, AddProvider, Flap, ResetProvider
<1>3. \A D : D \subseteq Services => [D -> BOOLEAN] \subseteq R
  OBVIOUS
<1>4. check \in [pc : {"idle", "probing"}, snapshot : Seq(Services), results : R]
  BY DEF TypeOK
<1>5. check.results \in [DOMAIN check.results -> BOOLEAN] /\ DOMAIN check.results \subseteq Services
  <2>1. PICK D \in SUBSET Services : check.results \in [D -> BOOLEAN]
    BY <1>4
  <2> QED BY <2>1
<1>6. NoResults \in R /\ DOMAIN NoResults = {}
  <2>1. NoResults \in [{} -> BOOLEAN] /\ DOMAIN NoResults = {}
    BY DEF NoResults
  <2> HIDE DEF R
  <2> QED BY <1>3, <2>1
<1> HIDE DEF R
<1>7. check' \in [pc : {"idle", "probing"}, snapshot : Seq(Services), results : R]
      /\ DOMAIN check'.results \subseteq ToSet(check'.snapshot)
  <2>1. CASE BeginCheck
    BY <1>1, <1>6, <2>1 DEF BeginCheck
  <2>2. CASE EndCheck
    <3>1. check' = [check EXCEPT !.pc = "idle", !.snapshot = <<>>, !.results = NoResults]
      BY <2>2 DEF EndCheck
    <3>2. check' = [pc |-> "idle", snapshot |-> <<>>, results |-> NoResults]
      BY <1>4, <3>1
    <3>3. check' \in [pc : {"idle", "probing"}, snapshot : Seq(Services), results : R]
          /\ check'.results = NoResults
      BY <1>6, <3>2
    <3> QED BY <1>6, <3>3
  <2>3. ASSUME NEW s \in Services, ProbeReturns(s)
        PROVE  check' \in [pc : {"idle", "probing"}, snapshot : Seq(Services), results : R]
               /\ DOMAIN check'.results \subseteq ToSet(check'.snapshot)
    <3> DEFINE results == [t \in DOMAIN check.results \cup {s} |->
                             IF t = s THEN up[s] ELSE check.results[t]]
    <3>1. check' = [check EXCEPT !.results = results] /\ s \in ToSet(check.snapshot)
      BY <1>4, <2>3 DEF ProbeReturns
    <3>2. results \in [DOMAIN check.results \cup {s} -> BOOLEAN] /\ DOMAIN results = DOMAIN check.results \cup {s}
      BY <1>5 DEF TypeOK
    <3>3. results \in R
      BY <1>3, <1>5, <3>2
    <3> HIDE DEF results
    <3>4. check' \in [pc : {"idle", "probing"}, snapshot : Seq(Services), results : R]
          /\ check'.results = results /\ check'.snapshot = check.snapshot
      BY <1>4, <3>1, <3>3
    <3>5. DOMAIN check.results \subseteq ToSet(check.snapshot)
      BY DEF TypeOK
    <3> QED BY <3>1, <3>2, <3>4, <3>5
  <2>4. CASE UNCHANGED check
    BY <1>4, <2>4 DEF TypeOK
  <2> QED BY <2>1, <2>2, <2>3, <2>4 DEF AddProvider, Flap, ResetProvider
<1>8. health' \in [Names -> BOOLEAN]
  <2>1. CASE EndCheck
    <3> DEFINE last(n) == SelectLastInSeq(check.snapshot, LAMBDA s : NameOf[s] = n)
    <3>1. ASSUME NEW n \in Names, last(n) # 0
          PROVE  check.results[check.snapshot[last(n)]] \in BOOLEAN
      <4> DEFINE I == {i \in 1..Len(check.snapshot) : NameOf[check.snapshot[i]] = n}
      <4>1. last(n) = Max(I) /\ I # {}
        BY <3>1 DEF SelectLastInSeq
      <4>2. Len(check.snapshot) \in Nat /\ I \in SUBSET (1..Len(check.snapshot))
        BY <1>4
      <4> HIDE DEF I
      <4>3. last(n) \in 1..Len(check.snapshot)
        BY <4>1, <4>2, GreatestNumber
      <4> HIDE DEF last
      <4>4. check.snapshot[last(n)] \in ToSet(check.snapshot)
        BY <1>4, <4>3, SetOfSequence
      <4> QED BY <1>5, <2>1, <4>4 DEF EndCheck
    <3>2. health' = [n \in Names |-> IF last(n) = 0 THEN health[n]
                                     ELSE check.results[check.snapshot[last(n)]]]
      BY <2>1 DEF EndCheck
    <3> HIDE DEF last
    <3>3. health \in [Names -> BOOLEAN]
      BY DEF TypeOK
    <3> QED BY <3>1, <3>2, <3>3
  <2>2. ASSUME NEW s \in Services, AddProvider(s)
        PROVE  health' \in [Names -> BOOLEAN]
    BY <2>2 DEF AddProvider, TypeOK
  <2>3. ASSUME NEW n \in Names, ResetProvider(n)
        PROVE  health' \in [Names -> BOOLEAN]
    BY <2>3 DEF ResetProvider, TypeOK
  <2>4. CASE UNCHANGED health
    BY <2>4 DEF TypeOK
  <2> QED BY <2>1, <2>2, <2>3, <2>4 DEF BeginCheck, ProbeReturns, Flap
<1>9. /\ call' \in [Calls -> [pc : {"new", "asking", "answered", "raised"}, i : Nat]]
      /\ \A c \in Calls : call'[c].pc = "asking" => call'[c].i \in 1..Len(providers')
  BY <1>0, <1>1 DEF TypeOK
<1> QED BY <1>0, <1>1, <1>2, <1>7, <1>8, <1>9, ObserveType DEF TypeOK, R

LEMMA NextType == TypeOK /\ [Next]_vars => TypeOK'
<1>1. TypeOK /\ Next => TypeOK'
  BY CallStepType, OperatorStepType DEF Next
<1>2. TypeOK /\ UNCHANGED vars => TypeOK'
  BY DEF TypeOK, vars
<1> QED BY <1>1, <1>2
-----------------------------------------------------------------------------
(* The cascade.  A provider that stayed up and healthy since a call began  *)
(* is still in front of that call (AheadReachable): marks are only ever    *)
(* set on what failed, so that the call cannot pass it by.                 *)

CallOK(c) ==
  /\ call[c].pc = "raised" => reachable[c] = {}
  /\ \A s \in reachable[c] : s \in ToSet(providers) /\ up[s] /\ health[NameOf[s]]
  /\ call[c].pc = "asking" => \A j \in 1..call[c].i - 1 : providers[j] \notin reachable[c]

LEMMA CascadeByCall ==
  CascadeReaches /\ AheadReachable <=> \A c \in Calls \ Rejected : CallOK(c)
  BY DEF CascadeReaches, AheadReachable, CallOK

\* The history, call by call.
LEMMA Observed ==
  ASSUME Observe, NEW c \in Calls \ Rejected
  PROVE  /\ call[c].pc = "new" /\ call'[c].pc # "new" =>
              reachable'[c] = {s \in ToSet(providers) : up[s] /\ health[NameOf[s]]}
         /\ call[c].pc # "new" \/ call'[c].pc = "new" =>
              reachable'[c] = {s \in reachable[c] : call'[c].pc # "answered" /\ up'[s] /\ health'[NameOf[s]]}
  BY DEF Observe

\* Whatever others do, a call that stays where it is stays in order: providers
\* are only added, and at the end.
LEMMA OthersKeepCall ==
  ASSUME TypeOK, NEW c \in Calls \ Rejected, CallOK(c), Observe, call'[c] = call[c],
         UNCHANGED providers \/ \E s \in Services : providers' = Append(providers, s)
  PROVE  CallOK(c)'
<1>1. reachable'[c] \subseteq reachable[c] /\ \A t \in reachable'[c] : up'[t] /\ health'[NameOf[t]]
  BY Observed
<1>2. /\ Len(providers) \in Nat /\ \A j \in 1..Len(providers) : providers'[j] = providers[j]
      /\ providers \in Seq(Services) /\ providers' \in Seq(Services)
      /\ 1..Len(providers) \subseteq 1..Len(providers')
  <2>1. providers \in Seq(Services) /\ Len(providers) \in Nat
    BY DEF TypeOK
  <2>2. ASSUME NEW s \in Services, providers' = Append(providers, s)
        PROVE  /\ \A j \in 1..Len(providers) : providers'[j] = providers[j]
               /\ providers' \in Seq(Services) /\ Len(providers') = Len(providers) + 1
    BY <2>1, <2>2
  <2> QED BY <2>1, <2>2
<1>3. ToSet(providers) \subseteq ToSet(providers')
  <2> SUFFICES ASSUME NEW x \in ToSet(providers) PROVE x \in ToSet(providers')
    OBVIOUS
  <2>1. PICK i \in 1..Len(providers) : providers[i] = x
    BY <1>2, SetOfSequence
  <2> QED BY <1>2, <2>1, SetOfSequence
<1>4. ASSUME call[c].pc = "asking"
      PROVE  \A j \in 1..call[c].i - 1 : providers'[j] \notin reachable'[c]
  <2>1. call[c].i \in 1..Len(providers)
    BY <1>4 DEF TypeOK
  <2>2. \A j \in 1..call[c].i - 1 : j \in 1..Len(providers)
    BY <1>2, <2>1
  <2> QED BY <1>1, <1>2, <1>4, <2>2 DEF CallOK
<1> QED BY <1>1, <1>3, <1>4 DEF CallOK

\* Advance from i with health h: nothing that h calls healthy is passed by.
LEMMA AdvanceKeepsCall ==
  ASSUME TypeOK, NEW c \in Calls \ Rejected, NEW i \in Nat, i > 0, Advance(c, i, health'),
         UNCHANGED providers,
         \A s \in reachable'[c] : s \in ToSet(providers) /\ up'[s] /\ health'[NameOf[s]],
         \A j \in 1..i - 1 : providers[j] \notin reachable'[c]
  PROVE  CallOK(c)'
<1>1. \/ /\ call'[c].pc = "raised"
         /\ \A j \in i..Len(providers) : ~Healthy(j, health')
      \/ /\ call'[c].pc = "asking"
         /\ call'[c].i \in i..Len(providers)
         /\ \A j \in i..call'[c].i - 1 : ~Healthy(j, health')
  BY AdvanceAsksNext
<1>2. \A j : ~Healthy(j, health') => providers[j] \notin reachable'[c]
  BY DEF Healthy
<1>3. Len(providers) \in Nat /\ providers \in Seq(Services)
  BY DEF TypeOK
<1>4. CASE call'[c].pc = "raised" /\ \A j \in i..Len(providers) : ~Healthy(j, health')
  <2>1. \A j \in 1..Len(providers) : j \in 1..i - 1 \/ j \in i..Len(providers)
    BY <1>3
  <2>2. \A j \in 1..Len(providers) : providers[j] \notin reachable'[c]
    BY <1>2, <1>4, <2>1
  <2>3. \A s \in reachable'[c] : \E j \in 1..Len(providers) : providers[j] = s
    BY <1>3, SetOfSequence
  <2>4. reachable'[c] = {}
    BY <2>2, <2>3
  <2> QED BY <1>4, <2>4 DEF CallOK
<1>5. CASE /\ call'[c].pc = "asking" /\ call'[c].i \in i..Len(providers)
           /\ \A j \in i..call'[c].i - 1 : ~Healthy(j, health')
  <2>1. \A j \in 1..call'[c].i - 1 : j \in 1..i - 1 \/ j \in i..call'[c].i - 1
    BY <1>3, <1>5
  <2>2. \A j \in 1..call'[c].i - 1 : providers[j] \notin reachable'[c]
    BY <1>2, <1>5, <2>1
  <2> QED BY <1>5, <2>2 DEF CallOK
<1> QED BY <1>1, <1>4, <1>5

LEMMA CallStepKeepsCall ==
  ASSUME TypeOK, NEW c \in Calls \ Rejected, CallOK(c), CallStep(c)
  PROVE  CallOK(c)'
<1>0. Observe /\ UNCHANGED <<providers, up>> /\ providers \in Seq(Services)
  BY DEF CallStep, Begin, Answer, Fail, TypeOK
<1>1. CASE Begin(c)
  <2>1. call[c].pc = "new" /\ Advance(c, 1, health') /\ UNCHANGED health
    BY <1>1 DEF Begin
  <2>2. call'[c].pc # "new"
    BY <2>1, AdvanceAsksNext
  <2>3. reachable'[c] = {s \in ToSet(providers) : up[s] /\ health[NameOf[s]]}
    BY <1>0, <2>1, <2>2, Observed
  <2> QED BY <1>0, <2>1, <2>3, AdvanceKeepsCall
<1>2. CASE Answer(c)
  <2>1. call'[c].pc = "answered" /\ call[c].pc = "asking"
    BY <1>2 DEF Answer, TypeOK
  <2>2. reachable'[c] = {}
    BY <1>0, <2>1, Observed
  <2> QED BY <2>1, <2>2 DEF CallOK
<1>3. CASE Fail(c)
  <2>1. /\ call[c].i \in 1..Len(providers) /\ providers[call[c].i] \in Services
        /\ NameOf[providers[call[c].i]] \in Names
        /\ health' = [health EXCEPT ![NameOf[providers[call[c].i]]] = FALSE]
    BY <1>3, FailMarks
  <2>2. ~health'[NameOf[providers[call[c].i]]]
    BY <2>1 DEF TypeOK
  <2>3. call[c].pc = "asking" /\ Advance(c, call[c].i + 1, health')
    BY <1>3 DEF Fail
  <2>4. reachable'[c] \subseteq reachable[c] /\ \A s \in reachable'[c] : up'[s] /\ health'[NameOf[s]]
    BY <1>0, <2>3, Observed
  <2>5. call[c].i + 1 \in Nat /\ call[c].i + 1 > 0 /\ Len(providers) \in Nat
    BY <1>0, <2>1
  <2>6. \A j \in 1..(call[c].i + 1) - 1 : providers[j] \notin reachable'[c]
    <3>1. \A j \in 1..(call[c].i + 1) - 1 : j \in 1..call[c].i - 1 \/ j = call[c].i
      BY <2>1, <2>5
    <3> QED BY <2>2, <2>3, <2>4, <3>1 DEF CallOK
  <2> QED BY <1>0, <2>3, <2>4, <2>5, <2>6, AdvanceKeepsCall DEF CallOK
<1> QED BY <1>1, <1>2, <1>3 DEF CallStep

LEMMA NextCascade ==
  ASSUME TypeOK, CascadeReaches, AheadReachable, [Next]_vars
  PROVE  (CascadeReaches /\ AheadReachable)'
<1> SUFFICES ASSUME NEW c \in Calls \ Rejected, CallOK(c) PROVE CallOK(c)'
  BY CascadeByCall DEF CascadeReaches, AheadReachable, CallOK
<1>1. ASSUME NEW d \in Calls, CallStep(d), d # c PROVE CallOK(c)'
  <2>1. Observe /\ UNCHANGED providers
    BY <1>1 DEF CallStep, Begin, Answer, Fail
  <2>2. call'[c] = call[c]
    <3>1. CASE Begin(d)
      BY <1>1, <3>1, AdvanceAsksNext DEF Begin
    <3>2. CASE Answer(d)
      BY <1>1, <3>2 DEF Answer, TypeOK
    <3>3. CASE Fail(d)
      <4>1. Advance(d, call[d].i + 1, health')
        BY <3>3 DEF Fail
      <4>2. call[d].i + 1 \in Nat /\ call[d].i + 1 > 0
        BY DEF TypeOK
      <4> QED BY <1>1, <4>1, <4>2, AdvanceAsksNext
    <3> QED BY <1>1, <3>1, <3>2, <3>3 DEF CallStep
  <2> QED BY <2>1, <2>2, OthersKeepCall
<1>2. ASSUME NEW d \in Calls, CallStep(d) PROVE CallOK(c)'
  BY <1>1, <1>2, CallStepKeepsCall
<1>3. CASE \/ BeginCheck \/ EndCheck
           \/ \E s \in Services : ProbeReturns(s) \/ AddProvider(s) \/ Flap(s)
           \/ \E n \in Names : ResetProvider(n)
  <2>1. Observe /\ UNCHANGED call
    BY <1>3 DEF BeginCheck, EndCheck, ProbeReturns, AddProvider, Flap, ResetProvider
  <2>2. UNCHANGED providers \/ \E s \in Services : providers' = Append(providers, s)
    BY <1>3 DEF BeginCheck, EndCheck, ProbeReturns, AddProvider, Flap, ResetProvider
  <2> QED BY <2>1, <2>2, OthersKeepCall
<1>4. CASE UNCHANGED vars
  BY <1>4 DEF vars, CallOK
<1> QED BY <1>2, <1>3, <1>4 DEF Next

\* No call fails while a provider was up and marked healthy from its beginning
\* to its end, whatever other calls, health checks, resets and additions do to
\* the marks and to the list.
THEOREM CascadeIsComplete == Spec => [](CascadeInv /\ AheadReachable)
<1>1. Init => CascadeReaches /\ AheadReachable
  BY DEF Init, CascadeReaches, AheadReachable
<1>2. TypeOK /\ CascadeReaches /\ AheadReachable /\ [Next]_vars => (CascadeReaches /\ AheadReachable)'
  BY NextCascade
<1> QED BY <1>1, <1>2, InitType, NextType, PTL DEF Spec, CascadeInv

\* An answer never comes from behind a provider that was up and healthy from
\* the beginning of the call.
THEOREM PriorityIsRespected == Spec => PriorityRespected
<1> DEFINE InOrder == \A c \in Calls \ Rejected :
                        call[c].pc = "asking" /\ call'[c].pc = "answered" =>
                          \A j \in 1..call[c].i - 1 : providers[j] \notin reachable[c]
<1>1. AheadReachable /\ [Next]_vars => [InOrder]_vars
  BY DEF AheadReachable
<1> HIDE DEF InOrder
<1>2. Spec => [][InOrder]_vars
  BY <1>1, CascadeIsComplete, PTL DEF Spec
<1> QED BY <1>2 DEF PriorityRespected, InOrder
=============================================================================
