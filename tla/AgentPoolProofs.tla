--------------------------- MODULE AgentPoolProofs --------------------------
(***************************************************************************)
(* Theorems about module AgentPool, for any agents, capabilities, limits   *)
(* and calls, and any number of registrations.                             *)
(***************************************************************************)
EXTENDS AgentPool, FiniteSetTheorems, TLAPS

-----------------------------------------------------------------------------
(* Sequences: what list.remove and a waiter that gives up leave.           *)

LEMMA RemoveAtElements ==
  ASSUME NEW S, NEW s \in Seq(S), NEW k \in 1..Len(s)
  PROVE  /\ RemoveAt(s, k) \in Seq(S)
         /\ Len(RemoveAt(s, k)) = Len(s) - 1
         /\ \A i \in 1..Len(s) - 1 : RemoveAt(s, k)[i] = IF i < k THEN s[i] ELSE s[i + 1]
<1>1. /\ SubSeq(s, 1, k - 1) \in Seq(S) /\ Len(SubSeq(s, 1, k - 1)) = k - 1
      /\ \A i \in 1..k - 1 : SubSeq(s, 1, k - 1)[i] = s[i]
  OBVIOUS
<1>2. /\ SubSeq(s, k + 1, Len(s)) \in Seq(S) /\ Len(SubSeq(s, k + 1, Len(s))) = Len(s) - k
      /\ \A i \in 1..Len(s) - k : SubSeq(s, k + 1, Len(s))[i] = s[k + i]
  OBVIOUS
<1> DEFINE a == SubSeq(s, 1, k - 1)
           b == SubSeq(s, k + 1, Len(s))
<1>3. /\ a \o b \in Seq(S) /\ Len(a \o b) = Len(s) - 1
      /\ \A i \in 1..Len(s) - 1 : (a \o b)[i] = IF i <= k - 1 THEN a[i] ELSE b[i - (k - 1)]
  <2>1. a \in Seq(S) /\ b \in Seq(S) /\ Len(a) = k - 1 /\ Len(b) = Len(s) - k
    BY <1>1, <1>2
  <2> HIDE DEF a, b
  <2> QED BY <2>1
<1>4. \A i \in 1..Len(s) - 1 : i >= k => b[i - (k - 1)] = s[i + 1]
  <2> SUFFICES ASSUME NEW i \in 1..Len(s) - 1, i >= k PROVE b[i - (k - 1)] = s[i + 1]
    OBVIOUS
  <2>1. i - (k - 1) \in 1..Len(s) - k
    OBVIOUS
  <2>2. k + (i - (k - 1)) = i + 1
    OBVIOUS
  <2> QED BY <1>2, <2>1, <2>2
<1> HIDE DEF a, b
<1>5. \A i \in 1..Len(s) - 1 : i < k => a[i] = s[i]
  BY <1>1 DEF a
<1>6. RemoveAt(s, k) = a \o b
  BY DEF RemoveAt, a, b
<1>7. \A i \in 1..Len(s) - 1 : i < k <=> i <= k - 1
  OBVIOUS
<1> QED BY <1>3, <1>4, <1>5, <1>6, <1>7

LEMMA RemoveFirstElements ==
  ASSUME NEW S, NEW s \in Seq(S), NEW e
  PROVE  \/ /\ \E k \in 1..Len(s) :
                 /\ s[k] = e
                 /\ \A i \in 1..Len(s) - 1 : RemoveFirst(s, e)[i] = IF i < k THEN s[i] ELSE s[i + 1]
            /\ RemoveFirst(s, e) \in Seq(S) /\ Len(RemoveFirst(s, e)) = Len(s) - 1
         \/ /\ \A i \in 1..Len(s) : s[i] # e
            /\ RemoveFirst(s, e) = s
<1>1. CASE \E i \in 1..Len(s) : s[i] = e
  <2> DEFINE I == {i \in 1..Len(s) : s[i] = e}
             k == SelectInSeq(s, LAMBDA v : v = e)
  <2>1. I \in SUBSET Nat /\ I # {}
    BY <1>1
  <2>2. PICK x \in I : \A y \in I : x <= y
    <3>1. PICK x \in I : \A y \in I : ~(<<y, x>> \in OpToRel(<, Nat))
      <4> HIDE DEF I
      <4> QED BY <2>1, NatLessThanWellFounded, WFMin
    <3>2. \A y \in I : ~(y < x)
      BY <2>1, <3>1 DEF OpToRel
    <3> QED BY <2>1, <3>2
  <2>3. k = Min(I)
    BY <2>1 DEF SelectInSeq
  <2>4. k \in I
    BY <2>2, <2>3 DEF Min
  <2>5. RemoveFirst(s, e) = RemoveAt(s, k)
    BY <1>1 DEF RemoveFirst
  <2> HIDE DEF k
  <2>6. k \in 1..Len(s) /\ s[k] = e
    BY <2>4
  <2> QED BY <2>5, <2>6, RemoveAtElements
<1>2. CASE ~ \E i \in 1..Len(s) : s[i] = e
  BY <1>2 DEF RemoveFirst
<1> QED BY <1>1, <1>2

\* Where elements occur once, the removed one is gone and the others stay once.
Keeps(s, e, r) ==
  /\ \A i \in 1..Len(r) : \E j \in 1..Len(s) : r[i] = s[j]
  /\ \A d : d # e /\ (\E i \in 1..Len(s) : s[i] = d) => \E i \in 1..Len(r) : r[i] = d
  /\ \A d : (\A i, j \in 1..Len(s) : s[i] = d /\ s[j] = d => i = j)
            => \A i, j \in 1..Len(r) : r[i] = d /\ r[j] = d => i = j
  /\ (\A i, j \in 1..Len(s) : s[i] = e /\ s[j] = e => i = j)
       => \A i \in 1..Len(r) : r[i] # e

LEMMA RemoveFirstKeeps ==
  ASSUME NEW S, NEW s \in Seq(S), NEW e
  PROVE  RemoveFirst(s, e) \in Seq(S) /\ Keeps(s, e, RemoveFirst(s, e))
<1> DEFINE r == RemoveFirst(s, e)
<1> SUFFICES r \in Seq(S) /\ Keeps(s, e, r)
  OBVIOUS
<1> HIDE DEF r
<1>0. Len(s) \in Nat
  OBVIOUS
<1>1. CASE r = s /\ \A i \in 1..Len(s) : s[i] # e
  BY <1>1 DEF Keeps
<1>2. ASSUME NEW k \in 1..Len(s), s[k] = e, r \in Seq(S), Len(r) = Len(s) - 1,
             \A i \in 1..Len(s) - 1 : r[i] = IF i < k THEN s[i] ELSE s[i + 1]
      PROVE  Keeps(s, e, r)
  <2> DEFINE from(i) == IF i < k THEN i ELSE i + 1
  <2>1. \A i \in 1..Len(r) : from(i) \in 1..Len(s) /\ from(i) # k /\ r[i] = s[from(i)]
    BY <1>0, <1>2
  <2>2. \A i, j \in 1..Len(r) : from(i) = from(j) => i = j
    BY <1>0, <1>2
  <2>3. ASSUME NEW i \in 1..Len(s), i # k
        PROVE  \E j \in 1..Len(r) : r[j] = s[i]
    <3>1. CASE i < k
      BY <1>0, <1>2, <3>1
    <3>2. CASE i > k
      <4>1. i - 1 \in 1..Len(r) /\ ~(i - 1 < k) /\ (i - 1) + 1 = i
        BY <1>0, <1>2, <3>2
      <4>2. r[i - 1] = s[i]
        BY <1>2, <4>1
      <4> QED BY <4>1, <4>2
    <3> QED BY <1>0, <2>3, <3>1, <3>2
  <2> HIDE DEF from
  <2>4. \A i \in 1..Len(r) : \E j \in 1..Len(s) : r[i] = s[j]
    BY <2>1
  <2>5. ASSUME NEW d, d # e, NEW i \in 1..Len(s), s[i] = d
        PROVE  \E j \in 1..Len(r) : r[j] = d
    <3>1. i # k
      BY <1>2, <2>5
    <3> QED BY <2>3, <2>5, <3>1
  <2>6. ASSUME NEW d, \A i, j \in 1..Len(s) : s[i] = d /\ s[j] = d => i = j,
               NEW i \in 1..Len(r), NEW j \in 1..Len(r), r[i] = d, r[j] = d
        PROVE  i = j
    <3>1. from(i) = from(j)
      BY <2>1, <2>6
    <3> QED BY <2>2, <3>1
  <2>7. ASSUME \A i, j \in 1..Len(s) : s[i] = e /\ s[j] = e => i = j,
               NEW i \in 1..Len(r)
        PROVE  r[i] # e
    BY <1>2, <2>1, <2>7
  <2> QED BY <2>4, <2>5, <2>6, <2>7 DEF Keeps
<1>3. r \in Seq(S)
  BY RemoveFirstElements DEF r
<1>4. CASE \E k \in 1..Len(s) :
             /\ s[k] = e
             /\ \A i \in 1..Len(s) - 1 : r[i] = IF i < k THEN s[i] ELSE s[i + 1]
             /\ r \in Seq(S) /\ Len(r) = Len(s) - 1
  <2>1. PICK k \in 1..Len(s) :
             /\ s[k] = e
             /\ \A i \in 1..Len(s) - 1 : r[i] = IF i < k THEN s[i] ELSE s[i + 1]
             /\ r \in Seq(S) /\ Len(r) = Len(s) - 1
    BY <1>4
  <2> QED BY <1>2, <2>1
<1>5. \/ \E k \in 1..Len(s) :
             /\ s[k] = e
             /\ \A i \in 1..Len(s) - 1 : r[i] = IF i < k THEN s[i] ELSE s[i + 1]
             /\ r \in Seq(S) /\ Len(r) = Len(s) - 1
      \/ r = s /\ \A i \in 1..Len(s) : s[i] # e
  BY RemoveFirstElements DEF r
<1> QED BY <1>1, <1>3, <1>4, <1>5

-----------------------------------------------------------------------------
(* Types.                                                                  *)

LEMMA InitType == Init => TypeOK
BY ConstantsAssumption DEF Init, TypeOK

LEMMA HookTypes ==
  ASSUME TypeOK, NEW o \in Objects, BeginRegister(o) \/ HookEnds(o)
  PROVE  TypeOK'
<1>1. CASE BeginRegister(o)
  <2>1. sem' \in [Objects -> [value : Nat, queue : Seq(Calls)]]
    <3>1. [value |-> Limit[o], queue |-> <<>>] \in [value : Nat, queue : Seq(Calls)]
      BY ConstantsAssumption
    <3> QED BY <1>1, <3>1 DEF TypeOK, BeginRegister
  <2>2. setups' \in [Objects -> Nat] /\ tainted' \subseteq Names
    <3>1. setups' = [setups EXCEPT ![o] = setups[o] + 1] /\ setups[o] \in Nat
      BY <1>1 DEF TypeOK, BeginRegister
    <3>2. tainted' = tainted \/ tainted' = tainted \cup {NameOf[o]}
      BY <1>1 DEF BeginRegister, Taint
    <3>3. setups' \in [Objects -> Nat]
      BY <3>1 DEF TypeOK
    <3>4. NameOf[o] \in Names
      BY ConstantsAssumption
    <3> QED BY <3>2, <3>3, <3>4 DEF TypeOK
  <2> QED BY <1>1, <2>1, <2>2 DEF TypeOK, BeginRegister
<1>2. CASE EndSetup(o)
  <2>1. index' \in [Caps -> Seq(Names)]
    <3> SUFFICES ASSUME NEW c \in Caps PROVE Append(index[c], NameOf[o]) \in Seq(Names)
      BY <1>2 DEF TypeOK, EndSetup
    <3> QED BY ConstantsAssumption DEF TypeOK
  <2>2. shutdown' \in [phase : {"no", "active", "done", "aborted"}, left : SUBSET Names,
                       current : Objects \cup {None}, late : SUBSET Objects]
        /\ shutdown'.current = shutdown.current
    BY <1>2 DEF TypeOK, EndSetup
  <2>3. agents' \in [Names -> Objects \cup {None}]
    BY <1>2, ConstantsAssumption DEF TypeOK, EndSetup
  <2>4. \A n \in Names : agents'[n] # None => NameOf[agents'[n]] = n
    BY <1>2, ConstantsAssumption DEF TypeOK, EndSetup
  <2> QED BY <1>2, <2>1, <2>2, <2>3, <2>4 DEF TypeOK, EndSetup, history
<1>3. CASE SetupFails(o)
  BY <1>3 DEF TypeOK, SetupFails
<1>4. CASE EndTeardown(o)
  <2>1. index' \in [Caps -> Seq(Names)]
    BY <1>4, RemoveFirstElements DEF TypeOK, EndTeardown
  <2>2. shutdown' \in [phase : {"no", "active", "done", "aborted"}, left : SUBSET Names,
                       current : Objects \cup {None}, late : SUBSET Objects]
        /\ (shutdown'.current # None => shutdown'.current \in tearing')
    BY <1>4 DEF TypeOK, EndTeardown, Released, Aborted
  <2> QED BY <1>4, <2>1, <2>2 DEF TypeOK, EndTeardown
<1>5. CASE TeardownFails(o)
  <2>1. shutdown' \in [phase : {"no", "active", "done", "aborted"}, left : SUBSET Names,
                       current : Objects \cup {None}, late : SUBSET Objects]
        /\ (shutdown'.current # None => shutdown'.current \in tearing')
    BY <1>5 DEF TypeOK, TeardownFails, Aborted
  <2>2. tainted' \subseteq Names
    BY <1>5, ConstantsAssumption DEF TypeOK, TeardownFails, Taint
  <2> QED BY <1>5, <2>1, <2>2 DEF TypeOK, TeardownFails
<1> QED BY <1>1, <1>2, <1>3, <1>4, <1>5 DEF HookEnds

LEMMA RemovalTypes ==
  ASSUME TypeOK,
         (\E n \in Names : BeginDeregister(n)) \/ BeginShutdown \/ ShutdownStep
  PROVE  TypeOK'
<1>1. ASSUME NEW n \in Names, BeginDeregister(n)
      PROVE  TypeOK'
  BY <1>1 DEF TypeOK, BeginDeregister, Pop, Taint
<1>2. CASE BeginShutdown
  BY <1>2 DEF TypeOK, BeginShutdown, history
<1>3. ASSUME NEW n \in Names, ShutdownNext(n)
      PROVE  TypeOK'
  <2> DEFINE Phases == [phase : {"no", "active", "done", "aborted"}, left : SUBSET Names,
                        current : Objects \cup {None}, late : SUBSET Objects]
  <2>1. shutdown \in Phases /\ shutdown.left \ {n} \in SUBSET Names
        /\ agents[n] \in Objects \cup {None}
    BY <1>3 DEF TypeOK
  <2>2. shutdown' \in Phases /\ shutdown'.current = agents[n]
    BY <1>3, <2>1 DEF ShutdownNext
  <2>3. CASE agents[n] = None
    BY <1>3, <2>2, <2>3 DEF TypeOK, ShutdownNext
  <2>4. CASE agents[n] # None
    <3>0. Pop(n)
      BY <1>3, <2>4 DEF ShutdownNext
    <3>1. /\ agents' \in [Names -> Objects \cup {None}]
          /\ \A m \in Names : agents'[m] # None => NameOf[agents'[m]] = m
          /\ tainted' \subseteq Names
          /\ tearing' \subseteq Objects /\ agents[n] \in tearing'
      BY <2>1, <2>4, <3>0 DEF TypeOK, Pop, Taint
    <3> QED BY <1>3, <2>2, <3>1 DEF TypeOK, ShutdownNext
  <2> QED BY <2>3, <2>4
<1>4. CASE ShutdownReturns
  BY <1>4 DEF TypeOK, ShutdownReturns, history
<1> QED BY <1>1, <1>2, <1>3, <1>4 DEF ShutdownStep

LEMMA CallTypes ==
  ASSUME TypeOK, QueuesExact, NEW k \in Calls,
         CallStep(k) \/ CancelWaiting(k) \/ \E n \in Names : Fetch(k, n)
  PROVE  TypeOK'
<1> DEFINE o == call[k].object
           Sems == [value : Nat, queue : Seq(Calls)]
           Points == {"new", "fetched", "waiting", "executing", "done"}
           States == [pc : Points, object : Objects \cup {None}]
<1>0. /\ sem \in [Objects -> Sems] /\ call \in [Calls -> States]
      /\ \A c \in Calls : call[c].pc # "new" => call[c].object # None
      /\ call[k].pc # "new" => o \in Objects
  BY DEF TypeOK
\* A call that moves on keeps its object.
<1>1. ASSUME NEW c \in Calls, call[c].pc # "new", NEW l \in Points
      PROVE  [call[c] EXCEPT !.pc = l] \in States /\ [call[c] EXCEPT !.pc = l].object # None
  BY <1>0, <1>1
<1>2. ASSUME call[k].pc # "new", NEW l \in Points, Goto(k, l)
      PROVE  call' \in [Calls -> States] /\ \A c \in Calls : call'[c].pc # "new" => call'[c].object # None
  BY <1>0, <1>1, <1>2 DEF Goto
<1>3. ASSUME call' \in [Calls -> States], sem' \in [Objects -> Sems],
             \A c \in Calls : call'[c].pc # "new" => call'[c].object # None,
             UNCHANGED <<registry, history>>
      PROVE  TypeOK'
  BY <1>3 DEF TypeOK, registry, history
<1>5. o \in Objects => sem[o].value \in Nat /\ sem[o].queue \in Seq(Calls)
  BY <1>0
<1> HIDE DEF Sems, States, Points, o
<1>6. {"new", "fetched", "waiting", "executing", "done"} \subseteq Points
  BY DEF Points
<1>7. CASE Acquire(k)
  <2>1. o \in Objects
    BY <1>0, <1>7 DEF Acquire, o
  <2>2. CASE sem[o].value > 0
    <3>1. sem' = [sem EXCEPT ![o].value = sem[o].value - 1] /\ sem[o].value - 1 \in Nat
      BY <1>5, <1>7, <2>1, <2>2 DEF Acquire, o
    <3>2. sem' \in [Objects -> Sems]
      BY <1>0, <2>1, <3>1 DEF Sems
    <3> QED BY <1>2, <1>3, <1>6, <1>7, <2>2, <3>2 DEF Acquire, o
  <2>3. CASE ~(sem[o].value > 0)
    <3>1. sem' = [sem EXCEPT ![o].queue = Append(sem[o].queue, k)]
          /\ Append(sem[o].queue, k) \in Seq(Calls)
      BY <1>5, <1>7, <2>1, <2>3 DEF Acquire, o
    <3>2. sem' \in [Objects -> Sems]
      BY <1>0, <2>1, <3>1 DEF Sems
    <3> QED BY <1>2, <1>3, <1>6, <1>7, <2>3, <3>2 DEF Acquire, o
  <2> QED BY <2>2, <2>3
<1>8. CASE Finish(k)
  <2>1. o \in Objects
    BY <1>0, <1>8 DEF Finish, o
  <2>2. CASE sem[o].queue = <<>>
    <3>1. sem' = [sem EXCEPT ![o].value = sem[o].value + 1] /\ sem[o].value + 1 \in Nat
      BY <1>5, <1>8, <2>1, <2>2 DEF Finish, Release, o
    <3>2. sem' \in [Objects -> Sems]
      BY <1>0, <2>1, <3>1 DEF Sems
    <3> QED BY <1>2, <1>3, <1>6, <1>8, <2>2, <3>2 DEF Finish, Release, o
  <2>3. CASE sem[o].queue # <<>>
    <3>0. sem' = [sem EXCEPT ![o].queue = Tail(sem[o].queue)]
      BY <1>8, <2>3 DEF Finish, Release, o
    <3>1. Tail(sem[o].queue) \in Seq(Calls) /\ Head(sem[o].queue) \in Calls
      <4> DEFINE q == sem[o].queue
      <4>1. q \in Seq(Calls) /\ q # <<>>
        BY <1>5, <2>1, <2>3
      <4> HIDE DEF q
      <4>2. Tail(q) \in Seq(Calls) /\ Head(q) \in Calls
        BY <4>1
      <4> QED BY <4>2 DEF q
    <3>2. sem' \in [Objects -> Sems]
      BY <1>0, <2>1, <3>0, <3>1 DEF Sems
    <3> DEFINE h == Head(sem[o].queue)
    <3>3. call' = [call EXCEPT ![k].pc = "done", ![h].pc = "executing"]
      BY <1>8, <2>3 DEF Finish, Release, o
    <3>4. h \in Calls /\ call[h].pc # "new"
      <4>1. sem[o].queue[1] = h /\ 1 \in 1..Len(sem[o].queue)
        BY <1>5, <2>1, <2>3
      <4>2. call[sem[o].queue[1]] = [pc |-> "waiting", object |-> o]
        BY <2>1, <4>1 DEF QueuesExact
      <4>3. h \in Calls
        BY <3>1
      <4> HIDE DEF h
      <4> QED BY <4>1, <4>2, <4>3
    <3> HIDE DEF h
    <3>5. /\ call' \in [Calls -> States]
          /\ \A c \in Calls : call'[c].pc # "new" => call'[c].object # None
      <4>1. call[k].pc # "new"
        BY <1>8 DEF Finish
      <4> QED BY <1>0, <1>6, <3>3, <3>4, <4>1 DEF States
    <3> QED BY <1>3, <1>8, <3>2, <3>5 DEF Finish
  <2> QED BY <2>2, <2>3
<1>9. CASE CancelWaiting(k)
  <2>1. o \in Objects
    BY <1>0, <1>9 DEF CancelWaiting, o
  <2>2. sem' = [sem EXCEPT ![o].queue = RemoveFirst(sem[o].queue, k)]
        /\ RemoveFirst(sem[o].queue, k) \in Seq(Calls)
    BY <1>5, <1>9, <2>1, RemoveFirstElements DEF CancelWaiting, o
  <2>3. sem' \in [Objects -> Sems]
    BY <1>0, <2>1, <2>2 DEF Sems
  <2> QED BY <1>2, <1>3, <1>6, <1>9, <2>3 DEF CancelWaiting
<1>10. ASSUME NEW n \in Names, Fetch(k, n)
       PROVE  TypeOK'
  BY <1>10 DEF TypeOK, Fetch, registry, history
<1> QED BY <1>7, <1>8, <1>9, <1>10 DEF CallStep

LEMMA NextType == TypeOK /\ QueuesExact /\ [Next]_vars => TypeOK'
<1>1. CASE UNCHANGED vars
  BY <1>1 DEF TypeOK, vars, registry, history
<1>2. CASE Next
  BY <1>2, HookTypes, RemovalTypes, CallTypes DEF Next
<1> QED BY <1>1, <1>2

-----------------------------------------------------------------------------
(* The calls and the permits.                                              *)

\* The steps that touch neither a call nor a semaphore.
Elsewhere == \/ \E o \in Objects : HookEnds(o)
             \/ \E n \in Names : BeginDeregister(n)
             \/ BeginShutdown \/ ShutdownStep

LEMMA ElsewhereKeeps ==
  ASSUME Elsewhere
  PROVE  UNCHANGED <<sem, call, setups>>
<1>1. ASSUME NEW o \in Objects, HookEnds(o)
      PROVE  UNCHANGED <<sem, call, setups>>
  BY <1>1 DEF HookEnds, EndSetup, SetupFails, EndTeardown, TeardownFails, history
<1>2. ASSUME NEW n \in Names, BeginDeregister(n)
      PROVE  UNCHANGED <<sem, call, setups>>
  BY <1>2 DEF BeginDeregister
<1>3. CASE BeginShutdown
  BY <1>3 DEF BeginShutdown, history
<1>4. CASE ShutdownStep
  <2>1. ASSUME NEW n \in Names, ShutdownNext(n)
        PROVE  UNCHANGED <<sem, call, setups>>
    BY <2>1 DEF ShutdownNext
  <2>2. CASE ShutdownReturns
    BY <2>2 DEF ShutdownReturns, history
  <2> QED BY <1>4, <2>1, <2>2 DEF ShutdownStep
<1> QED BY <1>1, <1>2, <1>3, <1>4 DEF Elsewhere

LEMMA NextSplits ==
  ASSUME Next
  PROVE  \/ Elsewhere
         \/ \E o \in Objects : BeginRegister(o)
         \/ \E k \in Calls : Acquire(k) \/ Finish(k) \/ CancelWaiting(k) \/ \E n \in Names : Fetch(k, n)
BY DEF Next, Elsewhere, CallStep

LEMMA GotoSteps ==
  ASSUME TypeOK, NEW k \in Calls, NEW l, Goto(k, l)
  PROVE  /\ call'[k] = [pc |-> l, object |-> call[k].object]
         /\ \A c \in Calls : c # k => call'[c] = call[c]
<1>1. call[k] = [pc |-> call[k].pc, object |-> call[k].object]
  BY DEF TypeOK
<1>2. [call[k] EXCEPT !.pc = l] = [pc |-> l, object |-> call[k].object]
  BY <1>1
<1>3. call' = [call EXCEPT ![k] = [call[k] EXCEPT !.pc = l]]
  BY DEF Goto
<1> QED BY <1>2, <1>3 DEF TypeOK

LEMMA ValueSteps ==
  ASSUME TypeOK, NEW o \in Objects, NEW v, sem' = [sem EXCEPT ![o].value = v]
  PROVE  /\ sem'[o] = [value |-> v, queue |-> sem[o].queue]
         /\ \A p \in Objects : p # o => sem'[p] = sem[p]
<1>1. sem[o] = [value |-> sem[o].value, queue |-> sem[o].queue]
  BY DEF TypeOK
<1>2. [sem[o] EXCEPT !.value = v] = [value |-> v, queue |-> sem[o].queue]
  BY <1>1
<1>3. sem' = [sem EXCEPT ![o] = [sem[o] EXCEPT !.value = v]]
  OBVIOUS
<1> QED BY <1>2, <1>3 DEF TypeOK

LEMMA QueueSteps ==
  ASSUME TypeOK, NEW o \in Objects, NEW q, sem' = [sem EXCEPT ![o].queue = q]
  PROVE  /\ sem'[o] = [value |-> sem[o].value, queue |-> q]
         /\ \A p \in Objects : p # o => sem'[p] = sem[p]
<1>1. sem[o] = [value |-> sem[o].value, queue |-> sem[o].queue]
  BY DEF TypeOK
<1>2. [sem[o] EXCEPT !.queue = q] = [value |-> sem[o].value, queue |-> q]
  BY <1>1
<1>3. sem' = [sem EXCEPT ![o] = [sem[o] EXCEPT !.queue = q]]
  OBVIOUS
<1> QED BY <1>2, <1>3 DEF TypeOK

\* What the steps of a call do to the calls and to the semaphore of its object.
AcquireEffect(k, o) ==
  /\ o \in Objects /\ call[k] = [pc |-> "fetched", object |-> o]
  /\ \A c \in Calls : c # k => call'[c] = call[c]
  /\ \A p \in Objects : p # o => sem'[p] = sem[p]
  /\ \/ /\ sem[o].value > 0
        /\ call'[k] = [pc |-> "executing", object |-> o]
        /\ sem'[o] = [value |-> sem[o].value - 1, queue |-> sem[o].queue]
     \/ /\ sem[o].value = 0
        /\ call'[k] = [pc |-> "waiting", object |-> o]
        /\ sem'[o] = [value |-> 0, queue |-> Append(sem[o].queue, k)]

LEMMA AcquireSteps ==
  ASSUME TypeOK, NEW k \in Calls, Acquire(k), NEW o, o = call[k].object
  PROVE  AcquireEffect(k, o)
<1>1. o \in Objects /\ call[k].pc = "fetched" /\ sem[o].value \in Nat
  BY DEF TypeOK, Acquire
<1>2. call[k] = [pc |-> "fetched", object |-> o]
  BY <1>1 DEF TypeOK
<1>3. CASE sem[o].value > 0
  <2>1. Goto(k, "executing") /\ sem' = [sem EXCEPT ![o].value = sem[o].value - 1]
    BY <1>3 DEF Acquire
  <2> QED BY <1>1, <1>2, <1>3, <2>1, GotoSteps, ValueSteps DEF AcquireEffect
<1>4. CASE sem[o].value = 0
  <2>1. Goto(k, "waiting") /\ sem' = [sem EXCEPT ![o].queue = Append(sem[o].queue, k)]
    BY <1>4 DEF Acquire
  <2>2. /\ sem'[o] = [value |-> sem[o].value, queue |-> Append(sem[o].queue, k)]
        /\ \A p \in Objects : p # o => sem'[p] = sem[p]
    BY <1>1, <2>1, QueueSteps
  <2>3. /\ call'[k] = [pc |-> "waiting", object |-> o]
        /\ \A c \in Calls : c # k => call'[c] = call[c]
    BY <2>1, GotoSteps
  <2> QED BY <1>1, <1>2, <1>4, <2>2, <2>3 DEF AcquireEffect
<1> QED BY <1>1, <1>3, <1>4 DEF AcquireEffect

FinishEffect(k, o) ==
  /\ o \in Objects /\ call[k] = [pc |-> "executing", object |-> o]
  /\ \A p \in Objects : p # o => sem'[p] = sem[p]
  /\ call'[k] = [pc |-> "done", object |-> o]
  /\ \/ /\ sem[o].queue = <<>>
        /\ sem'[o] = [value |-> sem[o].value + 1, queue |-> <<>>]
        /\ \A c \in Calls : c # k => call'[c] = call[c]
     \/ /\ sem[o].queue # <<>>
        /\ sem'[o] = [value |-> sem[o].value, queue |-> Tail(sem[o].queue)]
        /\ sem[o].queue[1] \in Calls \ {k}
        /\ call[sem[o].queue[1]] = [pc |-> "waiting", object |-> o]
        /\ call'[sem[o].queue[1]] = [pc |-> "executing", object |-> o]
        /\ \A c \in Calls : c # k /\ c # sem[o].queue[1] => call'[c] = call[c]

LEMMA FinishSteps ==
  ASSUME TypeOK, QueuesExact, NEW k \in Calls, Finish(k), NEW o, o = call[k].object
  PROVE  FinishEffect(k, o)
<1>0. o \in Objects /\ call[k].pc = "executing" /\ sem[o] \in [value : Nat, queue : Seq(Calls)]
  BY DEF TypeOK, Finish
<1>1. call[k] = [pc |-> "executing", object |-> o]
  BY <1>0 DEF TypeOK
<1>2. CASE sem[o].queue = <<>>
  <2>1. Goto(k, "done") /\ sem' = [sem EXCEPT ![o].value = sem[o].value + 1]
    BY <1>2 DEF Finish, Release
  <2>2. /\ sem'[o] = [value |-> sem[o].value + 1, queue |-> sem[o].queue]
        /\ \A p \in Objects : p # o => sem'[p] = sem[p]
    BY <1>0, <2>1, ValueSteps
  <2>3. /\ call'[k] = [pc |-> "done", object |-> o]
        /\ \A c \in Calls : c # k => call'[c] = call[c]
    BY <2>1, GotoSteps
  <2> QED BY <1>0, <1>1, <1>2, <2>2, <2>3 DEF FinishEffect
<1>3. CASE sem[o].queue # <<>>
  <2> DEFINE h == Head(sem[o].queue)
  <2>1. h = sem[o].queue[1] /\ h \in Calls /\ 1 \in 1..Len(sem[o].queue)
    BY <1>0, <1>3
  <2>2. call[h] = [pc |-> "waiting", object |-> o]
    BY <1>0, <2>1 DEF QueuesExact
  <2>3. call' = [call EXCEPT ![k].pc = "done", ![h].pc = "executing"]
        /\ sem' = [sem EXCEPT ![o].queue = Tail(@)]
    BY <1>3 DEF Finish, Release
  <2> HIDE DEF h
  <2>4. h # k
    <3>1. call[h].pc = "waiting"
      BY <2>2
    <3> QED BY <1>0, <3>1
  <2>5. /\ call'[k] = [pc |-> "done", object |-> o]
        /\ call'[h] = [pc |-> "executing", object |-> o]
        /\ \A c \in Calls : c # k /\ c # h => call'[c] = call[c]
    <3>1. [call[k] EXCEPT !.pc = "done"] = [pc |-> "done", object |-> o]
          /\ [call[h] EXCEPT !.pc = "executing"] = [pc |-> "executing", object |-> o]
      BY <1>1, <2>2
    <3>2. call' = [call EXCEPT ![k] = [pc |-> "done", object |-> o],
                               ![h] = [pc |-> "executing", object |-> o]]
      BY <1>1, <2>2, <2>3, <2>4, <3>1
    <3> QED BY <2>1, <2>4, <3>2 DEF TypeOK
  <2>6. /\ \A p \in Objects : p # o => sem'[p] = sem[p]
        /\ sem'[o] = [value |-> sem[o].value, queue |-> Tail(sem[o].queue)]
    BY <1>0, <2>3, QueueSteps
  <2> QED BY <1>0, <1>1, <1>3, <2>1, <2>2, <2>4, <2>5, <2>6 DEF FinishEffect
<1> QED BY <1>2, <1>3 DEF FinishEffect

CancelEffect(k, o) ==
  /\ o \in Objects /\ call[k].pc \in {"fetched", "waiting"}
  /\ call'[k] = [pc |-> "done", object |-> o]
  /\ \A c \in Calls : c # k => call'[c] = call[c]
  /\ \A p \in Objects : p # o => sem'[p] = sem[p]
  /\ sem'[o] = [value |-> sem[o].value, queue |-> RemoveFirst(sem[o].queue, k)]

LEMMA CancelSteps ==
  ASSUME TypeOK, NEW k \in Calls, CancelWaiting(k), NEW o, o = call[k].object
  PROVE  CancelEffect(k, o)
<1>1. o \in Objects /\ call[k].pc \in {"fetched", "waiting"}
      /\ sem[o] \in [value : Nat, queue : Seq(Calls)]
  BY DEF TypeOK, CancelWaiting
<1>2. sem' = [sem EXCEPT ![o].queue = RemoveFirst(sem[o].queue, k)]
  BY DEF CancelWaiting
<1>3. /\ sem'[o] = [value |-> sem[o].value, queue |-> RemoveFirst(sem[o].queue, k)]
      /\ \A p \in Objects : p # o => sem'[p] = sem[p]
  BY <1>1, <1>2, QueueSteps
<1>4. /\ call'[k] = [pc |-> "done", object |-> o]
      /\ \A c \in Calls : c # k => call'[c] = call[c]
  BY GotoSteps DEF CancelWaiting
<1> QED BY <1>1, <1>3, <1>4 DEF CancelEffect

\* Who is in a queue waits, so a step of a call that neither waits nor is
\* woken leaves the queues as they are.
LEMMA QueuesUndisturbed ==
  ASSUME TypeOK, QueuesExact, NEW k \in Calls, call[k].pc # "waiting",
         \A c \in Calls : c # k => call'[c] = call[c],
         NEW p \in Objects, sem'[p].queue = sem[p].queue
  PROVE  /\ \A i \in 1..Len(sem'[p].queue) : call'[sem'[p].queue[i]] = [pc |-> "waiting", object |-> p]
         /\ \A i, j \in 1..Len(sem'[p].queue) : sem'[p].queue[i] = sem'[p].queue[j] => i = j
<1> DEFINE q == sem[p].queue
<1>1. /\ \A i \in 1..Len(q) : q[i] \in Calls /\ call[q[i]] = [pc |-> "waiting", object |-> p]
      /\ \A i, j \in 1..Len(q) : q[i] = q[j] => i = j
  BY DEF TypeOK, QueuesExact
<1>2. ASSUME NEW i \in 1..Len(q)
      PROVE  q[i] # k
  <2>1. call[q[i]].pc = "waiting"
    BY <1>1
  <2> QED BY <2>1
<1> QED BY <1>1, <1>2

LEMMA NextQueues ==
  ASSUME TypeOK, QueuesExact, [Next]_vars
  PROVE  QueuesExact'
<1> DEFINE Exact(p) ==
      /\ \A i \in 1..Len(sem[p].queue) : call[sem[p].queue[i]] = [pc |-> "waiting", object |-> p]
      /\ \A i, j \in 1..Len(sem[p].queue) : sem[p].queue[i] = sem[p].queue[j] => i = j
<1> SUFFICES ASSUME NEW p \in Objects PROVE Exact(p)'
  BY DEF QueuesExact
<1>0. Exact(p) /\ sem[p].queue \in Seq(Calls)
  BY DEF QueuesExact, TypeOK
<1>1. CASE UNCHANGED <<sem, call>>
  BY <1>0, <1>1
<1>2. ASSUME NEW o \in Objects, BeginRegister(o)
      PROVE  Exact(p)'
  <2>1. CASE p = o
    BY <1>2, <2>1 DEF BeginRegister, TypeOK
  <2>2. CASE p # o
    <3>1. sem'[p] = sem[p] /\ call' = call
      BY <1>2, <2>2 DEF BeginRegister, TypeOK
    <3> QED BY <1>0, <3>1
  <2> QED BY <2>1, <2>2
<1>3. ASSUME NEW k \in Calls, Acquire(k)
      PROVE  Exact(p)'
  <2> DEFINE o == call[k].object
  <2>0. /\ o \in Objects /\ call[k] = [pc |-> "fetched", object |-> o]
        /\ \A c \in Calls : c # k => call'[c] = call[c]
        /\ \A r \in Objects : r # o => sem'[r] = sem[r]
        /\ \/ /\ sem[o].value > 0
              /\ call'[k] = [pc |-> "executing", object |-> o]
              /\ sem'[o] = [value |-> sem[o].value - 1, queue |-> sem[o].queue]
           \/ /\ sem[o].value = 0
              /\ call'[k] = [pc |-> "waiting", object |-> o]
              /\ sem'[o] = [value |-> 0, queue |-> Append(sem[o].queue, k)]
    BY <1>3, AcquireSteps DEF AcquireEffect
  <2>1. call[k].pc # "waiting"
    BY <1>3 DEF Acquire
  <2> HIDE DEF o
  <2>2. CASE sem'[p].queue = sem[p].queue
    BY <2>0, <2>1, <2>2, QueuesUndisturbed
  <2>3. CASE p = o /\ sem'[o] = [value |-> 0, queue |-> Append(sem[o].queue, k)]
             /\ call'[k] = [pc |-> "waiting", object |-> o]
    <3> DEFINE q == sem[p].queue
               r == sem'[p].queue
    <3>1. r = Append(q, k)
      BY <2>3
    <3>2. q \in Seq(Calls) /\ Len(q) \in Nat
      BY <1>0
    <3> HIDE DEF q, r
    <3>3. Len(r) = Len(q) + 1 /\ r[Len(q) + 1] = k /\ \A i \in 1..Len(q) : r[i] = q[i]
      BY <3>1, <3>2
    <3>4. ASSUME NEW i \in 1..Len(q)
          PROVE  q[i] \in Calls /\ q[i] # k /\ call[q[i]] = [pc |-> "waiting", object |-> p]
      <4>1. q[i] \in Calls /\ call[q[i]] = [pc |-> "waiting", object |-> p]
        BY <1>0, <3>2 DEF q
      <4>2. call[q[i]].pc = "waiting"
        BY <4>1
      <4> QED BY <2>1, <4>1, <4>2
    <3>5. \A i \in 1..Len(r) : call'[r[i]] = [pc |-> "waiting", object |-> p]
      <4> SUFFICES ASSUME NEW i \in 1..Len(r)
                   PROVE  call'[r[i]] = [pc |-> "waiting", object |-> p]
        OBVIOUS
      <4>1. CASE i = Len(q) + 1
        BY <2>3, <3>3, <4>1
      <4>2. CASE i \in 1..Len(q)
        <5>1. r[i] = q[i] /\ q[i] \in Calls /\ q[i] # k
          BY <3>3, <3>4, <4>2
        <5>2. call'[r[i]] = call[q[i]]
          BY <2>0, <5>1
        <5> QED BY <3>4, <4>2, <5>2
      <4> QED BY <3>2, <3>3, <4>1, <4>2
    <3>6. \A i, j \in 1..Len(q) : q[i] = q[j] => i = j
      BY <1>0 DEF q
    <3>7. \A i, j \in 1..Len(r) : r[i] = r[j] => i = j
      BY <3>2, <3>3, <3>4, <3>6
    <3> QED BY <3>5, <3>7 DEF r
  <2>4. p = o => \/ sem'[p] = [value |-> sem[o].value - 1, queue |-> sem[p].queue]
                 \/ /\ sem'[o] = [value |-> 0, queue |-> Append(sem[o].queue, k)]
                    /\ call'[k] = [pc |-> "waiting", object |-> o]
    BY <2>0
  <2>5. p # o => sem'[p] = sem[p]
    BY <2>0
  <2> QED BY <2>2, <2>3, <2>4, <2>5
<1>4. ASSUME NEW k \in Calls, Finish(k)
      PROVE  Exact(p)'
  <2> DEFINE o == call[k].object
             h == sem[o].queue[1]
  <2>0. /\ o \in Objects /\ call[k] = [pc |-> "executing", object |-> o]
        /\ \A r \in Objects : r # o => sem'[r] = sem[r]
        /\ call'[k] = [pc |-> "done", object |-> o]
        /\ \/ /\ sem[o].queue = <<>>
              /\ sem'[o] = [value |-> sem[o].value + 1, queue |-> <<>>]
              /\ \A c \in Calls : c # k => call'[c] = call[c]
           \/ /\ sem[o].queue # <<>>
              /\ sem'[o] = [value |-> sem[o].value, queue |-> Tail(sem[o].queue)]
              /\ h \in Calls \ {k}
              /\ call[h] = [pc |-> "waiting", object |-> o]
              /\ call'[h] = [pc |-> "executing", object |-> o]
              /\ \A c \in Calls : c # k /\ c # h => call'[c] = call[c]
    <3>1. FinishEffect(k, o)
      BY <1>4, FinishSteps
    <3> HIDE DEF o
    <3> QED BY <3>1 DEF FinishEffect
  <2>1. call[k].pc # "waiting"
    BY <1>4 DEF Finish
  <2> HIDE DEF o
  <2>2. CASE /\ sem[o].queue = <<>>
             /\ sem'[o] = [value |-> sem[o].value + 1, queue |-> <<>>]
             /\ \A c \in Calls : c # k => call'[c] = call[c]
    <3>1. sem'[p].queue = sem[p].queue
      BY <2>0, <2>2
    <3> QED BY <2>1, <2>2, <3>1, QueuesUndisturbed
  <2>3. CASE /\ sem[o].queue # <<>>
             /\ sem'[o] = [value |-> sem[o].value, queue |-> Tail(sem[o].queue)]
             /\ call[h] = [pc |-> "waiting", object |-> o]
             /\ \A c \in Calls : c # k /\ c # h => call'[c] = call[c]
    <3> DEFINE q == sem[p].queue
               r == sem'[p].queue
    <3>2. q \in Seq(Calls) /\ Len(q) \in Nat
      BY <1>0
    <3>4. ASSUME NEW i \in 1..Len(q)
          PROVE  q[i] \in Calls /\ q[i] # k /\ call[q[i]] = [pc |-> "waiting", object |-> p]
      <4>1. q[i] \in Calls /\ call[q[i]] = [pc |-> "waiting", object |-> p]
        BY <1>0, <3>2 DEF q
      <4>2. call[q[i]].pc = "waiting"
        BY <4>1
      <4> QED BY <2>1, <4>1, <4>2
    <3>6. \A i, j \in 1..Len(q) : q[i] = q[j] => i = j
      BY <1>0 DEF q
    <3>7. CASE p = o
      <4>0. sem'[p] = [value |-> sem[p].value, queue |-> Tail(sem[p].queue)] /\ sem[p].queue # <<>>
        BY <2>3, <3>7
      <4>1. r = Tail(q) /\ q # <<>> /\ h = q[1]
        BY <3>7, <4>0
      <4> HIDE DEF q, r, h
      <4>2. Len(r) = Len(q) - 1 /\ Len(q) >= 1 /\ \A i \in 1..Len(q) - 1 : r[i] = q[i + 1]
        BY <3>2, <4>1
      <4>3. \A i \in 1..Len(r) : i + 1 \in 1..Len(q) /\ i + 1 # 1 /\ 1 \in 1..Len(q)
        BY <3>2, <4>2
      <4>4. \A i \in 1..Len(r) : r[i] = q[i + 1]
        BY <4>2
      <4>5. \A i \in 1..Len(r) : r[i] # h
        BY <3>6, <4>1, <4>3, <4>4
      <4>6. ASSUME NEW i \in 1..Len(r)
            PROVE  call'[r[i]] = [pc |-> "waiting", object |-> p]
        <5>1. i + 1 \in 1..Len(q) /\ r[i] = q[i + 1] /\ r[i] # h
          BY <4>3, <4>4, <4>5
        <5>2. r[i] \in Calls /\ r[i] # k /\ call[r[i]] = [pc |-> "waiting", object |-> p]
          BY <5>1, <3>4
        <5>3. call'[r[i]] = call[r[i]]
          BY <2>3, <5>1, <5>2
        <5> QED BY <5>2, <5>3
      <4>7. \A i, j \in 1..Len(r) : r[i] = r[j] => i = j
        <5> SUFFICES ASSUME NEW i \in 1..Len(r), NEW j \in 1..Len(r), r[i] = r[j] PROVE i = j
          OBVIOUS
        <5>1. i + 1 = j + 1
          BY <3>6, <4>3, <4>4
        <5> QED BY <5>1
      <4> QED BY <4>6, <4>7 DEF r
    <3>8. CASE p # o
      <4>1. r = q
        BY <2>0, <3>8
      <4>2. ASSUME NEW i \in 1..Len(q)
            PROVE  q[i] # h
        <5>1. call[q[i]].object = p /\ call[h].object = o
          BY <2>3, <3>4
        <5> QED BY <3>8, <5>1
      <4> HIDE DEF h
      <4>3. \A i \in 1..Len(q) : call'[q[i]] = [pc |-> "waiting", object |-> p]
        BY <2>3, <3>4, <4>2
      <4> QED BY <3>6, <4>1, <4>3
    <3> QED BY <3>7, <3>8
  <2> QED BY <2>0, <2>2, <2>3
<1>5. ASSUME NEW k \in Calls, CancelWaiting(k)
      PROVE  Exact(p)'
  <2> DEFINE o == call[k].object
             q == sem[p].queue
             r == sem'[p].queue
  <2>0. /\ o \in Objects /\ call[k].pc \in {"fetched", "waiting"}
        /\ call'[k] = [pc |-> "done", object |-> o]
        /\ \A c \in Calls : c # k => call'[c] = call[c]
        /\ \A x \in Objects : x # o => sem'[x] = sem[x]
        /\ sem'[o] = [value |-> sem[o].value, queue |-> RemoveFirst(sem[o].queue, k)]
    BY <1>5, CancelSteps DEF CancelEffect
  <2>1. q \in Seq(Calls) /\ Len(q) \in Nat
    BY <1>0
  <2>2. \A i \in 1..Len(q) : q[i] \in Calls /\ call[q[i]] = [pc |-> "waiting", object |-> p]
    BY <1>0, <2>1
  <2>3. \A i, j \in 1..Len(q) : q[i] = q[j] => i = j
    BY <1>0
  <2>4. CASE p = o
    <3>1. r = RemoveFirst(q, k)
      BY <2>0, <2>4
    <3> HIDE DEF q, r
    <3>0. q \in Seq(Calls)
      BY <2>1
    <3>2. Keeps(q, k, r)
      BY <3>0, <3>1, RemoveFirstKeeps
    <3>3. \A i \in 1..Len(r) : r[i] # k
      BY <2>3, <3>2 DEF Keeps
    <3>4. \A i \in 1..Len(r) : call'[r[i]] = [pc |-> "waiting", object |-> p]
      BY <2>0, <2>2, <3>2, <3>3 DEF Keeps
    <3>5. ASSUME NEW i \in 1..Len(r), NEW j \in 1..Len(r), r[i] = r[j]
          PROVE  i = j
      <4> DEFINE d == r[j]
      <4>1. \A x, y \in 1..Len(q) : q[x] = d /\ q[y] = d => x = y
        BY <2>3 DEF q
      <4>2. r[i] = d /\ r[j] = d
        BY <3>5
      <4> HIDE DEF d
      <4> QED BY <3>2, <4>1, <4>2 DEF Keeps
    <3> QED BY <3>4, <3>5 DEF r
  <2>5. CASE p # o
    <3>1. r = q
      BY <2>0, <2>5
    <3>2. ASSUME NEW i \in 1..Len(q)
          PROVE  q[i] # k
      <4>1. call[q[i]].object = p
        BY <2>2
      <4> QED BY <2>5, <4>1
    <3>3. \A i \in 1..Len(q) : call'[q[i]] = [pc |-> "waiting", object |-> p]
      BY <2>0, <2>2, <3>2
    <3> QED BY <2>3, <3>1, <3>3
  <2> QED BY <2>4, <2>5
<1>6. ASSUME NEW k \in Calls, NEW n \in Names, Fetch(k, n)
      PROVE  Exact(p)'
  <2>1. call[k].pc # "waiting" /\ sem' = sem /\ \A c \in Calls : c # k => call'[c] = call[c]
    BY <1>6 DEF Fetch, TypeOK
  <2> QED BY <2>1, QueuesUndisturbed
<1>7. CASE Next
  <2>1. Elsewhere => UNCHANGED <<sem, call>>
    BY ElsewhereKeeps
  <2> HIDE DEF Exact
  <2> QED BY <1>1, <1>2, <1>3, <1>4, <1>5, <1>6, <1>7, <2>1, NextSplits
<1>8. CASE UNCHANGED vars
  BY <1>1, <1>8 DEF vars
<1> QED BY <1>7, <1>8

\* Cardinality speaks of finite sets only: with Calls infinite, the permits
\* keep the calls of one object finite.
ExecutingFinite == \A o \in Objects : IsFiniteSet(Executing(o))

Permits(o) ==
  /\ IsFiniteSet(Executing(o))
  /\ sem[o].value + Cardinality(Executing(o)) <= Limit[o] * setups[o]
  /\ setups[o] > 0 => sem[o].value + Cardinality(Executing(o)) >= Limit[o]
  /\ sem[o].queue # <<>> => sem[o].value = 0

\* One call more, one less, and one that takes another's place.
LEMMA OneMore ==
  ASSUME NEW S, IsFiniteSet(S), NEW x, x \notin S
  PROVE  IsFiniteSet(S \cup {x}) /\ Cardinality(S \cup {x}) = Cardinality(S) + 1
BY FS_AddElement

LEMMA OneLess ==
  ASSUME NEW S, IsFiniteSet(S), NEW x \in S
  PROVE  IsFiniteSet(S \ {x}) /\ Cardinality(S \ {x}) = Cardinality(S) - 1
BY FS_RemoveElement

LEMMA OneForAnother ==
  ASSUME NEW S, IsFiniteSet(S), NEW x \in S, NEW y, y \notin S
  PROVE  /\ IsFiniteSet((S \ {x}) \cup {y})
         /\ Cardinality((S \ {x}) \cup {y}) = Cardinality(S)
<1> DEFINE T == S \ {x}
<1>1. IsFiniteSet(T) /\ Cardinality(T) = Cardinality(S) - 1
  BY OneLess
<1>2. y \notin T
  OBVIOUS
<1> HIDE DEF T
<1>3. IsFiniteSet(T \cup {y}) /\ Cardinality(T \cup {y}) = Cardinality(T) + 1
  BY <1>1, <1>2, OneMore
<1>4. Cardinality(S) \in Nat
  BY FS_CardinalityType
<1>5. Cardinality(T \cup {y}) = Cardinality(S)
  BY <1>1, <1>3, <1>4
<1> QED BY <1>3, <1>5 DEF T

\* A step keeps the permits of p when the free ones and the calls that hold one
\* are together as many as before, and nobody waits for a free one.
LEMMA PermitsKept ==
  ASSUME NEW p \in Objects, Permits(p), setups'[p] = setups[p],
         IsFiniteSet(Executing(p)'),
         sem'[p].value + Cardinality(Executing(p)') = sem[p].value + Cardinality(Executing(p)),
         sem'[p].queue # <<>> => sem'[p].value = 0
  PROVE  Permits(p)'
BY DEF Permits

\* A new semaphore adds its permits to those that the calls hold already.
LEMMA PermitsRenewed ==
  ASSUME NEW l \in Nat, NEW s \in Nat, NEW v \in Nat, NEW e \in Nat, v + e <= l * s
  PROVE  l + e <= l * (s + 1) /\ l + e >= l
<1>1. l * s \in Nat /\ l * (s + 1) = l * s + l
  OBVIOUS
<1> DEFINE m == l * s
<1> HIDE DEF m
<1>2. v + e <= m /\ m \in Nat /\ l * (s + 1) = m + l
  BY <1>1 DEF m
<1>3. l + e <= m + l /\ l + e >= l
  BY <1>2
<1> QED BY <1>2, <1>3

LEMMA NextPermits ==
  ASSUME TypeOK, QueuesExact, ExecutingFinite, PermitsConserved, [Next]_vars
  PROVE  ExecutingFinite' /\ PermitsConserved'
<1> SUFFICES ASSUME NEW p \in Objects
             PROVE  Permits(p)'
  BY DEF ExecutingFinite, PermitsConserved, Permits
<1> DEFINE E == Executing(p)
<1>0. /\ sem[p].value \in Nat /\ sem[p].queue \in Seq(Calls)
      /\ Limit[p] \in Nat /\ setups[p] \in Nat
  BY ConstantsAssumption DEF TypeOK
<1>a. /\ \A c \in Calls : c \in E <=> call[c] = [pc |-> "executing", object |-> p]
      /\ \A c \in Calls : c \in E' <=> call'[c] = [pc |-> "executing", object |-> p]
      /\ E \subseteq Calls /\ E' \subseteq Calls
  BY DEF Executing
<1>b. Permits(p)
  BY DEF ExecutingFinite, PermitsConserved, Permits
<1>c. IsFiniteSet(E)
  BY <1>b DEF Permits
<1>d. Cardinality(E) \in Nat
  BY <1>c, FS_CardinalityType
<1>e. sem[p].queue # <<>> => sem[p].value = 0
  BY <1>b DEF Permits
\* What is kept when neither the semaphore nor the set changes.
<1>2. ASSUME setups'[p] = setups[p], sem'[p] = sem[p], E' = E
      PROVE  Permits(p)'
  BY <1>b, <1>2 DEF Permits
\* The set and the free permits change together.
<1>f. ASSUME setups'[p] = setups[p], IsFiniteSet(E'),
             sem'[p].value + Cardinality(E') = sem[p].value + Cardinality(E),
             sem'[p].queue # <<>> => sem'[p].value = 0
      PROVE  Permits(p)'
  BY <1>b, <1>f, PermitsKept
<1>3. ASSUME NEW o \in Objects, BeginRegister(o)
      PROVE  Permits(p)'
  <2>1. CASE p = o
    <3>1. call' = call /\ sem'[p] = [value |-> Limit[p], queue |-> <<>>]
          /\ setups'[p] = setups[p] + 1
      BY <1>3, <2>1 DEF BeginRegister, TypeOK
    <3>2. E' = E
      BY <3>1 DEF Executing
    <3> HIDE DEF E
    <3>3. sem[p].value + Cardinality(E) <= Limit[p] * setups[p]
      BY <1>b DEF Permits, E
    <3>4. /\ Limit[p] + Cardinality(E) <= Limit[p] * (setups[p] + 1)
          /\ Limit[p] + Cardinality(E) >= Limit[p]
      BY <1>0, <1>d, <3>3, PermitsRenewed
    <3>5. sem'[p].value = Limit[p] /\ sem'[p].queue = <<>>
      BY <3>1
    <3> QED BY <1>c, <3>1, <3>2, <3>4, <3>5 DEF Permits, E
  <2>2. CASE p # o
    <3>1. setups'[p] = setups[p] /\ sem'[p] = sem[p] /\ call' = call
      BY <1>3, <2>2 DEF BeginRegister, TypeOK
    <3> QED BY <1>2, <3>1 DEF Executing
  <2> QED BY <2>1, <2>2
<1>4. ASSUME NEW k \in Calls, Acquire(k)
      PROVE  Permits(p)'
  <2> DEFINE o == call[k].object
  <2>0. AcquireEffect(k, o)
    BY <1>4, AcquireSteps
  <2>s. setups' = setups
    BY <1>4 DEF Acquire, history
  <2> HIDE DEF o, E
  <2>1. call[k] = [pc |-> "fetched", object |-> o] /\ o \in Objects
        /\ \A c \in Calls : c # k => (c \in E' <=> c \in E)
    BY <1>a, <2>0 DEF AcquireEffect
  <2>2. k \notin E
    <3>1. call[k].pc = "fetched"
      BY <2>1
    <3> QED BY <1>a, <3>1
  <2>3. CASE p # o
    <3>1. call'[k].object = o
      BY <2>0 DEF AcquireEffect
    <3>2. k \notin E'
      BY <1>a, <2>3, <3>1
    <3>3. E' = E
      BY <1>a, <2>1, <2>2, <3>2
    <3>4. sem'[p] = sem[p]
      BY <2>0, <2>3 DEF AcquireEffect
    <3> QED BY <1>2, <2>s, <3>3, <3>4
  <2>4. CASE /\ p = o /\ sem[o].value > 0
             /\ call'[k] = [pc |-> "executing", object |-> o]
             /\ sem'[o] = [value |-> sem[o].value - 1, queue |-> sem[o].queue]
    <3>1. E' = E \cup {k}
      BY <1>a, <2>1, <2>4
    <3>2. IsFiniteSet(E') /\ Cardinality(E') = Cardinality(E) + 1
      BY <1>c, <2>2, <3>1, OneMore
    <3>3. sem'[p].value = sem[p].value - 1 /\ sem'[p].queue = <<>>
      <4>1. sem'[p].value = sem[p].value - 1 /\ sem'[p].queue = sem[p].queue
        BY <2>4
      <4>2. sem[p].queue = <<>>
        BY <1>0, <1>e, <2>4
      <4> QED BY <4>1, <4>2
    <3>4. sem'[p].value + Cardinality(E') = sem[p].value + Cardinality(E)
      BY <1>0, <1>d, <3>2, <3>3
    <3> QED BY <1>f, <2>s, <3>2, <3>3, <3>4
  <2>5. CASE /\ p = o /\ sem[o].value = 0
             /\ call'[k] = [pc |-> "waiting", object |-> o]
             /\ sem'[o] = [value |-> 0, queue |-> Append(sem[o].queue, k)]
    <3>1. call'[k].pc = "waiting"
      BY <2>5
    <3>2. k \notin E'
      BY <1>a, <3>1
    <3>3. E' = E
      BY <1>a, <2>1, <2>2, <3>2
    <3>4. sem'[p].value = 0 /\ sem[p].value = 0
      BY <2>5
    <3>5. sem'[p].value + Cardinality(E') = sem[p].value + Cardinality(E) /\ IsFiniteSet(E')
      BY <1>c, <3>3, <3>4
    <3> QED BY <1>f, <2>s, <3>4, <3>5
  <2> QED BY <2>0, <2>3, <2>4, <2>5 DEF AcquireEffect
<1>5. ASSUME NEW k \in Calls, Finish(k)
      PROVE  Permits(p)'
  <2> DEFINE o == call[k].object
             h == sem[o].queue[1]
  <2>0. FinishEffect(k, o)
    BY <1>5, FinishSteps
  <2>s. setups' = setups
    BY <1>5 DEF Finish, history
  <2>1. /\ o \in Objects /\ call[k] = [pc |-> "executing", object |-> o]
        /\ call'[k] = [pc |-> "done", object |-> o]
        /\ \A r \in Objects : r # o => sem'[r] = sem[r]
    BY <2>0 DEF FinishEffect
  <2> HIDE DEF o, E
  <2>2. k \notin E'
    <3>1. call'[k].pc = "done"
      BY <2>1
    <3> QED BY <1>a, <3>1
  <2>3. k \in E <=> p = o
    <3>1. call[k].object = o
      BY <2>1
    <3> QED BY <1>a, <2>1, <3>1
  <2>4. CASE /\ sem[o].queue = <<>>
             /\ sem'[o] = [value |-> sem[o].value + 1, queue |-> <<>>]
             /\ \A c \in Calls : c # k => call'[c] = call[c]
    <3>1. E' = E \ {k}
      BY <1>a, <2>2, <2>4
    <3>2. CASE p # o
      <4>1. E' = E
        BY <2>3, <3>1, <3>2
      <4>2. sem'[p] = sem[p]
        BY <2>1, <3>2
      <4> QED BY <1>2, <2>s, <4>1, <4>2
    <3>3. CASE p = o
      <4>1. IsFiniteSet(E') /\ Cardinality(E') = Cardinality(E) - 1
        BY <1>c, <2>3, <3>1, <3>3, OneLess
      <4>2. sem'[p].value = sem[p].value + 1 /\ sem'[p].queue = <<>>
        BY <2>4, <3>3
      <4>3. sem'[p].value + Cardinality(E') = sem[p].value + Cardinality(E)
        BY <1>0, <1>d, <4>1, <4>2
      <4> QED BY <1>f, <2>s, <4>1, <4>2, <4>3
    <3> QED BY <3>2, <3>3
  <2>5. CASE /\ sem[o].queue # <<>>
             /\ sem'[o] = [value |-> sem[o].value, queue |-> Tail(sem[o].queue)]
             /\ h \in Calls \ {k}
             /\ call[h] = [pc |-> "waiting", object |-> o]
             /\ call'[h] = [pc |-> "executing", object |-> o]
             /\ \A c \in Calls : c # k /\ c # h => call'[c] = call[c]
    <3> HIDE DEF h
    <3>1. h \notin E
      <4>1. call[h].pc = "waiting"
        BY <2>5
      <4> QED BY <1>a, <4>1
    <3>2. h \in E' <=> p = o
      <4>1. call'[h].object = o
        BY <2>5
      <4> QED BY <1>a, <2>5, <4>1
    <3>c. \A c \in Calls : c # k /\ c # h => (c \in E' <=> c \in E)
      BY <1>a, <2>5
    <3>3. CASE p # o
      <4>1. E' = E
        BY <1>a, <2>2, <2>3, <3>1, <3>2, <3>3, <3>c
      <4>2. sem'[p] = sem[p]
        BY <2>1, <3>3
      <4> QED BY <1>2, <2>s, <4>1, <4>2
    <3>4. CASE p = o
      <4>1. E' = (E \ {k}) \cup {h}
        BY <1>a, <2>2, <2>5, <3>2, <3>4, <3>c
      <4>2. k \in E
        BY <2>3, <3>4
      <4>3. IsFiniteSet(E') /\ Cardinality(E') = Cardinality(E)
        BY <1>c, <3>1, <4>1, <4>2, OneForAnother
      <4>4. sem'[p].value = sem[p].value
        BY <2>5, <3>4
      <4>5. sem[p].value = 0
        BY <1>e, <2>5, <3>4
      <4>6. sem'[p].value + Cardinality(E') = sem[p].value + Cardinality(E)
        BY <4>3, <4>4
      <4> QED BY <1>f, <2>s, <4>3, <4>4, <4>5, <4>6
    <3> QED BY <3>3, <3>4
  <2> QED BY <2>0, <2>4, <2>5 DEF FinishEffect
<1>6. ASSUME NEW k \in Calls, CancelWaiting(k)
      PROVE  Permits(p)'
  <2> DEFINE o == call[k].object
  <2>0. CancelEffect(k, o)
    BY <1>6, CancelSteps
  <2>s. setups' = setups
    BY <1>6 DEF CancelWaiting, history
  <2> HIDE DEF o, E
  <2>1. k \notin E /\ k \notin E'
    <3>1. call[k].pc # "executing" /\ call'[k].pc = "done"
      BY <2>0 DEF CancelEffect
    <3> QED BY <1>a, <3>1
  <2>2. E' = E
    <3>1. \A c \in Calls : c # k => call'[c] = call[c]
      BY <2>0 DEF CancelEffect
    <3> QED BY <1>a, <2>1, <3>1
  <2>3. CASE p # o
    <3>1. sem'[p] = sem[p]
      BY <2>0, <2>3 DEF CancelEffect
    <3> QED BY <1>2, <2>s, <2>2, <3>1
  <2>4. CASE p = o
    <3>1. sem'[p] = [value |-> sem[p].value, queue |-> RemoveFirst(sem[p].queue, k)]
      BY <2>0, <2>4 DEF CancelEffect
    <3> DEFINE q == sem[p].queue
               r == RemoveFirst(q, k)
    <3>2. q \in Seq(Calls) /\ r \in Seq(Calls) /\ Keeps(q, k, r)
      BY <1>0, RemoveFirstKeeps
    <3>3. sem'[p].value = sem[p].value /\ sem'[p].queue = r
      BY <3>1
    <3>e. q # <<>> => sem[p].value = 0
      BY <1>e
    <3> HIDE DEF q, r
    <3>4. r # <<>> => q # <<>>
      <4> SUFFICES ASSUME r # <<>>, q = <<>> PROVE FALSE
        OBVIOUS
      <4>1. 1 \in 1..Len(r) /\ Len(q) = 0
        BY <3>2
      <4> QED BY <3>2, <4>1 DEF Keeps
    <3>5. sem'[p].queue # <<>> => sem'[p].value = 0
      BY <3>3, <3>4, <3>e
    <3>6. IsFiniteSet(E')
      BY <1>c, <2>2
    <3>7. sem'[p].value + Cardinality(E') = sem[p].value + Cardinality(E)
      BY <2>2, <3>3
    <3> QED BY <1>f, <2>s, <3>5, <3>6, <3>7
  <2> QED BY <2>3, <2>4
<1>7. ASSUME NEW k \in Calls, NEW n \in Names, Fetch(k, n)
      PROVE  Permits(p)'
  <2>1. \A c \in Calls : c # k => call'[c] = call[c]
    BY <1>7 DEF Fetch, TypeOK
  <2>2. call[k].pc = "new" /\ call'[k].pc = "fetched"
    BY <1>7 DEF Fetch, TypeOK
  <2>3. E' = E
    <3> HIDE DEF E
    <3>1. k \notin E /\ k \notin E'
      BY <1>a, <2>2
    <3> QED BY <1>a, <2>1, <3>1
  <2>4. sem' = sem /\ setups' = setups
    BY <1>7 DEF Fetch, history
  <2> QED BY <1>2, <2>3, <2>4
<1>8. CASE UNCHANGED <<sem, call, setups>>
  BY <1>2, <1>8 DEF Executing
<1>9. CASE Next
  BY <1>3, <1>4, <1>5, <1>6, <1>7, <1>8, <1>9, NextSplits, ElsewhereKeeps
<1>10. CASE UNCHANGED vars
  BY <1>8, <1>10 DEF vars, history
<1> QED BY <1>9, <1>10

\* Permits are neither lost nor made, and nobody waits while one is free: base.py
\* 82-107, for any limit, any agents, any number of calls and of setups.
THEOREM CallsCorrect == Spec => []CallsInv
<1> DEFINE Inv == TypeOK /\ QueuesExact /\ ExecutingFinite /\ PermitsConserved
<1>1. Init => Inv
  <2> SUFFICES ASSUME Init PROVE Inv
    OBVIOUS
  <2>1. TypeOK /\ QueuesExact
    BY InitType DEF Init, QueuesExact
  <2>2. ASSUME NEW o \in Objects
        PROVE  Permits(o)
    <3>1. Executing(o) = {}
      BY DEF Init, Executing
    <3>2. IsFiniteSet(Executing(o)) /\ Cardinality(Executing(o)) = 0
      BY <3>1, FS_EmptySet
    <3>3. sem[o].value = 0 /\ sem[o].queue = <<>> /\ setups[o] = 0 /\ Limit[o] \in Nat
      BY ConstantsAssumption DEF Init
    <3> QED BY <3>2, <3>3 DEF Permits
  <2> QED BY <2>1, <2>2 DEF ExecutingFinite, PermitsConserved, Permits
<1>2. Inv /\ [Next]_vars => Inv'
  BY NextType, NextQueues, NextPermits
<1>3. Inv => CallsInv
  BY DEF CallsInv
<1> QED BY <1>1, <1>2, <1>3, PTL DEF Spec

-----------------------------------------------------------------------------
(* The registry.                                                           *)

\* A name is popped, by deregister or by shutdown.
Popped(n) ==
  /\ agents[n] \in Objects \ registering
  /\ Pop(n)
  /\ UNCHANGED <<index, registering, setups, teardowns>>

\* Every step as the registry sees it.
LEMMA RegistrySteps ==
  ASSUME TypeOK, [Next]_vars
  PROVE  \/ \E o \in Objects : BeginRegister(o) \/ HookEnds(o)
         \/ \E n \in Names : Popped(n)
         \/ UNCHANGED <<agents, index, registering, tearing, history>>
<1>1. ASSUME NEW n \in Names, BeginDeregister(n)
      PROVE  Popped(n)
  BY <1>1 DEF BeginDeregister, Popped, TypeOK
<1>2. ASSUME NEW n \in Names, ShutdownNext(n)
      PROVE  Popped(n) \/ UNCHANGED <<agents, index, registering, tearing, history>>
  BY <1>2 DEF ShutdownNext, Popped, TypeOK, history
<1>3. CASE BeginShutdown \/ ShutdownReturns
  BY <1>3 DEF BeginShutdown, ShutdownReturns
<1>4. ASSUME NEW k \in Calls, CallStep(k) \/ CancelWaiting(k) \/ \E n \in Names : Fetch(k, n)
      PROVE  UNCHANGED <<agents, index, registering, tearing, history>>
  BY <1>4 DEF CallStep, Acquire, Finish, CancelWaiting, Fetch, registry
<1>5. CASE UNCHANGED vars
  BY <1>5 DEF vars, registry
<1> QED BY <1>1, <1>2, <1>3, <1>4, <1>5 DEF Next, ShutdownStep

LEMMA NextOneInFlight ==
  ASSUME TypeOK, OneInFlight, [Next]_vars
  PROVE  OneInFlight'
<1>1. ASSUME NEW o \in Objects, BeginRegister(o)
      PROVE  OneInFlight'
  <2> DEFINE n == NameOf[o]
  <2>1. /\ o \notin registering \cup tearing /\ agents[n] = None
        /\ registering' = registering \cup {o} /\ tearing' = tearing /\ agents' = agents
        /\ tainted' = IF InFlight(n) # {} THEN tainted \cup {n} ELSE tainted
    BY <1>1 DEF BeginRegister, Taint
  <2>2. registering' \cap tearing' = {}
    BY <2>1 DEF OneInFlight
  <2>3. ASSUME NEW m \in Names \ tainted', NEW p \in InFlight(m)'
        PROVE  InFlight(m)' = {p} /\ agents'[m] = None
    <3>1. m \notin tainted /\ (m = n => InFlight(n) = {})
      BY <2>1
    <3>2. CASE m = n
      <4>1. InFlight(m)' = {o}
        BY <2>1, <3>1, <3>2 DEF InFlight
      <4> QED BY <2>1, <2>3, <3>2, <4>1
    <3>3. CASE m # n
      <4>1. InFlight(m)' = InFlight(m)
        BY <2>1, <3>3 DEF InFlight
      <4> QED BY <2>1, <2>3, <3>1, <4>1 DEF OneInFlight
    <3> QED BY <3>2, <3>3
  <2> QED BY <2>2, <2>3 DEF OneInFlight
<1>2. ASSUME NEW o \in Objects, EndSetup(o)
      PROVE  OneInFlight'
  BY <1>2, ConstantsAssumption DEF EndSetup, history, OneInFlight, InFlight, TypeOK
<1>3. ASSUME NEW o \in Objects, SetupFails(o) \/ EndTeardown(o)
      PROVE  OneInFlight'
  BY <1>3 DEF SetupFails, EndTeardown, OneInFlight, InFlight
<1>4. ASSUME NEW o \in Objects, TeardownFails(o)
      PROVE  OneInFlight'
  BY <1>4 DEF TeardownFails, Taint, OneInFlight, InFlight
<1>5. ASSUME NEW n \in Names, Popped(n)
      PROVE  OneInFlight'
  <2>1. registering' = registering /\ tearing' = tearing \cup {agents[n]}
        /\ agents[n] \in Objects \ registering /\ NameOf[agents[n]] = n
        /\ agents' = [agents EXCEPT ![n] = None]
    BY <1>5, ConstantsAssumption DEF Popped, Pop, TypeOK
  <2>2. ASSUME NEW m \in Names \ tainted', NEW o \in InFlight(m)'
        PROVE  InFlight(m)' = {o} /\ agents'[m] = None
    <3>1. m \notin tainted /\ (m = n => InFlight(n) = {})
      BY <1>5, <2>2 DEF Popped, Pop, Taint
    <3>2. CASE m = n
      BY <2>1, <2>2, <3>1, <3>2 DEF InFlight, TypeOK
    <3>3. CASE m # n
      <4>1. InFlight(m)' = InFlight(m) /\ agents'[m] = agents[m]
        BY <2>1, <3>3 DEF InFlight, TypeOK
      <4> QED BY <2>2, <3>1, <4>1 DEF OneInFlight
    <3> QED BY <3>2, <3>3
  <2> QED BY <2>1, <2>2 DEF OneInFlight
<1>6. CASE UNCHANGED <<agents, index, registering, tearing, history>>
  BY <1>6 DEF OneInFlight, InFlight, history
<1> QED BY <1>1, <1>2, <1>3, <1>4, <1>5, <1>6, RegistrySteps DEF HookEnds

LEMMA NextHooksPaired ==
  ASSUME TypeOK, OneInFlight, HooksPaired, [Next]_vars
  PROVE  HooksPaired'
<1> SUFFICES ASSUME NEW p \in Objects, NameOf[p] \notin tainted'
             PROVE  setups'[p] - teardowns'[p] =
                      IF agents'[NameOf[p]] = p \/ p \in registering' \cup tearing' THEN 1 ELSE 0
  BY DEF HooksPaired
<1> DEFINE n == NameOf[p]
<1>0. n \in Names /\ setups[p] \in Nat /\ teardowns[p] \in Nat
  BY ConstantsAssumption DEF TypeOK
<1>1. ASSUME n \notin tainted
      PROVE  /\ setups[p] - teardowns[p] = IF agents[n] = p \/ p \in registering \cup tearing THEN 1 ELSE 0
             /\ registering \cap tearing = {}
             /\ \A o \in Objects : o \in registering \cup tearing /\ NameOf[o] = n
                  => agents[n] = None /\ (p \in registering \cup tearing => p = o)
  BY <1>0, <1>1 DEF HooksPaired, OneInFlight, InFlight
<1>2. ASSUME NEW o \in Objects, BeginRegister(o)
      PROVE  setups'[p] - teardowns'[p] =
               IF agents'[n] = p \/ p \in registering' \cup tearing' THEN 1 ELSE 0
  <2>1. n \notin tainted
    BY <1>2 DEF BeginRegister, Taint
  <2>2. agents[NameOf[o]] = None /\ o \notin registering \cup tearing /\ None \notin Objects
    BY <1>2, ConstantsAssumption DEF BeginRegister
  <2>3. CASE p = o
    <3>1. setups'[p] = setups[p] + 1 /\ teardowns' = teardowns /\ agents' = agents
          /\ p \in registering'
      BY <1>2, <2>3 DEF BeginRegister, TypeOK
    <3> QED BY <1>0, <1>1, <2>1, <2>2, <2>3, <3>1
  <2>4. CASE p # o
    <3>1. setups'[p] = setups[p] /\ teardowns' = teardowns /\ agents' = agents
          /\ tearing' = tearing /\ (p \in registering' <=> p \in registering)
      BY <1>2, <2>4 DEF BeginRegister, TypeOK
    <3> QED BY <1>0, <1>1, <2>1, <3>1
  <2> QED BY <2>3, <2>4
<1>3. ASSUME NEW o \in Objects, EndSetup(o)
      PROVE  setups'[p] - teardowns'[p] =
               IF agents'[n] = p \/ p \in registering' \cup tearing' THEN 1 ELSE 0
  <2>1. n \notin tainted /\ setups' = setups /\ teardowns' = teardowns
        /\ o \in registering /\ registering' = registering \ {o} /\ tearing' = tearing
    BY <1>3 DEF EndSetup, history
  <2>2. agents'[n] = IF NameOf[o] = n THEN o ELSE agents[n]
    BY <1>0, <1>3, ConstantsAssumption DEF EndSetup, TypeOK
  <2>3. None \notin Objects
    BY ConstantsAssumption
  <2> QED BY <1>0, <1>1, <2>1, <2>2, <2>3
<1>4. ASSUME NEW o \in Objects, SetupFails(o) \/ EndTeardown(o)
      PROVE  setups'[p] - teardowns'[p] =
               IF agents'[n] = p \/ p \in registering' \cup tearing' THEN 1 ELSE 0
  <2>1. n \notin tainted /\ setups' = setups /\ agents' = agents /\ o \in registering \cup tearing
        /\ teardowns'[p] = (IF p = o THEN teardowns[p] + 1 ELSE teardowns[p])
    BY <1>4 DEF SetupFails, EndTeardown, TypeOK
  <2>2. registering' \cup tearing' = (registering \cup tearing) \ {o}
    BY <1>1, <1>4 DEF SetupFails, EndTeardown, OneInFlight
  <2>3. None \notin Objects
    BY ConstantsAssumption
  <2> QED BY <1>0, <1>1, <2>1, <2>2, <2>3
<1>5. ASSUME NEW o \in Objects, TeardownFails(o)
      PROVE  setups'[p] - teardowns'[p] =
               IF agents'[n] = p \/ p \in registering' \cup tearing' THEN 1 ELSE 0
  <2>1. n \notin tainted /\ n # NameOf[o]
    BY <1>5 DEF TeardownFails, Taint
  <2>2. setups' = setups /\ agents' = agents /\ registering' = registering
        /\ tearing' = tearing \ {o} /\ teardowns'[p] = teardowns[p]
    BY <1>5, <2>1 DEF TeardownFails, TypeOK
  <2> QED BY <1>0, <1>1, <2>1, <2>2
<1>6. ASSUME NEW m \in Names, Popped(m)
      PROVE  setups'[p] - teardowns'[p] =
               IF agents'[n] = p \/ p \in registering' \cup tearing' THEN 1 ELSE 0
  <2>1. n \notin tainted /\ setups' = setups /\ teardowns' = teardowns
        /\ registering' = registering /\ tearing' = tearing \cup {agents[m]}
    BY <1>6 DEF Popped, Pop, Taint
  <2>2. agents'[n] = (IF n = m THEN None ELSE agents[n]) /\ NameOf[agents[m]] = m
    BY <1>0, <1>6, ConstantsAssumption DEF Popped, Pop, TypeOK
  <2>3. None \notin Objects
    BY ConstantsAssumption
  <2> QED BY <1>0, <1>1, <2>1, <2>2, <2>3
<1>7. CASE UNCHANGED <<agents, index, registering, tearing, history>>
  BY <1>1, <1>7 DEF history
<1> HIDE DEF n
<1> QED BY <1>2, <1>3, <1>4, <1>5, <1>6, <1>7, RegistrySteps DEF HookEnds, n

LEMMA NextShutdownPasses ==
  ASSUME TypeOK, ShutdownPasses, [Next]_vars
  PROVE  ShutdownPasses'
<1>0. shutdown \in [phase : {"no", "active", "done", "aborted"}, left : SUBSET Names,
                    current : Objects \cup {None}, late : SUBSET Objects]
  BY DEF TypeOK
\* Nothing is entered and shutdown stays where it is.
<1>1. ASSUME shutdown'.phase = shutdown.phase, shutdown'.left = shutdown.left,
             shutdown'.late = shutdown.late, \A m \in Names : agents'[m] \in {agents[m], None}
      PROVE  ShutdownPasses'
  BY <1>1 DEF ShutdownPasses
<1>2. ASSUME NEW o \in Objects, BeginRegister(o) \/ SetupFails(o)
      PROVE  ShutdownPasses'
  BY <1>1, <1>2 DEF BeginRegister, SetupFails
<1>3. ASSUME NEW o \in Objects, EndSetup(o)
      PROVE  ShutdownPasses'
  <2>1. CASE shutdown.phase = "no"
    BY <1>3, <2>1 DEF EndSetup, ShutdownPasses
  <2>2. CASE shutdown.phase # "no"
    <3>1. shutdown'.phase = shutdown.phase /\ shutdown'.left = shutdown.left
          /\ shutdown'.late = shutdown.late \cup {o}
      BY <1>0, <1>3, <2>2 DEF EndSetup
    <3>2. \A m \in Names : agents'[m] \in {agents[m], o}
      BY <1>3 DEF EndSetup, TypeOK
    <3> QED BY <3>1, <3>2 DEF ShutdownPasses
  <2> QED BY <2>1, <2>2
<1>4. ASSUME NEW o \in Objects, EndTeardown(o)
      PROVE  ShutdownPasses'
  <2>1. CASE shutdown' = Released(o)
    <3>1. /\ shutdown'.phase = shutdown.phase /\ shutdown'.left = shutdown.left
          /\ shutdown'.late = shutdown.late
      BY <1>0, <2>1 DEF Released
    <3> QED BY <1>1, <1>4, <3>1 DEF EndTeardown
  <2>2. CASE shutdown' = Aborted(o) /\ shutdown.current = o
    <3>1. shutdown'.phase = "aborted"
      BY <1>0, <2>2 DEF Aborted
    <3> QED BY <3>1 DEF ShutdownPasses
  <2> QED BY <1>4, <2>1, <2>2 DEF EndTeardown, Released, Aborted
<1>5. ASSUME NEW o \in Objects, TeardownFails(o)
      PROVE  ShutdownPasses'
  <2>1. CASE shutdown.current = o
    <3>1. shutdown'.phase = "aborted"
      BY <1>0, <1>5, <2>1 DEF TeardownFails, Aborted
    <3> QED BY <3>1 DEF ShutdownPasses
  <2>2. CASE shutdown.current # o
    BY <1>1, <1>5, <2>2 DEF TeardownFails, Aborted
  <2> QED BY <2>1, <2>2
<1>6. ASSUME NEW n \in Names, BeginDeregister(n)
      PROVE  ShutdownPasses'
  <2>1. \A m \in Names : agents'[m] \in {agents[m], None}
    BY <1>6 DEF BeginDeregister, Pop, TypeOK
  <2> QED BY <1>1, <1>6, <2>1 DEF BeginDeregister
<1>7. CASE BeginShutdown
  <2>1. shutdown'.phase = "active" /\ shutdown'.left = {n \in Names : agents[n] # None}
        /\ agents' = agents
    BY <1>0, <1>7 DEF BeginShutdown
  <2> QED BY <2>1 DEF ShutdownPasses
<1>8. ASSUME NEW n \in Names, ShutdownNext(n)
      PROVE  ShutdownPasses'
  <2>1. /\ shutdown.phase = "active" /\ shutdown'.phase = "active"
        /\ shutdown'.left = shutdown.left \ {n} /\ shutdown'.late = shutdown.late
    BY <1>0, <1>8 DEF ShutdownNext
  <2>2. agents'[n] = None /\ \A m \in Names : m # n => agents'[m] = agents[m]
    BY <1>8 DEF ShutdownNext, Pop, TypeOK
  <2> QED BY <2>1, <2>2 DEF ShutdownPasses
<1>9. CASE ShutdownReturns
  <2>1. /\ shutdown.phase = "active" /\ shutdown'.phase = "done" /\ shutdown.left = {}
        /\ shutdown'.left = shutdown.left /\ shutdown'.late = shutdown.late /\ agents' = agents
    BY <1>0, <1>9 DEF ShutdownReturns
  <2> QED BY <2>1 DEF ShutdownPasses
<1>10. ASSUME NEW k \in Calls, CallStep(k) \/ CancelWaiting(k) \/ \E n \in Names : Fetch(k, n)
       PROVE  ShutdownPasses'
  BY <1>1, <1>10 DEF CallStep, Acquire, Finish, CancelWaiting, Fetch, registry
<1>11. CASE UNCHANGED vars
  BY <1>1, <1>11 DEF vars, registry
<1> QED BY <1>2, <1>3, <1>4, <1>5, <1>6, <1>7, <1>8, <1>9, <1>10, <1>11
        DEF Next, HookEnds, ShutdownStep

-----------------------------------------------------------------------------
(* The index.                                                              *)

Occurs(n, s) == \E i \in 1..Len(s) : s[i] = n
Once(n, s) == \A i, j \in 1..Len(s) : s[i] = n /\ s[j] = n => i = j

LEMMA AppendOccurs ==
  ASSUME NEW S, NEW s \in Seq(S), NEW n, NEW m \in S
  PROVE  /\ Occurs(n, Append(s, m)) <=> Occurs(n, s) \/ m = n
         /\ Once(n, s) /\ (m = n => ~Occurs(n, s)) => Once(n, Append(s, m))
<1> DEFINE r == Append(s, m)
<1>1. Len(s) \in Nat /\ Len(r) = Len(s) + 1 /\ r[Len(s) + 1] = m
      /\ \A i \in 1..Len(s) : r[i] = s[i]
  OBVIOUS
<1> HIDE DEF r
<1>2. \A i \in 1..Len(r) : i \in 1..Len(s) \/ i = Len(s) + 1
  BY <1>1
<1>3. 1..Len(s) \subseteq 1..Len(r) /\ Len(s) + 1 \in 1..Len(r)
  BY <1>1
<1>4. Occurs(n, r) <=> Occurs(n, s) \/ m = n
  BY <1>1, <1>2, <1>3 DEF Occurs
<1>5. Once(n, s) /\ (m = n => ~Occurs(n, s)) => Once(n, r)
  BY <1>1, <1>2 DEF Occurs, Once
<1> QED BY <1>4, <1>5 DEF r

LEMMA RemoveOccurs ==
  ASSUME NEW S, NEW s \in Seq(S), NEW n, NEW m, Once(n, s)
  PROVE  /\ Occurs(n, RemoveFirst(s, m)) <=> Occurs(n, s) /\ m # n
         /\ Once(n, RemoveFirst(s, m))
<1> DEFINE r == RemoveFirst(s, m)
<1>1. Keeps(s, m, r)
  BY RemoveFirstKeeps
<1> HIDE DEF r
<1>2. Once(n, r)
  BY <1>1 DEF Keeps, Once
<1>3. CASE m = n
  <2>1. \A i \in 1..Len(r) : r[i] # n
    BY <1>1, <1>3 DEF Keeps, Once
  <2> QED BY <1>2, <1>3, <2>1 DEF Occurs, r
<1>4. CASE m # n
  <2>1. Occurs(n, s) => Occurs(n, r)
    BY <1>1, <1>4 DEF Keeps, Occurs
  <2>2. Occurs(n, r) => Occurs(n, s)
    BY <1>1 DEF Keeps, Occurs
  <2> QED BY <1>2, <1>4, <2>1, <2>2 DEF r
<1> QED BY <1>3, <1>4

\* Whose capabilities are listed under a name.
Owners(n) == {p \in Objects : NameOf[p] = n /\ (agents[n] = p \/ p \in tearing)}

Follows(n, c) == (c \in Listed(n) <=> Occurs(n, index[c])) /\ Once(n, index[c])

LEMMA NextIndexFollows ==
  ASSUME TypeOK, OneInFlight, IndexFollows, [Next]_vars
  PROVE  IndexFollows'
<1> SUFFICES ASSUME NEW n \in Names \ tainted', NEW c \in Caps
             PROVE  Follows(n, c)'
  BY DEF IndexFollows, Follows, Occurs, Once
<1>0. /\ c \in Listed(n) <=> \E p \in Owners(n) : c \in CapsOf[p]
      /\ c \in Listed(n)' <=> \E p \in Owners(n)' : c \in CapsOf[p]
      /\ index[c] \in Seq(Names) /\ None \notin Objects
  BY ConstantsAssumption DEF Listed, Owners, TypeOK
<1>1. n \notin tainted => Follows(n, c)
  BY DEF IndexFollows, Follows, Occurs, Once
<1>2. ASSUME n \notin tainted, index'[c] = index[c], Owners(n)' = Owners(n)
      PROVE  Follows(n, c)'
  <2>1. c \in Listed(n)' <=> c \in Listed(n)
    BY <1>0, <1>2
  <2> QED BY <1>1, <1>2, <2>1 DEF Follows
\* A name with a hook in flight has the agent of the hook, if it tears down.
<1>3. ASSUME n \notin tainted, NEW o \in registering \cup tearing, NameOf[o] = n, o \in Objects
      PROVE  agents[n] = None /\ Owners(n) = (IF o \in tearing THEN {o} ELSE {})
  <2>1. InFlight(n) = {o} /\ agents[n] = None /\ registering \cap tearing = {}
    BY <1>3 DEF OneInFlight, InFlight
  <2>2. \A p \in Objects : p \in tearing /\ NameOf[p] = n => p = o
    BY <2>1 DEF InFlight
  <2> QED BY <1>0, <1>3, <2>1, <2>2 DEF Owners
<1>4. ASSUME NEW o \in Objects, BeginRegister(o)
      PROVE  Follows(n, c)'
  BY <1>2, <1>4 DEF BeginRegister, Taint, Owners
<1>5. ASSUME NEW o \in Objects, EndSetup(o)
      PROVE  Follows(n, c)'
  <2>0. /\ n \notin tainted /\ o \in registering /\ tearing' = tearing
        /\ agents' = [agents EXCEPT ![NameOf[o]] = o]
        /\ index'[c] = IF c \in CapsOf[o] THEN Append(index[c], NameOf[o]) ELSE index[c]
        /\ NameOf[o] \in Names
    BY <1>5, ConstantsAssumption DEF EndSetup, history
  <2>1. CASE NameOf[o] # n
    <3>1. Owners(n)' = Owners(n)
      BY <2>0, <2>1 DEF Owners, TypeOK
    <3>2. c \in Listed(n)' <=> c \in Listed(n)
      BY <1>0, <3>1
    <3>3. Occurs(n, index'[c]) <=> Occurs(n, index[c])
      BY <1>0, <2>0, <2>1, AppendOccurs
    <3>4. Once(n, index'[c])
      BY <1>0, <1>1, <2>0, <2>1, AppendOccurs DEF Follows
    <3> QED BY <1>1, <2>0, <3>2, <3>3, <3>4 DEF Follows
  <2>2. CASE NameOf[o] = n
    <3>1. Owners(n) = {}
      <4>1. o \notin tearing
        BY <2>0 DEF OneInFlight
      <4> QED BY <1>3, <2>0, <2>2, <4>1
    <3>2. Owners(n)' = {o}
      BY <2>0, <2>2, <3>1 DEF Owners, TypeOK
    <3>3. (c \in Listed(n)' <=> c \in CapsOf[o]) /\ ~(c \in Listed(n))
      BY <1>0, <3>1, <3>2
    <3>4. ~Occurs(n, index[c]) /\ Once(n, index[c])
      BY <1>1, <2>0, <3>3 DEF Follows
    <3>5. CASE c \in CapsOf[o]
      <4>1. Occurs(n, index'[c]) /\ Once(n, index'[c])
        BY <1>0, <2>0, <2>2, <3>4, <3>5, AppendOccurs
      <4> QED BY <3>3, <3>5, <4>1 DEF Follows
    <3>6. CASE c \notin CapsOf[o]
      BY <2>0, <3>3, <3>4, <3>6 DEF Follows
    <3> QED BY <3>5, <3>6
  <2> QED BY <2>1, <2>2
<1>6. ASSUME NEW o \in Objects, SetupFails(o)
      PROVE  Follows(n, c)'
  BY <1>2, <1>6 DEF SetupFails, Owners
<1>7. ASSUME NEW o \in Objects, EndTeardown(o)
      PROVE  Follows(n, c)'
  <2>0. /\ n \notin tainted /\ o \in tearing /\ tearing' = tearing \ {o} /\ agents' = agents
        /\ index'[c] = RemoveFirst(index[c], NameOf[o])
    BY <1>7 DEF EndTeardown
  <2>1. Occurs(n, index'[c]) <=> Occurs(n, index[c]) /\ NameOf[o] # n
    BY <1>0, <1>1, <2>0, RemoveOccurs DEF Follows
  <2>3. Once(n, index'[c])
    BY <1>0, <1>1, <2>0, RemoveOccurs DEF Follows
  <2>2. c \in Listed(n)' <=> c \in Listed(n) /\ NameOf[o] # n
    <3>1. CASE NameOf[o] # n
      <4>1. Owners(n)' = Owners(n)
        BY <2>0, <3>1 DEF Owners
      <4> QED BY <1>0, <3>1, <4>1
    <3>2. CASE NameOf[o] = n
      <4>1. Owners(n) = {o} /\ agents[n] = None
        BY <1>3, <2>0, <3>2
      <4>2. Owners(n)' = {}
        BY <1>0, <2>0, <4>1 DEF Owners
      <4> QED BY <1>0, <3>2, <4>2
    <3> QED BY <3>1, <3>2
  <2> QED BY <1>1, <2>0, <2>1, <2>2, <2>3 DEF Follows
<1>8. ASSUME NEW o \in Objects, TeardownFails(o)
      PROVE  Follows(n, c)'
  <2>1. n # NameOf[o] /\ n \notin tainted
    BY <1>8 DEF TeardownFails, Taint
  <2> QED BY <1>2, <1>8, <2>1 DEF TeardownFails, Owners
<1>9. ASSUME NEW m \in Names, Popped(m)
      PROVE  Follows(n, c)'
  <2>1. /\ n \notin tainted /\ index' = index
        /\ agents' = [agents EXCEPT ![m] = None] /\ tearing' = tearing \cup {agents[m]}
        /\ agents[m] \in Objects /\ NameOf[agents[m]] = m
    BY <1>9, ConstantsAssumption DEF Popped, Pop, Taint, TypeOK
  <2>2. Owners(n)' = Owners(n)
    <3>1. CASE m = n
      BY <1>0, <2>1, <3>1 DEF Owners, TypeOK
    <3>2. CASE m # n
      BY <1>0, <2>1, <3>2 DEF Owners, TypeOK
    <3> QED BY <3>1, <3>2
  <2> QED BY <1>2, <2>1, <2>2
<1>10. CASE UNCHANGED <<agents, index, registering, tearing, history>>
  BY <1>2, <1>10 DEF history, Owners
<1> QED BY <1>4, <1>5, <1>6, <1>7, <1>8, <1>9, <1>10, RegistrySteps DEF HookEnds

RegistryParts == TypeOK /\ QueuesExact /\ OneInFlight /\ IndexFollows /\ HooksPaired /\ ShutdownPasses

LEMMA RegistryInvariant == Spec => []RegistryParts
<1>1. Init => RegistryParts
  <2>1. Init => QueuesExact /\ OneInFlight /\ HooksPaired
    BY ConstantsAssumption DEF Init, QueuesExact, OneInFlight, InFlight, HooksPaired
  <2>2. Init => ShutdownPasses
    BY DEF Init, ShutdownPasses
  <2>3. Init => IndexFollows
    BY ConstantsAssumption DEF Init, IndexFollows, Listed
  <2> QED BY <2>1, <2>2, <2>3, InitType DEF RegistryParts
<1>2. RegistryParts /\ [Next]_vars => RegistryParts'
  BY NextType, NextQueues, NextOneInFlight, NextIndexFollows, NextHooksPaired, NextShutdownPasses
     DEF RegistryParts
<1> QED BY <1>1, <1>2, PTL DEF Spec

\* The agents that are set up are the registered ones, and shutdown leaves none
\* of those it found: registry.py 36-104 and 190-194, for any agents.
THEOREM RegistryCorrect == Spec => []RegistryInv
<1>1. RegistryParts => LifecyclePaired
  <2> SUFFICES ASSUME RegistryParts, NEW o \in Objects,
                      NameOf[o] \notin tainted, InFlight(NameOf[o]) = {}
               PROVE  setups[o] - teardowns[o] = IF agents[NameOf[o]] = o THEN 1 ELSE 0
    BY DEF LifecyclePaired
  <2>1. o \notin registering \cup tearing
    BY DEF InFlight, RegistryParts, TypeOK
  <2> QED BY <2>1 DEF RegistryParts, HooksPaired
<1>2. RegistryParts => ShutdownEmpties
  BY DEF RegistryParts, ShutdownPasses, ShutdownEmpties
<1> QED BY <1>1, <1>2, RegistryInvariant, PTL DEF RegistryInv

\* While nothing is in flight for a name, the capability index lists its agent
\* once under each capability it declares and nowhere else: registry.py 50-53,
\* 68-69 and 94-96, for any agents and capabilities.
THEOREM IndexIsExact == Spec => []IndexExact
<1>1. RegistryParts => IndexExact
  <2> SUFFICES ASSUME RegistryParts, NEW n \in Names \ tainted, InFlight(n) = {}, NEW c \in Caps
               PROVE  Cardinality({i \in 1..Len(index[c]) : index[c][i] = n}) =
                        IF agents[n] # None THEN Cardinality({c} \cap CapsOf[agents[n]]) ELSE 0
    BY DEF IndexExact
  <2> DEFINE Places == {i \in 1..Len(index[c]) : index[c][i] = n}
  <2>1. /\ c \in Listed(n) <=> Places # {}
        /\ \A i, j \in Places : i = j
    BY DEF RegistryParts, IndexFollows
  <2>2. Cardinality(Places) = IF c \in Listed(n) THEN 1 ELSE 0
    <3> HIDE DEF Places
    <3>1. CASE Places = {}
      BY <2>1, <3>1, FS_EmptySet
    <3>2. CASE Places # {}
      <4>1. PICK i \in Places : Places = {i}
        BY <2>1, <3>2
      <4> QED BY <2>1, <3>2, <4>1, FS_Singleton
    <3> QED BY <3>1, <3>2
  <2>3. c \in Listed(n) <=> agents[n] # None /\ c \in CapsOf[agents[n]]
    <3>1. \A p \in Objects : p \in tearing => NameOf[p] # n
      BY DEF InFlight
    <3>2. agents[n] \in Objects \cup {None} /\ None \notin Objects
          /\ (agents[n] # None => NameOf[agents[n]] = n)
      BY ConstantsAssumption DEF RegistryParts, TypeOK
    <3> QED BY <3>1, <3>2 DEF Listed
  <2>4. agents[n] # None =>
          Cardinality({c} \cap CapsOf[agents[n]]) = IF c \in CapsOf[agents[n]] THEN 1 ELSE 0
    <3>1. CASE c \in CapsOf[agents[n]]
      <4>1. {c} \cap CapsOf[agents[n]] = {c}
        BY <3>1
      <4> QED BY <3>1, <4>1, FS_Singleton
    <3>2. CASE c \notin CapsOf[agents[n]]
      <4>1. {c} \cap CapsOf[agents[n]] = {}
        BY <3>2
      <4> QED BY <3>2, <4>1, FS_EmptySet
    <3> QED BY <3>1, <3>2
  <2> QED BY <2>2, <2>3, <2>4
<1> QED BY <1>1, RegistryInvariant, PTL
=============================================================================
