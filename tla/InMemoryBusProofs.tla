-------------------------- MODULE InMemoryBusProofs -------------------------
(***************************************************************************)
(* Theorems about module InMemoryBus, for any events, handlers, follow-ups *)
(* and number of permits.                                                  *)
(***************************************************************************)
EXTENDS InMemoryBus, FiniteSetTheorems, TLAPS

USE DEF Holding, Alive

-----------------------------------------------------------------------------
(* Sequences.                                                              *)

\* What list.remove leaves of a list.
LEMMA RemoveAtElements ==
  ASSUME NEW S, NEW s \in Seq(S), NEW k \in 1..Len(s)
  PROVE  /\ RemoveAt(s, k) \in Seq(S)
         /\ Len(RemoveAt(s, k)) = Len(s) - 1
         /\ \A i \in 1..Len(s) - 1 : RemoveAt(s, k)[i] = IF i < k THEN s[i] ELSE s[i + 1]
<1>1. /\ SubSeq(s, 1, k - 1) \in Seq(S) /\ Len(SubSeq(s, 1, k - 1)) = k - 1
      /\ \A i \in 1..k - 1 : SubSeq(s, 1, k - 1)[i] = s[i]
  OBVIOUS
<1>2. /\ SubSeq(s, k + 1, Len(s)) \in Seq(S) /\ Len(SubSeq(s, k + 1, Len(s))) = Len(s) - k
      /\ \A i \in 1..Len(s) - k : SubSeq(s, k + 1, Len(s))[i] = s[k + i]
  OBVIOUS
<1> DEFINE a == SubSeq(s, 1, k - 1)
           b == SubSeq(s, k + 1, Len(s))
<1>3. /\ a \o b \in Seq(S) /\ Len(a \o b) = Len(s) - 1
      /\ \A i \in 1..Len(s) - 1 : (a \o b)[i] = IF i <= k - 1 THEN a[i] ELSE b[i - (k - 1)]
  <2>1. a \in Seq(S) /\ b \in Seq(S) /\ Len(a) = k - 1 /\ Len(b) = Len(s) - k
    BY <1>1, <1>2
  <2> HIDE DEF a, b
  <2> QED BY <2>1
<1>4. \A i \in 1..Len(s) - 1 : i >= k => b[i - (k - 1)] = s[i + 1]
  <2> SUFFICES ASSUME NEW i \in 1..Len(s) - 1, i >= k PROVE b[i - (k - 1)] = s[i + 1]
    OBVIOUS
  <2>1. i - (k - 1) \in 1..Len(s) - k
    OBVIOUS
  <2>2. k + (i - (k - 1)) = i + 1
    OBVIOUS
  <2> QED BY <1>2, <2>1, <2>2
<1> HIDE DEF a, b
<1>5. \A i \in 1..Len(s) - 1 : i < k => a[i] = s[i]
  BY <1>1 DEF a
<1>6. RemoveAt(s, k) = a \o b
  BY DEF RemoveAt, a, b
<1>7. \A i \in 1..Len(s) - 1 : i < k <=> i <= k - 1
  OBVIOUS
<1> QED BY <1>3, <1>4, <1>5, <1>6, <1>7

LEMMA ConcatElements ==
  ASSUME NEW S, NEW s \in Seq(S), NEW t \in Seq(S)
  PROVE  /\ s \o t \in Seq(S)
         /\ Len(s \o t) = Len(s) + Len(t)
         /\ \A i \in 1..Len(s) : (s \o t)[i] = s[i]
         /\ \A i \in 1..Len(t) : (s \o t)[Len(s) + i] = t[i]
         /\ \A i \in 1..Len(s) + Len(t) :
              (s \o t)[i] = IF i <= Len(s) THEN s[i] ELSE t[i - Len(s)]
  OBVIOUS

-----------------------------------------------------------------------------
(* The inductive invariant.                                                *)

LEMMA InitBus == Init => BusInv
<1> SUFFICES ASSUME Init PROVE BusInv
  OBVIOUS
<1>1. {d \in Deliveries : task[d] \in Holding} = {}
  BY DEF Init
<1>2. IsFiniteSet({}) /\ Cardinality({}) = 0
  BY FS_EmptySet
<1>3. TypeOK
  <2>1. stopping \in [phase : {"no", "draining", "stopped"}, awaited : SUBSET Deliveries]
    BY DEF Init
  <2>2. subs \in [Types -> Seq(Handlers)] /\ queue \in Seq(Deliveries) /\ order \in Seq(Events)
    BY DEF Init
  <2>3. task \in [Deliveries -> Alive \cup {"none", "handled", "dead"}]
    BY DEF Init
  <2> QED BY <2>1, <2>2, <2>3 DEF Init, TypeOK
<1>4. SubscribedOnce /\ QueueExact /\ QueueOrdered /\ StartsInOrder
  BY DEF Init, SubscribedOnce, QueueExact, QueueOrdered, StartsInOrder, Contains
<1>5. DrainCovers /\ DrainLeavesNothing
  BY DEF Init, DrainCovers, DrainLeavesNothing
<1>6. IsFiniteSet({d \in Deliveries : task[d] \in Holding}) /\ Backpressure
  BY <1>1, <1>2, ConstantsAssumption DEF Backpressure
<1> QED BY <1>3, <1>4, <1>5, <1>6 DEF BusInv

\* Subscriptions do not touch the tasks.
LEMMA SubscriptionsKeepBus ==
  ASSUME BusInv, NEW t \in Types, NEW h \in Handlers, Subscribe(t, h) \/ Unsubscribe(t, h)
  PROVE  BusInv'
<1>1. UNCHANGED <<running, queue, task, published, order, stopping>>
  BY DEF Subscribe, Unsubscribe
<1>2. subs' \in [Types -> Seq(Handlers)] /\ SubscribedOnce'
  <2>1. subs[t] \in Seq(Handlers)
    BY DEF BusInv, TypeOK
  <2>2. ASSUME NEW new \in Seq(Handlers), subs' = [subs EXCEPT ![t] = new],
               \A i, j \in 1..Len(new) : new[i] = new[j] => i = j
        PROVE  subs' \in [Types -> Seq(Handlers)] /\ SubscribedOnce'
    BY <2>2 DEF BusInv, TypeOK, SubscribedOnce
  <2>3. CASE Subscribe(t, h)
    <3>1. \A i, j \in 1..Len(Append(subs[t], h)) :
            Append(subs[t], h)[i] = Append(subs[t], h)[j] => i = j
      <4>1. /\ \A i, j \in 1..Len(subs[t]) : subs[t][i] = subs[t][j] => i = j
            /\ \A i \in 1..Len(subs[t]) : subs[t][i] # h
        BY <2>3 DEF Subscribe, Contains, BusInv, SubscribedOnce
      <4> QED BY <2>1, <4>1
    <3>2. Append(subs[t], h) \in Seq(Handlers)
      BY <2>1
    <3> QED BY <2>2, <2>3, <3>1, <3>2 DEF Subscribe
  <2>4. CASE Unsubscribe(t, h)
    <3>1. PICK k \in 1..Len(subs[t]) : subs' = [subs EXCEPT ![t] = RemoveAt(@, k)]
      BY <2>4 DEF Unsubscribe
    <3> DEFINE new == RemoveAt(subs[t], k)
    <3>2. /\ new \in Seq(Handlers) /\ Len(new) = Len(subs[t]) - 1
          /\ \A i \in 1..Len(subs[t]) - 1 : new[i] = IF i < k THEN subs[t][i] ELSE subs[t][i + 1]
      BY <2>1, RemoveAtElements
    <3>3. \A i, j \in 1..Len(subs[t]) : subs[t][i] = subs[t][j] => i = j
      BY DEF BusInv, SubscribedOnce
    <3>4. \A i, j \in 1..Len(new) : new[i] = new[j] => i = j
      BY <2>1, <3>2, <3>3
    <3>5. subs' = [subs EXCEPT ![t] = new]
      BY <3>1
    <3> HIDE DEF new
    <3> QED BY <2>2, <3>2, <3>4, <3>5
  <2> QED BY <2>3, <2>4
<1> QED BY <1>1, <1>2 DEF BusInv, TypeOK, QueueExact, QueueOrdered, StartsInOrder, DrainCovers,
            DrainLeavesNothing, Backpressure

\* A step of a task inside the semaphore that creates no task.
LEMMA TaskMoveKeepsBus ==
  ASSUME BusInv, NEW d \in Deliveries, NEW new \in Alive \cup {"handled", "dead"},
         task[d] \in Holding, new # "queued", task' = [task EXCEPT ![d] = new],
         UNCHANGED <<running, subs, queue, published, order, stopping>>
  PROVE  BusInv'
<1>1. /\ task' \in [Deliveries -> Alive \cup {"none", "handled", "dead"}]
      /\ task'[d] = new /\ \A c \in Deliveries : c # d => task'[c] = task[c]
  BY DEF BusInv, TypeOK
<1>2. TypeOK' /\ SubscribedOnce'
  BY <1>1 DEF BusInv, TypeOK, SubscribedOnce
<1>3. QueueExact'
  <2>1. \A i \in 1..Len(queue) : queue[i] \in Deliveries /\ queue[i] # d
    BY DEF BusInv, TypeOK, QueueExact
  <2> QED BY <1>1, <2>1 DEF BusInv, QueueExact
<1>4. QueueOrdered'
  BY <1>1 DEF BusInv, QueueOrdered
<1>5. StartsInOrder'
  <2>1. \A i \in 1..Len(order), h \in Handlers : <<order[i], h>> \in Deliveries
    BY DEF BusInv, TypeOK, Deliveries
  <2>2. \A c \in Deliveries : /\ task'[c] = "queued" <=> task[c] = "queued"
                              /\ task'[c] = "none" <=> task[c] = "none"
    BY <1>1
  <2> QED BY <2>1, <2>2 DEF BusInv, StartsInOrder
<1>6. DrainCovers' /\ DrainLeavesNothing'
  BY <1>1 DEF BusInv, DrainCovers, DrainLeavesNothing
<1>7. /\ IsFiniteSet({c \in Deliveries : task[c] \in Holding})'
      /\ Backpressure'
  <2> DEFINE H == {c \in Deliveries : task[c] \in Holding}
  <2>1. IsFiniteSet(H) /\ Cardinality(H) <= MaxConcurrent
    BY DEF BusInv, Backpressure
  <2>2. H' \subseteq H
    BY <1>1
  <2>3. IsFiniteSet(H') /\ Cardinality(H') <= Cardinality(H) /\ Cardinality(H) \in Nat
        /\ Cardinality(H') \in Nat
    BY <2>1, <2>2, FS_Subset, FS_CardinalityType
  <2> QED BY <2>1, <2>3, ConstantsAssumption DEF Backpressure
<1> QED BY <1>2, <1>3, <1>4, <1>5, <1>6, <1>7 DEF BusInv

\* The head of the queue gets a permit: no older task of its handler waits.
LEMMA AcquireKeepsBus ==
  ASSUME BusInv, Acquire
  PROVE  BusInv'
<1> DEFINE d == queue[1]
           H == {c \in Deliveries : task[c] \in Holding}
<1>1. /\ queue \in Seq(Deliveries) /\ Len(queue) \in Nat /\ Len(queue) >= 1
      /\ d \in Deliveries /\ Head(queue) = d /\ task[d] = "queued"
  BY DEF BusInv, TypeOK, QueueExact, Acquire
<1>2. /\ queue' \in Seq(Deliveries) /\ Len(queue') = Len(queue) - 1
      /\ \A i \in 1..Len(queue) - 1 : queue'[i] = queue[i + 1]
  BY <1>1 DEF Acquire
<1>3. /\ task' \in [Deliveries -> Alive \cup {"none", "handled", "dead"}]
      /\ task'[d] = "running" /\ \A c \in Deliveries : c # d => task'[c] = task[c]
  BY <1>1 DEF BusInv, TypeOK, Acquire
<1>4. UNCHANGED <<running, subs, published, order, stopping>>
  BY DEF Acquire
<1>5. TypeOK' /\ SubscribedOnce'
  BY <1>2, <1>3, <1>4 DEF BusInv, TypeOK, SubscribedOnce
<1>6. QueueExact'
  <2>1. \A i, j \in 1..Len(queue) : queue[i] = queue[j] => i = j
    BY DEF BusInv, QueueExact
  <2>2. \A i \in 1..Len(queue') : /\ i + 1 \in 1..Len(queue) /\ i + 1 # 1
                                  /\ queue'[i] = queue[i + 1]
    BY <1>1, <1>2
  <2>3. \A i \in 1..Len(queue') : task'[queue'[i]] = "queued"
    <3> SUFFICES ASSUME NEW i \in 1..Len(queue') PROVE task'[queue'[i]] = "queued"
      OBVIOUS
    <3>1. 1 \in 1..Len(queue) /\ i + 1 \in 1..Len(queue) /\ queue'[i] = queue[i + 1]
      BY <1>1, <2>2
    <3>2. queue[i + 1] # d /\ queue[i + 1] \in Deliveries
      BY <1>1, <2>1, <2>2, <3>1
    <3> QED BY <1>3, <3>1, <3>2 DEF BusInv, QueueExact
  <2>4. \A i, j \in 1..Len(queue') : queue'[i] = queue'[j] => i = j
    <3> SUFFICES ASSUME NEW i \in 1..Len(queue'), NEW j \in 1..Len(queue'), queue'[i] = queue'[j]
                 PROVE  i = j
      OBVIOUS
    <3>1. i + 1 = j + 1
      BY <2>1, <2>2
    <3> QED BY <3>1
  <2>5. ASSUME NEW c \in Deliveries, task'[c] = "queued" PROVE Contains(queue', c)
    <3>1. c # d /\ task[c] = "queued"
      BY <1>3, <2>5
    <3>2. PICK i \in 1..Len(queue) : queue[i] = c
      BY <3>1 DEF BusInv, QueueExact, Contains
    <3>3. i - 1 \in 1..Len(queue') /\ queue'[i - 1] = queue[(i - 1) + 1] /\ (i - 1) + 1 = i
      BY <1>1, <1>2, <3>1, <3>2
    <3>4. queue'[i - 1] = c
      BY <3>2, <3>3
    <3> QED BY <3>3, <3>4 DEF Contains
  <2> QED BY <2>3, <2>4, <2>5 DEF QueueExact
<1>7. QueueOrdered'
  <2>1. /\ \A i, j \in 1..Len(order) : order[i] = order[j] => i = j
        /\ \A e \in Events : published[e] = "accepted" <=> Contains(order, e)
    BY DEF BusInv, QueueOrdered
  <2>2. \A c \in Deliveries : task'[c] # "none" => published[c[1]] = "accepted"
    BY <1>1, <1>3 DEF BusInv, QueueOrdered
  <2>3. ASSUME NEW p \in 1..Len(queue'), NEW q \in 1..Len(queue'),
               NEW i \in 1..Len(order), NEW j \in 1..Len(order),
               p < q, queue'[p][1] = order[i], queue'[q][1] = order[j]
        PROVE  i <= j
    <3>1. /\ p + 1 \in 1..Len(queue) /\ q + 1 \in 1..Len(queue) /\ p + 1 < q + 1
          /\ queue'[p] = queue[p + 1] /\ queue'[q] = queue[q + 1]
      BY <1>1, <1>2, <2>3
    <3> QED BY <2>3, <3>1 DEF BusInv, QueueOrdered
  <2> QED BY <1>4, <2>1, <2>2, <2>3 DEF QueueOrdered, Contains
<1>8. StartsInOrder'
  <2> SUFFICES ASSUME NEW i \in 1..Len(order), NEW j \in 1..Len(order), NEW h \in Handlers, i < j,
                      TypeOf[order[i]] = TypeOf[order[j]],
                      task'[<<order[j], h>>] \notin {"none", "queued"},
                      task'[<<order[i], h>>] = "queued"
               PROVE  FALSE
    BY <1>4 DEF StartsInOrder
  <2>1. i \in Nat /\ j \in Nat /\ order[i] \in Events /\ order[j] \in Events
    BY DEF BusInv, TypeOK
  <2>2. <<order[i], h>> \in Deliveries /\ <<order[j], h>> \in Deliveries
    BY <2>1 DEF Deliveries
  <2>3. <<order[i], h>> # d /\ task[<<order[i], h>>] = "queued"
    BY <1>3, <2>2
  <2>4. <<order[j], h>> = d
    BY <1>3, <2>2, <2>3 DEF BusInv, StartsInOrder
  <2>5. PICK p \in 1..Len(queue) : queue[p] = <<order[i], h>>
    BY <2>2, <2>3 DEF BusInv, QueueExact, Contains
  <2>6. 1 < p /\ 1 \in 1..Len(queue)
    BY <1>1, <2>3, <2>5
  <2>7. queue[1][1] = order[j] /\ queue[p][1] = order[i]
    BY <2>4, <2>5
  <2>8. j <= i
    BY <2>6, <2>7 DEF BusInv, QueueOrdered
  <2> QED BY <2>1, <2>8
<1>9. DrainCovers' /\ DrainLeavesNothing'
  BY <1>1, <1>3, <1>4 DEF BusInv, DrainCovers, DrainLeavesNothing
<1>10. IsFiniteSet({c \in Deliveries : task[c] \in Holding})' /\ Backpressure'
  <2>1. IsFiniteSet(H) /\ Cardinality(H) \in Nat
    BY FS_CardinalityType DEF BusInv
  <2>2. H' = H \cup {d} /\ d \notin H
    BY <1>1, <1>3
  <2>3. IsFiniteSet(H') /\ Cardinality(H') = Cardinality(H) + 1
    <3> HIDE DEF H
    <3> QED BY <2>1, <2>2, FS_AddElement
  <2>4. Cardinality(H) < MaxConcurrent
    <3>1. MaxConcurrent - Cardinality(H) > 0
      BY DEF Acquire, Permits
    <3> HIDE DEF H
    <3> QED BY <2>1, <3>1, ConstantsAssumption
  <2> QED BY <2>1, <2>3, <2>4, ConstantsAssumption DEF Backpressure
<1> QED BY <1>5, <1>6, <1>7, <1>8, <1>9, <1>10 DEF BusInv

\* The publish of an event nothing published before: one new task for each of
\* its handlers, at the end of the queue, or none at all.
LEMMA DeliverKeepsBus ==
  ASSUME BusInv, NEW e \in Events, published[e] = "no",
         NEW base \in [Deliveries -> Alive \cup {"none", "handled", "dead"}],
         \A c \in Deliveries : \/ base[c] = task[c]
                               \/ task[c] = "running" /\ base[c] = "emitted",
         Deliver(e, base), UNCHANGED <<running, subs, stopping>>
  PROVE  BusInv'
<1> DEFINE hs == subs[TypeOf[e]]
           new == [i \in 1..Len(hs) |-> <<e, hs[i]>>]
           H == {c \in Deliveries : task[c] \in Holding}
<1>0. /\ TypeOf[e] \in Types /\ hs \in Seq(Handlers) /\ Len(hs) \in Nat
      /\ \A i \in 1..Len(hs) : hs[i] \in Handlers
      /\ \A i, j \in 1..Len(hs) : hs[i] = hs[j] => i = j
      /\ queue \in Seq(Deliveries) /\ Len(queue) \in Nat
      /\ order \in Seq(Events) /\ Len(order) \in Nat
  BY ConstantsAssumption DEF BusInv, TypeOK, SubscribedOnce
\* The event is new: it has no task, and neither queue nor order know it.
<1>1. /\ \A c \in Deliveries : c[1] = e => task[c] = "none" /\ base[c] = "none"
      /\ \A i \in 1..Len(order) : order[i] # e
      /\ \A i \in 1..Len(queue) : queue[i] \in Deliveries /\ queue[i][1] # e
  BY <1>0 DEF BusInv, QueueOrdered, QueueExact, Contains
<1>2. \A c \in Deliveries : /\ base[c] \in Holding <=> task[c] \in Holding
                            /\ base[c] = "queued" <=> task[c] = "queued"
                            /\ base[c] = "none" <=> task[c] = "none"
                            /\ base[c] \in Alive <=> task[c] \in Alive
  OBVIOUS
<1>a. CASE running /\ hs # <<>>
  <2> HIDE DEF hs
  <2>0. /\ queue' = queue \o new
        /\ task' = [c \in Deliveries |-> IF c[1] = e /\ Contains(hs, c[2]) THEN "queued" ELSE base[c]]
        /\ published' = [published EXCEPT ![e] = "accepted"]
        /\ order' = Append(order, e)
    BY <1>a DEF Deliver, hs
  <2>1. new \in Seq(Deliveries) /\ Len(new) = Len(hs) /\ \A i \in 1..Len(hs) : new[i] = <<e, hs[i]>>
    <3>1. \A i \in 1..Len(hs) : <<e, hs[i]>> \in Deliveries
      BY <1>0 DEF Deliveries
    <3> QED BY <1>0, <3>1
  <2>2. /\ queue' \in Seq(Deliveries) /\ Len(queue') = Len(queue) + Len(hs)
        /\ \A i \in 1..Len(queue) : queue'[i] = queue[i]
        /\ \A i \in 1..Len(hs) : queue'[Len(queue) + i] = <<e, hs[i]>>
    <3> HIDE DEF new
    <3>1. /\ queue \o new \in Seq(Deliveries) /\ Len(queue \o new) = Len(queue) + Len(new)
          /\ \A i \in 1..Len(queue) : (queue \o new)[i] = queue[i]
          /\ \A i \in 1..Len(new) : (queue \o new)[Len(queue) + i] = new[i]
      <4>1. queue \in Seq(Deliveries) /\ new \in Seq(Deliveries)
        BY <1>0, <2>1
      <4> QED BY <4>1, ConcatElements
    <3> QED BY <2>0, <2>1, <3>1
  <2>3. /\ order' \in Seq(Events) /\ Len(order') = Len(order) + 1 /\ order'[Len(order) + 1] = e
        /\ \A i \in 1..Len(order) : order'[i] = order[i]
    BY <1>0, <2>0
  <2>4. /\ \A c \in Deliveries : task'[c] = IF c[1] = e /\ Contains(hs, c[2]) THEN "queued" ELSE base[c]
        /\ task' \in [Deliveries -> Alive \cup {"none", "handled", "dead"}]
        /\ \A c \in Deliveries : c[1] # e => task'[c] = base[c]
        /\ \A c \in Deliveries : c[1] = e => task'[c] \in {"queued", "none"}
    BY <1>1, <2>0
  <2>5. \A i \in 1..Len(queue') :
          \/ i \in 1..Len(queue) /\ queue'[i] = queue[i]
          \/ i > Len(queue) /\ i - Len(queue) \in 1..Len(hs) /\ queue'[i] = <<e, hs[i - Len(queue)]>>
    <3> SUFFICES ASSUME NEW i \in 1..Len(queue'), i > Len(queue)
                 PROVE  i - Len(queue) \in 1..Len(hs) /\ queue'[i] = <<e, hs[i - Len(queue)]>>
      BY <1>0, <2>2
    <3>1. i - Len(queue) \in 1..Len(hs) /\ Len(queue) + (i - Len(queue)) = i
      BY <1>0, <2>2
    <3> QED BY <2>2, <3>1
  <2>6. TypeOK' /\ SubscribedOnce'
    <3>1. published' \in [Events -> {"no", "accepted", "dropped"}]
      BY <2>0 DEF BusInv, TypeOK
    <3> QED BY <2>2, <2>3, <2>4, <3>1 DEF BusInv, TypeOK, SubscribedOnce
  <2>7. QueueExact'
    <3>1. \A i \in 1..Len(queue') : task'[queue'[i]] = "queued"
      <4> SUFFICES ASSUME NEW i \in 1..Len(queue') PROVE task'[queue'[i]] = "queued"
        OBVIOUS
      <4>1. CASE i \in 1..Len(queue) /\ queue'[i] = queue[i]
        BY <1>1, <1>2, <2>4, <4>1 DEF BusInv, QueueExact
      <4>2. CASE i - Len(queue) \in 1..Len(hs) /\ queue'[i] = <<e, hs[i - Len(queue)]>>
        <5>1. queue'[i] \in Deliveries /\ queue'[i][1] = e /\ Contains(hs, queue'[i][2])
          BY <1>0, <4>2 DEF Contains, Deliveries
        <5> QED BY <2>4, <5>1
      <4> QED BY <2>5, <4>1, <4>2
    <3>2. \A i, j \in 1..Len(queue') : queue'[i] = queue'[j] => i = j
      <4> SUFFICES ASSUME NEW i \in 1..Len(queue'), NEW j \in 1..Len(queue'), queue'[i] = queue'[j]
                   PROVE  i = j
        OBVIOUS
      <4>1. CASE i \in 1..Len(queue) /\ queue'[i] = queue[i] /\ j \in 1..Len(queue) /\ queue'[j] = queue[j]
        <5>1. \A k, l \in 1..Len(queue) : queue[k] = queue[l] => k = l
          BY DEF BusInv, QueueExact
        <5> QED BY <4>1, <5>1
      <4>2. ASSUME i > Len(queue), i - Len(queue) \in 1..Len(hs), queue'[i] = <<e, hs[i - Len(queue)]>>,
                   j > Len(queue), j - Len(queue) \in 1..Len(hs), queue'[j] = <<e, hs[j - Len(queue)]>>
            PROVE  i = j
        <5>1. hs[i - Len(queue)] = hs[j - Len(queue)]
          <6> DEFINE a == hs[i - Len(queue)]
                     b == hs[j - Len(queue)]
          <6>1. <<e, a>> = <<e, b>>
            BY <4>2
          <6> HIDE DEF a, b
          <6>2. a = b
            BY <6>1
          <6> QED BY <6>2 DEF a, b
        <5>2. i - Len(queue) = j - Len(queue)
          BY <1>0, <4>2, <5>1
        <5> QED BY <1>0, <2>2, <5>2
      <4>3. i \in 1..Len(queue) <=> j \in 1..Len(queue)
        BY <1>1, <2>5
      <4> QED BY <2>5, <4>1, <4>2, <4>3, <1>0
    <3>3. ASSUME NEW c \in Deliveries, task'[c] = "queued" PROVE Contains(queue', c)
      <4>1. CASE c[1] = e
        <5>1. Contains(hs, c[2])
          BY <1>1, <2>4, <3>3, <4>1
        <5>2. PICK i \in 1..Len(hs) : hs[i] = c[2]
          BY <5>1 DEF Contains
        <5>3. c = <<e, hs[i]>>
          BY <4>1, <5>2 DEF Deliveries
        <5>4. Len(queue) + i \in 1..Len(queue') /\ queue'[Len(queue) + i] = c
          BY <1>0, <2>2, <5>3
        <5> QED BY <5>4 DEF Contains
      <4>2. CASE c[1] # e
        <5>1. Contains(queue, c)
          BY <1>2, <2>4, <3>3, <4>2 DEF BusInv, QueueExact
        <5> QED BY <1>0, <2>2, <5>1 DEF Contains
      <4> QED BY <4>1, <4>2
    <3> QED BY <3>1, <3>2, <3>3 DEF QueueExact
  <2>8. QueueOrdered'
    <3>1. \A i, j \in 1..Len(order') : order'[i] = order'[j] => i = j
      BY <1>0, <1>1, <2>3 DEF BusInv, QueueOrdered
    <3>2. ASSUME NEW f \in Events PROVE published'[f] = "accepted" <=> Contains(order', f)
      <4>1. Contains(order', f) <=> f = e \/ Contains(order, f)
        <5>1. \A i \in 1..Len(order') : i \in 1..Len(order) \/ i = Len(order) + 1
          BY <1>0, <2>3
        <5>2. \A i \in 1..Len(order) : i \in 1..Len(order')
          BY <1>0, <2>3
        <5>3. Len(order) + 1 \in 1..Len(order')
          BY <1>0, <2>3
        <5> QED BY <2>3, <5>1, <5>2, <5>3 DEF Contains
      <4>2. published'[f] = "accepted" <=> f = e \/ published[f] = "accepted"
        BY <2>0 DEF BusInv, TypeOK
      <4> QED BY <4>1, <4>2 DEF BusInv, QueueOrdered
    <3>3. ASSUME NEW c \in Deliveries, task'[c] # "none" PROVE published'[c[1]] = "accepted"
      <4>1. c[1] \in Events
        BY DEF Deliveries
      <4>2. c[1] # e => task[c] # "none"
        BY <1>2, <2>4, <3>3
      <4> QED BY <2>0, <4>1, <4>2 DEF BusInv, TypeOK, QueueOrdered
    <3>4. ASSUME NEW p \in 1..Len(queue'), NEW q \in 1..Len(queue'),
                 NEW i \in 1..Len(order'), NEW j \in 1..Len(order'),
                 p < q, queue'[p][1] = order'[i], queue'[q][1] = order'[j]
          PROVE  i <= j
      <4>1. CASE j = Len(order) + 1
        BY <1>0, <2>3, <4>1
      <4>2. CASE j \in 1..Len(order)
        <5>1. queue'[q][1] # e
          BY <1>1, <2>3, <3>4, <4>2
        <5>2. q \in 1..Len(queue) /\ queue'[q] = queue[q]
          BY <2>5, <5>1
        <5>3. p \in 1..Len(queue) /\ queue'[p] = queue[p]
          BY <1>0, <2>2, <3>4, <5>2
        <5>4. i \in 1..Len(order) /\ order'[i] = order[i]
          BY <1>0, <1>1, <2>3, <3>4, <5>3
        <5> QED BY <2>3, <3>4, <4>2, <5>2, <5>3, <5>4 DEF BusInv, QueueOrdered
      <4> QED BY <1>0, <2>3, <4>1, <4>2
    <3> QED BY <3>1, <3>2, <3>3, <3>4 DEF QueueOrdered
  <2>9. StartsInOrder'
    <3> SUFFICES ASSUME NEW i \in 1..Len(order'), NEW j \in 1..Len(order'), NEW h \in Handlers, i < j,
                        TypeOf[order'[i]] = TypeOf[order'[j]],
                        task'[<<order'[j], h>>] \notin {"none", "queued"}
                 PROVE  task'[<<order'[i], h>>] # "queued"
      BY DEF StartsInOrder
    <3>1. \A k \in 1..Len(order') : <<order'[k], h>> \in Deliveries
      BY <2>3 DEF Deliveries
    <3>2. order'[j] # e
      BY <2>4, <3>1
    <3>3. j \in 1..Len(order) /\ i \in 1..Len(order)
      BY <1>0, <2>3, <3>2
    <3>4. order'[j] = order[j] /\ order'[i] = order[i] /\ order[i] # e
      BY <1>1, <2>3, <3>3
    <3>5. /\ task'[<<order[j], h>>] = base[<<order[j], h>>]
          /\ task'[<<order[i], h>>] = base[<<order[i], h>>]
      BY <2>4, <3>1, <3>2, <3>4
    <3>6. task[<<order[j], h>>] \notin {"none", "queued"}
      BY <1>2, <3>1, <3>4, <3>5
    <3>7. task[<<order[i], h>>] # "queued"
      BY <3>3, <3>4, <3>6 DEF BusInv, StartsInOrder
    <3> QED BY <1>2, <3>1, <3>4, <3>5, <3>7
  <2>10. DrainCovers' /\ DrainLeavesNothing'
    BY <1>a DEF BusInv, DrainCovers, DrainLeavesNothing, TypeOK
  <2>11. H' = H
    BY <1>1, <1>2, <2>4
  <2> QED BY <2>6, <2>7, <2>8, <2>9, <2>10, <2>11 DEF BusInv, Backpressure
<1>b. CASE ~(running /\ hs # <<>>)
  <2>1. task' = base /\ published' = [published EXCEPT ![e] = "dropped"] /\ UNCHANGED <<queue, order>>
    BY <1>b DEF Deliver
  <2>2. TypeOK' /\ SubscribedOnce'
    BY <2>1 DEF BusInv, TypeOK, SubscribedOnce
  <2>3. QueueExact'
    BY <1>1, <1>2, <2>1 DEF BusInv, QueueExact
  <2>4. QueueOrdered'
    <3>1. \A f \in Events : published'[f] = "accepted" <=> published[f] = "accepted"
      BY <2>1 DEF BusInv, TypeOK
    <3>2. \A c \in Deliveries : task'[c] # "none" => published'[c[1]] = "accepted"
      BY <1>2, <2>1, <3>1 DEF BusInv, QueueOrdered, Deliveries
    <3> QED BY <2>1, <3>1, <3>2 DEF BusInv, QueueOrdered
  <2>5. StartsInOrder'
    <3>1. \A i \in 1..Len(order), h \in Handlers : <<order[i], h>> \in Deliveries
      BY <1>0 DEF Deliveries
    <3> QED BY <1>2, <2>1, <3>1 DEF BusInv, StartsInOrder
  <2>6. DrainCovers' /\ DrainLeavesNothing'
    BY <1>2, <2>1 DEF BusInv, DrainCovers, DrainLeavesNothing
  <2>7. H' = H
    BY <1>2, <2>1
  <2> QED BY <2>2, <2>3, <2>4, <2>5, <2>6, <2>7 DEF BusInv, Backpressure
<1> QED BY <1>a, <1>b

LEMMA PublishKeepsBus ==
  ASSUME BusInv, NEW e \in Events, Publish(e)
  PROVE  BusInv'
<1>1. task \in [Deliveries -> Alive \cup {"none", "handled", "dead"}]
  BY DEF BusInv, TypeOK
<1> QED BY <1>1, DeliverKeepsBus DEF Publish

\* What a handler publishes while it runs.
LEMMA EmitKeepsBus ==
  ASSUME BusInv, NEW d \in Deliveries, Emit(d)
  PROVE  BusInv'
<1> DEFINE base == [task EXCEPT ![d] = "emitted"]
<1>1. /\ base \in [Deliveries -> Alive \cup {"none", "handled", "dead"}]
      /\ \A c \in Deliveries : \/ base[c] = task[c]
                               \/ task[c] = "running" /\ base[c] = "emitted"
  BY DEF BusInv, TypeOK, Emit
<1>2. FollowUp[d[1]] \in Events /\ published[FollowUp[d[1]]] = "no"
  BY ConstantsAssumption DEF Emit, Deliveries
<1>3. Deliver(FollowUp[d[1]], base) /\ UNCHANGED <<running, subs, stopping>>
  BY DEF Emit
<1> HIDE DEF base
<1> QED BY <1>1, <1>2, <1>3, DeliverKeepsBus

LEMMA StopKeepsBus ==
  ASSUME BusInv, Start \/ Stop \/ StopReturns
  PROVE  BusInv'
<1>1. UNCHANGED <<subs, queue, task, published, order>>
  BY DEF Start, Stop, StopReturns
<1>2. /\ running' \in BOOLEAN
      /\ stopping' \in [phase : {"no", "draining", "stopped"}, awaited : SUBSET Deliveries]
  <2>1. CASE Start BY <2>1 DEF BusInv, TypeOK, Start
  <2>2. CASE Stop BY <2>2 DEF Stop
  <2>3. CASE StopReturns BY <2>3 DEF BusInv, TypeOK, StopReturns
  <2> QED BY <2>1, <2>2, <2>3
<1>3. DrainCovers' /\ DrainLeavesNothing'
  <2>1. CASE Start BY <2>1 DEF BusInv, DrainCovers, DrainLeavesNothing, Start
  <2>2. CASE Stop BY <2>2 DEF DrainCovers, DrainLeavesNothing, Stop
  <2>3. CASE StopReturns
    <3>1. stopping'.awaited = stopping.awaited /\ stopping.phase = "draining"
      BY <2>3 DEF BusInv, TypeOK, StopReturns
    <3> QED BY <2>3, <3>1 DEF BusInv, DrainCovers, DrainLeavesNothing, StopReturns
  <2> QED BY <2>1, <2>2, <2>3
<1> QED BY <1>1, <1>2, <1>3 DEF BusInv, TypeOK, SubscribedOnce, QueueExact, QueueOrdered,
           StartsInOrder, Backpressure

LEMMA NextKeepsBus == BusInv /\ [Next]_vars => BusInv'
<1> SUFFICES ASSUME BusInv, [Next]_vars PROVE BusInv'
  OBVIOUS
<1>1. ASSUME NEW d \in Deliveries, Return(d) \/ Raise(d) \/ Buried(d) PROVE BusInv'
  BY <1>1, TaskMoveKeepsBus DEF Return, Raise, Buried
<1>2. CASE UNCHANGED vars
  BY <1>2 DEF vars, BusInv, TypeOK, SubscribedOnce, QueueExact, QueueOrdered, StartsInOrder,
              DrainCovers, DrainLeavesNothing, Backpressure
<1> QED BY <1>1, <1>2, SubscriptionsKeepBus, AcquireKeepsBus, PublishKeepsBus, EmitKeepsBus,
           StopKeepsBus DEF Next

\* Queue, semaphore, subscriptions and drain agree in every reachable state.
THEOREM BusInvariant == Spec => []BusInv
  BY InitBus, NextKeepsBus, PTL DEF Spec

\* The tasks are well typed, never exceed the permits, and none survives stop.
THEOREM TasksCorrect == Spec => []TasksInv
<1>1. BusInv => TasksInv
  BY DEF BusInv, TasksInv
<1> QED BY <1>1, BusInvariant, PTL

\* A handler starts the events of one type in the order of their publication.
THEOREM StartsAreOrdered == Spec => []StartsInOrder
<1>1. BusInv => StartsInOrder
  BY DEF BusInv
<1> QED BY <1>1, BusInvariant, PTL

-----------------------------------------------------------------------------
(* Implementation of EventBus.                                             *)

Owed == {d \in Deliveries : task[d] \in Alive}

\* A publish accepts one event for the handlers subscribed at that moment.
LEMMA DeliverImplements ==
  ASSUME BusInv, NEW e \in Events, published[e] = "no", NEW base,
         \A c \in Deliveries : \/ base[c] = task[c]
                               \/ task[c] = "running" /\ base[c] = "emitted",
         Deliver(e, base)
  PROVE  Bus!Next \/ UNCHANGED Bus!vars
<1> DEFINE hs == subs[TypeOf[e]]
           HS == {h \in Handlers : Contains(hs, h)}
<1>1. \A c \in Deliveries : /\ base[c] \in Alive <=> task[c] \in Alive
                            /\ base[c] = "handled" <=> task[c] = "handled"
                            /\ base[c] = "dead" <=> task[c] = "dead"
  OBVIOUS
<1>2. \A c \in Deliveries : c[1] = e => task[c] = "none"
  BY DEF BusInv, QueueOrdered
<1>a. CASE running /\ hs # <<>>
  <2>1. task' = [c \in Deliveries |-> IF c[1] = e /\ Contains(hs, c[2]) THEN "queued" ELSE base[c]]
    BY <1>a DEF Deliver
  <2>2. HS # {}
    <3>1. hs \in Seq(Handlers)
      BY ConstantsAssumption DEF BusInv, TypeOK
    <3>2. 1 \in 1..Len(hs) /\ hs[1] \in Handlers
      BY <1>a, <3>1
    <3> QED BY <3>2 DEF Contains
  <2>3. {e} \X HS \subseteq Deliveries
    BY DEF Deliveries
  <2>4. \A c \in Deliveries : c \in {e} \X HS <=> c[1] = e /\ Contains(hs, c[2])
    BY DEF Deliveries
  <2> HIDE DEF hs, HS
  <2>5. /\ Owed' = Owed \cup ({e} \X HS)
        /\ ({e} \X HS) \cap (Owed \cup {d \in Deliveries : task[d] = "handled"}
                                  \cup {d \in Deliveries : task[d] = "dead"}) = {}
    BY <1>1, <1>2, <2>1, <2>3, <2>4 DEF Owed
  <2>6. /\ {d \in Deliveries : task[d] = "handled"}' = {d \in Deliveries : task[d] = "handled"}
        /\ {d \in Deliveries : task[d] = "dead"}' = {d \in Deliveries : task[d] = "dead"}
    BY <1>1, <1>2, <2>1
  <2>7. HS \in SUBSET Handlers
    BY DEF HS
  <2>8. Bus!Accept(e)
    BY <2>2, <2>5, <2>6, <2>7 DEF Bus!Accept, Owed
  <2> QED BY <2>8 DEF Bus!Next
<1>b. CASE ~(running /\ hs # <<>>)
  <2>1. task' = base
    BY <1>b DEF Deliver
  <2> QED BY <1>1, <2>1 DEF Bus!vars
<1> QED BY <1>a, <1>b

\* Whatever the bus accepted is handled once or buried once: each step of
\* InMemoryBus is a step of the contract or leaves it alone.
THEOREM InMemoryBusImplementsBus == Spec => ImplementsBus
<1>1. Init => Bus!Init
  BY DEF Init, Bus!Init
<1>2. ASSUME BusInv, [Next]_vars PROVE [Bus!Next]_(Bus!vars)
  <2>0. task \in [Deliveries -> Alive \cup {"none", "handled", "dead"}]
    BY <1>2 DEF BusInv, TypeOK
  <2>1. CASE \/ UNCHANGED vars \/ Start \/ Stop \/ StopReturns
             \/ \E t \in Types, h \in Handlers : Subscribe(t, h) \/ Unsubscribe(t, h)
    <3>1. UNCHANGED task
      BY <2>1 DEF vars, Start, Stop, StopReturns, Subscribe, Unsubscribe
    <3> QED BY <3>1 DEF Bus!vars
  <2>2. ASSUME NEW d \in Deliveries, NEW new \in Holding, task[d] \in Alive,
               task' = [task EXCEPT ![d] = new]
        PROVE  UNCHANGED Bus!vars
    <3>1. \A c \in Deliveries : /\ task'[c] \in Alive <=> task[c] \in Alive
                                /\ task'[c] = "handled" <=> task[c] = "handled"
                                /\ task'[c] = "dead" <=> task[c] = "dead"
      BY <2>0, <2>2
    <3> QED BY <3>1 DEF Bus!vars
  <2>3. CASE Acquire
    <3>1. queue[1] \in Deliveries /\ task[queue[1]] = "queued" /\ Head(queue) = queue[1]
      BY <1>2, <2>3 DEF Acquire, BusInv, TypeOK, QueueExact
    <3> QED BY <2>2, <2>3, <3>1 DEF Acquire
  <2>4. ASSUME NEW e \in Events, Publish(e) PROVE Bus!Next \/ UNCHANGED Bus!vars
    BY <1>2, <2>4, DeliverImplements DEF Publish
  <2>5. ASSUME NEW d \in Deliveries, Emit(d) PROVE Bus!Next \/ UNCHANGED Bus!vars
    <3>1. \A c \in Deliveries : \/ [task EXCEPT ![d] = "emitted"][c] = task[c]
                                \/ task[c] = "running" /\ [task EXCEPT ![d] = "emitted"][c] = "emitted"
      BY <2>0, <2>5 DEF Emit
    <3>2. FollowUp[d[1]] \in Events /\ published[FollowUp[d[1]]] = "no"
      BY <2>5, ConstantsAssumption DEF Emit, Deliveries
    <3> QED BY <1>2, <2>5, <3>1, <3>2, DeliverImplements DEF Emit
  <2>6. ASSUME NEW d \in Deliveries, Raise(d) PROVE UNCHANGED Bus!vars
    BY <2>2, <2>6 DEF Raise
  <2>7. ASSUME NEW d \in Deliveries, Return(d) PROVE Bus!Next
    <3>1. d \in Owed /\ task'[d] = "handled" /\ \A c \in Deliveries : c # d => task'[c] = task[c]
      BY <2>0, <2>7 DEF Return, Owed
    <3>2. Bus!Handle(d)
      BY <2>0, <3>1 DEF Bus!Handle, Owed
    <3> QED BY <3>1, <3>2 DEF Bus!Next, Owed
  <2>8. ASSUME NEW d \in Deliveries, Buried(d) PROVE Bus!Next
    <3>1. d \in Owed /\ task'[d] = "dead" /\ \A c \in Deliveries : c # d => task'[c] = task[c]
      BY <2>0, <2>8 DEF Buried, Owed
    <3>2. {d} \in SUBSET Owed
      BY <3>1
    <3>3. \A c \in Deliveries : /\ task'[c] \in Alive <=> task[c] \in Alive /\ c # d
                                /\ task'[c] = "dead" <=> task[c] = "dead" \/ c = d
                                /\ task'[c] = "handled" <=> task[c] = "handled"
      BY <3>1 DEF Owed
    <3>4. /\ Owed' = Owed \ {d}
          /\ {c \in Deliveries : task'[c] = "dead"} = {c \in Deliveries : task[c] = "dead"} \cup {d}
          /\ {c \in Deliveries : task'[c] = "handled"} = {c \in Deliveries : task[c] = "handled"}
      BY <3>1, <3>3 DEF Owed
    <3>5. Bus!Bury
      BY <3>2, <3>4 DEF Bus!Bury, Owed
    <3> QED BY <3>5 DEF Bus!Next
  <2> QED BY <1>2, <2>1, <2>3, <2>4, <2>5, <2>6, <2>7, <2>8 DEF Next
<1> QED BY <1>1, <1>2, BusInvariant, PTL DEF Spec, ImplementsBus, Bus!Spec
=============================================================================
