--------------------------- MODULE RedisBusProofs ---------------------------
(***************************************************************************)
(* Theorems about module RedisBus, for any entries, handlers, batch size,  *)
(* and number of loops, processes and faults.                              *)
(***************************************************************************)
EXTENDS RedisBus, TLAPS

-----------------------------------------------------------------------------
(* The entries of the stream and the records of the loops.                 *)

LEMMA RemoveAtElements ==
  ASSUME NEW S, NEW s \in Seq(S), NEW k \in 1..Len(s)
  PROVE  /\ RemoveAt(s, k) \in Seq(S)
         /\ Len(RemoveAt(s, k)) = Len(s) - 1
         /\ \A i \in 1..Len(s) - 1 : RemoveAt(s, k)[i] = IF i < k THEN s[i] ELSE s[i + 1]
<1>1. /\ SubSeq(s, 1, k - 1) \in Seq(S) /\ Len(SubSeq(s, 1, k - 1)) = k - 1
      /\ \A i \in 1..k - 1 : SubSeq(s, 1, k - 1)[i] = s[i]
  OBVIOUS
<1>2. /\ SubSeq(s, k + 1, Len(s)) \in Seq(S) /\ Len(SubSeq(s, k + 1, Len(s))) = Len(s) - k
      /\ \A i \in 1..Len(s) - k : SubSeq(s, k + 1, Len(s))[i] = s[k + i]
  OBVIOUS
<1> DEFINE a == SubSeq(s, 1, k - 1)
           b == SubSeq(s, k + 1, Len(s))
<1>3. /\ a \o b \in Seq(S) /\ Len(a \o b) = Len(s) - 1
      /\ \A i \in 1..Len(s) - 1 : (a \o b)[i] = IF i <= k - 1 THEN a[i] ELSE b[i - (k - 1)]
  <2>1. a \in Seq(S) /\ b \in Seq(S) /\ Len(a) = k - 1 /\ Len(b) = Len(s) - k
    BY <1>1, <1>2
  <2> HIDE DEF a, b
  <2> QED BY <2>1
<1>4. \A i \in 1..Len(s) - 1 : i >= k => b[i - (k - 1)] = s[i + 1]
  <2> SUFFICES ASSUME NEW i \in 1..Len(s) - 1, i >= k PROVE b[i - (k - 1)] = s[i + 1]
    OBVIOUS
  <2>1. i - (k - 1) \in 1..Len(s) - k
    OBVIOUS
  <2>2. k + (i - (k - 1)) = i + 1
    OBVIOUS
  <2> QED BY <1>2, <2>1, <2>2
<1> HIDE DEF a, b
<1>5. \A i \in 1..Len(s) - 1 : i < k => a[i] = s[i]
  BY <1>1 DEF a
<1>6. RemoveAt(s, k) = a \o b
  BY DEF RemoveAt, a, b
<1>7. \A i \in 1..Len(s) - 1 : i < k <=> i <= k - 1
  OBVIOUS
<1> QED BY <1>3, <1>4, <1>5, <1>6, <1>7

LEMMA RemoveAtOnce ==
  ASSUME NEW S, NEW s \in Seq(S), NEW k \in 1..Len(s), Once(s)
  PROVE  RemoveAt(s, k) \in Seq(S) /\ Once(RemoveAt(s, k))
<1> DEFINE r == RemoveAt(s, k)
           from(i) == IF i < k THEN i ELSE i + 1
<1>1. /\ r \in Seq(S) /\ Len(r) = Len(s) - 1
      /\ \A i \in 1..Len(s) - 1 : r[i] = IF i < k THEN s[i] ELSE s[i + 1]
  BY RemoveAtElements
<1> HIDE DEF r
<1>2. \A i \in 1..Len(r) : from(i) \in 1..Len(s) /\ r[i] = s[from(i)]
  BY <1>1
<1>3. \A i, j \in 1..Len(r) : from(i) = from(j) => i = j
  BY <1>1
<1> HIDE DEF from
<1>4. Once(r)
  BY <1>2, <1>3 DEF Once
<1> QED BY <1>1, <1>4 DEF r

LoopRecords == [pc : Holding \cup {"reading", "between", "sleeping", "ended"},
                batch : Seq(Events), next : Nat \ {0}, handler : Handlers \cup {"none"}]

LEMMA NextEntriesExact ==
  ASSUME TypeOK
  PROVE  /\ NextEntries \in Seq(Events)
         /\ Len(NextEntries) \in Nat /\ position + Len(NextEntries) <= Len(stream)
         /\ \A k \in 1..Len(NextEntries) : NextEntries[k] = stream[position + k]
<1> DEFINE n == Len(stream) - position
           m == IF n < BatchSize THEN n ELSE BatchSize
<1>1. stream \in Seq(Events) /\ position \in 0..Len(stream) /\ Len(stream) \in Nat
  BY DEF TypeOK
<1>2. m \in Nat /\ position + m <= Len(stream) /\ position \in Nat
  BY <1>1, ConstantsAssumption
<1>3. NextEntries = SubSeq(stream, position + 1, position + m)
  BY DEF NextEntries
<1> HIDE DEF m
<1>4. /\ SubSeq(stream, position + 1, position + m) \in Seq(Events)
      /\ Len(SubSeq(stream, position + 1, position + m)) = m
      /\ \A k \in 1..m : SubSeq(stream, position + 1, position + m)[k] = stream[position + k]
  BY <1>1, <1>2
<1> QED BY <1>2, <1>3, <1>4

\* What a read gives out.
LEMMA ReadGives ==
  ASSUME TypeOK, stream' = stream, position' = position + Len(NextEntries)
  PROVE  /\ GivenOut' = GivenOut \cup ToSet(NextEntries)
         /\ ToSet(NextEntries) \subseteq Events
         /\ GivenOut \cap ToSet(NextEntries) = {}
<1> DEFINE s == NextEntries
<1>1. /\ s \in Seq(Events) /\ Len(s) \in Nat /\ position + Len(s) <= Len(stream)
      /\ \A k \in 1..Len(s) : s[k] = stream[position + k]
  BY NextEntriesExact
<1>2. position \in Nat /\ Len(stream) \in Nat /\ position <= Len(stream)
  BY DEF TypeOK
<1>3. ToSet(s) = {s[k] : k \in 1..Len(s)}
  BY <1>1 DEF ToSet
<1> HIDE DEF s
<1>4. \A p \in 1..position + Len(s) : p \in 1..position \/ p - position \in 1..Len(s)
  BY <1>1, <1>2
<1>5. \A k \in 1..Len(s) : position + k \in 1..position + Len(s) /\ position + k \notin 1..position
                           /\ position + k \in 1..Len(stream)
  BY <1>1, <1>2
<1>6. GivenOut' = GivenOut \cup ToSet(s)
  <2>1. GivenOut' = {stream[p] : p \in 1..position + Len(s)}
    BY DEF GivenOut, s
  <2>2. ASSUME NEW p \in 1..position + Len(s)
        PROVE  stream[p] \in GivenOut \cup ToSet(s)
    <3>1. CASE p \in 1..position
      BY <3>1 DEF GivenOut
    <3>2. CASE p - position \in 1..Len(s)
      <4>1. s[p - position] = stream[p]
        BY <1>1, <1>2, <3>2
      <4> QED BY <1>3, <3>2, <4>1
    <3> QED BY <1>4, <3>1, <3>2
  <2>3. ToSet(s) \subseteq GivenOut'
    BY <1>1, <1>3, <1>5, <2>1
  <2>4. GivenOut \subseteq GivenOut'
    BY <1>1, <1>2, <2>1 DEF GivenOut
  <2> QED BY <2>1, <2>2, <2>3, <2>4
<1>7. ToSet(s) \subseteq Events
  BY <1>1, <1>3
<1>8. GivenOut \cap ToSet(s) = {}
  <2> SUFFICES ASSUME NEW p \in 1..position, NEW k \in 1..Len(s), stream[p] = stream[position + k]
               PROVE  FALSE
    BY <1>1, <1>3 DEF GivenOut
  <2>1. p \in 1..Len(stream) /\ position + k \in 1..Len(stream) /\ p # position + k
    BY <1>2, <1>5
  <2> QED BY <2>1 DEF TypeOK, Once
<1> QED BY <1>6, <1>7, <1>8 DEF s

LEMMA GivenOutGrows ==
  ASSUME TypeOK,
         \/ stream' = stream \/ \E e \in Events : ~Contains(stream, e) /\ stream' = Append(stream, e),
         position' = position
  PROVE  /\ stream' \in Seq(Events) /\ Once(stream)' /\ position' \in 0..Len(stream')
         /\ GivenOut' = GivenOut
         /\ Len(stream') \in {Len(stream), Len(stream) + 1}
         /\ \A p \in 1..Len(stream) : stream'[p] = stream[p]
<1>1. stream \in Seq(Events) /\ position \in 0..Len(stream) /\ Len(stream) \in Nat /\ Once(stream)
  BY DEF TypeOK
<1>2. CASE stream' = stream
  BY <1>1, <1>2 DEF GivenOut, Once
<1>3. ASSUME NEW e \in Events, ~Contains(stream, e), stream' = Append(stream, e)
      PROVE  /\ stream' \in Seq(Events) /\ Once(stream)' /\ position' \in 0..Len(stream')
             /\ GivenOut' = GivenOut
             /\ Len(stream') \in {Len(stream), Len(stream) + 1}
             /\ \A p \in 1..Len(stream) : stream'[p] = stream[p]
  <2>1. /\ stream' \in Seq(Events) /\ Len(stream') = Len(stream) + 1
        /\ \A p \in 1..Len(stream) : stream'[p] = stream[p]
        /\ stream'[Len(stream) + 1] = e
    BY <1>1, <1>3
  <2>2. \A p \in 1..Len(stream) : stream[p] # e
    BY <1>3 DEF Contains
  <2>3. Once(stream)'
    <3>1. \A p \in 1..Len(stream') : p \in 1..Len(stream) \/ p = Len(stream) + 1
      BY <1>1, <2>1
    <3> QED BY <1>1, <2>1, <2>2, <3>1 DEF Once
  <2>4. GivenOut' = GivenOut
    <3>1. \A p \in 1..position : stream'[p] = stream[p]
      BY <1>1, <2>1
    <3> QED BY <3>1 DEF GivenOut
  <2> QED BY <1>1, <2>1, <2>3, <2>4
<1> QED BY <1>2, <1>3

\* One loop moves and the others stay.
Moves(l, pc, batch, next, handler) ==
  /\ loops' = [loops EXCEPT ![l] = [pc |-> pc, batch |-> batch, next |-> next, handler |-> handler]]
  /\ Len(loops') = Len(loops) /\ Loops' = Loops
  /\ loops'[l] = [pc |-> pc, batch |-> batch, next |-> next, handler |-> handler]
  /\ \A k \in Loops : k # l => loops'[k] = loops[k]

LEMMA LoopsTyped ==
  ASSUME TypeOK
  PROVE  /\ loops \in Seq(LoopRecords) /\ Len(loops) \in Nat
         /\ \A l \in Loops : /\ loops[l] \in LoopRecords
                             /\ loops[l].batch \in Seq(Events)
                             /\ loops[l] = [pc |-> loops[l].pc, batch |-> loops[l].batch,
                                            next |-> loops[l].next, handler |-> loops[l].handler]
<1>1. loops \in Seq(LoopRecords)
  BY DEF TypeOK, LoopRecords
<1>2. ASSUME NEW l \in Loops
      PROVE  /\ loops[l] \in LoopRecords
             /\ loops[l].batch \in Seq(Events)
             /\ loops[l] = [pc |-> loops[l].pc, batch |-> loops[l].batch,
                            next |-> loops[l].next, handler |-> loops[l].handler]
  <2>1. loops[l] \in LoopRecords
    <3> HIDE DEF LoopRecords
    <3> QED BY <1>1 DEF Loops
  <2> QED BY <2>1 DEF LoopRecords
<1> QED BY <1>1, <1>2

LEMMA SetLoopMoves ==
  ASSUME TypeOK, NEW l \in Loops, NEW pc, NEW batch, NEW next, NEW handler,
         SetLoop(l, [pc |-> pc, batch |-> batch, next |-> next, handler |-> handler])
  PROVE  Moves(l, pc, batch, next, handler)
<1> DEFINE r == [pc |-> pc, batch |-> batch, next |-> next, handler |-> handler]
<1>1. loops' = [loops EXCEPT ![l] = r] /\ loops \in Seq(LoopRecords)
  BY LoopsTyped DEF SetLoop
<1>2. DOMAIN loops = 1..Len(loops) /\ DOMAIN loops' = 1..Len(loops) /\ Len(loops) \in Nat
  <2> HIDE DEF r
  <2> QED BY <1>1
<1>3. Len(loops') = Len(loops)
  BY <1>2
<1> QED BY <1>1, <1>2, <1>3 DEF Moves, Loops

LEMMA LoopUpdates ==
  ASSUME NEW r \in LoopRecords, NEW pc, NEW batch
  PROVE  /\ [r EXCEPT !.pc = pc] =
              [pc |-> pc, batch |-> r.batch, next |-> r.next, handler |-> r.handler]
         /\ [r EXCEPT !.pc = pc, !.batch = batch] =
              [pc |-> pc, batch |-> batch, next |-> r.next, handler |-> r.handler]
         /\ [r EXCEPT !.batch = batch, !.pc = pc] =
              [pc |-> pc, batch |-> batch, next |-> r.next, handler |-> r.handler]
<1>1. [r EXCEPT !.pc = pc] = [pc |-> pc, batch |-> r.batch, next |-> r.next, handler |-> r.handler]
  BY DEF LoopRecords
<1>2. [r EXCEPT !.pc = pc, !.batch = batch] = [[r EXCEPT !.pc = pc] EXCEPT !.batch = batch]
  BY Zenon
<1>3. [r EXCEPT !.batch = batch, !.pc = pc] = [[r EXCEPT !.batch = batch] EXCEPT !.pc = pc]
  BY Zenon
<1>4. [r EXCEPT !.batch = batch] =
        [pc |-> r.pc, batch |-> batch, next |-> r.next, handler |-> r.handler]
  BY DEF LoopRecords
<1>5. [[r EXCEPT !.pc = pc] EXCEPT !.batch = batch] =
        [pc |-> pc, batch |-> batch, next |-> r.next, handler |-> r.handler]
  <2> DEFINE q == [r EXCEPT !.pc = pc]
  <2>1. q = [pc |-> pc, batch |-> r.batch, next |-> r.next, handler |-> r.handler]
    BY <1>1
  <2> HIDE DEF q
  <2>2. [q EXCEPT !.batch = batch] =
          [pc |-> pc, batch |-> batch, next |-> r.next, handler |-> r.handler]
    BY <2>1
  <2> QED BY <2>2 DEF q
<1>6. [[r EXCEPT !.batch = batch] EXCEPT !.pc = pc] =
        [pc |-> pc, batch |-> batch, next |-> r.next, handler |-> r.handler]
  <2> DEFINE q == [r EXCEPT !.batch = batch]
  <2>1. q = [pc |-> r.pc, batch |-> batch, next |-> r.next, handler |-> r.handler]
    BY <1>4
  <2> HIDE DEF q
  <2>2. [q EXCEPT !.pc = pc] = [pc |-> pc, batch |-> batch, next |-> r.next, handler |-> r.handler]
    BY <2>1
  <2> QED BY <2>2 DEF q
<1> QED BY <1>1, <1>2, <1>3, <1>5, <1>6

LEMMA PcMoves ==
  ASSUME TypeOK, NEW l \in Loops, NEW pc, SetLoop(l, [loops[l] EXCEPT !.pc = pc])
  PROVE  Moves(l, pc, loops[l].batch, loops[l].next, loops[l].handler)
<1>0. loops[l] \in LoopRecords
  BY LoopsTyped
<1>1. [loops[l] EXCEPT !.pc = pc] =
        [pc |-> pc, batch |-> loops[l].batch, next |-> loops[l].next, handler |-> loops[l].handler]
  BY <1>0, LoopUpdates
<1> QED BY <1>1, SetLoopMoves

LEMMA BatchMoves ==
  ASSUME TypeOK, NEW l \in Loops, NEW pc, NEW batch,
         SetLoop(l, [loops[l] EXCEPT !.pc = pc, !.batch = batch])
  PROVE  Moves(l, pc, batch, loops[l].next, loops[l].handler)
<1>0. loops[l] \in LoopRecords
  BY LoopsTyped
<1>1. [loops[l] EXCEPT !.pc = pc, !.batch = batch] =
        [pc |-> pc, batch |-> batch, next |-> loops[l].next, handler |-> loops[l].handler]
  BY <1>0, LoopUpdates
<1> QED BY <1>1, SetLoopMoves

LEMMA DoneMoves ==
  ASSUME TypeOK, NEW l \in Loops, Done(l)
  PROVE  Moves(l, IF Tail(loops[l].batch) = <<>> THEN "reading" ELSE "between",
               Tail(loops[l].batch), loops[l].next, loops[l].handler)
<1> DEFINE pc == IF Tail(loops[l].batch) = <<>> THEN "reading" ELSE "between"
           rest == Tail(loops[l].batch)
<1>0. loops[l] \in LoopRecords
  BY LoopsTyped
<1>1. [loops[l] EXCEPT !.batch = rest, !.pc = pc] =
        [pc |-> pc, batch |-> rest, next |-> loops[l].next, handler |-> loops[l].handler]
  <2> HIDE DEF pc, rest
  <2> QED BY <1>0, LoopUpdates
<1>2. SetLoop(l, [loops[l] EXCEPT !.batch = rest, !.pc = pc])
  BY DEF Done
<1> HIDE DEF pc, rest
<1>3. Moves(l, pc, rest, loops[l].next, loops[l].handler)
  BY <1>1, <1>2, SetLoopMoves
<1> QED BY <1>3 DEF pc, rest

LEMMA HandlerMoves ==
  ASSUME TypeOK, NEW l \in Loops, NEW pc, NEW next, NEW handler,
         SetLoop(l, [loops[l] EXCEPT !.pc = pc, !.next = next, !.handler = handler])
  PROVE  Moves(l, pc, loops[l].batch, next, handler)
<1> DEFINE r == loops[l]
           to == [r EXCEPT !.pc = pc, !.next = next, !.handler = handler]
<1>0. r \in LoopRecords
  BY LoopsTyped
<1> HIDE DEF r
<1>1. to = [pc |-> pc, batch |-> r.batch, next |-> next, handler |-> handler]
  <2>1. [r EXCEPT !.pc = pc] = [pc |-> pc, batch |-> r.batch, next |-> r.next, handler |-> r.handler]
    BY <1>0 DEF LoopRecords
  <2>2. [r EXCEPT !.pc = pc, !.next = next, !.handler = handler] =
          [[r EXCEPT !.pc = pc, !.next = next] EXCEPT !.handler = handler]
    BY Zenon
  <2>3. [r EXCEPT !.pc = pc, !.next = next] = [[r EXCEPT !.pc = pc] EXCEPT !.next = next]
    BY Zenon
  <2>4. [[r EXCEPT !.pc = pc] EXCEPT !.next = next] =
          [pc |-> pc, batch |-> r.batch, next |-> next, handler |-> r.handler]
    <3> DEFINE q == [r EXCEPT !.pc = pc]
    <3>1. q = [pc |-> pc, batch |-> r.batch, next |-> r.next, handler |-> r.handler]
      BY <2>1
    <3> HIDE DEF q
    <3>2. [q EXCEPT !.next = next] = [pc |-> pc, batch |-> r.batch, next |-> next, handler |-> r.handler]
      BY <3>1
    <3> QED BY <3>2 DEF q
  <2>5. [[r EXCEPT !.pc = pc, !.next = next] EXCEPT !.handler = handler] =
           [pc |-> pc, batch |-> r.batch, next |-> next, handler |-> handler]
    <3> DEFINE q == [r EXCEPT !.pc = pc, !.next = next]
    <3>1. q = [pc |-> pc, batch |-> r.batch, next |-> next, handler |-> r.handler]
      BY <2>3, <2>4
    <3> HIDE DEF q
    <3>2. [q EXCEPT !.handler = handler] =
            [pc |-> pc, batch |-> r.batch, next |-> next, handler |-> handler]
      BY <3>1
    <3> QED BY <3>2 DEF q
  <2> QED BY <2>2, <2>5
<1>2. SetLoop(l, to)
  BY DEF r
<1> HIDE DEF to
<1>3. SetLoop(l, [pc |-> pc, batch |-> r.batch, next |-> next, handler |-> handler])
  BY <1>1, <1>2
<1> QED BY <1>3, SetLoopMoves DEF r

\* The i-th handler of the list is called, or there is none.
LEMMA CallMoves ==
  ASSUME TypeOK, NEW l \in Loops, NEW i, CallOrAck(l, i)
  PROVE  \/ /\ i <= Len(handlers)
            /\ Moves(l, "handling", loops[l].batch, i + 1, handlers[i])
            /\ called' = [called EXCEPT ![<<Head(loops[l].batch), handlers[i]>>] = @ + 1]
         \/ /\ ~(i <= Len(handlers))
            /\ Moves(l, "acking", loops[l].batch, loops[l].next, loops[l].handler)
            /\ called' = called
<1>1. CASE i <= Len(handlers)
  <2> DEFINE p == "handling"
             n == i + 1
             h == handlers[i]
  <2>1. /\ SetLoop(l, [loops[l] EXCEPT !.pc = p, !.next = n, !.handler = h])
        /\ called' = [called EXCEPT ![<<Head(loops[l].batch), handlers[i]>>] = @ + 1]
    BY <1>1 DEF CallOrAck
  <2> HIDE DEF p, n, h
  <2>2. Moves(l, p, loops[l].batch, n, h)
    BY <2>1, HandlerMoves
  <2> QED BY <1>1, <2>1, <2>2 DEF p, n, h
<1>2. CASE ~(i <= Len(handlers))
  BY <1>2, PcMoves DEF CallOrAck
<1> QED BY <1>1, <1>2

\* The types of the loops after a move.
LoopsOK == /\ loops \in Seq(LoopRecords)
           /\ \A l \in Loops : loops[l].pc \in Holding \cup {"between"} <=> loops[l].batch # <<>>

LEMMA MovesTyped ==
  ASSUME TypeOK, NEW l \in Loops, NEW pc \in Holding \cup {"reading", "between", "sleeping", "ended"},
         NEW batch \in Seq(Events), NEW next \in Nat \ {0}, NEW handler \in Handlers \cup {"none"},
         Moves(l, pc, batch, next, handler),
         pc \in Holding \cup {"between"} <=> batch # <<>>
  PROVE  LoopsOK'
<1> DEFINE r == [pc |-> pc, batch |-> batch, next |-> next, handler |-> handler]
<1>1. r \in LoopRecords
  BY DEF LoopRecords
<1>2. r.pc \in Holding \cup {"between"} <=> r.batch # <<>>
  OBVIOUS
<1>3. /\ loops' = [loops EXCEPT ![l] = r] /\ Loops' = Loops /\ loops'[l] = r
      /\ \A k \in Loops : k # l => loops'[k] = loops[k]
  BY DEF Moves
<1> HIDE DEF r
<1>4. loops' \in Seq(LoopRecords)
  <2>1. loops \in Seq(LoopRecords)
    BY LoopsTyped
  <2> HIDE DEF LoopRecords
  <2> QED BY <1>1, <1>3, <2>1 DEF Loops
<1>5. \A k \in Loops : loops[k].pc \in Holding \cup {"between"} <=> loops[k].batch # <<>>
  BY DEF TypeOK
<1> QED BY <1>2, <1>3, <1>4, <1>5 DEF LoopsOK

\* What the steps outside the loops do to them: a new one, or all end.
Quiet ==
  /\ loops' \in Seq(LoopRecords)
  /\ \A k \in Loops' : \/ loops'[k].batch = <<>> /\ loops'[k].pc \in {"reading", "ended"}
                       \/ k \in Loops /\ loops'[k] = loops[k]

LEMMA QuietTyped ==
  ASSUME TypeOK, Quiet
  PROVE  LoopsOK'
BY DEF TypeOK, Quiet, LoopsOK, Holding

LEMMA QuietLoops ==
  ASSUME TypeOK,
         \/ loops' = loops
         \/ loops' = Append(loops, NewLoop)
         \/ loops' = <<>>
         \/ loops' = [l \in Loops |-> [NewLoop EXCEPT !.pc = "ended"]]
  PROVE  Quiet
<1>1. loops \in Seq(LoopRecords) /\ Len(loops) \in Nat
  BY LoopsTyped
<1>2. NewLoop \in LoopRecords /\ NewLoop.batch = <<>> /\ NewLoop.pc = "reading"
  BY DEF NewLoop, LoopRecords
<1>3. /\ [NewLoop EXCEPT !.pc = "ended"] \in LoopRecords
      /\ [NewLoop EXCEPT !.pc = "ended"].batch = <<>>
      /\ [NewLoop EXCEPT !.pc = "ended"].pc = "ended"
  <2>1. [NewLoop EXCEPT !.pc = "ended"] = [pc |-> "ended", batch |-> <<>>, next |-> 1, handler |-> "none"]
    BY DEF NewLoop
  <2> DEFINE r == [NewLoop EXCEPT !.pc = "ended"]
  <2> HIDE DEF r
  <2>2. r = [pc |-> "ended", batch |-> <<>>, next |-> 1, handler |-> "none"]
    BY <2>1 DEF r
  <2>3. r \in LoopRecords /\ r.batch = <<>> /\ r.pc = "ended"
    BY <2>2 DEF LoopRecords
  <2> QED BY <2>3 DEF r
<1> HIDE DEF LoopRecords
<1>4. CASE loops' = loops
  BY <1>1, <1>4 DEF Quiet, Loops
<1>5. CASE loops' = Append(loops, NewLoop)
  <2>1. /\ loops' \in Seq(LoopRecords) /\ Len(loops') = Len(loops) + 1
        /\ loops'[Len(loops) + 1] = NewLoop
        /\ \A k \in 1..Len(loops) : loops'[k] = loops[k]
    BY <1>1, <1>2, <1>5
  <2>2. \A k \in 1..Len(loops') : k \in 1..Len(loops) \/ k = Len(loops) + 1
    BY <1>1, <2>1
  <2> QED BY <1>2, <2>1, <2>2 DEF Quiet, Loops
<1>6. CASE loops' = <<>>
  BY <1>6 DEF Quiet, Loops
<1>7. CASE loops' = [l \in Loops |-> [NewLoop EXCEPT !.pc = "ended"]]
  <2> DEFINE r == [NewLoop EXCEPT !.pc = "ended"]
  <2>0. r \in LoopRecords /\ r.batch = <<>> /\ r.pc = "ended"
    BY <1>3
  <2> HIDE DEF r
  <2>1. loops' = [l \in 1..Len(loops) |-> r]
    BY <1>7 DEF r, Loops
  <2>2. loops' \in Seq(LoopRecords) /\ Len(loops') = Len(loops)
    BY <1>1, <2>0, <2>1
  <2> QED BY <2>0, <2>1, <2>2 DEF Quiet, Loops
<1> QED BY <1>4, <1>5, <1>6, <1>7

-----------------------------------------------------------------------------
(* Types.                                                                  *)

\* What a loop with entries has in hand.
LEMMA Current ==
  ASSUME TypeOK, BatchesExact, NEW l \in Loops, loops[l].pc \in Holding \cup {"between"}
  PROVE  /\ loops[l].batch \in Seq(Events) /\ loops[l].batch # <<>>
         /\ 1 \in 1..Len(loops[l].batch) /\ Head(loops[l].batch) = loops[l].batch[1]
         /\ loops[l].batch[1] \in Events /\ loops[l].batch[1] \in GivenOut
         /\ Tail(loops[l].batch) \in Seq(Events)
         /\ Len(loops[l].batch) \in Nat /\ Len(Tail(loops[l].batch)) = Len(loops[l].batch) - 1
         /\ \A i \in 1..Len(loops[l].batch) - 1 : Tail(loops[l].batch)[i] = loops[l].batch[i + 1]
<1> DEFINE s == loops[l].batch
<1>1. s \in Seq(Events) /\ s # <<>>
  BY LoopsTyped DEF TypeOK
<1> HIDE DEF s
<1>2. /\ 1 \in 1..Len(s) /\ Head(s) = s[1] /\ s[1] \in Events
      /\ Tail(s) \in Seq(Events) /\ Len(s) \in Nat /\ Len(Tail(s)) = Len(s) - 1
      /\ \A i \in 1..Len(s) - 1 : Tail(s)[i] = s[i + 1]
  BY <1>1
<1>3. s[1] \in GivenOut
  BY <1>2 DEF s, BatchesExact
<1> QED BY <1>1, <1>2, <1>3 DEF s

LEMMA AtPlace ==
  ASSUME TypeOK, BatchesExact, NEW pc \in {"handling", "acking", "burying"}
  PROVE  {Head(loops[l].batch) : l \in {k \in Loops : loops[k].pc = pc}} \subseteq GivenOut \cap Events
BY Current DEF Holding

LEMMA InterruptTypes ==
  ASSUME TypeOK, BatchesExact, Interrupt
  PROVE  /\ position' \in 0..Len(stream') /\ GivenOut \subseteq GivenOut'
         /\ pending' \cup dlq' \cup acked' \subseteq GivenOut'
<1> DEFINE at(pc) == {Head(loops[l].batch) : l \in {k \in Loops : loops[k].pc = pc}}
<1>1. at("acking") \subseteq GivenOut /\ at("burying") \subseteq GivenOut
  BY AtPlace
<1>2. PICK read \in {<<>>, NextEntries} :
        /\ position' = position + Len(read) /\ stream' = stream
        /\ \E done \in SUBSET at("acking"), buried \in SUBSET at("burying") :
             /\ pending' = (pending \ done) \cup ToSet(read)
             /\ acked' = acked \cup done /\ dlq' = dlq \cup buried
  BY DEF Interrupt
<1> HIDE DEF at
<1>3. PICK done \in SUBSET at("acking"), buried \in SUBSET at("burying") :
             /\ pending' = (pending \ done) \cup ToSet(read)
             /\ acked' = acked \cup done /\ dlq' = dlq \cup buried
  BY <1>2
<1>4. position \in Nat /\ Len(stream) \in Nat /\ position <= Len(stream)
      /\ pending \cup dlq \cup acked \subseteq GivenOut
  BY DEF TypeOK
<1>5. /\ position' \in 0..Len(stream) /\ GivenOut' = GivenOut \cup ToSet(read)
  <2>1. CASE read = <<>>
    <3>1. position' = position /\ ToSet(read) = {}
      BY <1>2, <1>4, <2>1 DEF ToSet
    <3> QED BY <1>2, <1>4, <3>1 DEF GivenOut
  <2>2. CASE read = NextEntries
    <3>1. position + Len(NextEntries) <= Len(stream) /\ Len(NextEntries) \in Nat
      BY NextEntriesExact
    <3> QED BY <1>2, <1>4, <2>2, <3>1, ReadGives
  <2> QED BY <1>2, <2>1, <2>2
<1> QED BY <1>1, <1>2, <1>3, <1>4, <1>5

\* The steps outside the loops.
Outside == \/ Start \/ Stop \/ Crash \/ Boot
           \/ \E h \in Handlers : Subscribe(h) \/ Unsubscribe(h)
           \/ \E e \in Events : Publish(e)

LEMMA OutsideTypes ==
  ASSUME TypeOK, BatchesExact, Outside
  PROVE  TypeOK' /\ Quiet
<1>0. loops \in Seq(LoopRecords)
  BY LoopsTyped
<1>1. ASSUME Quiet,
             /\ stream' \in Seq(Events) /\ Once(stream)' /\ group' \in BOOLEAN
             /\ position' \in 0..Len(stream')
             /\ pending' \cup dlq' \cup acked' \subseteq GivenOut'
             /\ status' \in {"new", "running", "stopped", "down"}
             /\ handlers' \in Seq(Handlers) /\ Once(handlers)' /\ known' \in BOOLEAN
             /\ lives' \in Nat \ {0} /\ faults' \in Nat /\ churned' \subseteq Events,
             UNCHANGED <<called, seen, audience>>
      PROVE  TypeOK' /\ Quiet
  <2>1. LoopsOK'
    BY <1>1, QuietTyped
  <2> QED BY <1>1, <2>1 DEF TypeOK, LoopsOK, LoopRecords
\* Where Redis and the handlers stay as they are.
<1>2. ASSUME Quiet, UNCHANGED <<stream, position, pending, dlq, handlers, history>>,
             group' \in BOOLEAN, status' \in {"new", "running", "stopped", "down"},
             known' \in BOOLEAN, lives' \in Nat \ {0}, faults' \in Nat
      PROVE  TypeOK' /\ Quiet
  BY <1>1, <1>2 DEF TypeOK, GivenOut, Once, history
<1>3. CreateGroup => group' \in BOOLEAN /\ faults' \in Nat
  <2>1. faults' = faults \/ faults' = faults + 1 => faults' \in Nat
    BY DEF TypeOK
  <2>2. CreateGroup => (group' = TRUE \/ group' = group) /\ (faults' = faults \/ faults' = faults + 1)
    BY DEF CreateGroup, Fault
  <2>3. group' = TRUE \/ group' = group => group' \in BOOLEAN
    BY Zenon DEF TypeOK
  <2> QED BY <2>1, <2>2, <2>3
<1>4. CASE Start
  <2>1. Quiet
    BY <1>4, QuietLoops DEF Start
  <2> QED BY <1>2, <1>3, <1>4, <2>1 DEF Start, TypeOK
<1>5. ASSUME Interrupt, Quiet, handlers' = handlers, known' = known, status' \in {"stopped", "down"}
      PROVE  TypeOK' /\ Quiet
  <2>1. /\ position' \in 0..Len(stream')
        /\ pending' \cup dlq' \cup acked' \subseteq GivenOut'
    BY <1>5, InterruptTypes
  <2>2. UNCHANGED <<stream, group, lives, faults, called, seen, audience, churned>>
    BY <1>5 DEF Interrupt
  <2> QED BY <1>1, <1>5, <2>1, <2>2 DEF TypeOK, Once
<1>6. CASE Stop
  BY <1>5, <1>6, QuietLoops DEF Stop
<1>7. CASE Crash
  BY <1>5, <1>7, QuietLoops DEF Crash
<1>8. CASE Boot
  <2>1. Quiet
    BY <1>8, QuietLoops DEF Boot
  <2>2. handlers' = <<>> /\ handlers' \in Seq(Handlers) /\ Once(handlers)'
    BY <1>8 DEF Boot, Once
  <2>3. lives' \in Nat \ {0}
    BY <1>8 DEF Boot, TypeOK
  <2>4. UNCHANGED <<stream, group, position, pending, dlq, faults, called, seen, audience, acked, churned>>
        /\ known' = FALSE /\ status' = "new"
    BY <1>8 DEF Boot, redisVars, history
  <2>5. GivenOut' = GivenOut /\ Once(stream)'
    BY <2>4 DEF GivenOut, Once, TypeOK
  <2> QED BY <1>1, <2>1, <2>2, <2>3, <2>4, <2>5 DEF TypeOK
<1>9. ASSUME NEW h \in Handlers, Subscribe(h)
      PROVE  TypeOK' /\ Quiet
  <2>1. Quiet
    BY <1>9, QuietLoops DEF Subscribe
  <2>2. handlers' = Append(handlers, h) /\ \A i \in 1..Len(handlers) : handlers[i] # h
    BY <1>9 DEF Subscribe, Contains
  <2>3. handlers \in Seq(Handlers) /\ Once(handlers)
    BY DEF TypeOK
  <2>4. handlers' \in Seq(Handlers) /\ Once(handlers)'
    <3>1. /\ handlers' \in Seq(Handlers) /\ Len(handlers') = Len(handlers) + 1
          /\ handlers'[Len(handlers) + 1] = h
          /\ \A i \in 1..Len(handlers) : handlers'[i] = handlers[i]
      BY <2>2, <2>3
    <3>2. \A i \in 1..Len(handlers') : i \in 1..Len(handlers) \/ i = Len(handlers) + 1
      BY <2>3, <3>1
    <3> QED BY <2>2, <2>3, <3>1, <3>2 DEF Once
  <2> QED BY <1>1, <1>3, <1>9, <2>1, <2>4 DEF Subscribe, TypeOK, GivenOut, Once, history
<1>10. ASSUME NEW h \in Handlers, Unsubscribe(h)
       PROVE  TypeOK' /\ Quiet
  <2>1. Quiet
    BY <1>10, QuietLoops DEF Unsubscribe
  <2>2. PICK i \in 1..Len(handlers) : handlers' = RemoveAt(handlers, i)
    BY <1>10 DEF Unsubscribe
  <2>3. handlers \in Seq(Handlers) /\ Once(handlers)
    BY DEF TypeOK
  <2>4. handlers' \in Seq(Handlers) /\ Once(handlers)'
    BY <2>2, <2>3, RemoveAtOnce
  <2>5. churned' \subseteq Events
    <3>1. churned' = churned \cup {Head(loops[l].batch) : l \in {k \in Loops : loops[k].pc = "handling"}}
      BY <1>10 DEF Unsubscribe
    <3>2. {Head(loops[l].batch) : l \in {k \in Loops : loops[k].pc = "handling"}} \subseteq Events
      BY AtPlace
    <3> QED BY <3>1, <3>2 DEF TypeOK
  <2> QED BY <1>1, <1>10, <2>1, <2>4, <2>5 DEF Unsubscribe, TypeOK, GivenOut, Once, redisVars
<1>11. ASSUME NEW e \in Events, Publish(e)
       PROVE  TypeOK' /\ Quiet
  <2>1. Quiet
    BY <1>11, QuietLoops DEF Publish, processVars
  <2>2. position' = position
        /\ (stream' = stream \/ \E x \in Events : ~Contains(stream, x) /\ stream' = Append(stream, x))
    BY <1>11 DEF Publish
  <2>3. stream' \in Seq(Events) /\ Once(stream)' /\ position' \in 0..Len(stream') /\ GivenOut' = GivenOut
    BY <2>2, GivenOutGrows
  <2>4. faults' \in Nat
    BY <1>11 DEF Publish, Fault, TypeOK
  <2> QED BY <1>1, <1>11, <2>1, <2>3, <2>4 DEF Publish, TypeOK, Once, processVars, history
<1> QED BY <1>4, <1>6, <1>7, <1>8, <1>9, <1>10, <1>11 DEF Outside

\* What every step of a loop leaves alone.
LEMMA LoopStepKeeps ==
  ASSUME TypeOK, NEW l \in Loops, LoopStep(l)
  PROVE  /\ UNCHANGED <<stream, group, status, handlers, known, lives, churned>>
         /\ faults' \in {faults, faults + 1} /\ (faults' = faults \/ faults' > 0)
<1>1. UNCHANGED <<stream, group, status, handlers, known, lives, churned>>
  BY DEF LoopStep, Read, ReadFails, Wake, Begin, HandlerReturns, HandlerRaises, Ack, AckFails,
         Bury, BuryFails, redisVars, history
<1>2. faults' = faults \/ faults' = faults + 1
  BY DEF LoopStep, Read, ReadFails, Wake, Begin, HandlerReturns, HandlerRaises, Ack, AckFails,
         Bury, BuryFails, Fault
<1>3. faults \in Nat
  BY DEF TypeOK
<1> QED BY <1>1, <1>2, <1>3

\* A step of a loop is a read, an attempt to read, a call of a handler or of
\* none, the entry failing or the entry being left.
Calls(l) ==
  \E i \in Nat \ {0} :
    /\ CallOrAck(l, i)
    /\ \/ i = 1 /\ Begin(l)
       \/ i = loops[l].next /\ HandlerReturns(l)

LEMMA LoopMoves ==
  ASSUME TypeOK, BatchesExact, NEW l \in Loops, LoopStep(l)
  PROVE  \/ Read(l) /\ Moves(l, "between", NextEntries, loops[l].next, loops[l].handler)
         \/ /\ ReadFails(l) \/ Wake(l)
            /\ \E pc \in {"reading", "sleeping"} :
                 Moves(l, pc, loops[l].batch, loops[l].next, loops[l].handler)
         \/ Calls(l)
         \/ /\ HandlerRaises(l) \/ AckFails(l)
            /\ Moves(l, "burying", loops[l].batch, loops[l].next, loops[l].handler)
         \/ /\ Ack(l) \/ Bury(l) \/ BuryFails(l)
            /\ Moves(l, IF Tail(loops[l].batch) = <<>> THEN "reading" ELSE "between",
                     Tail(loops[l].batch), loops[l].next, loops[l].handler)
<1>1. CASE Read(l)
  BY <1>1, BatchMoves DEF Read
<1>2. CASE ReadFails(l)
  <2>1. Moves(l, "sleeping", loops[l].batch, loops[l].next, loops[l].handler)
    BY <1>2, PcMoves DEF ReadFails
  <2> QED BY <1>2, <2>1
<1>3. CASE Wake(l)
  <2>1. Moves(l, "reading", loops[l].batch, loops[l].next, loops[l].handler)
    BY <1>3, PcMoves DEF Wake
  <2> QED BY <1>3, <2>1
<1>4. CASE Begin(l)
  <2>1. 1 \in Nat \ {0} /\ CallOrAck(l, 1)
    BY <1>4 DEF Begin
  <2>2. Calls(l)
    BY <1>4, <2>1, Zenon DEF Calls
  <2> QED BY <2>2
<1>5. CASE HandlerReturns(l)
  <2>1. loops[l].next \in Nat \ {0}
    BY LoopsTyped DEF LoopRecords
  <2> QED BY <1>5, <2>1 DEF HandlerReturns, Calls
<1>6. CASE HandlerRaises(l)
  BY <1>6, PcMoves DEF HandlerRaises
<1>7. CASE AckFails(l)
  BY <1>7, PcMoves DEF AckFails
<1>8. CASE Ack(l)
  BY <1>8, DoneMoves DEF Ack
<1>9. CASE Bury(l)
  BY <1>9, DoneMoves DEF Bury
<1>10. CASE BuryFails(l)
  BY <1>10, DoneMoves DEF BuryFails
<1> QED BY <1>1, <1>2, <1>3, <1>4, <1>5, <1>6, <1>7, <1>8, <1>9, <1>10 DEF LoopStep

LEMMA LoopTypes ==
  ASSUME TypeOK, BatchesExact, ProgressExact, NEW l \in Loops, LoopStep(l)
  PROVE  TypeOK'
<1> DEFINE r == loops[l]
<1>0. /\ r.pc \in Holding \cup {"reading", "between", "sleeping", "ended"}
      /\ r.batch \in Seq(Events) /\ r.next \in Nat \ {0} /\ r.handler \in Handlers \cup {"none"}
      /\ (r.pc \in Holding \cup {"between"} <=> r.batch # <<>>)
  BY LoopsTyped DEF LoopRecords, TypeOK
<1>1. /\ UNCHANGED <<stream, group, status, handlers, known, lives, churned>> /\ faults' \in Nat
  BY LoopStepKeeps DEF TypeOK
<1>2. ASSUME LoopsOK', GivenOut \subseteq GivenOut', position' \in 0..Len(stream),
             pending' \cup dlq' \cup acked' \subseteq GivenOut',
             called' \in [Deliveries -> Nat], seen' \subseteq Deliveries,
             audience' \in [Events -> SUBSET Handlers]
      PROVE  TypeOK'
  BY <1>1, <1>2 DEF TypeOK, LoopsOK, LoopRecords, Once
<1>3. position' = position => GivenOut' = GivenOut
  BY <1>1 DEF GivenOut
<1>4. /\ pending \cup dlq \cup acked \subseteq GivenOut /\ position \in 0..Len(stream)
      /\ called \in [Deliveries -> Nat] /\ seen \subseteq Deliveries
      /\ audience \in [Events -> SUBSET Handlers]
  BY DEF TypeOK
<1>5. position' = position + Len(NextEntries) =>
        /\ position' \in 0..Len(stream) /\ GivenOut' = GivenOut \cup ToSet(NextEntries)
  BY <1>1, <1>4, NextEntriesExact, ReadGives
<1> HIDE DEF r
<1>6. CASE Read(l) /\ Moves(l, "between", NextEntries, loops[l].next, loops[l].handler)
  <2>1. LoopsOK'
    BY <1>0, <1>6, MovesTyped, NextEntriesExact DEF Read, Holding, r
  <2> QED BY <1>2, <1>4, <1>5, <1>6, <2>1 DEF Read, history
<1>7. CASE /\ ReadFails(l) \/ Wake(l)
           /\ \E pc \in {"reading", "sleeping"} :
                Moves(l, pc, loops[l].batch, loops[l].next, loops[l].handler)
  <2>1. r.pc \in {"reading", "sleeping"}
    BY <1>7 DEF ReadFails, Wake, r
  <2>2. r.batch = <<>>
    BY <1>0, <2>1 DEF Holding
  <2>3. LoopsOK'
    BY <1>0, <1>7, <2>2, MovesTyped DEF Holding, r
  <2>4. UNCHANGED <<dlq, acked, called, seen, audience>>
        /\ \/ UNCHANGED <<position, pending>>
           \/ position' = position + Len(NextEntries) /\ pending' = pending \cup ToSet(NextEntries)
    BY <1>7 DEF ReadFails, Wake, redisVars, history
  <2> QED BY <1>2, <1>3, <1>4, <1>5, <2>3, <2>4
<1>8. CASE Calls(l)
  <2>1. PICK i \in Nat \ {0} : /\ CallOrAck(l, i)
                               /\ \/ i = 1 /\ Begin(l)
                                  \/ i = loops[l].next /\ HandlerReturns(l)
    BY <1>8 DEF Calls
  <2>2. r.pc \in {"between", "handling"} /\ UNCHANGED <<position, pending, dlq, acked>>
    BY <2>1 DEF Begin, HandlerReturns, redisVars, r
  <2>3. r.batch # <<>> /\ Head(r.batch) = r.batch[1] /\ r.batch[1] \in Events
    BY <2>2, Current DEF Holding, r
  <2>4. audience' \in [Events -> SUBSET Handlers]
    <3>1. ToSet(handlers) \subseteq Handlers
      BY DEF ToSet, TypeOK
    <3> QED BY <1>4, <2>1, <2>3, <3>1 DEF Begin, HandlerReturns, r
  <2>5. seen' \subseteq Deliveries
    <3>1. CASE UNCHANGED seen
      BY <1>4, <3>1
    <3>2. CASE HandlerReturns(l)
      <4>1. r.handler \in Handlers
        BY <3>2 DEF HandlerReturns, r, ProgressExact
      <4> QED BY <1>4, <2>3, <3>2, <4>1 DEF HandlerReturns, Deliveries, r
    <3> QED BY <2>1, <3>1, <3>2 DEF Begin
  <2>6. LoopsOK' /\ called' \in [Deliveries -> Nat]
    <3>1. CASE /\ i <= Len(handlers)
               /\ Moves(l, "handling", loops[l].batch, i + 1, handlers[i])
               /\ called' = [called EXCEPT ![<<Head(loops[l].batch), handlers[i]>>] = @ + 1]
      <4>1. handlers[i] \in Handlers
        BY <3>1 DEF TypeOK
      <4>2. LoopsOK'
        BY <1>0, <2>3, <3>1, <4>1, MovesTyped DEF Holding, r
      <4>3. called' \in [Deliveries -> Nat]
        BY <1>4, <2>3, <3>1, <4>1 DEF Deliveries, r
      <4> QED BY <4>2, <4>3
    <3>2. CASE Moves(l, "acking", loops[l].batch, loops[l].next, loops[l].handler) /\ called' = called
      BY <1>0, <1>4, <2>3, <3>2, MovesTyped DEF Holding, r
    <3> QED BY <2>1, <3>1, <3>2, CallMoves
  <2> QED BY <1>2, <1>3, <1>4, <2>2, <2>4, <2>5, <2>6
<1>9. CASE /\ HandlerRaises(l) \/ AckFails(l)
           /\ Moves(l, "burying", loops[l].batch, loops[l].next, loops[l].handler)
  <2>1. r.pc \in Holding
    BY <1>9 DEF HandlerRaises, AckFails, Holding, r
  <2>2. r.batch # <<>> /\ Head(r.batch) \in GivenOut
    BY <2>1, Current DEF r
  <2>3. LoopsOK'
    BY <1>0, <1>9, <2>2, MovesTyped DEF Holding, r
  <2>4. UNCHANGED <<position, dlq, called, seen, audience>>
        /\ \/ UNCHANGED <<pending, acked>>
           \/ pending' = pending \ {Head(r.batch)} /\ acked' = acked \cup {Head(r.batch)}
    BY <1>9 DEF HandlerRaises, AckFails, redisVars, history, r
  <2> QED BY <1>2, <1>3, <1>4, <2>2, <2>3, <2>4
<1>10. CASE /\ Ack(l) \/ Bury(l) \/ BuryFails(l)
            /\ Moves(l, IF Tail(loops[l].batch) = <<>> THEN "reading" ELSE "between",
                     Tail(loops[l].batch), loops[l].next, loops[l].handler)
  <2>1. r.pc \in Holding
    BY <1>10 DEF Ack, Bury, BuryFails, Holding, r
  <2>2. r.batch # <<>> /\ Head(r.batch) \in GivenOut /\ Tail(r.batch) \in Seq(Events)
    BY <2>1, Current DEF r
  <2>3. LoopsOK'
    <3>1. CASE Tail(r.batch) = <<>>
      BY <1>0, <1>10, <2>2, <3>1, MovesTyped DEF Holding, r
    <3>2. CASE Tail(r.batch) # <<>>
      BY <1>0, <1>10, <2>2, <3>2, MovesTyped DEF Holding, r
    <3> QED BY <3>1, <3>2
  <2>4. UNCHANGED <<position, called, seen, audience>>
        /\ pending' \subseteq pending /\ acked' \subseteq acked \cup {Head(r.batch)}
        /\ dlq' \subseteq dlq \cup {Head(r.batch)}
    BY <1>10 DEF Ack, Bury, BuryFails, history, r
  <2> QED BY <1>2, <1>3, <1>4, <2>2, <2>3, <2>4
<1> QED BY <1>6, <1>7, <1>8, <1>9, <1>10, LoopMoves

LEMMA NextType ==
  ASSUME TypeOK, BatchesExact, ProgressExact, [Next]_vars
  PROVE  TypeOK'
<1>1. CASE Outside
  BY <1>1, OutsideTypes
<1>2. ASSUME NEW l \in Loops, LoopStep(l) PROVE TypeOK'
  BY <1>2, LoopTypes
<1>3. CASE UNCHANGED vars
  BY <1>3 DEF TypeOK, vars, redisVars, processVars, history, Loops, GivenOut, Once
<1> QED BY <1>1, <1>2, <1>3 DEF Next, Outside

-----------------------------------------------------------------------------
(* The batches.                                                            *)

\* The stream keeps what it holds and the group takes nothing back.
Grows == /\ Len(stream) <= Len(stream')
         /\ \A p \in 1..Len(stream) : stream'[p] = stream[p]
         /\ GivenOut \subseteq GivenOut'

\* Nothing has been done about an entry after a step, either.
StaysUntouched(e) ==
  /\ audience'[e] = {}
  /\ e \notin acked' \cup dlq'
  /\ \A h \in Handlers : called'[<<e, h>>] = 0 /\ <<e, h>> \notin seen'

\* The entries a step does something about are at the head of their batches.
Touches(T) ==
  /\ T \subseteq {loops[l].batch[1] : l \in {k \in Loops : loops[k].batch # <<>>}}
  /\ \A e \in Events \ T : (Untouched(e) => StaysUntouched(e)) /\ (e \in dlq' => e \in dlq)

\* A loop keeps its batch, or leaves the first entry behind (d = 1).
KeepsBut(k, d, T) ==
  /\ k \in Loops
  /\ Len(loops'[k].batch) = Len(loops[k].batch) - d
  /\ \A i \in 1..Len(loops'[k].batch) : loops'[k].batch[i] = loops[k].batch[i + d]
  /\ d = 0 => /\ loops'[k].pc = "between" => loops[k].pc = "between" /\ loops[k].batch[1] \notin T
              /\ loops[k].batch[1] \in dlq' => loops[k].batch[1] \in dlq

Handed(k, T) == loops'[k].batch = <<>> \/ KeepsBut(k, 0, T) \/ KeepsBut(k, 1, T)

LEMMA Distinct ==
  ASSUME TypeOK, BatchesExact, NEW l \in Loops, NEW k \in Loops,
         NEW i \in 1..Len(loops[l].batch), NEW j \in 1..Len(loops[k].batch),
         loops[l].batch[i] = loops[k].batch[j]
  PROVE  l = k /\ i = j
<1>1. l = k
  BY DEF BatchesExact
<1>2. loops[l].batch[i] \in GivenOut
  BY DEF BatchesExact
<1>3. PICK p \in 1..position : stream[p] = loops[l].batch[i]
  BY <1>2 DEF GivenOut
<1>4. p \in 1..Len(stream) /\ p \in Nat
  BY DEF TypeOK
<1>5. \A a, b \in 1..Len(loops[l].batch) :
        a < b /\ stream[p] = loops[l].batch[a] /\ stream[p] = loops[l].batch[b] => p < p
  BY <1>4 DEF BatchesExact
<1>6. i \in Nat /\ j \in Nat
  BY LoopsTyped
<1> QED BY <1>1, <1>3, <1>4, <1>5, <1>6

\* Where a step leaves every entry of a batch at its place or one before it.
LEMMA PlacesKept ==
  ASSUME TypeOK, NEW k, NEW T, Handed(k, T), loops'[k].batch \in Seq(Events),
         NEW i \in 1..Len(loops'[k].batch)
  PROVE  /\ k \in Loops
         /\ \E d \in {0, 1} : /\ KeepsBut(k, d, T)
                              /\ i + d \in 1..Len(loops[k].batch)
                              /\ loops'[k].batch[i] = loops[k].batch[i + d]
<1>1. loops'[k].batch # <<>>
  OBVIOUS
<1>2. PICK d \in {0, 1} : KeepsBut(k, d, T)
  BY <1>1 DEF Handed
<1>3. k \in Loops
  BY <1>2 DEF KeepsBut
<1>4. Len(loops[k].batch) \in Nat /\ Len(loops'[k].batch) \in Nat
  BY <1>3, LoopsTyped
<1>5. i + d \in 1..Len(loops[k].batch) /\ loops'[k].batch[i] = loops[k].batch[i + d]
  BY <1>2, <1>4 DEF KeepsBut
<1> QED BY <1>2, <1>3, <1>5

\* An entry that was given out stays where it is in the stream.
LEMMA SamePlace ==
  ASSUME TypeOK, Grows, Once(stream)', NEW e \in GivenOut, NEW p \in 1..Len(stream'), stream'[p] = e
  PROVE  p \in 1..Len(stream) /\ stream[p] = e
<1>1. PICK q \in 1..position : stream[q] = e
  BY DEF GivenOut
<1>2. q \in 1..Len(stream) /\ q \in 1..Len(stream') /\ stream'[q] = e
  <2>1. q \in 1..Len(stream)
    BY DEF TypeOK
  <2>2. Len(stream) \in Nat /\ Len(stream') \in Int
    BY DEF TypeOK
  <2> QED BY <1>1, <2>1, <2>2 DEF Grows
<1>3. p = q
  BY <1>2 DEF Once
<1> QED BY <1>1, <1>2, <1>3

LEMMA NextLoopsTyped ==
  ASSUME TypeOK'
  PROVE  /\ loops' \in Seq(LoopRecords) /\ Len(loops') \in Nat
         /\ \A k \in Loops' :
              /\ loops'[k] \in LoopRecords /\ loops'[k].batch \in Seq(Events)
              /\ loops'[k].pc \in Holding \cup {"between"} <=> loops'[k].batch # <<>>
<1>1. loops' \in Seq(LoopRecords)
  BY DEF TypeOK, LoopRecords
<1>2. ASSUME NEW k \in Loops' PROVE loops'[k] \in LoopRecords
  <2> HIDE DEF LoopRecords
  <2> QED BY <1>1 DEF Loops
<1>3. \A r \in LoopRecords : r.batch \in Seq(Events)
  BY DEF LoopRecords
<1> QED BY <1>1, <1>2, <1>3 DEF TypeOK

LEMMA BatchesKept ==
  ASSUME TypeOK, TypeOK', BatchesExact, Grows, NEW T, \A k \in Loops' : Handed(k, T)
  PROVE  BatchesExact'
<1>0. \A k \in Loops' : loops'[k].batch \in Seq(Events)
  BY NextLoopsTyped
<1>1. ASSUME NEW l \in Loops', NEW i \in 1..Len(loops'[l].batch)
      PROVE  loops'[l].batch[i] \in GivenOut /\ loops'[l].batch[i] \in GivenOut'
  <2>1. PICK d \in {0, 1} : i + d \in 1..Len(loops[l].batch) /\ loops'[l].batch[i] = loops[l].batch[i + d]
    BY <1>0, PlacesKept
  <2>2. l \in Loops
    BY <1>0, PlacesKept
  <2>3. loops[l].batch[i + d] \in GivenOut
    BY <2>1, <2>2 DEF BatchesExact
  <2> QED BY <2>1, <2>3 DEF Grows
<1>2. ASSUME NEW l \in Loops', NEW i \in 1..Len(loops'[l].batch), NEW j \in 1..Len(loops'[l].batch),
             NEW p \in 1..Len(stream'), NEW q \in 1..Len(stream'),
             i < j, stream'[p] = loops'[l].batch[i], stream'[q] = loops'[l].batch[j]
      PROVE  p < q
  <2>1. l \in Loops /\ loops'[l].batch # <<>>
    BY <1>0, PlacesKept
  <2>2. PICK d \in {0, 1} : KeepsBut(l, d, T)
    BY <2>1 DEF Handed
  <2>3. Len(loops[l].batch) \in Nat /\ Len(loops'[l].batch) = Len(loops[l].batch) - d
    BY <2>1, <2>2, LoopsTyped DEF KeepsBut
  <2>4. i + d \in 1..Len(loops[l].batch) /\ j + d \in 1..Len(loops[l].batch) /\ i + d < j + d
    BY <1>2, <2>3
  <2>5. loops'[l].batch[i] = loops[l].batch[i + d] /\ loops'[l].batch[j] = loops[l].batch[j + d]
    BY <2>2 DEF KeepsBut
  <2>6. Once(stream)'
    BY DEF TypeOK
  <2>7. p \in 1..Len(stream) /\ stream[p] = loops'[l].batch[i]
    BY <1>1, <1>2, <2>6, SamePlace
  <2>8. q \in 1..Len(stream) /\ stream[q] = loops'[l].batch[j]
    BY <1>1, <1>2, <2>6, SamePlace
  <2> QED BY <2>1, <2>4, <2>5, <2>7, <2>8 DEF BatchesExact
<1>3. ASSUME NEW l \in Loops', NEW k \in Loops',
             NEW i \in 1..Len(loops'[l].batch), NEW j \in 1..Len(loops'[k].batch),
             loops'[l].batch[i] = loops'[k].batch[j]
      PROVE  k = l
  <2>1. PICK d \in {0, 1} : i + d \in 1..Len(loops[l].batch) /\ loops'[l].batch[i] = loops[l].batch[i + d]
    BY <1>0, PlacesKept
  <2>2. PICK c \in {0, 1} : j + c \in 1..Len(loops[k].batch) /\ loops'[k].batch[j] = loops[k].batch[j + c]
    BY <1>0, PlacesKept
  <2>3. l \in Loops /\ k \in Loops
    BY <1>0, PlacesKept
  <2> QED BY <1>3, <2>1, <2>2, <2>3 DEF BatchesExact
<1> QED BY <1>1, <1>2, <1>3 DEF BatchesExact

LEMMA WaitKept ==
  ASSUME TypeOK, TypeOK', BatchesExact, WaitUntouched, Grows,
         NEW T, Touches(T), \A k \in Loops' : Handed(k, T)
  PROVE  WaitUntouched'
<1>0. \A k \in Loops' : loops'[k].batch \in Seq(Events)
  BY NextLoopsTyped
<1>1. ASSUME NEW e \in Events \ GivenOut' PROVE StaysUntouched(e)
  <2>1. e \notin GivenOut
    BY DEF Grows
  <2>2. e \notin T
    <3> SUFFICES ASSUME NEW l \in Loops, loops[l].batch # <<>>, e = loops[l].batch[1] PROVE FALSE
      BY DEF Touches
    <3>1. loops[l].batch \in Seq(Events)
      BY LoopsTyped
    <3>2. 1 \in 1..Len(loops[l].batch)
      BY <3>1
    <3> QED BY <2>1, <3>2 DEF BatchesExact
  <2> QED BY <2>1, <2>2 DEF Touches, WaitUntouched
<1>2. ASSUME NEW k \in Loops', NEW i \in 1..Len(loops'[k].batch)
      PROVE  /\ i > 1 \/ loops'[k].pc = "between" => StaysUntouched(loops'[k].batch[i])
             /\ loops'[k].batch[i] \notin dlq'
  <2> DEFINE e == loops'[k].batch[i]
  <2>1. PICK d \in {0, 1} : /\ KeepsBut(k, d, T) /\ i + d \in 1..Len(loops[k].batch)
                            /\ e = loops[k].batch[i + d]
    BY <1>0, PlacesKept
  <2>2. k \in Loops /\ e \in Events
    BY <1>0, PlacesKept
  <2> HIDE DEF e
  <2>3. e \notin dlq
    BY <2>1, <2>2 DEF WaitUntouched
  <2>4. i + d = 1 <=> i = 1 /\ d = 0
    OBVIOUS
  <2>5. e \in T => i + d = 1
    <3> SUFFICES ASSUME NEW l \in Loops, loops[l].batch # <<>>, e = loops[l].batch[1] PROVE i + d = 1
      BY DEF Touches
    <3>1. 1 \in 1..Len(loops[l].batch)
      BY LoopsTyped
    <3> DEFINE j == i + d
    <3>2. j \in 1..Len(loops[k].batch) /\ loops[k].batch[j] = loops[l].batch[1]
      BY <2>1
    <3> HIDE DEF j
    <3>3. j = 1
      BY <2>2, <3>1, <3>2, Distinct
    <3> QED BY <3>3 DEF j
  <2>6. e \notin dlq'
    <3>1. CASE i + d = 1
      BY <2>1, <2>3, <2>4, <3>1 DEF KeepsBut
    <3>2. CASE i + d # 1
      BY <2>2, <2>3, <2>5, <3>2 DEF Touches
    <3> QED BY <3>1, <3>2
  <2>7. ASSUME i > 1 \/ loops'[k].pc = "between" PROVE StaysUntouched(e)
    <3>1. e \notin T
      BY <2>1, <2>4, <2>5, <2>7 DEF KeepsBut
    <3>2. i + d > 1 \/ loops[k].pc = "between"
      BY <2>1, <2>4, <2>7 DEF KeepsBut
    <3>3. Untouched(e)
      BY <2>1, <2>2, <3>2 DEF WaitUntouched
    <3> QED BY <2>2, <3>1, <3>3 DEF Touches
  <2> QED BY <2>6, <2>7 DEF e
<1>3. \A e \in Events \ GivenOut' : StaysUntouched(e)
  BY <1>1
<1> QED BY <1>2, <1>3 DEF WaitUntouched, Untouched, StaysUntouched

LEMMA NextGrows ==
  ASSUME TypeOK, BatchesExact, [Next]_vars
  PROVE  Grows
<1>0. Len(stream) \in Nat
  BY DEF TypeOK
<1>1. CASE UNCHANGED <<stream, position>>
  BY <1>0, <1>1 DEF Grows, GivenOut
<1>2. CASE stream' = stream /\ position' = position + Len(NextEntries)
  BY <1>0, <1>2, ReadGives DEF Grows
<1>3. CASE UNCHANGED vars
  BY <1>1, <1>3 DEF vars, redisVars
<1>4. CASE Start \/ Boot
  BY <1>1, <1>4 DEF Start, Boot, redisVars
<1>5. CASE Interrupt
  <2>1. stream' = stream
    BY <1>5 DEF Interrupt
  <2>2. GivenOut \subseteq GivenOut'
    BY <1>5, InterruptTypes
  <2> QED BY <1>0, <2>1, <2>2 DEF Grows
<1>6. CASE \E h \in Handlers : Subscribe(h) \/ Unsubscribe(h)
  BY <1>1, <1>6 DEF Subscribe, Unsubscribe, redisVars
<1>7. ASSUME NEW e \in Events, Publish(e) PROVE Grows
  <2>1. position' = position
        /\ (stream' = stream \/ \E x \in Events : ~Contains(stream, x) /\ stream' = Append(stream, x))
    BY <1>7 DEF Publish
  <2>2. /\ GivenOut' = GivenOut /\ Len(stream') \in {Len(stream), Len(stream) + 1}
        /\ \A p \in 1..Len(stream) : stream'[p] = stream[p]
    BY <2>1, GivenOutGrows
  <2> QED BY <1>0, <2>2 DEF Grows
<1>8. ASSUME NEW l \in Loops, LoopStep(l) PROVE Grows
  <2>1. stream' = stream
    BY <1>8, LoopStepKeeps
  <2>2. position' = position \/ position' = position + Len(NextEntries)
    BY <1>8 DEF LoopStep, Read, ReadFails, Wake, Begin, HandlerReturns, HandlerRaises, Ack,
                AckFails, Bury, BuryFails, redisVars
  <2> QED BY <1>1, <1>2, <2>1, <2>2
<1> QED BY <1>3, <1>4, <1>5, <1>6, <1>7, <1>8 DEF Next, Stop, Crash

\* What a step outside the loops does to the entries.
LEMMA OutsideHands ==
  ASSUME TypeOK, BatchesExact, Outside
  PROVE  \E T : Touches(T) /\ \A k \in Loops' : Handed(k, T)
<1>1. ASSUME UNCHANGED <<dlq, acked, called, seen, audience>>
      PROVE  Touches({}) /\ \A k \in Loops' : Handed(k, {})
  <2>1. Touches({})
    BY <1>1 DEF Touches, Untouched, StaysUntouched
  <2>2. \A k \in Loops' : Handed(k, {})
    <3> SUFFICES ASSUME NEW k \in Loops', loops'[k].batch # <<>> PROVE KeepsBut(k, 0, {})
      BY DEF Handed
    <3>1. k \in Loops /\ loops'[k] = loops[k]
      BY OutsideTypes DEF Quiet
    <3>2. Len(loops[k].batch) \in Nat
      BY <3>1, LoopsTyped
    <3>3. \A i \in 1..Len(loops[k].batch) : i + 0 = i
      BY <3>2
    <3> QED BY <1>1, <3>1, <3>2, <3>3 DEF KeepsBut
  <2> QED BY <2>1, <2>2
<1>2. ASSUME Interrupt, \A k \in Loops' : loops'[k].batch = <<>>
      PROVE  \E T : Touches(T) /\ \A k \in Loops' : Handed(k, T)
  <2> DEFINE T == {loops[l].batch[1] : l \in {k \in Loops : loops[k].batch # <<>>}}
  <2>1. \A k \in Loops' : Handed(k, T)
    BY <1>2 DEF Handed
  <2>2. {Head(loops[l].batch) : l \in {k \in Loops : loops[k].pc = "acking"}} \subseteq T
    BY Current DEF Holding
  <2>3. {Head(loops[l].batch) : l \in {k \in Loops : loops[k].pc = "burying"}} \subseteq T
    BY Current DEF Holding
  <2> HIDE DEF T
  <2>4. acked' \subseteq acked \cup T /\ dlq' \subseteq dlq \cup T /\ UNCHANGED <<called, seen, audience>>
    BY <1>2, <2>2, <2>3 DEF Interrupt
  <2>5. \A e \in Events \ T : (Untouched(e) => StaysUntouched(e)) /\ (e \in dlq' => e \in dlq)
    BY <2>4 DEF Untouched, StaysUntouched
  <2>6. Touches(T)
    BY <2>5 DEF Touches, T
  <2> QED BY <2>1, <2>6
<1>3. CASE Start \/ Boot
  BY <1>1, <1>3 DEF Start, Boot, redisVars, history
<1>4. CASE Stop
  <2>1. \A k \in Loops' : loops'[k].batch = <<>>
    BY <1>4 DEF Stop, Loops, NewLoop
  <2> QED BY <1>2, <1>4, <2>1 DEF Stop
<1>5. CASE Crash
  BY <1>2, <1>5 DEF Crash, Loops
<1>6. CASE \E h \in Handlers : Subscribe(h) \/ Unsubscribe(h)
  BY <1>1, <1>6 DEF Subscribe, Unsubscribe, redisVars, history
<1>7. CASE \E e \in Events : Publish(e)
  BY <1>1, <1>7 DEF Publish, history
<1> QED BY <1>3, <1>4, <1>5, <1>6, <1>7 DEF Outside

\* A step touches no entry but this one.
Only(x) ==
  /\ acked' \subseteq acked \cup {x} /\ dlq' \subseteq dlq \cup {x}
  /\ \A e \in Events \ {x} : /\ audience'[e] = audience[e]
                             /\ \A h \in Handlers : called'[<<e, h>>] = called[<<e, h>>]
  /\ \A d \in seen' \ seen : d[1] = x

LEMMA HeadTouched ==
  ASSUME TypeOK, BatchesExact, NEW l \in Loops, loops[l].pc \in Holding \cup {"between"},
         NEW pc, NEW batch, NEW next, NEW handler, Moves(l, pc, batch, next, handler),
         Only(loops[l].batch[1]),
         \/ batch = loops[l].batch /\ pc # "between" /\ dlq' = dlq
         \/ batch = Tail(loops[l].batch)
  PROVE  \E T : Touches(T) /\ \A k \in Loops' : Handed(k, T)
<1> DEFINE x == loops[l].batch[1]
           T == {x}
<1>0. /\ loops[l].batch \in Seq(Events) /\ loops[l].batch # <<>> /\ 1 \in 1..Len(loops[l].batch)
      /\ Len(loops[l].batch) \in Nat /\ Len(Tail(loops[l].batch)) = Len(loops[l].batch) - 1
      /\ \A i \in 1..Len(loops[l].batch) - 1 : Tail(loops[l].batch)[i] = loops[l].batch[i + 1]
  BY Current
<1>1. Loops' = Loops /\ \A k \in Loops : k # l => loops'[k] = loops[k]
  BY DEF Moves
<1>2. loops'[l].batch = batch /\ loops'[l].pc = pc
  BY DEF Moves
<1>3. Touches(T)
  <2>1. T \subseteq {loops[m].batch[1] : m \in {k \in Loops : loops[k].batch # <<>>}}
    BY <1>0
  <2>2. \A e \in Events \ T : (Untouched(e) => StaysUntouched(e)) /\ (e \in dlq' => e \in dlq)
    <3> SUFFICES ASSUME NEW e \in Events, e # x
                 PROVE  (Untouched(e) => StaysUntouched(e)) /\ (e \in dlq' => e \in dlq)
      OBVIOUS
    <3> HIDE DEF x
    <3>1. Only(x)
      BY DEF x
    <3>2. \A h \in Handlers : <<e, h>> \in seen' => <<e, h>> \in seen
      BY <3>1 DEF Only
    <3> QED BY <3>1, <3>2 DEF Only, Untouched, StaysUntouched
  <2> QED BY <2>1, <2>2 DEF Touches
<1>4. ASSUME NEW k \in Loops, k # l PROVE Handed(k, T)
  <2> SUFFICES ASSUME loops[k].batch # <<>> PROVE KeepsBut(k, 0, T)
    BY <1>1, <1>4 DEF Handed
  <2>0. loops[k].batch \in Seq(Events)
    BY LoopsTyped
  <2>1. 1 \in 1..Len(loops[k].batch) /\ Len(loops[k].batch) \in Nat /\ loops[k].batch[1] \in Events
    <3> DEFINE s == loops[k].batch
    <3> HIDE DEF s
    <3>1. s \in Seq(Events) /\ s # <<>>
      BY <2>0 DEF s
    <3>2. 1 \in 1..Len(s) /\ Len(s) \in Nat /\ s[1] \in Events
      BY <3>1
    <3> QED BY <3>2 DEF s
  <2>2. loops[k].batch[1] # x
    BY <1>0, <1>4, <2>1, Distinct
  <2> HIDE DEF x
  <2>3. loops[k].batch[1] \in dlq' => loops[k].batch[1] \in dlq
    BY <2>2 DEF Only, x
  <2>4. \A i \in 1..Len(loops[k].batch) : i + 0 = i
    BY <2>1
  <2> QED BY <1>1, <1>4, <2>1, <2>2, <2>3, <2>4 DEF KeepsBut
<1>5. Handed(l, T)
  <2>1. CASE batch = loops[l].batch /\ pc # "between" /\ dlq' = dlq
    <3>1. \A i \in 1..Len(loops[l].batch) : i + 0 = i
      BY <1>0
    <3> QED BY <1>0, <1>2, <2>1, <3>1 DEF Handed, KeepsBut
  <2>2. CASE batch = Tail(loops[l].batch)
    <3> DEFINE rest == Tail(loops[l].batch)
    <3>1. loops'[l].batch = rest /\ Len(rest) = Len(loops[l].batch) - 1
      BY <1>0, <1>2, <2>2
    <3>2. \A i \in 1..Len(rest) : rest[i] = loops[l].batch[i + 1]
      BY <1>0
    <3> HIDE DEF rest
    <3> QED BY <3>1, <3>2 DEF Handed, KeepsBut
  <2> QED BY <2>1, <2>2
<1>6. \A k \in Loops' : Handed(k, T)
  BY <1>1, <1>4, <1>5
<1> QED BY <1>3, <1>6

LEMMA LoopOnly ==
  ASSUME TypeOK, BatchesExact, NEW l \in Loops, LoopStep(l)
  PROVE  Only(loops[l].batch[1])
<1> DEFINE x == loops[l].batch[1]
<1>1. CASE Read(l) \/ ReadFails(l) \/ Wake(l)
  BY <1>1 DEF Read, ReadFails, Wake, redisVars, history, Only
<1>2. CASE Begin(l) \/ HandlerReturns(l)
  <2>1. Head(loops[l].batch) = x
    BY <1>2, Current DEF Begin, HandlerReturns, Holding
  <2>2. PICK i \in Nat \ {0} : CallOrAck(l, i)
    <3>1. loops[l].next \in Nat \ {0}
      BY LoopsTyped DEF LoopRecords
    <3>2. 1 \in Nat \ {0}
      OBVIOUS
    <3>3. Begin(l) => CallOrAck(l, 1)
      BY DEF Begin
    <3>4. HandlerReturns(l) => CallOrAck(l, loops[l].next)
      BY DEF HandlerReturns
    <3> QED BY <1>2, <3>1, <3>2, <3>3, <3>4
  <2> HIDE DEF x
  <2>3. \A e \in Events \ {x} : audience'[e] = audience[e]
    BY <1>2, <2>1 DEF Begin, HandlerReturns, TypeOK
  <2>4. \A e \in Events \ {x}, h \in Handlers : called'[<<e, h>>] = called[<<e, h>>]
    <3>1. CASE called' = called
      BY <3>1
    <3>2. CASE called' = [called EXCEPT ![<<Head(loops[l].batch), handlers[i]>>] = @ + 1]
      BY <2>1, <3>2 DEF TypeOK, Deliveries
    <3> QED BY <2>2, <3>1, <3>2, CallMoves
  <2>5. \A d \in seen' \ seen : d[1] = x
    BY <1>2, <2>1 DEF Begin, HandlerReturns
  <2>6. UNCHANGED <<dlq, acked>>
    BY <1>2 DEF Begin, HandlerReturns, redisVars
  <2>7. Only(x)
    BY <2>3, <2>4, <2>5, <2>6 DEF Only
  <2> QED BY <2>7 DEF x
<1>3. CASE HandlerRaises(l) \/ Ack(l) \/ AckFails(l) \/ Bury(l) \/ BuryFails(l)
  <2>1. Head(loops[l].batch) = x
    BY <1>3, Current DEF HandlerRaises, Ack, AckFails, Bury, BuryFails, Holding
  <2> QED BY <1>3, <2>1 DEF HandlerRaises, Ack, AckFails, Bury, BuryFails, redisVars, history, Only
<1> QED BY <1>1, <1>2, <1>3 DEF LoopStep

LEMMA LoopHands ==
  ASSUME TypeOK, BatchesExact, NEW l \in Loops, LoopStep(l)
  PROVE  \/ Read(l) /\ Moves(l, "between", NextEntries, loops[l].next, loops[l].handler)
         \/ \E T : Touches(T) /\ \A k \in Loops' : Handed(k, T)
<1>1. CASE /\ ReadFails(l) \/ Wake(l)
           /\ \E pc \in {"reading", "sleeping"} :
                Moves(l, pc, loops[l].batch, loops[l].next, loops[l].handler)
  <2>1. PICK pc \in {"reading", "sleeping"} :
               Moves(l, pc, loops[l].batch, loops[l].next, loops[l].handler)
    BY <1>1
  <2>2. UNCHANGED <<dlq, acked, called, seen, audience>>
    BY <1>1 DEF ReadFails, Wake, redisVars, history
  <2>3. Touches({})
    BY <2>2 DEF Touches, Untouched, StaysUntouched
  <2>4. ASSUME NEW k \in Loops PROVE loops'[k].batch = loops[k].batch /\ (loops'[k].pc = "between" => loops[k].pc = "between")
    BY <2>1 DEF Moves
  <2>5. ASSUME NEW k \in Loops PROVE Handed(k, {})
    <3>1. Len(loops[k].batch) \in Nat
      BY LoopsTyped
    <3>2. \A i \in 1..Len(loops[k].batch) : i + 0 = i
      BY <3>1
    <3> QED BY <2>2, <2>4, <3>1, <3>2 DEF Handed, KeepsBut
  <2>6. Loops' = Loops
    BY <2>1 DEF Moves
  <2> QED BY <2>3, <2>5, <2>6
<1>2. CASE Calls(l)
  <2>1. PICK i \in Nat \ {0} : /\ CallOrAck(l, i)
                               /\ \/ i = 1 /\ Begin(l)
                                  \/ i = loops[l].next /\ HandlerReturns(l)
    BY <1>2 DEF Calls
  <2>2. loops[l].pc \in Holding \cup {"between"} /\ dlq' = dlq /\ acked' = acked
    BY <2>1 DEF Begin, HandlerReturns, redisVars, Holding
  <2>5. \E pc, next, handler : pc # "between" /\ Moves(l, pc, loops[l].batch, next, handler)
    BY <2>1, CallMoves
  <2> QED BY <2>2, <2>5, LoopOnly, HeadTouched
<1>3. CASE /\ HandlerRaises(l) \/ AckFails(l)
           /\ Moves(l, "burying", loops[l].batch, loops[l].next, loops[l].handler)
  <2>1. loops[l].pc \in Holding \cup {"between"} /\ dlq' = dlq
    BY <1>3 DEF HandlerRaises, AckFails, redisVars, Holding
  <2> QED BY <1>3, <2>1, LoopOnly, HeadTouched
<1>4. CASE /\ Ack(l) \/ Bury(l) \/ BuryFails(l)
           /\ Moves(l, IF Tail(loops[l].batch) = <<>> THEN "reading" ELSE "between",
                    Tail(loops[l].batch), loops[l].next, loops[l].handler)
  <2>1. loops[l].pc \in Holding \cup {"between"}
    BY <1>4 DEF Ack, Bury, BuryFails, Holding
  <2> QED BY <1>4, <2>1, LoopOnly, HeadTouched
<1> QED BY <1>1, <1>2, <1>3, <1>4, LoopMoves

LEMMA ReadHands ==
  ASSUME TypeOK, BatchesExact, WaitUntouched, NEW l \in Loops, Read(l),
         Moves(l, "between", NextEntries, loops[l].next, loops[l].handler)
  PROVE  BatchesExact' /\ WaitUntouched'
<1> DEFINE N == NextEntries
<1>1. Loops' = Loops /\ loops'[l].batch = N /\ \A k \in Loops : k # l => loops'[k] = loops[k]
  BY DEF Moves
<1>2. /\ N \in Seq(Events) /\ Len(N) \in Nat /\ position + Len(N) <= Len(stream)
      /\ \A i \in 1..Len(N) : N[i] = stream[position + i]
  BY NextEntriesExact
<1>3. /\ stream' = stream /\ position' = position + Len(N) /\ dlq' = dlq
      /\ UNCHANGED <<acked, called, seen, audience>>
  BY DEF Read, history
<1>4. /\ GivenOut' = GivenOut \cup ToSet(N) /\ GivenOut \cap ToSet(N) = {}
  BY <1>3, ReadGives
<1> HIDE DEF N
<1>5. \A i \in 1..Len(N) : N[i] \in ToSet(N)
  BY <1>2 DEF ToSet
<1>6. position \in Nat /\ Len(stream) \in Nat /\ Once(stream) /\ dlq \subseteq GivenOut
  BY DEF TypeOK
<1>7. \A i, j \in 1..Len(N), p, q \in 1..Len(stream) :
        i < j /\ stream[p] = N[i] /\ stream[q] = N[j] => p < q
  <2> SUFFICES ASSUME NEW i \in 1..Len(N), NEW j \in 1..Len(N),
                      NEW p \in 1..Len(stream), NEW q \in 1..Len(stream),
                      i < j, stream[p] = N[i], stream[q] = N[j]
               PROVE  p < q
    OBVIOUS
  <2>1. position + i \in 1..Len(stream) /\ position + j \in 1..Len(stream)
    BY <1>2, <1>6
  <2>2. p = position + i
    BY <1>2, <1>6, <2>1 DEF Once
  <2>3. q = position + j
    BY <1>2, <1>6, <2>1 DEF Once
  <2> QED BY <1>2, <1>6, <2>2, <2>3
<1>8. \A k \in Loops : k # l =>
        \A i \in 1..Len(loops[k].batch), j \in 1..Len(N) : loops[k].batch[i] # N[j]
  BY <1>4, <1>5 DEF BatchesExact
<1>9. BatchesExact'
  <2>1. ASSUME NEW k \in Loops, NEW i \in 1..Len(loops'[k].batch)
        PROVE  loops'[k].batch[i] \in GivenOut'
    <3>1. CASE k = l
      BY <1>1, <1>4, <1>5, <3>1
    <3>2. CASE k # l
      BY <1>1, <1>4, <3>2 DEF BatchesExact
    <3> QED BY <3>1, <3>2
  <2>2. ASSUME NEW k \in Loops, NEW i \in 1..Len(loops'[k].batch), NEW j \in 1..Len(loops'[k].batch),
               NEW p \in 1..Len(stream), NEW q \in 1..Len(stream),
               i < j, stream[p] = loops'[k].batch[i], stream[q] = loops'[k].batch[j]
        PROVE  p < q
    <3>1. CASE k = l
      BY <1>1, <1>7, <2>2, <3>1
    <3>2. CASE k # l
      BY <1>1, <2>2, <3>2 DEF BatchesExact
    <3> QED BY <3>1, <3>2
  <2>3. ASSUME NEW m \in Loops, NEW k \in Loops, NEW i \in 1..Len(loops'[m].batch),
               NEW j \in 1..Len(loops'[k].batch), loops'[m].batch[i] = loops'[k].batch[j]
        PROVE  k = m
    <3>1. CASE k = l \/ m = l
      BY <1>1, <1>8, <2>3, <3>1
    <3>2. CASE k # l /\ m # l
      BY <1>1, <2>3, <3>2 DEF BatchesExact
    <3> QED BY <3>1, <3>2
  <2> QED BY <1>1, <1>3, <2>1, <2>2, <2>3 DEF BatchesExact
<1>10. WaitUntouched'
  <2>1. \A e \in Events : Untouched(e) => StaysUntouched(e)
    BY <1>3 DEF Untouched, StaysUntouched
  <2>2. \A e \in Events \ GivenOut' : StaysUntouched(e)
    BY <1>4, <2>1 DEF WaitUntouched
  <2>3. ASSUME NEW k \in Loops, NEW i \in 1..Len(loops'[k].batch)
        PROVE  /\ i > 1 \/ loops'[k].pc = "between" => StaysUntouched(loops'[k].batch[i])
               /\ loops'[k].batch[i] \notin dlq'
    <3>1. CASE k = l
      <4>1. N[i] \in Events \ GivenOut
        BY <1>1, <1>2, <1>4, <1>5, <3>1
      <4>2. loops'[k].batch[i] = N[i]
        BY <1>1, <3>1
      <4> QED BY <1>3, <1>6, <2>1, <4>1, <4>2 DEF WaitUntouched
    <3>2. CASE k # l
      <4>1. loops'[k] = loops[k] /\ loops[k].batch \in Seq(Events)
        BY <1>1, <3>2, LoopsTyped
      <4>2. loops[k].batch[i] \in Events
        BY <4>1
      <4> QED BY <1>3, <2>1, <4>1, <4>2 DEF WaitUntouched
    <3> QED BY <3>1, <3>2
  <2> QED BY <1>1, <2>2, <2>3 DEF WaitUntouched, Untouched, StaysUntouched
<1> QED BY <1>9, <1>10

LEMMA NextHands ==
  ASSUME TypeOK, BatchesExact, WaitUntouched, ProgressExact, [Next]_vars
  PROVE  BatchesExact' /\ WaitUntouched'
<1>1. TypeOK' /\ Grows
  BY NextType, NextGrows
<1>2. ASSUME NEW T, Touches(T), \A k \in Loops' : Handed(k, T) PROVE BatchesExact' /\ WaitUntouched'
  BY <1>1, <1>2, BatchesKept, WaitKept
<1>3. CASE Outside
  BY <1>2, <1>3, OutsideHands
<1>4. ASSUME NEW l \in Loops, LoopStep(l) PROVE BatchesExact' /\ WaitUntouched'
  BY <1>2, <1>4, LoopHands, ReadHands
<1>5. CASE UNCHANGED vars
  <2>1. BatchesExact'
    BY <1>5 DEF BatchesExact, GivenOut, Loops, vars, redisVars, processVars
  <2>2. WaitUntouched'
    BY <1>5 DEF WaitUntouched, Untouched, GivenOut, Loops, vars, redisVars, processVars, history
  <2> QED BY <2>1, <2>2
<1> QED BY <1>3, <1>4, <1>5 DEF Next, Outside

-----------------------------------------------------------------------------
(* How far the loops have come.                                            *)

\* What ProgressExact says of a loop, after a step.
ProgressAfter(pc, e, next, handler) ==
  /\ pc = "handling" => handler \in Handlers
  /\ pc = "handling" /\ e \notin churned' =>
       /\ next - 1 \in 1..Len(handlers') /\ handlers'[next - 1] = handler
       /\ \A h \in audience'[e] : \E j \in 1..Len(handlers') :
            handlers'[j] = h /\ (j < next - 1 => <<e, h>> \in seen')
       /\ \A h \in Handlers : called'[<<e, h>>] > 0 =>
            \E j \in 1..next - 1 : handlers'[j] = h
  /\ pc = "acking" /\ e \notin churned' => \A h \in audience'[e] : <<e, h>> \in seen'

\* The handlers keep their places.
Extended == /\ Len(handlers) <= Len(handlers')
            /\ \A i \in 1..Len(handlers) : handlers'[i] = handlers[i]

\* A loop that does not move comes no further and falls no further back.
LEMMA ProgressKept ==
  ASSUME TypeOK, ProgressExact, NEW k \in Loops, NEW e, e = loops[k].batch[1],
         audience'[e] = audience[e], \A h \in Handlers : called'[<<e, h>>] = called[<<e, h>>],
         seen \subseteq seen', churned \subseteq churned',
         Extended \/ (loops[k].pc = "handling" => e \in churned')
  PROVE  ProgressAfter(loops[k].pc, e, loops[k].next, loops[k].handler)
<1>1. Len(handlers) \in Nat /\ (Extended => \A i \in 1..Len(handlers) : i \in 1..Len(handlers'))
  BY DEF TypeOK, Extended
<1>2. CASE loops[k].pc = "handling" /\ e \notin churned'
  <2> DEFINE n == loops[k].next
  <2>1. Extended /\ e \notin churned
    BY <1>2
  <2>2. /\ loops[k].handler \in Handlers
        /\ n - 1 \in 1..Len(handlers) /\ handlers[n - 1] = loops[k].handler
        /\ \A h \in audience[e] : \E j \in 1..Len(handlers) :
             handlers[j] = h /\ (j < n - 1 => <<e, h>> \in seen)
        /\ \A h \in Handlers : called[<<e, h>>] > 0 => \E j \in 1..n - 1 : handlers[j] = h
    BY <1>2, <2>1 DEF ProgressExact
  <2> HIDE DEF n
  <2>3. n - 1 \in 1..Len(handlers') /\ handlers'[n - 1] = loops[k].handler
    BY <1>1, <2>1, <2>2 DEF Extended
  <2>4. \A h \in audience'[e] : \E j \in 1..Len(handlers') :
           handlers'[j] = h /\ (j < n - 1 => <<e, h>> \in seen')
    BY <1>1, <2>1, <2>2 DEF Extended
  <2>5. \A j \in 1..n - 1 : j \in 1..Len(handlers)
    BY <1>1, <2>2
  <2>6. \A h \in Handlers : called'[<<e, h>>] > 0 => \E j \in 1..n - 1 : handlers'[j] = h
    BY <2>1, <2>2, <2>5 DEF Extended
  <2> QED BY <1>2, <2>2, <2>3, <2>4, <2>6 DEF ProgressAfter, n
<1>3. CASE loops[k].pc = "handling" /\ e \in churned'
  BY <1>3 DEF ProgressAfter, ProgressExact
<1>4. CASE loops[k].pc = "acking"
  BY <1>4 DEF ProgressAfter, ProgressExact
<1>5. CASE loops[k].pc \notin {"handling", "acking"}
  BY <1>5 DEF ProgressAfter
<1> QED BY <1>2, <1>3, <1>4, <1>5

LEMMA OutsideProgress ==
  ASSUME TypeOK, BatchesExact, ProgressExact, Outside, NEW k \in Loops'
  PROVE  ProgressAfter(loops'[k].pc, loops'[k].batch[1], loops'[k].next, loops'[k].handler)
<1>1. CASE loops'[k].batch = <<>> /\ loops'[k].pc \in {"reading", "ended"}
  BY <1>1 DEF ProgressAfter
<1>2. CASE k \in Loops /\ loops'[k] = loops[k]
  <2> DEFINE e == loops[k].batch[1]
  <2>1. UNCHANGED <<called, seen, audience>>
    BY DEF Outside, Start, Stop, Crash, Boot, Interrupt, Subscribe, Unsubscribe, Publish, redisVars, history
  <2>2. churned \subseteq churned'
    BY DEF Outside, Start, Stop, Crash, Boot, Interrupt, Subscribe, Unsubscribe, Publish, redisVars, history
  <2>3. handlers \in Seq(Handlers) /\ Len(handlers) \in Nat
    BY DEF TypeOK
  <2>4. CASE handlers' = handlers
    BY <1>2, <2>1, <2>2, <2>3, <2>4, ProgressKept DEF Extended
  <2>5. CASE \E h \in Handlers : handlers' = Append(handlers, h)
    <3>1. Extended
      BY <2>3, <2>5 DEF Extended
    <3> QED BY <1>2, <2>1, <2>2, <3>1, ProgressKept
  <2>6. CASE \E h \in Handlers : Unsubscribe(h)
    <3>1. loops[k].pc = "handling" => e \in churned'
      BY <1>2, <2>6, Current DEF Unsubscribe, Holding
    <3> QED BY <1>2, <2>1, <2>2, <3>1, ProgressKept
  <2>7. CASE Boot
    BY <1>2, <2>7 DEF Boot, Loops
  <2> QED BY <2>4, <2>5, <2>6, <2>7 DEF Outside, Start, Stop, Crash, Subscribe, Publish, processVars
<1> QED BY <1>1, <1>2, OutsideTypes DEF Quiet

\* What a call does to the count of an entry.
LEMMA CallCounts ==
  ASSUME TypeOK, NEW e \in Events, NEW h \in Handlers,
         called' = [called EXCEPT ![<<e, h>>] = @ + 1]
  PROVE  \A g \in Handlers : called'[<<e, g>>] = IF g = h THEN called[<<e, g>>] + 1
                                                          ELSE called[<<e, g>>]
<1>1. called \in [Deliveries -> Nat]
  BY DEF TypeOK
<1>2. \A g \in Handlers : <<e, g>> \in Deliveries /\ (<<e, g>> = <<e, h>> <=> g = h)
  BY DEF Deliveries
<1> QED BY <1>1, <1>2

LEMMA BeginProgress ==
  ASSUME TypeOK, BatchesExact, WaitUntouched, NEW l \in Loops, Begin(l)
  PROVE  ProgressAfter(loops'[l].pc, loops'[l].batch[1], loops'[l].next, loops'[l].handler)
<1> DEFINE x == loops[l].batch[1]
<1>1. loops[l].pc = "between" /\ CallOrAck(l, 1) /\ handlers' = handlers
  BY DEF Begin
<1>2. x \in Events /\ 1 \in 1..Len(loops[l].batch) /\ Head(loops[l].batch) = x
  BY <1>1, Current DEF Holding
<1>3. Untouched(x)
  BY <1>1, <1>2 DEF WaitUntouched
<1>4. audience'[x] = {handlers[i] : i \in 1..Len(handlers)}
  <2>1. audience' = [audience EXCEPT ![x] = ToSet(handlers)]
    BY <1>2 DEF Begin
  <2>2. DOMAIN audience = Events /\ DOMAIN handlers = 1..Len(handlers)
    BY DEF TypeOK
  <2>3. ToSet(handlers) = {handlers[i] : i \in 1..Len(handlers)}
    BY <2>2 DEF ToSet
  <2> HIDE DEF x
  <2> QED BY <1>2, <2>1, <2>2, <2>3
<1>5. handlers \in Seq(Handlers) /\ Len(handlers) \in Nat
  BY DEF TypeOK
<1> HIDE DEF x
<1>6. CASE /\ 1 <= Len(handlers)
           /\ Moves(l, "handling", loops[l].batch, 1 + 1, handlers[1])
           /\ called' = [called EXCEPT ![<<Head(loops[l].batch), handlers[1]>>] = @ + 1]
  <2>1. loops'[l].pc = "handling" /\ loops'[l].batch[1] = x /\ loops'[l].next = 2
        /\ loops'[l].handler = handlers[1]
    BY <1>6 DEF Moves, x
  <2>2. handlers[1] \in Handlers /\ 1 \in 1..Len(handlers) /\ 2 - 1 = 1
    BY <1>5, <1>6
  <2>3. \A h \in Handlers : called'[<<x, h>>] > 0 => h = handlers[1]
    <3>1. \A h \in Handlers : called[<<x, h>>] = 0
      BY <1>3 DEF Untouched
    <3>2. \A g \in Handlers : called'[<<x, g>>] = IF g = handlers[1] THEN called[<<x, g>>] + 1
                                                                    ELSE called[<<x, g>>]
      BY <1>2, <1>6, <2>2, CallCounts
    <3> QED BY <3>1, <3>2
  <2>4. \A h \in audience'[x] : \E j \in 1..Len(handlers) : handlers[j] = h /\ ~(j < 1)
    BY <1>4, <1>5
  <2>5. \A h \in Handlers : called'[<<x, h>>] > 0 => \E j \in 1..1 : handlers[j] = h
    BY <2>3
  <2>6. ProgressAfter("handling", x, 2, handlers[1])
    BY <1>1, <2>2, <2>4, <2>5 DEF ProgressAfter
  <2> QED BY <2>1, <2>6
<1>7. CASE ~(1 <= Len(handlers)) /\ Moves(l, "acking", loops[l].batch, loops[l].next, loops[l].handler)
  <2>1. loops'[l].pc = "acking" /\ loops'[l].batch[1] = x
    BY <1>7 DEF Moves, x
  <2>2. audience'[x] = {}
    BY <1>4, <1>5, <1>7
  <2> QED BY <2>1, <2>2 DEF ProgressAfter
<1> QED BY <1>1, <1>6, <1>7, CallMoves

LEMMA ReturnProgress ==
  ASSUME TypeOK, BatchesExact, ProgressExact, NEW l \in Loops, HandlerReturns(l)
  PROVE  ProgressAfter(loops'[l].pc, loops'[l].batch[1], loops'[l].next, loops'[l].handler)
<1> DEFINE x == loops[l].batch[1]
           n == loops[l].next
<1>1. /\ loops[l].pc = "handling" /\ CallOrAck(l, n)
      /\ UNCHANGED <<handlers, audience, churned>>
  BY DEF HandlerReturns
<1>2. x \in Events /\ Head(loops[l].batch) = x
  BY <1>1, Current DEF Holding
<1>3. seen' = seen \cup {<<x, loops[l].handler>>}
  BY <1>2 DEF HandlerReturns
<1>4. handlers \in Seq(Handlers) /\ Len(handlers) \in Nat /\ n \in Nat \ {0} /\ Once(handlers)
  <2>1. n \in Nat \ {0}
    BY LoopsTyped DEF LoopRecords
  <2> QED BY <2>1 DEF TypeOK
<1>5. x \notin churned =>
        /\ n - 1 \in 1..Len(handlers) /\ handlers[n - 1] = loops[l].handler
        /\ \A h \in audience[x] : \E j \in 1..Len(handlers) :
             handlers[j] = h /\ (j < n - 1 => <<x, h>> \in seen)
        /\ \A h \in Handlers : called[<<x, h>>] > 0 => \E j \in 1..n - 1 : handlers[j] = h
  BY <1>1 DEF ProgressExact
<1> HIDE DEF x, n
<1>6. ASSUME x \notin churned
      PROVE  \A h \in audience'[x] : \E j \in 1..Len(handlers) :
               handlers[j] = h /\ (j < n => <<x, h>> \in seen')
  <2> SUFFICES ASSUME NEW h \in audience[x]
               PROVE  \E j \in 1..Len(handlers) : handlers[j] = h /\ (j < n => <<x, h>> \in seen')
    BY <1>1
  <2>1. PICK j \in 1..Len(handlers) : handlers[j] = h /\ (j < n - 1 => <<x, h>> \in seen)
    BY <1>5, <1>6
  <2>2. j = n - 1 => h = loops[l].handler
    BY <1>5, <1>6, <2>1
  <2>3. j < n => j < n - 1 \/ j = n - 1
    BY <1>4
  <2> QED BY <1>3, <2>1, <2>2, <2>3
<1>7. CASE /\ n <= Len(handlers)
           /\ Moves(l, "handling", loops[l].batch, n + 1, handlers[n])
           /\ called' = [called EXCEPT ![<<Head(loops[l].batch), handlers[n]>>] = @ + 1]
  <2>1. loops'[l].pc = "handling" /\ loops'[l].batch[1] = x /\ loops'[l].next = n + 1
        /\ loops'[l].handler = handlers[n]
    BY <1>7 DEF Moves, x
  <2>2. handlers[n] \in Handlers /\ n \in 1..Len(handlers) /\ (n + 1) - 1 = n
    BY <1>4, <1>7
  <2>3. \A g \in Handlers : called'[<<x, g>>] = IF g = handlers[n] THEN called[<<x, g>>] + 1
                                                                  ELSE called[<<x, g>>]
    BY <1>2, <1>7, <2>2, CallCounts
  <2>4. ASSUME x \notin churned, NEW h \in Handlers, called'[<<x, h>>] > 0
        PROVE  \E j \in 1..n : handlers[j] = h
    <3>1. CASE h = handlers[n]
      BY <1>4, <3>1
    <3>2. CASE h # handlers[n]
      <4>1. called[<<x, h>>] > 0
        BY <2>3, <2>4, <3>2
      <4>2. \E j \in 1..n - 1 : handlers[j] = h
        BY <1>5, <2>4, <4>1
      <4>3. \A j \in 1..n - 1 : j \in 1..n
        BY <1>4
      <4> QED BY <4>2, <4>3
    <3> QED BY <3>1, <3>2
  <2>5. ProgressAfter("handling", x, n + 1, handlers[n])
    BY <1>1, <1>6, <2>2, <2>4 DEF ProgressAfter
  <2> QED BY <2>1, <2>5
<1>8. CASE ~(n <= Len(handlers)) /\ Moves(l, "acking", loops[l].batch, loops[l].next, loops[l].handler)
  <2>1. loops'[l].pc = "acking" /\ loops'[l].batch[1] = x
    BY <1>8 DEF Moves, x
  <2>2. \A j \in 1..Len(handlers) : j < n
    BY <1>4, <1>8
  <2>3. x \notin churned => \A h \in audience'[x] : <<x, h>> \in seen'
    BY <1>6, <2>2
  <2> QED BY <1>1, <2>1, <2>3 DEF ProgressAfter
<1> QED BY <1>1, <1>7, <1>8, CallMoves

LEMMA OthersStay ==
  ASSUME TypeOK, BatchesExact, NEW l \in Loops, LoopStep(l)
  PROVE  Loops' = Loops /\ \A k \in Loops : k # l => loops'[k] = loops[k]
<1>1. \A pc, batch, next, handler : Moves(l, pc, batch, next, handler) =>
        Loops' = Loops /\ \A k \in Loops : k # l => loops'[k] = loops[k]
  BY DEF Moves
<1>2. Calls(l) => Loops' = Loops /\ \A k \in Loops : k # l => loops'[k] = loops[k]
  <2> SUFFICES ASSUME NEW i, CallOrAck(l, i)
               PROVE  Loops' = Loops /\ \A k \in Loops : k # l => loops'[k] = loops[k]
    BY DEF Calls
  <2> QED BY <1>1, CallMoves
<1>3. CASE Read(l) /\ Moves(l, "between", NextEntries, loops[l].next, loops[l].handler)
  BY <1>1, <1>3
<1>4. CASE \E pc \in {"reading", "sleeping"} :
             Moves(l, pc, loops[l].batch, loops[l].next, loops[l].handler)
  BY <1>1, <1>4
<1>5. CASE Moves(l, "burying", loops[l].batch, loops[l].next, loops[l].handler)
  BY <1>1, <1>5
<1>6. CASE Moves(l, IF Tail(loops[l].batch) = <<>> THEN "reading" ELSE "between",
                 Tail(loops[l].batch), loops[l].next, loops[l].handler)
  BY <1>1, <1>6
<1> QED BY <1>2, <1>3, <1>4, <1>5, <1>6, LoopMoves

\* A loop touches what it has in hand, a reader nothing.
LEMMA LoopTouches ==
  ASSUME TypeOK, BatchesExact, NEW l \in Loops, LoopStep(l)
  PROVE  \/ loops[l].pc \in {"reading", "sleeping"} /\ UNCHANGED <<dlq, called, seen, audience, acked>>
         \/ /\ loops[l].pc \in Holding \cup {"between"} /\ 1 \in 1..Len(loops[l].batch)
            /\ Head(loops[l].batch) = loops[l].batch[1] /\ Only(loops[l].batch[1])
<1>1. CASE Read(l) \/ ReadFails(l) \/ Wake(l)
  BY <1>1 DEF Read, ReadFails, Wake, redisVars, history
<1>2. CASE ~(Read(l) \/ ReadFails(l) \/ Wake(l))
  <2>1. loops[l].pc \in Holding \cup {"between"}
    BY <1>2 DEF LoopStep, Begin, HandlerReturns, HandlerRaises, Ack, AckFails, Bury, BuryFails, Holding
  <2> QED BY <2>1, Current, LoopOnly
<1> QED BY <1>1, <1>2

LEMMA SeenGrows ==
  ASSUME [Next]_vars
  PROVE  seen \subseteq seen' /\ churned \subseteq churned'
BY DEF Next, LoopStep, Start, Stop, Crash, Boot, Interrupt, Subscribe, Unsubscribe, Publish, Read,
       ReadFails, Wake, Begin, HandlerReturns, HandlerRaises, Ack, AckFails, Bury, BuryFails,
       vars, redisVars, history

LEMMA LoopProgress ==
  ASSUME TypeOK, BatchesExact, WaitUntouched, ProgressExact, NEW l \in Loops, LoopStep(l),
         NEW k \in Loops'
  PROVE  ProgressAfter(loops'[k].pc, loops'[k].batch[1], loops'[k].next, loops'[k].handler)
<1>1. CASE Begin(l) /\ k = l
  BY <1>1, BeginProgress
<1>2. CASE HandlerReturns(l) /\ k = l
  BY <1>2, ReturnProgress
<1>3. CASE k = l /\ ~Begin(l) /\ ~HandlerReturns(l)
  <2>1. \A pc, batch, next, handler : Moves(l, pc, batch, next, handler) => loops'[l].pc = pc
    BY DEF Moves
  <2>2. ~Calls(l)
    BY <1>3 DEF Calls
  <2>3. CASE Read(l) /\ Moves(l, "between", NextEntries, loops[l].next, loops[l].handler)
    BY <1>3, <2>1, <2>3 DEF ProgressAfter
  <2>4. CASE \E pc \in {"reading", "sleeping"} :
               Moves(l, pc, loops[l].batch, loops[l].next, loops[l].handler)
    BY <1>3, <2>1, <2>4 DEF ProgressAfter
  <2>5. CASE Moves(l, "burying", loops[l].batch, loops[l].next, loops[l].handler)
    BY <1>3, <2>1, <2>5 DEF ProgressAfter
  <2>6. CASE Moves(l, IF Tail(loops[l].batch) = <<>> THEN "reading" ELSE "between",
                   Tail(loops[l].batch), loops[l].next, loops[l].handler)
    BY <1>3, <2>1, <2>6 DEF ProgressAfter
  <2> QED BY <2>2, <2>3, <2>4, <2>5, <2>6, LoopMoves
<1>4. CASE k # l
  <2>1. Loops' = Loops /\ loops'[k] = loops[k] /\ k \in Loops
    BY <1>4, OthersStay
  <2>2. handlers' = handlers /\ churned' = churned
    BY LoopStepKeeps
  <2>3. CASE loops[k].pc \notin {"handling", "acking"}
    BY <2>1, <2>3 DEF ProgressAfter
  <2>4. CASE loops[k].pc \in {"handling", "acking"}
    <3> DEFINE e == loops[k].batch[1]
               x == loops[l].batch[1]
    <3>1. 1 \in 1..Len(loops[k].batch) /\ e \in Events
      BY <2>1, <2>4, Current DEF Holding
    <3>2. audience'[e] = audience[e] /\ \A h \in Handlers : called'[<<e, h>>] = called[<<e, h>>]
      <4>1. CASE UNCHANGED <<called, audience>>
        BY <4>1
      <4>2. CASE 1 \in 1..Len(loops[l].batch) /\ Only(x)
        <5>1. e # x
          BY <1>4, <2>1, <3>1, <4>2, Distinct
        <5> HIDE DEF e, x
        <5> QED BY <3>1, <4>2, <5>1 DEF Only
      <4> QED BY <4>1, <4>2, LoopTouches
    <3>3. seen \subseteq seen' /\ churned \subseteq churned'
      BY SeenGrows DEF Next
    <3>4. Extended
      <4>1. Len(handlers) \in Nat
        BY DEF TypeOK
      <4> QED BY <2>2, <4>1 DEF Extended
    <3> HIDE DEF e
    <3>5. ProgressAfter(loops[k].pc, e, loops[k].next, loops[k].handler)
      BY <2>1, <3>2, <3>3, <3>4, ProgressKept DEF e
    <3> QED BY <2>1, <3>5 DEF e
  <2> QED BY <2>3, <2>4
<1> QED BY <1>1, <1>2, <1>3, <1>4

LEMMA NextProgress ==
  ASSUME TypeOK, BatchesExact, WaitUntouched, ProgressExact, [Next]_vars
  PROVE  ProgressExact'
<1>1. CASE UNCHANGED vars
  BY <1>1 DEF ProgressExact, Loops, vars, processVars, history
<1>2. CASE Next
  <2>1. \A k \in Loops' :
          ProgressAfter(loops'[k].pc, loops'[k].batch[1], loops'[k].next, loops'[k].handler)
    BY <1>2, OutsideProgress, LoopProgress DEF Next, Outside
  <2> QED BY <2>1 DEF ProgressExact, ProgressAfter
<1> QED BY <1>1, <1>2

-----------------------------------------------------------------------------
(* What the loops have acknowledged and called.                            *)

\* Entries are acknowledged from the loops, and what is owed for an entry is
\* settled when its processing begins.
LEMMA AckedFrom ==
  ASSUME TypeOK, BatchesExact, WaitUntouched, [Next]_vars
  PROVE  /\ \A e \in acked' \ acked : /\ audience' = audience
                                      /\ \E l \in Loops : loops[l].pc = "acking" /\ loops[l].batch[1] = e
         /\ \A e \in Events : audience'[e] = audience[e] \/ Untouched(e)
<1>1. CASE Outside
  <2>1. audience' = audience
    BY <1>1 DEF Outside, Start, Stop, Crash, Boot, Interrupt, Subscribe, Unsubscribe, Publish,
                redisVars, history
  <2>2. CASE acked' = acked
    BY <2>1, <2>2
  <2>3. CASE Interrupt
    <3>1. acked' \ acked \subseteq {Head(loops[l].batch) : l \in {k \in Loops : loops[k].pc = "acking"}}
      BY <2>3 DEF Interrupt
    <3>2. \A l \in Loops : loops[l].pc = "acking" => Head(loops[l].batch) = loops[l].batch[1]
      BY Current DEF Holding
    <3> QED BY <2>1, <3>1, <3>2
  <2> QED BY <1>1, <2>2, <2>3 DEF Outside, Start, Stop, Crash, Boot, Subscribe, Unsubscribe, Publish,
                                  redisVars, history
<1>2. ASSUME NEW l \in Loops, LoopStep(l)
      PROVE  /\ \A e \in acked' \ acked : /\ audience' = audience
                                          /\ loops[l].pc = "acking" /\ loops[l].batch[1] = e
             /\ \A e \in Events : audience'[e] = audience[e] \/ Untouched(e)
  <2>1. CASE Begin(l)
    <3>1. loops[l].pc = "between" /\ acked' = acked
      BY <2>1 DEF Begin
    <3>2. 1 \in 1..Len(loops[l].batch) /\ Only(loops[l].batch[1]) /\ loops[l].batch[1] \in Events
      BY <1>2, <3>1, Current, LoopOnly DEF Holding
    <3>3. Untouched(loops[l].batch[1])
      BY <3>1, <3>2 DEF WaitUntouched
    <3> DEFINE x == loops[l].batch[1]
    <3>4. ASSUME NEW e \in Events PROVE audience'[e] = audience[e] \/ Untouched(e)
      <4>1. Only(x) /\ Untouched(x)
        BY <3>2, <3>3
      <4> HIDE DEF x
      <4>2. CASE e = x
        BY <4>1, <4>2
      <4>3. CASE e # x
        BY <4>1, <4>3 DEF Only
      <4> QED BY <4>2, <4>3
    <3> QED BY <3>1, <3>4
  <2>2. CASE Ack(l) \/ AckFails(l)
    <3>1. loops[l].pc = "acking" /\ audience' = audience
      BY <2>2 DEF Ack, AckFails
    <3>2. Head(loops[l].batch) = loops[l].batch[1]
      BY <3>1, Current DEF Holding
    <3> QED BY <2>2, <3>1, <3>2 DEF Ack, AckFails
  <2>3. CASE ~(Begin(l) \/ Ack(l) \/ AckFails(l))
    BY <1>2, <2>3 DEF LoopStep, Read, ReadFails, Wake, HandlerReturns, HandlerRaises, Bury, BuryFails,
                      redisVars, history
  <2> QED BY <2>1, <2>2, <2>3
<1>3. CASE UNCHANGED vars
  BY <1>3 DEF vars, history
<1> QED BY <1>1, <1>2, <1>3 DEF Next, Outside

LEMMA NextAcked ==
  ASSUME TypeOK, BatchesExact, WaitUntouched, ProgressExact, AckedMeansHandled, [Next]_vars
  PROVE  AckedMeansHandled'
<1> SUFFICES ASSUME NEW e \in acked' \ churned', NEW h \in audience'[e] PROVE <<e, h>> \in seen'
  BY DEF AckedMeansHandled
<1>1. seen \subseteq seen' /\ churned \subseteq churned'
  BY SeenGrows
<1>2. CASE e \in acked
  <2>1. ~Untouched(e)
    BY <1>2 DEF Untouched
  <2>2. e \in Events
    BY <1>2 DEF TypeOK, GivenOut
  <2>3. audience'[e] = audience[e]
    BY <2>1, <2>2, AckedFrom
  <2> QED BY <1>1, <1>2, <2>3 DEF AckedMeansHandled
<1>3. CASE e \notin acked
  <2>1. PICK l \in Loops : loops[l].pc = "acking" /\ loops[l].batch[1] = e
    BY <1>3, AckedFrom
  <2>2. audience' = audience
    BY <1>3, AckedFrom
  <2> QED BY <1>1, <2>1, <2>2 DEF ProgressExact
<1> QED BY <1>2, <1>3

\* A loop calls a handler that was not called with its entry yet.
LEMMA CalledFrom ==
  ASSUME TypeOK, BatchesExact, WaitUntouched, ProgressExact, [Next]_vars
  PROVE  \A e \in Events, h \in Handlers :
           \/ called'[<<e, h>>] = called[<<e, h>>]
           \/ /\ \E l \in Loops : /\ 1 \in 1..Len(loops[l].batch) /\ loops[l].batch[1] = e
                                  /\ Loops' = Loops /\ loops'[l].batch = loops[l].batch
                                  /\ stream' = stream
              /\ e \in churned \/ (called[<<e, h>>] = 0 /\ called'[<<e, h>>] = 1)
<1>1. CASE called' = called
  BY <1>1
<1>2. ASSUME NEW l \in Loops, Begin(l) \/ HandlerReturns(l), NEW e \in Events, NEW h \in Handlers,
             called'[<<e, h>>] # called[<<e, h>>]
      PROVE  /\ 1 \in 1..Len(loops[l].batch) /\ loops[l].batch[1] = e
             /\ Loops' = Loops /\ loops'[l].batch = loops[l].batch
             /\ stream' = stream
             /\ e \in churned \/ (called[<<e, h>>] = 0 /\ called'[<<e, h>>] = 1)
  <2>1. loops[l].pc \in Holding \cup {"between"} /\ stream' = stream
    BY <1>2 DEF Begin, HandlerReturns, Holding, redisVars
  <2>2. 1 \in 1..Len(loops[l].batch) /\ Head(loops[l].batch) = loops[l].batch[1]
    BY <2>1, Current
  <2> DEFINE x == loops[l].batch[1]
             n == loops[l].next
             i == IF loops[l].pc = "between" THEN 1 ELSE n
  <2>3. CallOrAck(l, i)
    BY <1>2 DEF Begin, HandlerReturns
  <2>4. n \in Nat \ {0} /\ i \in Nat \ {0}
    <3>1. n \in Nat \ {0}
      BY LoopsTyped DEF LoopRecords
    <3> HIDE DEF n
    <3> QED BY <3>1
  <2>5. LoopStep(l)
    BY <1>2 DEF LoopStep
  <2>6. Only(x)
    BY <2>5, LoopOnly
  <2> HIDE DEF i
  <2>7. e = x
    <3> HIDE DEF x
    <3> QED BY <1>2, <2>6 DEF Only
  <2>8. /\ i <= Len(handlers)
        /\ Moves(l, "handling", loops[l].batch, i + 1, handlers[i])
        /\ called' = [called EXCEPT ![<<Head(loops[l].batch), handlers[i]>>] = @ + 1]
    BY <1>2, <2>3, CallMoves
  <2>9. handlers \in Seq(Handlers) /\ Len(handlers) \in Nat /\ Once(handlers)
    BY DEF TypeOK
  <2>10. i \in 1..Len(handlers) /\ handlers[i] \in Handlers
    BY <2>4, <2>8, <2>9
  <2>11. \A g \in Handlers : called'[<<e, g>>] = IF g = handlers[i] THEN called[<<e, g>>] + 1
                                                                   ELSE called[<<e, g>>]
    BY <2>2, <2>7, <2>8, <2>10, CallCounts
  <2>12. h = handlers[i] /\ called'[<<e, h>>] = called[<<e, h>>] + 1
    BY <1>2, <2>11
  <2>13. e \in churned \/ called[<<e, h>>] = 0
    <3>1. CASE loops[l].pc = "between"
      BY <2>2, <2>7, <3>1 DEF WaitUntouched, Untouched
    <3>2. CASE loops[l].pc = "handling"
      <4> SUFFICES ASSUME e \notin churned, called[<<e, h>>] # 0 PROVE FALSE
        OBVIOUS
      <4>1. n - 1 \in 1..Len(handlers)
            /\ \A g \in Handlers : called[<<e, g>>] > 0 => \E j \in 1..n - 1 : handlers[j] = g
        BY <2>7, <3>2 DEF ProgressExact
      <4>2. called[<<e, h>>] > 0
        BY DEF TypeOK, Deliveries
      <4>3. PICK j \in 1..n - 1 : handlers[j] = h
        BY <4>1, <4>2
      <4>4. j \in 1..Len(handlers) /\ j # n /\ i = n
        BY <2>4, <2>9, <3>2, <4>1 DEF i
      <4> QED BY <2>9, <2>10, <2>12, <4>3, <4>4 DEF Once
    <3> QED BY <1>2, <3>1, <3>2 DEF Begin, HandlerReturns
  <2>14. Loops' = Loops /\ loops'[l].batch = loops[l].batch
    BY <2>8 DEF Moves
  <2> QED BY <2>1, <2>2, <2>7, <2>12, <2>13, <2>14
<1>3. CASE \E l \in Loops : Begin(l) \/ HandlerReturns(l)
  <2>1. PICK l \in Loops : Begin(l) \/ HandlerReturns(l)
    BY <1>3
  <2>2. SUFFICES ASSUME NEW e \in Events, NEW h \in Handlers,
                        called'[<<e, h>>] # called[<<e, h>>]
                 PROVE  /\ 1 \in 1..Len(loops[l].batch) /\ loops[l].batch[1] = e
                        /\ Loops' = Loops /\ loops'[l].batch = loops[l].batch
                        /\ stream' = stream
                        /\ e \in churned \/ (called[<<e, h>>] = 0 /\ called'[<<e, h>>] = 1)
    OBVIOUS
  <2> QED BY <1>2, <2>1, <2>2
<1>4. CASE ~(called' = called) => \E l \in Loops : Begin(l) \/ HandlerReturns(l)
  BY <1>1, <1>3, <1>4
<1>5. ~(called' = called) => \E l \in Loops : Begin(l) \/ HandlerReturns(l)
  BY DEF Next, LoopStep, Start, Stop, Crash, Boot, Interrupt, Subscribe, Unsubscribe, Publish, Read,
         ReadFails, Wake, HandlerRaises, Ack, AckFails, Bury, BuryFails, vars, redisVars, history
<1> QED BY <1>4, <1>5

LEMMA NextCalledOnce ==
  ASSUME TypeOK, BatchesExact, WaitUntouched, ProgressExact, CalledAtMostOnce, [Next]_vars
  PROVE  CalledAtMostOnce'
<1>1. churned \subseteq churned'
  BY SeenGrows
<1> SUFFICES ASSUME NEW e \in Events, e \notin churned', NEW h \in Handlers
             PROVE  called'[<<e, h>>] <= 1
  BY DEF CalledAtMostOnce
<1>2. called[<<e, h>>] <= 1
  BY <1>1 DEF CalledAtMostOnce
<1>3. called'[<<e, h>>] = called[<<e, h>>] \/ called'[<<e, h>>] = 1
  BY <1>1, CalledFrom
<1> QED BY <1>2, <1>3

\* What is in the hands of the loops.
LEMMA InHandsExact ==
  ASSUME TypeOK
  PROVE  \A e : e \in InHands <=> \E l \in Loops : \E i \in 1..Len(loops[l].batch) : loops[l].batch[i] = e
<1>1. ASSUME NEW l \in Loops
      PROVE  \A e : e \in ToSet(loops[l].batch) <=>
                     \E i \in 1..Len(loops[l].batch) : loops[l].batch[i] = e
  BY LoopsTyped DEF ToSet
<1>2. \A e : e \in InHands <=> \E l \in Loops : e \in ToSet(loops[l].batch)
  BY DEF InHands
<1> QED BY <1>1, <1>2

LEMMA NextInHandsExact ==
  ASSUME TypeOK'
  PROVE  \A e : e \in InHands' <=>
           \E l \in Loops' : \E i \in 1..Len(loops'[l].batch) : loops'[l].batch[i] = e
<1>1. ASSUME NEW l \in Loops'
      PROVE  \A e : e \in ToSet(loops'[l].batch) <=>
                     \E i \in 1..Len(loops'[l].batch) : loops'[l].batch[i] = e
  BY NextLoopsTyped DEF ToSet
<1>2. \A e : e \in InHands' <=> \E l \in Loops' : e \in ToSet(loops'[l].batch)
  BY DEF InHands
<1> QED BY <1>1, <1>2

\* A loop holds an entry after a step because it held it before, or it just read it.
LEMMA HandsFrom ==
  ASSUME TypeOK, TypeOK', BatchesExact, Next, NEW e \in InHands'
  PROVE  \/ e \in InHands
         \/ \E l \in Loops : Read(l) /\ e \in ToSet(NextEntries)
<1>1. PICK k \in Loops' : \E i \in 1..Len(loops'[k].batch) : loops'[k].batch[i] = e
  BY NextInHandsExact
<1>2. PICK i \in 1..Len(loops'[k].batch) : loops'[k].batch[i] = e
  BY <1>1
<1>3. ASSUME NEW T, \A m \in Loops' : Handed(m, T) PROVE e \in InHands
  <2>1. loops'[k].batch \in Seq(Events)
    BY NextLoopsTyped
  <2>2. k \in Loops /\ \E d \in {0, 1} : i + d \in 1..Len(loops[k].batch)
                                          /\ loops'[k].batch[i] = loops[k].batch[i + d]
    BY <1>3, <2>1, PlacesKept
  <2>3. PICK d \in {0, 1} : i + d \in 1..Len(loops[k].batch) /\ loops'[k].batch[i] = loops[k].batch[i + d]
    BY <2>2
  <2> QED BY <1>2, <2>2, <2>3, InHandsExact
<1>4. CASE Outside
  BY <1>3, <1>4, OutsideHands
<1>5. ASSUME NEW l \in Loops, Read(l), Moves(l, "between", NextEntries, loops[l].next, loops[l].handler)
      PROVE  e \in InHands \/ e \in ToSet(NextEntries)
  <2>1. CASE k = l
    <3>1. loops'[k].batch = NextEntries
      BY <1>5, <2>1 DEF Moves
    <3>2. NextEntries \in Seq(Events)
      BY NextEntriesExact
    <3> QED BY <1>2, <3>1, <3>2 DEF ToSet
  <2>2. CASE k # l
    <3>1. k \in Loops /\ loops'[k] = loops[k]
      BY <1>5, <2>2 DEF Moves
    <3> QED BY <1>2, <3>1, InHandsExact
  <2> QED BY <2>1, <2>2
<1>6. ASSUME NEW l \in Loops, LoopStep(l)
      PROVE  e \in InHands \/ (Read(l) /\ e \in ToSet(NextEntries))
  BY <1>3, <1>5, <1>6, LoopHands
<1> QED BY <1>4, <1>6 DEF Next, Outside

\* While something is in the hands of the loops, there are no fewer of them.
LEMMA LoopsStay ==
  ASSUME TypeOK, TypeOK', Next, NEW e \in InHands'
  PROVE  Len(loops) <= Len(loops')
<1>0. Len(loops) \in Nat /\ loops \in Seq(LoopRecords)
  BY LoopsTyped
<1>1. CASE loops' = loops \/ loops' = Append(loops, NewLoop)
  <2>1. Len(Append(loops, NewLoop)) = Len(loops) + 1
    BY <1>0
  <2> QED BY <1>0, <1>1, <2>1
<1>2. CASE loops' = <<>>
  <2>1. Loops' = {}
    BY <1>2 DEF Loops
  <2> QED BY <2>1, NextInHandsExact
<1>3. CASE loops' = [l \in Loops |-> [NewLoop EXCEPT !.pc = "ended"]]
  <2>1. \A l \in Loops : loops'[l].batch = <<>>
    BY <1>3 DEF NewLoop
  <2>2. Loops' = Loops
    <3>1. DOMAIN loops' = 1..Len(loops)
      BY <1>3 DEF Loops
    <3>2. Len(loops') \in Nat /\ DOMAIN loops' = 1..Len(loops')
      BY NextLoopsTyped
    <3> QED BY <1>0, <3>1, <3>2 DEF Loops
  <2>3. \A l \in Loops' : 1..Len(loops'[l].batch) = {}
    BY <2>1, <2>2
  <2> QED BY <2>3, NextInHandsExact
<1>4. ASSUME NEW l \in Loops, NEW r, SetLoop(l, r) PROVE Len(loops') = Len(loops)
  <2>1. loops' = [loops EXCEPT ![l] = r]
    BY <1>4 DEF SetLoop
  <2>2. DOMAIN loops' = 1..Len(loops)
    BY <1>0, <2>1
  <2>3. Len(loops') \in Nat /\ DOMAIN loops' = 1..Len(loops')
    BY NextLoopsTyped
  <2> QED BY <1>0, <2>2, <2>3
<1>5. ASSUME NEW l \in Loops, LoopStep(l) PROVE Len(loops') = Len(loops)
  BY <1>4, <1>5 DEF LoopStep, Read, ReadFails, Wake, Begin, HandlerReturns, HandlerRaises, Ack, AckFails,
                    Bury, BuryFails, CallOrAck, Done
<1>6. CASE Outside
  BY <1>1, <1>2, <1>3, <1>6 DEF Outside, Start, Stop, Crash, Boot, Subscribe, Unsubscribe, Publish, processVars
<1> QED BY <1>0, <1>5, <1>6 DEF Next, Outside

LEMMA NextInOrder ==
  ASSUME TypeOK, BatchesExact, WaitUntouched, ProgressExact, CallsInOrder, [Next]_vars
  PROVE  CallsInOrder'
<1>0. TypeOK' /\ BatchesExact' /\ Grows
  BY NextType, NextHands, NextGrows
<1>1. CASE UNCHANGED vars
  BY <1>1 DEF CallsInOrder, InHands, Loops, vars, redisVars, processVars, history
<1>2. CASE Next
  <2> SUFFICES ASSUME Len(loops') <= 1, NEW i \in 1..Len(stream'), NEW j \in 1..Len(stream'), i < j,
                      NEW h \in Handlers, called'[<<stream'[j], h>>] > 0, stream'[i] \in InHands'
               PROVE  FALSE
    BY DEF CallsInOrder
  <2> DEFINE e == stream'[i]
             f == stream'[j]
  <2>1. Len(loops) <= 1
    <3>1. Len(loops) <= Len(loops') /\ Len(loops) \in Nat /\ Len(loops') \in Nat
      BY <1>0, <1>2, LoopsStay, LoopsTyped, NextLoopsTyped
    <3> QED BY <3>1
  <2>2. e \in Events /\ f \in Events /\ Once(stream)'
    BY <1>0 DEF TypeOK
  <2>3. \A x \in Events, g \in Handlers : called[<<x, g>>] > 0 => x \in GivenOut
    BY DEF WaitUntouched, Untouched
  <2>4. position \in 0..Len(stream) /\ Len(stream) \in Nat
    BY DEF TypeOK
  <2>5. i \in Nat /\ j \in Nat
    BY <1>0 DEF TypeOK
  <2>6. CASE called'[<<f, h>>] = called[<<f, h>>] /\ e \in InHands
    <3>1. e \in GivenOut /\ f \in GivenOut
      BY <2>2, <2>3, <2>6, InHandsExact DEF BatchesExact
    <3>2. i \in 1..Len(stream) /\ stream[i] = e
      BY <1>0, <2>2, <3>1, SamePlace
    <3>3. j \in 1..Len(stream) /\ stream[j] = f
      BY <1>0, <2>2, <3>1, SamePlace
    <3> QED BY <2>1, <2>6, <3>2, <3>3 DEF CallsInOrder
  <2>7. ASSUME called'[<<f, h>>] = called[<<f, h>>], NEW l \in Loops, Read(l), e \in ToSet(NextEntries)
        PROVE  FALSE
    <3>1. stream' = stream /\ position' = position + Len(NextEntries)
      BY <2>7 DEF Read
    <3>2. e \notin GivenOut
      BY <2>7, <3>1, ReadGives
    <3>3. PICK q \in 1..position : stream[q] = f
      BY <2>2, <2>3, <2>7 DEF GivenOut
    <3>4. q = j
      BY <2>2, <2>4, <3>1, <3>3 DEF Once
    <3>5. i \in 1..position /\ stream[i] = e
      BY <2>4, <2>5, <3>1, <3>3, <3>4
    <3> QED BY <3>2, <3>5 DEF GivenOut
  <2>8. ASSUME NEW l \in Loops, 1 \in 1..Len(loops[l].batch), loops[l].batch[1] = f,
               Loops' = Loops, loops'[l].batch = loops[l].batch, stream' = stream
        PROVE  FALSE
    <3>1. PICK k \in Loops' : \E m \in 1..Len(loops'[k].batch) : loops'[k].batch[m] = e
      BY <1>0, NextInHandsExact
    <3>2. k = l
      <4>1. \A n \in Loops : n = 1
        BY <2>1, LoopsTyped DEF Loops
      <4> QED BY <2>8, <3>1, <4>1
    <3>3. PICK m \in 1..Len(loops[l].batch) : loops[l].batch[m] = e
      BY <2>8, <3>1, <3>2
    <3>4. m # 1
      BY <2>2, <2>5, <2>8, <3>3 DEF Once
    <3>5. m > 1
      BY <3>4, LoopsTyped
    <3>6. j < i
      BY <2>8, <3>3, <3>5 DEF BatchesExact
    <3> QED BY <2>5, <3>6
  <2> QED BY <1>0, <1>2, <2>2, <2>6, <2>7, <2>8, CalledFrom, HandsFrom
<1> QED BY <1>1, <1>2

\* A loop lets go of an entry only when it leaves it behind.
LEMMA HandsKept ==
  ASSUME TypeOK, TypeOK', NEW l \in Loops, NEW X, NEW pc, NEW batch, NEW next, NEW handler,
         Moves(l, pc, batch, next, handler),
         \A i \in 1..Len(loops[l].batch) :
           loops[l].batch[i] \in X \/ \E j \in 1..Len(batch) : batch[j] = loops[l].batch[i]
  PROVE  InHands \subseteq InHands' \cup X
<1> SUFFICES ASSUME NEW e \in InHands, e \notin X PROVE e \in InHands'
  OBVIOUS
<1>1. PICK k \in Loops : \E i \in 1..Len(loops[k].batch) : loops[k].batch[i] = e
  BY InHandsExact
<1>2. Loops' = Loops /\ loops'[l].batch = batch /\ \A m \in Loops : m # l => loops'[m] = loops[m]
  BY DEF Moves
<1>3. CASE k = l
  <2>1. \E j \in 1..Len(batch) : batch[j] = e
    BY <1>1, <1>3
  <2> QED BY <1>2, <2>1, NextInHandsExact
<1>4. CASE k # l
  BY <1>1, <1>2, <1>4, NextInHandsExact
<1> QED BY <1>3, <1>4

LEMMA LoopStrays ==
  ASSUME TypeOK, TypeOK', BatchesExact, NEW l \in Loops, LoopStep(l),
         pending \subseteq InHands \cup dlq, faults' = faults
  PROVE  pending' \subseteq InHands' \cup dlq'
<1>1. ~Fault
  BY DEF Fault, TypeOK
<1>2. ASSUME NEW pc, NEW next, NEW handler, Moves(l, pc, loops[l].batch, next, handler)
      PROVE  InHands \subseteq InHands'
  <2>1. InHands \subseteq InHands' \cup {}
    BY <1>2, HandsKept
  <2> QED BY <2>1
<1>3. CASE Read(l)
  <2>1. Moves(l, "between", NextEntries, loops[l].next, loops[l].handler)
    BY <1>3, BatchMoves DEF Read
  <2>2. loops[l].batch = <<>>
    BY <1>3 DEF Read, TypeOK, Holding
  <2>3. 1..Len(loops[l].batch) = {}
    BY <2>2
  <2>4. InHands \subseteq InHands' \cup {}
    BY <2>1, <2>3, HandsKept
  <2>5. ToSet(NextEntries) \subseteq InHands'
    <3>1. NextEntries \in Seq(Events)
      BY NextEntriesExact
    <3>2. \A e \in ToSet(NextEntries) : \E i \in 1..Len(NextEntries) : NextEntries[i] = e
      BY <3>1 DEF ToSet
    <3>3. l \in Loops' /\ loops'[l].batch = NextEntries
      BY <2>1 DEF Moves
    <3> QED BY <3>2, <3>3, NextInHandsExact
  <2> QED BY <1>3, <2>4, <2>5 DEF Read
<1>4. CASE /\ ReadFails(l) \/ Wake(l)
           /\ \E pc \in {"reading", "sleeping"} :
                Moves(l, pc, loops[l].batch, loops[l].next, loops[l].handler)
  <2>1. UNCHANGED <<pending, dlq>>
    BY <1>1, <1>4 DEF ReadFails, Wake, redisVars
  <2> QED BY <1>2, <1>4, <2>1
<1>5. CASE Calls(l)
  <2>1. PICK i \in Nat \ {0} : CallOrAck(l, i) /\ (Begin(l) \/ HandlerReturns(l))
    BY <1>5 DEF Calls
  <2>2. UNCHANGED <<pending, dlq>>
    BY <2>1 DEF Begin, HandlerReturns, redisVars
  <2> QED BY <1>2, <2>1, <2>2, CallMoves
<1>6. CASE /\ HandlerRaises(l) \/ AckFails(l)
           /\ Moves(l, "burying", loops[l].batch, loops[l].next, loops[l].handler)
  <2>1. UNCHANGED <<pending, dlq>>
    BY <1>1, <1>6 DEF HandlerRaises, AckFails, redisVars
  <2> QED BY <1>2, <1>6, <2>1
<1>7. CASE /\ Ack(l) \/ Bury(l) \/ BuryFails(l)
           /\ Moves(l, IF Tail(loops[l].batch) = <<>> THEN "reading" ELSE "between",
                    Tail(loops[l].batch), loops[l].next, loops[l].handler)
  <2> DEFINE s == loops[l].batch
             x == s[1]
  <2>1. loops[l].pc \in Holding
    BY <1>7 DEF Ack, Bury, BuryFails, Holding
  <2>2. /\ Head(s) = x /\ Len(s) \in Nat /\ Len(Tail(s)) = Len(s) - 1
        /\ \A i \in 1..Len(s) - 1 : Tail(s)[i] = s[i + 1]
    BY <2>1, Current
  <2>3. \A i \in 1..Len(s) : s[i] = x \/ \E j \in 1..Len(Tail(s)) : Tail(s)[j] = s[i]
    <3> SUFFICES ASSUME NEW i \in 1..Len(s), i # 1 PROVE \E j \in 1..Len(Tail(s)) : Tail(s)[j] = s[i]
      OBVIOUS
    <3> HIDE DEF s
    <3>1. i - 1 \in 1..Len(Tail(s)) /\ (i - 1) + 1 = i
      BY <2>2
    <3> QED BY <2>2, <3>1
  <2>4. InHands \subseteq InHands' \cup {x}
    <3> HIDE DEF x
    <3>1. \A i \in 1..Len(loops[l].batch) :
            loops[l].batch[i] \in {x} \/ \E j \in 1..Len(Tail(loops[l].batch)) : Tail(loops[l].batch)[j] = loops[l].batch[i]
      BY <2>3 DEF x
    <3> QED BY <1>7, <3>1, HandsKept
  <2>5. \/ pending' = pending \ {x} /\ dlq' = dlq
        \/ pending' = pending /\ dlq' = dlq \cup {x}
    BY <1>1, <1>7, <2>2 DEF Ack, Bury, BuryFails
  <2> HIDE DEF x
  <2> QED BY <2>4, <2>5
<1> QED BY <1>3, <1>4, <1>5, <1>6, <1>7, LoopMoves

LEMMA NextStrays ==
  ASSUME TypeOK, BatchesExact, WaitUntouched, ProgressExact, NothingStrays, [Next]_vars
  PROVE  NothingStrays'
<1>0. TypeOK'
  BY NextType
<1>1. faults \in Nat /\ lives \in Nat \ {0}
  BY DEF TypeOK
<1>2. CASE UNCHANGED vars
  BY <1>2 DEF NothingStrays, Disturbed, InHands, Loops, vars, redisVars, processVars
<1> SUFFICES ASSUME Next, ~Disturbed' PROVE pending' \subseteq InHands' \cup dlq'
  BY <1>2 DEF NothingStrays
<1>3. faults' \in Nat /\ faults' = 0 /\ lives' = 1
  BY <1>0 DEF Disturbed, TypeOK
<1>4. CASE Outside
  <2>1. ~Stop /\ ~Crash /\ ~Boot
    BY <1>1, <1>3 DEF Stop, Crash, Boot, Disturbed
  <2>2. ~Fault
    BY <1>1, <1>3 DEF Fault
  <2>3. UNCHANGED <<pending, dlq, faults, lives>>
    BY <1>4, <2>1, <2>2 DEF Outside, Start, Subscribe, Unsubscribe, Publish, CreateGroup, redisVars
  <2>4. ~Disturbed
    BY <1>4, <2>1, <2>3 DEF Disturbed, Outside, Start, Subscribe, Unsubscribe, Publish, processVars
  <2>5. InHands \subseteq InHands'
    <3>1. loops' = loops \/ loops' = Append(loops, NewLoop)
      BY <1>4, <2>1 DEF Outside, Start, Subscribe, Unsubscribe, Publish, processVars
    <3>2. \A l \in Loops : l \in Loops' /\ loops'[l] = loops[l]
      <4>1. loops \in Seq(LoopRecords) /\ Len(loops) \in Nat
        BY LoopsTyped
      <4>2. CASE loops' = loops
        BY <4>2 DEF Loops
      <4>3. CASE loops' = Append(loops, NewLoop)
        <5>1. Len(loops') = Len(loops) + 1 /\ \A l \in 1..Len(loops) : loops'[l] = loops[l]
          BY <4>1, <4>3
        <5> QED BY <4>1, <5>1 DEF Loops
      <4> QED BY <3>1, <4>2, <4>3
    <3> QED BY <1>0, <3>2, InHandsExact, NextInHandsExact
  <2> QED BY <2>3, <2>4, <2>5 DEF NothingStrays
<1>5. ASSUME NEW l \in Loops, LoopStep(l) PROVE pending' \subseteq InHands' \cup dlq'
  <2>1. UNCHANGED <<status, lives>> /\ (faults' = faults \/ faults' > 0)
    BY <1>5, LoopStepKeeps
  <2>2. faults' = faults /\ ~Disturbed
    BY <1>3, <2>1 DEF Disturbed
  <2> QED BY <1>0, <1>5, <2>2, LoopStrays DEF NothingStrays
<1> QED BY <1>4, <1>5 DEF Next, Outside

-----------------------------------------------------------------------------
(* The invariants.                                                         *)

\* What holds of the entries in every state, and what the loops have done
\* about them.
RedisInv ==
  /\ TypeOK /\ BatchesExact /\ WaitUntouched /\ ProgressExact
  /\ AckedMeansHandled /\ CalledAtMostOnce /\ CallsInOrder /\ NothingStrays

LEMMA InitRedis == Init => RedisInv
<1> SUFFICES ASSUME Init PROVE RedisInv
  OBVIOUS
<1>1. Loops = {} /\ GivenOut = {} /\ stream = <<>>
  BY DEF Init, Loops, GivenOut
<1>2. TypeOK
  <2>1. /\ stream = <<>> /\ handlers = <<>> /\ loops = <<>> /\ position = 0
        /\ stream \in Seq(Events) /\ handlers \in Seq(Handlers) /\ Once(stream) /\ Once(handlers)
    BY DEF Init, Once
  <2>2. loops \in Seq(LoopRecords)
    BY DEF Init
  <2>3. called \in [Deliveries -> Nat] /\ audience \in [Events -> SUBSET Handlers]
    BY DEF Init
  <2>4. position \in 0..Len(stream)
    BY <2>1
  <2>0. group \in BOOLEAN /\ known \in BOOLEAN
    BY Zenon DEF Init
  <2>5. /\ status \in {"new", "running", "stopped", "down"}
        /\ lives \in Nat \ {0} /\ faults \in Nat
        /\ pending \cup dlq \cup acked \subseteq GivenOut
        /\ seen \subseteq Deliveries /\ churned \subseteq Events
    BY DEF Init
  <2> QED BY <1>1, <2>1, <2>2, <2>3, <2>4, <2>5, <2>0 DEF TypeOK, LoopRecords
<1>3. \A e \in Events, h \in Handlers : called[<<e, h>>] = 0
  BY DEF Init, Deliveries
<1>4. BatchesExact /\ ProgressExact /\ AckedMeansHandled
  BY <1>1 DEF Init, BatchesExact, ProgressExact, AckedMeansHandled
<1>5. WaitUntouched
  BY <1>1, <1>3 DEF Init, WaitUntouched, Untouched
<1>6. CalledAtMostOnce
  <2> SUFFICES ASSUME NEW e \in Events, NEW h \in Handlers PROVE called[<<e, h>>] <= 1
    BY DEF CalledAtMostOnce
  <2>1. called[<<e, h>>] = 0
    BY <1>3
  <2> QED BY <2>1
<1>7. CallsInOrder /\ NothingStrays
  BY <1>1 DEF Init, CallsInOrder, NothingStrays
<1> QED BY <1>2, <1>4, <1>5, <1>6, <1>7 DEF RedisInv

\* The invariant of the bus on Redis streams: what a loop holds was given to it
\* alone and in order, what waits is untouched, and a loop has called exactly
\* the handlers before the one it will call next.
THEOREM RedisInvariant == Spec => []RedisInv
<1>1. ASSUME RedisInv, [Next]_vars PROVE RedisInv'
  BY <1>1, NextType, NextHands, NextProgress, NextAcked, NextCalledOnce, NextInOrder, NextStrays
     DEF RedisInv
<1> QED BY <1>1, InitRedis, PTL DEF Spec

\* redis_streams.py, _consume_loop and _process_message: no entry is acknowledged
\* before every handler of its audience has handled it.
THEOREM AckedIsHandled == Spec => []AckedMeansHandled
BY RedisInvariant, PTL DEF RedisInv

\* redis_streams.py, the consumer group of _consume_loop: at most one call per
\* entry and handler, and in the order of the stream when there is one loop.
THEOREM CallsCorrect == Spec => []CallsInv
BY RedisInvariant, PTL DEF RedisInv, CallsInv

\* redis_streams.py, the except branches of _consume_loop and _process_message:
\* a raising handler costs no other entry of the batch its processing.
THEOREM LoopsCorrect == Spec => []LoopsInv
BY RedisInvariant, PTL DEF RedisInv, LoopsInv

-----------------------------------------------------------------------------
(* The bus on Redis streams implements the contract of module EventBus.    *)

Owed == {d \in Deliveries : d[2] \in audience[d[1]] /\ d \notin seen /\ d[1] \notin dlq}
Handled == {d \in seen : d[2] \in audience[d[1]]}
Dead == {d \in Deliveries : d[2] \in audience[d[1]] /\ d \notin seen /\ d[1] \in dlq}

LEMMA BusVars ==
  ASSUME Owed' = Owed, Handled' = Handled, Dead' = Dead
  PROVE  UNCHANGED Bus!vars
BY DEF Bus!vars, Owed, Handled, Dead

\* Entries that are buried leave what is owed, whichever handlers saw them.
LEMMA BuryImplements ==
  ASSUME dlq \subseteq dlq', UNCHANGED <<seen, audience>>
  PROVE  Bus!Next
<1> DEFINE ds == {d \in Owed : d[1] \in dlq'}
<1>1. Owed' = Owed \ ds
  BY DEF Owed
<1>2. Dead' = Dead \cup ds
  BY DEF Owed, Dead
<1>3. Handled' = Handled
  BY DEF Handled
<1>4. ds \in SUBSET Owed
  OBVIOUS
<1>5. Bus!Bury
  <2> HIDE DEF ds
  <2> QED BY <1>1, <1>2, <1>3, <1>4 DEF Bus!Bury, Owed, Handled, Dead
<1> QED BY <1>5 DEF Bus!Next

\* A loop that begins with an entry takes it up for the handlers of its audience.
LEMMA BeginImplements ==
  ASSUME TypeOK, BatchesExact, WaitUntouched, NEW l \in Loops, Begin(l)
  PROVE  Bus!Next \/ UNCHANGED Bus!vars
<1> DEFINE x == loops[l].batch[1]
           hs == ToSet(handlers)
           new == {x} \X hs
<1>1. loops[l].pc = "between"
  BY DEF Begin
<1>2. x \in Events /\ 1 \in 1..Len(loops[l].batch) /\ Head(loops[l].batch) = x
  BY <1>1, Current DEF Holding
<1>3. Untouched(x)
  BY <1>1, <1>2 DEF WaitUntouched
<1>4. audience \in [Events -> SUBSET Handlers] /\ seen \subseteq Deliveries
  BY DEF TypeOK
<1>5. audience' = [audience EXCEPT ![x] = hs] /\ seen' = seen /\ dlq' = dlq
  BY <1>2 DEF Begin, redisVars
<1>6. hs \subseteq Handlers
  BY DEF ToSet, TypeOK
<1>7. \A d \in Deliveries : d[1] \in Events /\ d[2] \in Handlers /\ d = <<d[1], d[2]>>
  BY DEF Deliveries
<1> HIDE DEF x, hs
<1>8. \A d \in Deliveries : audience'[d[1]] = IF d[1] = x THEN hs ELSE audience[d[1]]
  BY <1>4, <1>5, <1>7
<1>9. \A d \in Deliveries : d[1] = x => d \notin seen /\ d[1] \notin dlq /\ audience[d[1]] = {}
  <2> SUFFICES ASSUME NEW d \in Deliveries, d[1] = x PROVE d \notin seen /\ d[1] \notin dlq /\ audience[d[1]] = {}
    OBVIOUS
  <2>1. d = <<x, d[2]>> /\ d[2] \in Handlers
    BY <1>7
  <2> QED BY <1>3, <2>1 DEF Untouched
<1>10. \A d : d \in new <=> d \in Deliveries /\ d[1] = x /\ d[2] \in hs
  BY <1>2, <1>6 DEF Deliveries
<1> HIDE DEF new
<1>11. Owed' = Owed \cup new
  <2>1. \A d \in Deliveries : d \in Owed' <=> d \in Owed \/ d \in new
    BY <1>5, <1>8, <1>9, <1>10 DEF Owed
  <2>2. Owed' \subseteq Deliveries /\ Owed \subseteq Deliveries /\ new \subseteq Deliveries
    BY <1>10 DEF Owed
  <2> QED BY <2>1, <2>2
<1>12. Handled' = Handled
  BY <1>4, <1>5, <1>8, <1>9 DEF Handled
<1>13. Dead' = Dead
  BY <1>5, <1>8, <1>9 DEF Dead
<1>14. CASE hs = {}
  <2>1. new = {}
    BY <1>10, <1>14
  <2> QED BY <1>11, <1>12, <1>13, <2>1, BusVars
<1>15. CASE hs # {}
  <2>1. new \cap (Owed \cup Handled \cup Dead) = {}
    BY <1>9, <1>10 DEF Owed, Handled, Dead
  <2>2. hs \in SUBSET Handlers
    BY <1>6
  <2>3. ASSUME NEW e \in Events, e = x PROVE Bus!Accept(e)
    BY <1>11, <1>12, <1>13, <1>15, <2>1, <2>2, <2>3 DEF Bus!Accept, Owed, Handled, Dead, new
  <2> QED BY <1>2, <2>3 DEF Bus!Next
<1> QED BY <1>14, <1>15

\* A handler that returns settles what it was owed, if it was of the audience.
LEMMA ReturnImplements ==
  ASSUME TypeOK, BatchesExact, WaitUntouched, ProgressExact, NEW l \in Loops, HandlerReturns(l)
  PROVE  Bus!Next \/ UNCHANGED Bus!vars
<1> DEFINE x == loops[l].batch[1]
           h == loops[l].handler
           d == <<x, h>>
<1>1. loops[l].pc = "handling"
  BY DEF HandlerReturns
<1>2. x \in Events /\ 1 \in 1..Len(loops[l].batch) /\ Head(loops[l].batch) = x
  BY <1>1, Current DEF Holding
<1>3. x \notin dlq /\ h \in Handlers
  BY <1>1, <1>2 DEF WaitUntouched, ProgressExact
<1>4. seen' = seen \cup {d} /\ audience' = audience /\ dlq' = dlq
  BY <1>2 DEF HandlerReturns, redisVars
<1> HIDE DEF x, h
<1>5. d \in Deliveries /\ d[1] = x /\ d[2] = h
  BY <1>2, <1>3 DEF Deliveries
<1> HIDE DEF d
<1>6. Dead' = Dead
  BY <1>3, <1>4, <1>5 DEF Dead
<1>7. Owed' = Owed \ {d}
  BY <1>4 DEF Owed
<1>8. CASE d \in Owed
  <2>1. Handled' = Handled \cup {d}
    BY <1>4, <1>8 DEF Handled, Owed
  <2>2. ASSUME NEW c \in Owed, c = d PROVE Bus!Handle(c)
    BY <1>6, <1>7, <1>8, <2>1, <2>2 DEF Bus!Handle, Owed, Handled, Dead
  <2> QED BY <1>8, <2>2 DEF Bus!Next, Owed
<1>9. CASE d \notin Owed
  <2>1. d \in seen \/ d[2] \notin audience[d[1]]
    BY <1>3, <1>5, <1>9 DEF Owed
  <2>2. Handled' = Handled
    BY <1>4, <2>1 DEF Handled
  <2>3. Owed' = Owed
    BY <1>7, <1>9
  <2> QED BY <1>6, <2>2, <2>3, BusVars
<1> QED BY <1>8, <1>9

\* What a loop took up for its handlers is handled once or buried once: each
\* step of RedisBus, a stop or a crash included, is a step of the contract or
\* leaves it alone.
THEOREM RedisBusImplementsBus == Spec => ImplementsBus
<1>1. Init => Bus!Init
  <2> SUFFICES ASSUME Init PROVE Bus!Init
    OBVIOUS
  <2>1. \A d \in Deliveries : audience[d[1]] = {}
    BY DEF Init, Deliveries
  <2>2. Owed = {} /\ Dead = {}
    BY <2>1 DEF Owed, Dead
  <2>3. Handled = {}
    BY DEF Init, Handled
  <2> QED BY <2>2, <2>3 DEF Bus!Init, Owed, Handled, Dead
<1>2. ASSUME RedisInv, [Next]_vars PROVE [Bus!Next]_(Bus!vars)
  <2>1. CASE UNCHANGED <<seen, audience, dlq>>
    BY <2>1, BusVars DEF Owed, Handled, Dead
  <2>2. CASE Interrupt
    <3>1. dlq \subseteq dlq' /\ UNCHANGED <<seen, audience>>
      BY <2>2 DEF Interrupt
    <3> QED BY <3>1, BuryImplements
  <2>3. CASE Outside
    BY <2>1, <2>2, <2>3 DEF Outside, Start, Stop, Crash, Boot, Subscribe, Unsubscribe, Publish,
                            redisVars, history
  <2>4. ASSUME NEW l \in Loops, LoopStep(l) PROVE Bus!Next \/ UNCHANGED Bus!vars
    <3>1. CASE Begin(l)
      BY <1>2, <3>1, BeginImplements DEF RedisInv
    <3>2. CASE HandlerReturns(l)
      BY <1>2, <3>2, ReturnImplements DEF RedisInv
    <3>3. CASE Bury(l) \/ BuryFails(l)
      <4>1. dlq \subseteq dlq' /\ UNCHANGED <<seen, audience>>
        BY <3>3 DEF Bury, BuryFails, history
      <4> QED BY <4>1, BuryImplements
    <3>4. CASE ~(Begin(l) \/ HandlerReturns(l) \/ Bury(l) \/ BuryFails(l))
      BY <2>1, <2>4, <3>4 DEF LoopStep, Read, ReadFails, Wake, HandlerRaises, Ack, AckFails, redisVars, history
    <3> QED BY <3>1, <3>2, <3>3, <3>4
  <2>5. CASE UNCHANGED vars
    BY <2>1, <2>5 DEF vars, redisVars, history
  <2> QED BY <1>2, <2>3, <2>4, <2>5 DEF Next, Outside
<1> QED BY <1>1, <1>2, RedisInvariant, PTL DEF Spec, ImplementsBus, Bus!Spec
=============================================================================
