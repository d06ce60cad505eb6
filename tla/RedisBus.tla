------------------------------ MODULE RedisBus ------------------------------
(***************************************************************************)
(* src/vclaw/infrastructure/event_bus/redis_streams.py, for one event      *)
(* type: the stream and its consumer group live in Redis and survive the   *)
(* process; the handlers and the consume loops live in the process.  Each  *)
(* loop reads a batch of new entries (">") and handles them one by one,    *)
(* handler after handler, then acknowledges the entry or, if anything      *)
(* raised, copies it to the dead-letter stream.                            *)
(*                                                                         *)
(* An entry is named by its event.  Steps are split at every await.        *)
(***************************************************************************)
EXTENDS Integers, Sequences, FiniteSets, SequencesExt

CONSTANTS Events,
          Handlers,
          MaxConcurrent,  \* permits of the semaphore
          BatchSize,
          MaxLives,       \* bound: processes, one after the other; the last does not crash
          MaxLoops,       \* bound: consume loops of one process
          MaxFaults,      \* bound: Redis calls that fail or lose their answer
          CanCrash,       \* may the process die?
          CanStop,        \* may stop be called?
          CanUnsubscribe

ASSUME ConstantsAssumption ==
  /\ MaxConcurrent \in Nat \ {0}
  /\ BatchSize \in Nat \ {0}
  /\ MaxLives \in Nat
  /\ MaxLoops \in Nat
  /\ MaxFaults \in Nat
  /\ {CanCrash, CanStop, CanUnsubscribe} \subseteq BOOLEAN

VARIABLES
  stream, group, position, pending, dlq,  \* in Redis
  status, handlers, known, loops,         \* in the process; known: type in _handlers
  lives, faults,
  called, seen, audience, acked, churned  \* history

redisVars == <<stream, group, position, pending, dlq>>
processVars == <<status, handlers, known, loops>>
history == <<called, seen, audience, acked, churned>>
vars == <<redisVars, processVars, lives, faults, history>>

Deliveries == Events \X Handlers

Holding == {"handling", "acking", "burying"}  \* inside the semaphore

Loops == 1..Len(loops)

InHands == UNION {ToSet(loops[l].batch) : l \in Loops}

\* The entries that the group has given to a consumer.
GivenOut == {stream[i] : i \in 1..position}

Once(s) == \A i, j \in 1..Len(s) : s[i] = s[j] => i = j

TypeOK ==
  /\ stream \in Seq(Events) /\ Once(stream)
  /\ group \in BOOLEAN
  /\ position \in 0..Len(stream)
  /\ pending \cup dlq \cup acked \subseteq GivenOut
  /\ status \in {"new", "running", "stopped", "down"}
  /\ handlers \in Seq(Handlers) /\ Once(handlers)
  /\ known \in BOOLEAN
  /\ loops \in Seq([pc : Holding \cup {"reading", "between", "sleeping", "ended"},
                    batch : Seq(Events), next : Nat \ {0}, handler : Handlers \cup {"none"}])
  /\ \A l \in Loops : loops[l].pc \in Holding \cup {"between"} <=> loops[l].batch # <<>>
  /\ lives \in Nat \ {0} /\ faults \in Nat
  /\ called \in [Deliveries -> Nat]
  /\ seen \subseteq Deliveries /\ audience \in [Events -> SUBSET Handlers]
  /\ churned \subseteq Events

Init ==
  /\ stream = <<>> /\ group = FALSE /\ position = 0 /\ pending = {} /\ dlq = {}
  /\ status = "new" /\ handlers = <<>> /\ known = FALSE /\ loops = <<>>
  /\ lives = 1 /\ faults = 0
  /\ called = [d \in Deliveries |-> 0]
  /\ seen = {} /\ audience = [e \in Events |-> {}] /\ acked = {} /\ churned = {}

NewLoop == [pc |-> "reading", batch |-> <<>>, next |-> 1, handler |-> "none"]

Fault == faults < MaxFaults /\ faults' = faults + 1

\* xgroup_create from id "0", its errors suppressed: the group exists
\* afterwards unless it is new and the call failed.
CreateGroup == \/ group' = TRUE /\ UNCHANGED faults
               \/ group' = group /\ Fault

Start == /\ status = "new"
         /\ status' = "running"
         /\ IF known THEN CreateGroup /\ loops' = Append(loops, NewLoop)
                     ELSE UNCHANGED <<group, faults, loops>>
         /\ UNCHANGED <<stream, position, pending, dlq, handlers, known, lives, history>>

\* After start every subscription adds a consume loop of its own.
Subscribe(h) ==
  /\ status \in {"new", "running"}
  /\ ~Contains(handlers, h)
  /\ status = "running" => Len(loops) < MaxLoops
  /\ handlers' = Append(handlers, h)
  /\ known' = TRUE
  /\ IF status = "running" THEN CreateGroup /\ loops' = Append(loops, NewLoop)
                           ELSE UNCHANGED <<group, faults, loops>>
  /\ UNCHANGED <<stream, position, pending, dlq, status, lives, history>>

\* A loop that walks the list at that moment may skip a handler: its entry is
\* churned.
Unsubscribe(h) ==
  /\ CanUnsubscribe
  /\ \E i \in 1..Len(handlers) : handlers[i] = h /\ handlers' = RemoveAt(handlers, i)
  /\ churned' = churned \cup {Head(loops[l].batch) : l \in {k \in Loops : loops[k].pc = "handling"}}
  /\ UNCHANGED <<redisVars, status, known, loops, lives, faults, called, seen, audience, acked>>

\* xadd, once start has connected (stop closes the pool, the next command
\* opens it again).  A failing call may still have appended the entry.
Publish(e) ==
  /\ status # "new"
  /\ ~Contains(stream, e)
  /\ \/ stream' = Append(stream, e) /\ UNCHANGED faults
     \/ stream' = Append(stream, e) /\ Fault
     \/ UNCHANGED stream /\ Fault
  /\ UNCHANGED <<group, position, pending, dlq, processVars, lives, history>>

-----------------------------------------------------------------------------
\* The consume loop.

SetLoop(l, r) == loops' = [loops EXCEPT ![l] = r]

NextEntries ==
  LET n == Len(stream) - position
  IN SubSeq(stream, position + 1, position + IF n < BatchSize THEN n ELSE BatchSize)

\* Mutant of Read: the group's position stays, as when entries are read by id.
ReadFromStart(l) ==
  /\ loops[l].pc = "reading"
  /\ group
  /\ NextEntries # <<>>
  /\ position' \in {position, position + Len(NextEntries)}
  /\ pending' = pending \cup ToSet(NextEntries)
  /\ SetLoop(l, [loops[l] EXCEPT !.pc = "between", !.batch = NextEntries])
  /\ UNCHANGED <<stream, group, dlq, status, handlers, known, lives, faults, history>>

\* xreadgroup with ">": entries no consumer of the group was given before.
Read(l) ==
  /\ loops[l].pc = "reading"
  /\ group
  /\ NextEntries # <<>>
  /\ position' = position + Len(NextEntries)
  /\ pending' = pending \cup ToSet(NextEntries)
  /\ SetLoop(l, [loops[l] EXCEPT !.pc = "between", !.batch = NextEntries])
  /\ UNCHANGED <<stream, group, dlq, status, handlers, known, lives, faults, history>>

\* xreadgroup raises: no group, no connection, or an answer that is lost.
ReadFails(l) ==
  /\ loops[l].pc = "reading"
  /\ \/ ~group /\ UNCHANGED <<position, pending, faults>>
     \/ Fault /\ UNCHANGED <<position, pending>>
     \/ /\ group
        /\ Fault
        /\ position' = position + Len(NextEntries)
        /\ pending' = pending \cup ToSet(NextEntries)
  /\ SetLoop(l, [loops[l] EXCEPT !.pc = "sleeping"])
  /\ UNCHANGED <<stream, group, dlq, status, handlers, known, lives, history>>

Wake(l) ==
  /\ loops[l].pc = "sleeping"
  /\ SetLoop(l, [loops[l] EXCEPT !.pc = "reading"])
  /\ UNCHANGED <<redisVars, status, handlers, known, lives, faults, history>>

\* Call the i-th handler of the live list for the current entry, or go on to
\* the acknowledgement when the list has no i-th handler any more.
CallOrAck(l, i) ==
  IF i <= Len(handlers)
  THEN /\ SetLoop(l, [loops[l] EXCEPT !.pc = "handling", !.next = i + 1,
                                      !.handler = handlers[i]])
       /\ called' = [called EXCEPT ![<<Head(loops[l].batch), handlers[i]>>] = @ + 1]
  ELSE SetLoop(l, [loops[l] EXCEPT !.pc = "acking"]) /\ UNCHANGED called

Begin(l) ==
  /\ loops[l].pc = "between"
  /\ Cardinality({k \in Loops : loops[k].pc \in Holding}) < MaxConcurrent
  /\ CallOrAck(l, 1)
  /\ audience' = [audience EXCEPT ![Head(loops[l].batch)] = ToSet(handlers)]
  /\ UNCHANGED <<redisVars, status, handlers, known, lives, faults, seen, acked, churned>>

HandlerReturns(l) ==
  /\ loops[l].pc = "handling"
  /\ seen' = seen \cup {<<Head(loops[l].batch), loops[l].handler>>}
  /\ CallOrAck(l, loops[l].next)
  /\ UNCHANGED <<redisVars, status, handlers, known, lives, faults, audience, acked, churned>>

\* Mutant of HandlerRaises: the exception is logged and the entry acknowledged.
RaiseSwallowed(l) ==
  /\ loops[l].pc = "handling"
  /\ SetLoop(l, [loops[l] EXCEPT !.pc = "acking"])
  /\ UNCHANGED <<redisVars, status, handlers, known, lives, faults, history>>

\* Mutant of HandlerRaises: the exception reaches the consume loop.
RaiseEscapes(l) ==
  /\ loops[l].pc = "handling"
  /\ SetLoop(l, [loops[l] EXCEPT !.pc = "sleeping", !.batch = <<>>])
  /\ UNCHANGED <<redisVars, status, handlers, known, lives, faults, history>>

HandlerRaises(l) ==
  /\ loops[l].pc = "handling"
  /\ SetLoop(l, [loops[l] EXCEPT !.pc = "burying"])
  /\ UNCHANGED <<redisVars, status, handlers, known, lives, faults, history>>

\* The semaphore is released and the loop moves to the next entry of its batch.
Done(l) ==
  LET rest == Tail(loops[l].batch)
  IN SetLoop(l, [loops[l] EXCEPT !.batch = rest,
                                 !.pc = IF rest = <<>> THEN "reading" ELSE "between"])

Ack(l) ==
  /\ loops[l].pc = "acking"
  /\ pending' = pending \ {Head(loops[l].batch)}
  /\ acked' = acked \cup {Head(loops[l].batch)}
  /\ Done(l)
  /\ UNCHANGED <<stream, group, position, dlq, status, handlers, known, lives, faults,
                 called, seen, audience, churned>>

\* xack raises inside the same try block: the entry goes to the dead letters
\* although every handler has handled it.
AckFails(l) ==
  /\ loops[l].pc = "acking"
  /\ Fault
  /\ \/ /\ pending' = pending \ {Head(loops[l].batch)}
        /\ acked' = acked \cup {Head(loops[l].batch)}
     \/ UNCHANGED <<pending, acked>>
  /\ SetLoop(l, [loops[l] EXCEPT !.pc = "burying"])
  /\ UNCHANGED <<stream, group, position, dlq, status, handlers, known, lives,
                 called, seen, audience, churned>>

\* Mutant of Bury: the loop ends with the failed entry.
BuryAndEnd(l) ==
  /\ loops[l].pc = "burying"
  /\ dlq' = dlq \cup {Head(loops[l].batch)}
  /\ SetLoop(l, [loops[l] EXCEPT !.pc = "ended", !.batch = <<>>])
  /\ UNCHANGED <<stream, group, position, pending, status, handlers, known, lives,
                 faults, history>>

\* Mutant of Bury: the entry is buried and the remaining handlers still run.
BuryAndGoOn(l) ==
  /\ loops[l].pc = "burying"
  /\ dlq' = dlq \cup {Head(loops[l].batch)}
  /\ CallOrAck(l, loops[l].next)
  /\ UNCHANGED <<stream, group, position, pending, status, handlers, known, lives,
                 faults, seen, audience, acked, churned>>

\* publish_to_dlq.  The entry is not acknowledged and stays pending.
Bury(l) ==
  /\ loops[l].pc = "burying"
  /\ dlq' = dlq \cup {Head(loops[l].batch)}
  /\ Done(l)
  /\ UNCHANGED <<stream, group, position, pending, status, handlers, known, lives,
                 faults, history>>

BuryFails(l) ==
  /\ loops[l].pc = "burying"
  /\ Fault
  /\ dlq' \in {dlq, dlq \cup {Head(loops[l].batch)}}
  /\ Done(l)
  /\ UNCHANGED <<stream, group, position, pending, status, handlers, known, lives, history>>

-----------------------------------------------------------------------------
\* The loops end wherever they are.  Redis may or may not have executed the
\* command each of them was waiting for.
Interrupt ==
  LET at(pc) == {Head(loops[l].batch) : l \in {k \in Loops : loops[k].pc = pc}}
      readers == {l \in Loops : loops[l].pc = "reading"}
  IN \E read \in {<<>>} \cup (IF group /\ readers # {} THEN {NextEntries} ELSE {}),
        done \in SUBSET at("acking"), buried \in SUBSET at("burying") :
       /\ position' = position + Len(read)
       /\ pending' = (pending \ done) \cup ToSet(read)
       /\ acked' = acked \cup done
       /\ dlq' = dlq \cup buried
       /\ UNCHANGED <<stream, group, lives, faults, called, seen, audience, churned>>

\* stop cancels every consume task; CancelledError leaves the batch where it
\* is, and gather returns when the tasks have ended.
Stop == /\ CanStop
        /\ status = "running"
        /\ status' = "stopped"
        /\ loops' = [l \in Loops |-> [NewLoop EXCEPT !.pc = "ended"]]
        /\ Interrupt
        /\ UNCHANGED <<handlers, known>>

Crash == /\ CanCrash
         /\ lives < MaxLives
         /\ status = "running"
         /\ status' = "down"
         /\ loops' = <<>>
         /\ Interrupt
         /\ UNCHANGED <<handlers, known>>

\* A new process, with a bus as __init__ leaves it.
Boot == /\ status \in {"stopped", "down"}
        /\ lives < MaxLives
        /\ lives' = lives + 1
        /\ status' = "new"
        /\ handlers' = <<>> /\ known' = FALSE /\ loops' = <<>>
        /\ UNCHANGED <<redisVars, faults, history>>

LoopStep(l) == \/ Read(l) \/ ReadFails(l) \/ Wake(l) \/ Begin(l)
               \/ HandlerReturns(l) \/ HandlerRaises(l)
               \/ Ack(l) \/ AckFails(l) \/ Bury(l) \/ BuryFails(l)

Next == \/ Start \/ Stop \/ Crash \/ Boot
        \/ \E h \in Handlers : Subscribe(h) \/ Unsubscribe(h)
        \/ \E e \in Events : Publish(e)
        \/ \E l \in Loops : LoopStep(l)

Spec == Init /\ [][Next]_vars

\* The event loop runs every ready coroutine, Redis answers, handlers end, and
\* a process that went down is started again and wired as before.
FairSpec ==
  /\ Spec
  /\ WF_vars(Start) /\ WF_vars(Boot)
  /\ \A h \in Handlers : WF_vars(Subscribe(h))
  /\ \A l \in 1..MaxLoops : WF_vars(l \in Loops /\ LoopStep(l))

-----------------------------------------------------------------------------
\* Something happened that the bus does not recover from.
Disturbed == faults > 0 \/ lives > 1 \/ status \in {"stopped", "down"}

\* redis_streams.py "Automatic acknowledgement after successful processing":
\* an acknowledged entry was handled by every handler that was subscribed when
\* its processing began, unless the list changed under the loop (line 144).
AckedMeansHandled ==
  \A e \in acked \ churned : \A h \in audience[e] : <<e, h>> \in seen

\* Consumer groups: no handler is called twice with an entry that is not
\* churned, whatever the loops, stops, crashes and lost answers (lines 116-128).
CalledAtMostOnce ==
  \A e \in Events \ churned : \A h \in Handlers : called[<<e, h>>] <= 1

\* An entry that was read and not acknowledged is in the hands of a loop or in
\* the dead-letter stream, as long as Redis answers and nobody stops the bus:
\* a handler that raises takes no other entry of the batch with it.
NothingStrays == ~Disturbed => pending \subseteq InHands \cup dlq

\* The loops are well typed and hold what is not settled.
LoopsInv == TypeOK /\ NothingStrays

\* base.py "Message ordering within a single subject", for one consume loop: no
\* handler is called with an entry while an earlier one is still in its hands.
CallsInOrder ==
  Len(loops) <= 1 =>
    \A i, j \in 1..Len(stream) :
      i < j /\ (\E h \in Handlers : called[<<stream[j], h>>] > 0) => stream[i] \notin InHands

\* Handlers are called with an entry at most once, and one loop calls them in
\* the order of the stream.
CallsInv == CalledAtMostOnce /\ CallsInOrder

-----------------------------------------------------------------------------
\* Why they hold: the parts of the inductive invariant of the proofs.

\* A batch holds entries that were given out, in the order of the stream, and
\* no two loops hold the same entry.
BatchesExact ==
  \A l \in Loops :
    /\ \A i \in 1..Len(loops[l].batch) : loops[l].batch[i] \in GivenOut
    /\ \A i, j \in 1..Len(loops[l].batch), p, q \in 1..Len(stream) :
         i < j /\ stream[p] = loops[l].batch[i] /\ stream[q] = loops[l].batch[j] => p < q
    /\ \A k \in Loops : \A i \in 1..Len(loops[l].batch), j \in 1..Len(loops[k].batch) :
         loops[l].batch[i] = loops[k].batch[j] => k = l

\* Nothing has been done about an entry.
Untouched(e) ==
  /\ audience[e] = {}
  /\ e \notin acked \cup dlq
  /\ \A h \in Handlers : called[<<e, h>>] = 0 /\ <<e, h>> \notin seen

\* So it is until a loop begins with the entry, and no loop has buried what it holds.
WaitUntouched ==
  /\ \A e \in Events \ GivenOut : Untouched(e)
  /\ \A l \in Loops : \A i \in 1..Len(loops[l].batch) :
       /\ i > 1 \/ loops[l].pc = "between" => Untouched(loops[l].batch[i])
       /\ loops[l].batch[i] \notin dlq

\* How far a loop has come with its entry: it has called the handlers before
\* "next" and no other, and the last one has not returned.
ProgressExact ==
  \A l \in Loops :
    LET e == loops[l].batch[1]
        next == loops[l].next
    IN /\ loops[l].pc = "handling" => loops[l].handler \in Handlers
       /\ loops[l].pc = "handling" /\ e \notin churned =>
            /\ next - 1 \in 1..Len(handlers) /\ handlers[next - 1] = loops[l].handler
            /\ \A h \in audience[e] : \E j \in 1..Len(handlers) :
                 handlers[j] = h /\ (j < next - 1 => <<e, h>> \in seen)
            /\ \A h \in Handlers : called[<<e, h>>] > 0 =>
                 \E j \in 1..next - 1 : handlers[j] = h
       /\ loops[l].pc = "acking" /\ e \notin churned =>
            \A h \in audience[e] : <<e, h>> \in seen

-----------------------------------------------------------------------------
Bus ==
  INSTANCE EventBus
    WITH owed <- {d \in Deliveries : /\ d[2] \in audience[d[1]]
                                     /\ d \notin seen
                                     /\ d[1] \notin dlq},
         handled <- {d \in seen : d[2] \in audience[d[1]]},
         dead <- {d \in Deliveries : /\ d[2] \in audience[d[1]]
                                     /\ d \notin seen
                                     /\ d[1] \in dlq}

\* What a loop took up for its handlers it owes them until they handled it or
\* it is in the dead-letter stream, and it settles only once.
ImplementsBus == Bus!Spec

\* Under FairSpec every published entry is acknowledged or buried, whichever
\* handlers raise or leave, unless a fault, a stop or a crash comes between.
EntriesSettle ==
  \A e \in Events : Contains(stream, e) ~> e \in acked \cup dlq \/ Disturbed

\* base.py "At-least-once delivery semantics", infrastructure/README.md
\* "survives restarts": and whatever comes between.
AtLeastOnce ==
  \A e \in Events : Contains(stream, e) ~> e \in acked \cup dlq
=============================================================================
