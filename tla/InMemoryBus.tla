---------------------------- MODULE InMemoryBus -----------------------------
(***************************************************************************)
(* src/vclaw/infrastructure/event_bus/memory.py: publish creates one task  *)
(* per subscribed handler, the tasks pass a FIFO semaphore, a handler that *)
(* raises sends its event to the dead-letter list, and stop clears the     *)
(* running flag before it waits for the tasks it finds.                    *)
(*                                                                         *)
(* Steps are split where the code awaits: the semaphore, the handler, the  *)
(* dead-letter handlers and the gather of stop.  publish never suspends.   *)
(***************************************************************************)
EXTENDS Integers, Sequences, FiniteSets, SequencesExt

CONSTANTS Types,          \* event types
          Events,         \* published events, each with its own id
          TypeOf,         \* the type of each event
          FollowUp,       \* event published while an event is handled, or NoEvent
          NoEvent,
          Handlers,
          Interests,      \* the <<type, handler>> pairs that are ever subscribed
          MaxConcurrent   \* permits of the semaphore

ASSUME ConstantsAssumption ==
  /\ TypeOf \in [Events -> Types]
  /\ NoEvent \notin Events
  /\ Interests \subseteq Types \X Handlers
  /\ FollowUp \in [Events -> Events \cup {NoEvent}]
  /\ MaxConcurrent \in Nat \ {0}

VARIABLES running,    \* _running
          subs,       \* _handlers: per type, in order of subscription
          queue,      \* tasks waiting for the semaphore, in order of creation
          task,       \* the task of each <<event, handler>>
          published,  \* history: fate of each event at publish
          order,      \* history: accepted events, in order of publication
          stopping    \* where stop stands; awaited: the tasks it gathers

vars == <<running, subs, queue, task, published, order, stopping>>

Deliveries == Events \X Handlers

Holding == {"running", "emitted", "burying"}  \* tasks inside the semaphore

Alive == {"queued"} \cup Holding

TypeOK ==
  /\ running \in BOOLEAN
  /\ subs \in [Types -> Seq(Handlers)]
  /\ queue \in Seq(Deliveries)
  /\ task \in [Deliveries -> Alive \cup {"none", "handled", "dead"}]
  /\ published \in [Events -> {"no", "accepted", "dropped"}]
  /\ order \in Seq(Events)
  /\ stopping \in [phase : {"no", "draining", "stopped"}, awaited : SUBSET Deliveries]

Init ==
  /\ running = FALSE
  /\ subs = [t \in Types |-> <<>>]
  /\ queue = <<>>
  /\ task = [d \in Deliveries |-> "none"]
  /\ published = [e \in Events |-> "no"]
  /\ order = <<>>
  /\ stopping = [phase |-> "no", awaited |-> {}]

Start == /\ stopping.phase = "no"
         /\ ~running
         /\ running' = TRUE
         /\ UNCHANGED <<subs, queue, task, published, order, stopping>>

\* A handler is subscribed to a type once, as everywhere in the platform.
Subscribe(t, h) == /\ <<t, h>> \in Interests
                   /\ ~Contains(subs[t], h)
                   /\ subs' = [subs EXCEPT ![t] = Append(@, h)]
                   /\ UNCHANGED <<running, queue, task, published, order, stopping>>

\* Mutant of Unsubscribe: the tasks already created are forgotten.
UnsubscribeAndForget(t, h) ==
  /\ Contains(subs[t], h)
  /\ subs' = [subs EXCEPT ![t] = Remove(@, h)]
  /\ queue' = SelectSeq(queue, LAMBDA d : d[2] # h \/ TypeOf[d[1]] # t)
  /\ task' = [d \in Deliveries |-> IF task[d] = "queued" /\ d[2] = h /\ TypeOf[d[1]] = t
                                   THEN "none" ELSE task[d]]
  /\ UNCHANGED <<running, published, order, stopping>>

\* handlers.remove(handler)
Unsubscribe(t, h) == /\ \E i \in 1..Len(subs[t]) :
                          subs[t][i] = h /\ subs' = [subs EXCEPT ![t] = RemoveAt(@, i)]
                     /\ UNCHANGED <<running, queue, task, published, order, stopping>>

\* publish: dropped with a log line unless the bus runs and has handlers.
\* Given "base", the tasks as the step leaves them otherwise.
Deliver(e, base) ==
  LET hs == subs[TypeOf[e]]
  IN IF running /\ hs # <<>>
     THEN /\ queue' = queue \o [i \in 1..Len(hs) |-> <<e, hs[i]>>]
          /\ task' = [d \in Deliveries |->
                        IF d[1] = e /\ Contains(hs, d[2]) THEN "queued" ELSE base[d]]
          /\ published' = [published EXCEPT ![e] = "accepted"]
          /\ order' = Append(order, e)
     ELSE /\ task' = base
          /\ published' = [published EXCEPT ![e] = "dropped"]
          /\ UNCHANGED <<queue, order>>

Publish(e) == /\ published[e] = "no"
              /\ \A c \in Events : FollowUp[c] # e
              /\ Deliver(e, task)
              /\ UNCHANGED <<running, subs, stopping>>

Permits == MaxConcurrent - Cardinality({d \in Deliveries : task[d] \in Holding})

\* Mutant of Acquire: the newest waiter gets the permit.
AcquireLast ==
  /\ queue # <<>>
  /\ Permits > 0
  /\ task' = [task EXCEPT ![Last(queue)] = "running"]
  /\ queue' = Front(queue)
  /\ UNCHANGED <<running, subs, published, order, stopping>>

\* Mutant of Acquire: no semaphore.
AcquireUnbounded ==
  /\ queue # <<>>
  /\ task' = [task EXCEPT ![Head(queue)] = "running"]
  /\ queue' = Tail(queue)
  /\ UNCHANGED <<running, subs, published, order, stopping>>

Acquire ==
  /\ queue # <<>>
  /\ Permits > 0
  /\ task' = [task EXCEPT ![Head(queue)] = "running"]
  /\ queue' = Tail(queue)
  /\ UNCHANGED <<running, subs, published, order, stopping>>

\* The handler publishes an event of its own, as the orchestrator does.
Emit(d) == /\ task[d] = "running"
           /\ FollowUp[d[1]] # NoEvent
           /\ published[FollowUp[d[1]]] = "no"
           /\ Deliver(FollowUp[d[1]], [task EXCEPT ![d] = "emitted"])
           /\ UNCHANGED <<running, subs, stopping>>

Return(d) == /\ task[d] \in {"running", "emitted"}
             /\ task' = [task EXCEPT ![d] = "handled"]
             /\ UNCHANGED <<running, subs, queue, published, order, stopping>>

\* The handler raises: publish_to_dlq appends to the list and then awaits the
\* dead-letter handlers, all of it inside the semaphore.
Raise(d) == /\ task[d] \in {"running", "emitted"}
            /\ task' = [task EXCEPT ![d] = "burying"]
            /\ UNCHANGED <<running, subs, queue, published, order, stopping>>

\* Mutant of Buried: the dead-letter handlers need a permit of their own.
BuriedWithPermit(d) == /\ task[d] = "burying"
                       /\ Permits > 0
                       /\ task' = [task EXCEPT ![d] = "dead"]
                       /\ UNCHANGED <<running, subs, queue, published, order, stopping>>

Buried(d) == /\ task[d] = "burying"
             /\ task' = [task EXCEPT ![d] = "dead"]
             /\ UNCHANGED <<running, subs, queue, published, order, stopping>>

\* stop: the flag first, then gather over the tasks pending at that moment.
Stop == /\ running
        /\ running' = FALSE
        /\ stopping' = [phase |-> "draining",
                        awaited |-> {d \in Deliveries : task[d] \in Alive}]
        /\ UNCHANGED <<subs, queue, task, published, order>>

StopReturns == /\ stopping.phase = "draining"
               /\ \A d \in stopping.awaited : task[d] \notin Alive
               /\ stopping' = [stopping EXCEPT !.phase = "stopped"]
               /\ UNCHANGED <<running, subs, queue, task, published, order>>

Next == \/ Start \/ Stop \/ StopReturns \/ Acquire
        \/ \E t \in Types, h \in Handlers : Subscribe(t, h) \/ Unsubscribe(t, h)
        \/ \E e \in Events : Publish(e)
        \/ \E d \in Deliveries : Emit(d) \/ Return(d) \/ Raise(d) \/ Buried(d)

Spec == Init /\ [][Next]_vars

\* The event loop runs every ready task; handlers and dead-letter handlers end.
FairSpec == /\ Spec
            /\ WF_vars(Acquire)
            /\ WF_vars(StopReturns)
            /\ \A d \in Deliveries : WF_vars(Return(d) \/ Raise(d)) /\ WF_vars(Buried(d))

-----------------------------------------------------------------------------
\* tests/test_event_bus.py "max_active <= 2": never more handlers inside the
\* semaphore than permits, those awaiting dead-letter handlers included.
Backpressure ==
  Cardinality({d \in Deliveries : task[d] \in Holding}) <= MaxConcurrent

\* base.py "Message ordering within a single subject": a handler starts the
\* events of one type in the order they were published, whatever the number
\* of permits (the completions may still overtake one another).
StartsInOrder ==
  \A i, j \in 1..Len(order) : \A h \in Handlers :
    (/\ i < j
     /\ TypeOf[order[i]] = TypeOf[order[j]]
     /\ task[<<order[j], h>>] \notin {"none", "queued"})
    => task[<<order[i], h>>] # "queued"

\* base.py "Gracefully drain and close connections": when stop returns no
\* handler runs and none waits (lines 72-77).
DrainLeavesNothing ==
  stopping.phase = "stopped" => \A d \in Deliveries : task[d] \notin Alive

\* The tasks are well typed, keep to the permits and do not survive stop.
TasksInv == TypeOK /\ Backpressure /\ DrainLeavesNothing

-----------------------------------------------------------------------------
(* Why they hold: the inductive invariant of the proofs.                   *)

\* No handler is subscribed to a type twice.
SubscribedOnce ==
  \A t \in Types : \A i, j \in 1..Len(subs[t]) : subs[t][i] = subs[t][j] => i = j

\* The queue holds exactly the queued tasks, each once.
QueueExact ==
  /\ \A i \in 1..Len(queue) : task[queue[i]] = "queued"
  /\ \A i, j \in 1..Len(queue) : queue[i] = queue[j] => i = j
  /\ \A d \in Deliveries : task[d] = "queued" => Contains(queue, d)

\* An event is accepted once, before it has tasks, and the queue is in the
\* order the events were accepted in.
QueueOrdered ==
  /\ \A i, j \in 1..Len(order) : order[i] = order[j] => i = j
  /\ \A e \in Events : published[e] = "accepted" <=> Contains(order, e)
  /\ \A d \in Deliveries : task[d] # "none" => published[d[1]] = "accepted"
  /\ \A p, q \in 1..Len(queue), i, j \in 1..Len(order) :
       p < q /\ queue[p][1] = order[i] /\ queue[q][1] = order[j] => i <= j

\* stop gathers every task there is and no task is created afterwards.
DrainCovers ==
  stopping.phase # "no" =>
    /\ ~running
    /\ \A d \in Deliveries : task[d] \in Alive => d \in stopping.awaited

BusInv == /\ TypeOK /\ SubscribedOnce /\ QueueExact /\ QueueOrdered /\ StartsInOrder
          /\ DrainCovers /\ DrainLeavesNothing
          /\ IsFiniteSet({d \in Deliveries : task[d] \in Holding}) /\ Backpressure

-----------------------------------------------------------------------------
(* Implementation of EventBus.                                             *)

Bus == INSTANCE EventBus
         WITH owed <- {d \in Deliveries : task[d] \in Alive},
              handled <- {d \in Deliveries : task[d] = "handled"},
              dead <- {d \in Deliveries : task[d] = "dead"}

\* What was accepted for a handler is handled once or buried once, whatever
\* is unsubscribed or stopped meanwhile.
ImplementsBus == Bus!Spec

\* Every task that was created ends, behind any number of raising handlers.
EveryTaskEnds ==
  \A d \in Deliveries : task[d] = "queued" ~> task[d] \in {"handled", "dead"}
=============================================================================
