----------------------------- MODULE AgentPool ------------------------------
(***************************************************************************)
(* src/vclaw/agents/registry.py and src/vclaw/agents/base.py together: the *)
(* registry keeps the agents by name and an index of their capabilities,   *)
(* register and deregister await the hooks of an agent in the middle, and  *)
(* the setup hook makes the semaphore that run acquires and releases.      *)
(*                                                                         *)
(* An agent object is one instance; two objects may have the same name.    *)
(***************************************************************************)
EXTENDS Integers, Sequences, FiniteSets, SequencesExt

CONSTANTS Objects,    \* agent objects
          Names, NameOf,
          Caps, CapsOf,  \* capability names, and those each manifest declares
          None,       \* no object
          Limit,      \* manifest.max_concurrent of each object
          Calls,      \* invocations of AgentBase.run
          MaxSetups   \* bound: registrations of each object

ASSUME ConstantsAssumption ==
  /\ NameOf \in [Objects -> Names]
  /\ CapsOf \in [Objects -> SUBSET Caps]
  /\ None \notin Objects
  /\ Limit \in [Objects -> Nat \ {0}]
  /\ MaxSetups \in [Objects -> Nat]

VARIABLES agents,      \* _agents: the object registered under each name, or None
          index,       \* _capability_index: names in order of registration
          registering, \* objects whose setup hook register awaits
          tearing,     \* objects whose teardown hook deregister awaits
          shutdown,    \* shutdown: phase, names left, object it waits for;
                       \* late: history, objects registered since it began
          sem,         \* _semaphore of each object: its value and its waiters
          call,        \* each invocation of run: where it stands, its object
          setups, teardowns,  \* history: hooks run on each object
          tainted      \* history: names whose operations overlapped or failed

registry == <<agents, index, registering, tearing, shutdown>>
history == <<setups, teardowns, tainted>>
vars == <<registry, sem, call, history>>

TypeOK ==
  /\ agents \in [Names -> Objects \cup {None}]
  /\ \A n \in Names : agents[n] # None => NameOf[agents[n]] = n
  /\ index \in [Caps -> Seq(Names)]
  /\ registering \subseteq Objects /\ tearing \subseteq Objects
  /\ shutdown \in [phase : {"no", "active", "done", "aborted"}, left : SUBSET Names,
                   current : Objects \cup {None}, late : SUBSET Objects]
  /\ shutdown.current # None => shutdown.current \in tearing
  /\ sem \in [Objects -> [value : Nat, queue : Seq(Calls)]]
  /\ call \in [Calls -> [pc : {"new", "fetched", "waiting", "executing", "done"},
                         object : Objects \cup {None}]]
  /\ \A k \in Calls : call[k].pc # "new" => call[k].object # None
  /\ setups \in [Objects -> Nat] /\ teardowns \in [Objects -> Nat]
  /\ tainted \subseteq Names

Init ==
  /\ agents = [n \in Names |-> None]
  /\ index = [c \in Caps |-> <<>>]
  /\ registering = {} /\ tearing = {}
  /\ shutdown = [phase |-> "no", left |-> {}, current |-> None, late |-> {}]
  /\ sem = [o \in Objects |-> [value |-> 0, queue |-> <<>>]]
  /\ call = [k \in Calls |-> [pc |-> "new", object |-> None]]
  /\ setups = [o \in Objects |-> 0] /\ teardowns = [o \in Objects |-> 0]
  /\ tainted = {}

-----------------------------------------------------------------------------
\* register.

InFlight(n) == {o \in registering \cup tearing : NameOf[o] = n}

Taint(n, bad) == tainted' = IF bad THEN tainted \cup {n} ELSE tainted

\* The name is free: setup starts by making a new semaphore, then may suspend.
\* An object is not handed to two operations at a time.  A name that is taken
\* changes nothing.
BeginRegister(o) ==
  /\ agents[NameOf[o]] = None
  /\ o \notin registering \cup tearing
  /\ setups[o] < MaxSetups[o]
  /\ registering' = registering \cup {o}
  /\ sem' = [sem EXCEPT ![o] = [value |-> Limit[o], queue |-> <<>>]]
  /\ setups' = [setups EXCEPT ![o] = @ + 1]
  /\ Taint(NameOf[o], InFlight(NameOf[o]) # {})
  /\ UNCHANGED <<agents, index, tearing, shutdown, call, teardowns>>

\* The publish of AGENT_REGISTERED comes last and may raise; the agent stays.
EndSetup(o) ==
  /\ o \in registering
  /\ registering' = registering \ {o}
  /\ agents' = [agents EXCEPT ![NameOf[o]] = o]
  /\ index' = [c \in Caps |-> IF c \in CapsOf[o] THEN Append(index[c], NameOf[o])
                                                 ELSE index[c]]
  /\ shutdown' = IF shutdown.phase = "no" THEN shutdown
                 ELSE [shutdown EXCEPT !.late = @ \cup {o}]
  /\ UNCHANGED <<tearing, sem, call, history>>

\* Mutant of SetupFails: the agent is entered before its setup hook runs.
SetupFailsRegistered(o) ==
  /\ o \in registering
  /\ registering' = registering \ {o}
  /\ teardowns' = [teardowns EXCEPT ![o] = @ + 1]
  /\ agents' = [agents EXCEPT ![NameOf[o]] = o]
  /\ UNCHANGED <<index, tearing, shutdown, sem, call, setups, tainted>>

\* The hook raises: discovery logs it and goes on, nothing was registered.  A
\* setup that failed counts as torn down.
SetupFails(o) ==
  /\ o \in registering
  /\ registering' = registering \ {o}
  /\ teardowns' = [teardowns EXCEPT ![o] = @ + 1]
  /\ UNCHANGED <<agents, index, tearing, shutdown, sem, call, setups, tainted>>

-----------------------------------------------------------------------------
\* deregister and shutdown.

\* The name is popped before the teardown hook is awaited.
Pop(n) ==
  /\ agents' = [agents EXCEPT ![n] = None]
  /\ tearing' = tearing \cup {agents[n]}
  /\ Taint(n, InFlight(n) # {})

BeginDeregister(n) ==
  /\ agents[n] # None
  /\ agents[n] \notin registering
  /\ Pop(n)
  /\ UNCHANGED <<index, registering, shutdown, sem, call, setups, teardowns>>

\* The operation returns, or raises, which ends shutdown when that is the caller.
Released(o) == IF shutdown.current = o THEN [shutdown EXCEPT !.current = None] ELSE shutdown

Aborted(o) == IF shutdown.current = o THEN [shutdown EXCEPT !.phase = "aborted", !.current = None]
                                      ELSE shutdown

\* Mutant of EndTeardown: the index is left as it is.
EndTeardownKeepIndex(o) ==
  /\ o \in tearing
  /\ tearing' = tearing \ {o}
  /\ teardowns' = [teardowns EXCEPT ![o] = @ + 1]
  /\ shutdown' = Released(o)
  /\ UNCHANGED <<agents, index, registering, sem, call, setups, tainted>>

\* One occurrence of the name is removed from every list that has it.  The
\* publish of AGENT_DEREGISTERED that follows may raise on Redis.
EndTeardown(o) ==
  /\ o \in tearing
  /\ tearing' = tearing \ {o}
  /\ teardowns' = [teardowns EXCEPT ![o] = @ + 1]
  /\ index' = [c \in Caps |-> RemoveFirst(index[c], NameOf[o])]
  /\ shutdown' \in {Released(o), Aborted(o)}
  /\ UNCHANGED <<agents, registering, sem, call, setups, tainted>>

\* The hook raises: the index keeps the name, and no event is published.
TeardownFails(o) ==
  /\ o \in tearing
  /\ tearing' = tearing \ {o}
  /\ teardowns' = [teardowns EXCEPT ![o] = @ + 1]
  /\ Taint(NameOf[o], TRUE)
  /\ shutdown' = Aborted(o)
  /\ UNCHANGED <<agents, index, registering, sem, call, setups>>

BeginShutdown ==
  /\ shutdown.phase = "no"
  /\ shutdown' = [shutdown EXCEPT !.phase = "active",
                                  !.left = {n \in Names : agents[n] # None}]
  /\ UNCHANGED <<agents, index, registering, tearing, sem, call, history>>

\* The names of the snapshot one after the other; one that is gone is passed.
ShutdownNext(n) ==
  /\ shutdown.phase = "active"
  /\ shutdown.current = None
  /\ n \in shutdown.left
  /\ shutdown' = [shutdown EXCEPT !.left = @ \ {n}, !.current = agents[n]]
  /\ IF agents[n] = None
     THEN UNCHANGED <<agents, tearing, tainted>>
     ELSE agents[n] \notin registering /\ Pop(n)
  /\ UNCHANGED <<index, registering, sem, call, setups, teardowns>>

ShutdownReturns ==
  /\ shutdown.phase = "active"
  /\ shutdown.current = None
  /\ shutdown.left = {}
  /\ shutdown' = [shutdown EXCEPT !.phase = "done"]
  /\ UNCHANGED <<agents, index, registering, tearing, sem, call, history>>

-----------------------------------------------------------------------------
\* run.

Goto(k, label) == call' = [call EXCEPT ![k].pc = label]

\* The orchestrator takes the object from get and calls run after an await.
Fetch(k, n) ==
  /\ call[k].pc = "new"
  /\ agents[n] # None
  /\ call' = [call EXCEPT ![k] = [pc |-> "fetched", object |-> agents[n]]]
  /\ UNCHANGED <<registry, sem, history>>

Acquire(k) ==
  LET o == call[k].object
  IN /\ call[k].pc = "fetched"
     /\ IF sem[o].value > 0
        THEN Goto(k, "executing") /\ sem' = [sem EXCEPT ![o].value = @ - 1]
        ELSE Goto(k, "waiting") /\ sem' = [sem EXCEPT ![o].queue = Append(@, k)]
     /\ UNCHANGED <<registry, history>>

\* Mutant of Release: a permit is given back although a waiter takes over.
ReleaseTwice(k) ==
  LET o == call[k].object
      queue == sem[o].queue
  IN IF queue = <<>>
     THEN Goto(k, "done") /\ sem' = [sem EXCEPT ![o].value = @ + 1]
     ELSE /\ call' = [call EXCEPT ![k].pc = "done", ![Head(queue)].pc = "executing"]
          /\ sem' = [sem EXCEPT ![o] = [value |-> @.value + 1, queue |-> Tail(queue)]]

\* Mutant of Release: nobody is woken.
ReleaseSilently(k) ==
  /\ Goto(k, "done")
  /\ sem' = [sem EXCEPT ![call[k].object].value = @ + 1]

\* The finally clause releases the semaphore the object has by then: the first
\* waiter takes the permit over, if there is one.
Release(k) ==
  LET o == call[k].object
      queue == sem[o].queue
  IN IF queue = <<>>
     THEN Goto(k, "done") /\ sem' = [sem EXCEPT ![o].value = @ + 1]
     ELSE /\ call' = [call EXCEPT ![k].pc = "done", ![Head(queue)].pc = "executing"]
          /\ sem' = [sem EXCEPT ![o].queue = Tail(@)]

\* execute returns, raises or is timed out by wait_for, or the caller is
\* cancelled: the finally clause runs in every case.
Finish(k) == /\ call[k].pc = "executing"
             /\ Release(k)
             /\ UNCHANGED <<registry, history>>

\* The caller is cancelled before run has a permit.
CancelWaiting(k) ==
  /\ call[k].pc \in {"fetched", "waiting"}
  /\ Goto(k, "done")
  /\ sem' = [sem EXCEPT ![call[k].object].queue = RemoveFirst(@, k)]
  /\ UNCHANGED <<registry, history>>

-----------------------------------------------------------------------------
CallStep(k) == Acquire(k) \/ Finish(k)

HookEnds(o) == EndSetup(o) \/ SetupFails(o) \/ EndTeardown(o) \/ TeardownFails(o)

ShutdownStep == (\E n \in Names : ShutdownNext(n)) \/ ShutdownReturns

Next == \/ \E o \in Objects : BeginRegister(o) \/ HookEnds(o)
        \/ \E n \in Names : BeginDeregister(n)
        \/ BeginShutdown \/ ShutdownStep
        \/ \E k \in Calls : CallStep(k) \/ CancelWaiting(k) \/ \E n \in Names : Fetch(k, n)

Spec == Init /\ [][Next]_vars

\* Hooks end, execute ends by its timeout, and the event loop runs what is ready.
FairSpec == /\ Spec
            /\ WF_vars(ShutdownStep)
            /\ \A o \in Objects : WF_vars(HookEnds(o))
            /\ \A k \in Calls : WF_vars(CallStep(k))

-----------------------------------------------------------------------------
Executing(o) == {k \in Calls : call[k] = [pc |-> "executing", object |-> o]}

\* agents/README.md "The concurrency semaphore is enforced in run()
\* automatically": timeouts, exceptions, cancellations and a deregistration
\* during a call neither lose nor make a permit, and nobody waits while one is
\* free.  An object that is set up once keeps to its limit exactly; each setup
\* that follows may add the limit once more, because it makes a new semaphore
\* and the calls of the old one release that.
PermitsConserved ==
  \A o \in Objects :
    LET permits == sem[o].value + Cardinality(Executing(o))
    IN /\ permits <= Limit[o] * setups[o]
       /\ setups[o] > 0 => permits >= Limit[o]
       /\ sem[o].queue # <<>> => sem[o].value = 0

\* The calls are well typed and keep to the permits.
CallsInv == TypeOK /\ PermitsConserved

\* registry.py "indexed by name and capabilities": while nothing is in flight
\* for a name, find_by_capability lists its agent once under each declared
\* capability and under no other (lines 50-53, 68-69, 94-96).
IndexExact ==
  \A n \in Names \ tainted : InFlight(n) = {} =>
    \A c \in Caps :
      Cardinality({i \in 1..Len(index[c]) : index[c][i] = n}) =
        IF agents[n] # None THEN Cardinality({c} \cap CapsOf[agents[n]]) ELSE 0

\* base.py "called once when agent is registered", "when agent is
\* deregistered": what is set up and not torn down is registered, and the
\* other way round.
LifecyclePaired ==
  \A o \in Objects :
    NameOf[o] \notin tainted /\ InFlight(NameOf[o]) = {} =>
      setups[o] - teardowns[o] = IF agents[NameOf[o]] = o THEN 1 ELSE 0

\* "Gracefully teardown all agents": when shutdown returns, only agents that
\* were registered since it began are left (lines 190-194).
ShutdownEmpties ==
  shutdown.phase = "done" =>
    \A n \in Names : agents[n] \in {None} \cup shutdown.late

\* Registered agents are the ones set up, and shutdown leaves none of them.
RegistryInv == LifecyclePaired /\ ShutdownEmpties

-----------------------------------------------------------------------------
\* Why they hold: the parts of the inductive invariant of the proofs.

\* Who stands in a queue waits there, and stands there once.
QueuesExact ==
  \A o \in Objects :
    /\ \A i \in 1..Len(sem[o].queue) : call[sem[o].queue[i]] = [pc |-> "waiting", object |-> o]
    /\ \A i, j \in 1..Len(sem[o].queue) : sem[o].queue[i] = sem[o].queue[j] => i = j

\* As long as nothing overlaps or fails, one hook at most runs for a name, and
\* the name is free while it does.
OneInFlight ==
  /\ registering \cap tearing = {}
  /\ \A n \in Names \ tainted :
       \A o \in InFlight(n) : InFlight(n) = {o} /\ agents[n] = None

\* The capabilities under which a name is listed: an agent keeps its entries
\* until its teardown hook has returned.
Listed(n) == UNION {CapsOf[o] : o \in {p \in Objects : NameOf[p] = n /\ (agents[n] = p \/ p \in tearing)}}

IndexFollows ==
  \A n \in Names \ tainted, c \in Caps :
    /\ c \in Listed(n) <=> \E i \in 1..Len(index[c]) : index[c][i] = n
    /\ \A i, j \in 1..Len(index[c]) : index[c][i] = n /\ index[c][j] = n => i = j

HooksPaired ==
  \A o \in Objects : NameOf[o] \notin tainted =>
    setups[o] - teardowns[o] =
      IF agents[NameOf[o]] = o \/ o \in registering \cup tearing THEN 1 ELSE 0

\* What shutdown has passed is gone or came later.
ShutdownPasses ==
  /\ shutdown.phase \in {"active", "done"} =>
       \A n \in Names \ shutdown.left : agents[n] \in {None} \cup shutdown.late
  /\ shutdown.phase = "done" => shutdown.left = {}

-----------------------------------------------------------------------------
\* A call of run ends, also when it had to wait for a permit, unless the agent
\* was set up again in between.
CallsEnd ==
  \A k \in Calls :
    call[k].pc = "waiting" ~>
      call[k].pc = "done" \/ \E o \in Objects : call[k].object = o /\ setups[o] > 1
=============================================================================
