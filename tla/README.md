# A TLA+ verification project for Vclaw

Vclaw is a Python asyncio platform that takes Telegram messages, classifies
them with an LLM, splits them into subtasks for pluggable agents and answers
the user. This directory holds its formal model: TLA+ modules translated from
the source, TLC configurations that check them on small instances, and proofs
for the TLA+ proof system. Paths such as `application/orchestrator.py` are
relative to `src/vclaw/` of the repository unless they start with `app/`.

## 1. The system

| Component | State it keeps | Operations | Talks to |
|---|---|---|---|
| Telegram gateway, `telegram/gateway.py`, `telegram/rate_limiter.py`, `api/webhook.py` | per-chat sliding windows, HTTP client | process_update, normalize_update, send_message, setup_webhook | publishes MESSAGE_RECEIVED and MESSAGE_NORMALIZED; called by the response handler |
| Event bus contract, `event_bus/base.py` | - | publish, subscribe, unsubscribe, start, stop, publish_to_dlq | everything |
| In-memory bus, `event_bus/memory.py` | handlers per type, running flag, pending tasks, semaphore, DLQ | one task per (event, handler) | calls handlers |
| Redis bus, `event_bus/redis_streams.py` | handlers, consume tasks, consumer group position and pending list in Redis | one consume loop per subscription | Redis, handlers |
| Orchestrator, `application/orchestrator.py` | one `WorkflowState` per message, local batch variables, retry loop per subtask | _handle_message, _classify_intent, _decompose_task, _execute_subtasks, _execute_single_subtask, _aggregate_results | LLM router, registry, agents, state store, bus |
| State store, `persistence/state_store.py` | workflows by id, idempotency keys | save, get, check_idempotency, mark_idempotency, list_active | orchestrator |
| Agent runtime, `agents/base.py` | semaphore per agent | setup, teardown, run | orchestrator, agents |
| Agent registry, `agents/registry.py` | agents by name, capability index | register, deregister, find_by_capability, discovery, health_check_all, shutdown | orchestrator, bus, agents |
| LLM router, `llm/router.py`, `llm/openai_compat.py` | providers by priority, health map | complete, health_check_all, reset_provider, add_provider | orchestrator, agents |
| Response handler, `api/response_handler.py` | - | _on_completed, _on_failed | bus, gateway |
| Platform, `app.py` | the wiring | start, run, stop | everything |
| Builtin agents, `agents/builtin/*` | task store, application directory, documents on disk, browser | execute, tool calls, fallback | LLM router, files, browser |
| Monitoring service, `app/` | Postgres rows, Redis cache, Kafka producer/consumer, WebSocket connections | REST routes, consumer loop, broadcast | Postgres, Kafka, Redis |
| Dashboard, `src/dashboard` | mock data | rendering | - |

### How the parts interact

A webhook request runs `TelegramGateway.process_update`, which asks the rate
limiter and publishes MESSAGE_NORMALIZED on the bus. The bus calls
`Orchestrator._handle_message` as a task (in memory) or from a consume loop
(Redis). The orchestrator asks the LLM router for an intent and, for some
intents, for subtasks, looks agents up in the registry, calls `AgentBase.run`
for each subtask of a batch under one `gather`, and publishes
WORKFLOW_COMPLETED or WORKFLOW_FAILED, which the response handler turns into
`send_message`. Everything lives on one asyncio event loop: code between two
awaits is atomic, and every await is a place where anything else may run. The
only other threads are those of the executor the file agents use. Nothing but
the Redis streams survives the process.

The monitoring service is a program of its own, and nothing in Vclaw calls it. A
POST writes to Postgres, waits for Kafka, tells Redis, and commits when the
answer is made; the Kafka consumer of the same process reads what it produced,
and the WebSocket handlers send what Redis publishes.

### What is hard here, and what makes each component correct

| Component | Hard behaviour | Properties that make it correct |
|---|---|---|
| Orchestrator | duplicate deliveries; batches over a dependency graph that may be cyclic or dangling; retries with time-outs; exceptions swallowed by `gather`; agents that disappear; a cancelled handler | one workflow per message, dependencies first, no subtask outlives its batch, honest verdicts, explained errors, an answer for every accepted message |
| In-memory bus | handlers that raise, dead letters inside the semaphore, stop while tasks wait | permits kept, starts in order, nothing left after stop, settled exactly once |
| Redis bus | lost answers, crash, stop in the middle of a batch, several loops of one consumer, a handler list that changes while it is walked | acknowledged means handled, no handler called twice, nothing strays |
| Registry and agent runtime | awaits in the middle of register and deregister; hooks that raise; cancelled waiters | permits conserved, index exact, setup and teardown paired, shutdown complete |
| LLM router | calls, checks and resets that change the marks during a cascade | no healthy provider is missed, priority kept, calls end |
| Gateway, limiter, response handler, platform | repeated updates, requests to Telegram and to Redis with unknown outcome, a backlog met while starting, stop at any moment, a stop that raises | each verdict told once, both only where a publish raised, exact window, nothing left at the end, a finite shutdown |
| Tool-calling agents (tasks, public services, browser) | an attempt repeated after it changed the store or a site; time-outs and cancellation between the browser's calls; teardown under way | effects once, identifiers never reused, no browser process left behind |
| File agents | threads that outlive their attempt | completed means done, only time-outs and the end of the handler leave stragglers, cancelled work never starts |
| Monitoring service | announcements that precede the commit; retries of produce; two updates of one row; offsets committed next to the loop; clients that vanish; crash and rebalance | nobody is told of what is not explained, updates survive each other, every message handled, exact set of connections, progress |

## 2. The modules

| Module | Models | Correspondence |
|---|---|---|
| `MessageService` | the promise of the orchestrator per idempotency key | abstract: phases `unseen`, `working`, `completed`, `failed`, and the answers published; `Retract` is the success that could not be published, on a bus that `Raises` |
| `Orchestrator` | `application/orchestrator.py` with the state store and the names of the registry | `pc[d]` is the await where the handler of delivery `d` stands, `tpc[d][s]` the same for a subtask coroutine; `status`, `tstatus`, `attempt`, `pending`, `completedIds` are the variables of the code |
| `OrchestratorProperties` | its properties, its inductive invariant and the refinement mapping to `MessageService` | - |
| `EventBus` | the contract of `event_bus/base.py` | abstract: deliveries owed, handled, dead |
| `InMemoryBus` | `event_bus/memory.py` | one task per <<event, handler>>, FIFO queue of the semaphore; refines `EventBus` |
| `RedisBus` | `event_bus/redis_streams.py` and the consumer group of Redis | a loop is at an await: reading, between entries, handling, acking, burying, sleeping; refines `EventBus` |
| `AgentPool` | `agents/registry.py` and `run`, `setup`, `teardown` of `agents/base.py` | `agents` and `index` are the two dictionaries, `sem` the semaphore of each object, `registering` and `tearing` the hooks in flight |
| `LlmRouter` | `llm/router.py` | `providers`, `health`; a call stands at one provider's request |
| `RateLimiter` | `telegram/rate_limiter.py` | the list of times per key, with a clock of whole ticks |
| `ReplyService` | the promise of the platform per Telegram update: taken, decided after that, each verdict told at most once after that, nothing after the close; two doubts weaken it, a bus that raises although it took the event (`doubtful`) and a Telegram that delivers under an error status (`denied`) | abstract: updates taken, the verdicts on each and the number of replies to them, whether the service is there |
| `Platform` | gateway, webhook, response handler and `app.py`, with either bus: `request[d]`, `handler[d]` and `send[post]` are where process_update, _handle_message and send_message stand, `stage` is that of `start`, `run` and `stop`; refines `ReplyService` and composes `RateLimiter` (extended), `EventBus` and `MessageService` (instances) | the bus and the orchestrator appear by their abstract specifications, which the modules above are shown to implement |
| `ToolAgents` | the task, the public-service and the browser agent with their retries | the calls an answer of the LLM names to a store are one step, since the code makes them without an await; those of the browser are taken one by one, `visit[r]` is the await where the first of them stands |
| `MonitoringApi` | `app/`: what writes, announces, consumes and listens | `op[o]` is the await where a request stands, `topic` and `offset` are Kafka's, `client` and `manager` the WebSocket handlers and `ConnectionManager` |
| `FileAgents` | the document and the image agent with their retries and the executor | `job` is one tool call of one attempt, `file` the state of a file and the threads that write it |

The proofs are in modules of their own: `OrchestratorProofs`,
`InMemoryBusProofs`, `RedisBusProofs`, `AgentPoolProofs`, `LlmRouterProofs`,
`PlatformProofs` (with `RateLimiter`), `BuiltinAgentsProofs` (`FileAgents` and
`ToolAgents`) and `MonitoringApiProofs`.

The `MC...` modules only define constants for TLC. A definition marked
"Mutant of" is a plausible bug in the definition it names; no specification
uses it, it is there to show that the property of the run notices the bug.

Data is reduced to what the properties tell apart: texts, answers of the LLM,
payloads and file contents are model values or members of small sets, chosen
nondeterministically where the code receives them. Logging, tracing, metrics
and formatting are left out. Durations are left out too, except in
`RateLimiter`: a time-out may fire whenever the code waits under one.

## 3. The runs

| Run | Question | Instance |
|---|---|---|
| `orch_service` | does the orchestrator implement `MessageService` with two deliveries of one message, and does it answer? | 2 deliveries of one message, 2 subtasks, all dependency graphs, 1 agent that comes and goes, LLM may fail |
| `orch_faults` | do scheduling, verdicts, answers and the refinement of `MessageService` survive failing publishes and cancellation? | 1 delivery, 3 symmetric subtasks, all graphs with cycles and dangling names, publishes that are dropped, raise, or raise after they took effect, cancellation at every await |
| `orch_swallowed` | does a workflow whose subtask never ended report success? (section 7) | 1 delivery, 1 subtask |
| `membus_all` | is the in-memory bus a bus, with permits, order and drain? | 3 events of 2 types, one of them published by a handler, 2 handlers, 2 permits |
| `redisbus_all` | the same for Redis, with crash, stop, restart and a failing call | 2 entries, 2 handlers, 2 loops, 1 permit, 2 lives of the process, 1 fault |
| `redisbus_restart` | does an entry survive a restart, as the documentation says? | 1 entry, 1 handler, 2 lives |
| `pool_all` | registry and semaphores under overlapping operations | 2 objects that share a name, up to 2 setups each, 2 calls, 1 permit |
| `llm_all` | is the cascade complete and in order? | 3 providers, one disabled and added later under a name in use, 2 calls, one of them refused by every service |
| `platform_all` | on either bus: what may a chat see of one update, does the chain from the webhook to the chat implement `ReplyService`, is every accepted update replied to, is the limiter exact, is nothing left at the end, does a shutdown end? | 2 webhook requests for one update that may be no message or come without a chat, one of which a former process may have left in Redis as a message or as verdicts; publishes to Redis that raise; window of 1 tick with 1 request, clock to 1 |
| `tools_all` | do retries repeat effects, are identifiers fresh, does anything stay open? | 2 symmetric subtasks, plans of up to 2 calls, the retry policies of the agents, one teardown |
| `files_all` | what do time-outs leave behind? | 2 subtasks that write the same file, 2 files, 2 threads, 1 retry |
| `monitor_all` | are announcements explained, do updates survive, is every message handled, does everything move on? | three workloads: an event with 2 updates of it, an event with a listener on each WebSocket, a log entry with a listener; 3 attempts to produce, 2 lives of the process, 1 move of the partition |

Why the bounds are enough: the interesting cases need two of something and one
thing in between. Two deliveries of a message meet in the idempotency check;
three subtasks are the least that have a cycle, a chain and an independent
subtask at the same time; a retry budget of one has a first, a last and an
exhausted attempt; two entries and two loops reorder; two lives see one crash;
two objects of one name overlap in every pair of operations; two threads
suffice for an old attempt to meet a new one; two calls of a plan are a first
one that is cut and one that is never reached; two updates of one row read and
commit in every order. One update
suffices for `Platform`, since updates meet only in the window of their chat,
where two deliveries of one meet as well. `MaxLoops`, `MaxLives`, `MaxMoves`, `MaxFaults`,
`MaxSetups` and `MaxTime` bound counters the code does not bound; they occur
only in guards. `Workloads` of `MonitoringApi` and `Unread`, `Odd` and
`Backends` of `Platform` choose which requests meet, so that the state space stays small: the
three workloads pair what shares a row, a topic or a channel. Symmetry is used
for the subtasks of `orch_faults` and `tools_all` only, where no property is a
liveness property. `CHECK_DEADLOCK FALSE` stands
where the modelled part really comes to rest (every request served, the
platform stopped); the orchestrator runs check for deadlock.

### Fairness

Every liveness property assumes only that the event loop runs a ready
coroutine and that what the code waits for under a time-out ends:

* `Orchestrator`: steps of handlers and subtask coroutines. Calls of agents end
  by `wait_for` in `run`, LLM calls by the timeout of httpx.
* `InMemoryBus`, `RedisBus`: the loops and the handlers they call, which end by
  the above; for Redis, that a process that went down is started again.
* `AgentPool`: hooks end, `execute` ends by its time-out.
* `LlmRouter`: requests end. Nothing is assumed of health checks and resets,
  which nothing in the program calls.
* `Platform`: some delivery moves on while one can, and starting and stopping
  go on once begun. The loops of the Redis bus read what is in their streams: a
  read whose answer Redis loses is the subject of `RedisBus`. That the handler of the orchestrator ends is
  `AcceptedIsAnswered` of `Orchestrator`. Strong fairness is used nowhere, and
  no fairness is assumed of users, failures, signals, or operators.
* `FileAgents`: the event loop and the time-out only. Threads and requests of
  a tool may hang for ever.
* `MonitoringApi`: attempts to produce and requests to Redis come back, each by
  its timeout. That a flush or a COMMIT does is an assumption about Postgres
  and its connection, as is that Postgres settles what a crash left behind: the
  engine sets no timeout (`app/db/base.py` 11-18). The consumer loop runs, and a
  WebSocket handler with something to send notices that its client is gone. A producer whose start failed may keep its
  caller waiting, so `Progress` is stated for one that started. Nobody has to
  send a request, to stop or to come back.

## 4. The proofs

Every safety property of the passing runs, invariant or action property, and
each of the four refinements is a theorem: it holds for every value of the
constants, where the runs show it for one. What is assumed is what the modules
state as a named `ASSUME` over their constants (sets of the right kind, bounds
that are natural numbers), which TLC evaluates on every run. No theorem has a further hypothesis.

All proofs have the same shape: the initial states, what each group of actions
changes (a frame lemma), what each of them keeps, one step lemma per part of
the inductive invariant, and a last step of temporal logic. The parts of the
invariants are definitions of the component's module, under "Why they hold", or
of the proof module, and were model-checked with the instance of the
component's run before they were proved.

| Module | Theorems | Inductive invariant, and why the properties need it |
|---|---|---|
| `OrchestratorProofs` | `TypeCorrect`; `Scheduling`, `DependenciesRespected`, `NothingOutlivesTheBatch`, `RetriesBounded`, `SuccessIsFinal` | `SchedulingInv`: the local variables of the batch loop (`pending`, `completedIds`, `ready`) and each subtask's status, attempt and call count agree with where its coroutine stands. That a dependency of a called subtask is completed holds because a coroutine leaves `idle` only when its dependencies are in `completedIds`, and what is there is not pending and so never started again. |
| | `DuplicatesRejected` (that one message has one workflow; `ImplementsService` needs it) | `IdempotencyInv` ties `marked` to the statuses: nothing suspends the handler between the check and the mark. |
| | `Reports`, `ReportsAreHonest`, `NothingForgotten`; `WorkflowsCorrect` | `ReportsInv`: at each await of the handler the status, the error and the published answer are those of that stage (`StageOK`), and what is not pending has ended (`PlanOK`). The verdict is honest because of what the stages before it left behind. `WorkflowsCorrect` puts the invariants of the two rows together. |
| | `OrchestratorImplementsService` | The three together, on every kind of bus: `MessageService` may retract only where some publish may raise (`Raises`). |
| `InMemoryBusProofs` | `BusInvariant`, `TasksCorrect`, `StartsAreOrdered`, `InMemoryBusImplementsBus` | `BusInv`: the queue holds exactly the queued tasks, each once (`QueueExact`), in the order of acceptance (`QueueOrdered`); no handler is subscribed twice (`SubscribedOnce`, or an event would be owed to it twice); stop awaits every live task and none is made afterwards (`DrainCovers`). |
| `RedisBusProofs` | `RedisInvariant`, `AckedIsHandled`, `CallsCorrect`, `LoopsCorrect`, `RedisBusImplementsBus` | `RedisInv`: the group gives every entry to one loop, in the order of the stream (`BatchesExact`); nothing has been done about an entry before a loop begins with it (`WaitUntouched`); a loop has called the handlers before the next one and no other (`ProgressExact`). An acknowledgement means "handled" only because of the last. |
| `AgentPoolProofs` | `CallsCorrect` | `QueuesExact` and `ExecutingFinite`: who stands in the queue of a semaphore waits for that one, once, and the calls that execute can be counted. The sum of free permits and executing calls changes only when the object is set up, by at most its limit (`PermitsKept`, `PermitsRenewed`), however many calls hold permits of a semaphore that was replaced. |
| | `RegistryCorrect`, `IndexIsExact` | `OneInFlight`, `IndexFollows`, `HooksPaired`, `ShutdownPasses`: as long as the operations on a name neither overlap nor fail, at most one hook is in flight for it, the index has it from registration until its teardown returned, and setups exceed teardowns by one exactly then. |
| `LlmRouterProofs` | `ProvidersSorted` | The sort of `from_configs`: there is exactly one stable order by priority, and `Init` starts with it. |
| | `CascadeIsComplete`, `PriorityIsRespected` | `AheadReachable`: a provider that was up and healthy since the call began is never in front of the one being asked. Additions go to the end of the list, so they never put one in front of it. |
| `PlatformProofs` | `AtMostOneReply`, `StopLeavesNothing` | `NewUntouched`, `AnswersInOrder`, `VerdictsExact`, `RepliedExact`, `EndedStaysEnded`: one handler answers an update, first as completed and then, on Redis only, as failed; the bus gives each of these verdicts to the response handler once, and its sending is over when the reply counts, or begins anew behind an error status. `AtMostOneReply` therefore does not promise one reply: it says which second ones there are. The buses and the orchestrator appear by the abstract specifications proved of them above. |
| | `PlatformImplementsReplies` | The same invariant. An update is taken when the bus owes or gave its message to the orchestrator (`TakenUpdates`), its verdicts are the answers of `MessageService` to it (`VerdictsOn`), and the service is there until the stage is "stopped" or "aborted". A reply that reaches the chat was decided because what the response handler sends is a verdict of this process; several may arrive in the step that cancels the loops of the Redis bus or ends the event loop (`CancelSends`). Updates on which a former process published a verdict count no replies (`RepliesTo`): what was told about them before is not in the state of this process. |
| | `LimiterIsExact` | `WindowsSound` of `RateLimiter`: the window is the end of the history of admissions, and what it dropped is expired. |
| `BuiltinAgentsProofs` | `OnlyTimeoutsStraggle`, `AbandonedStayCancelled` | `JobsTracked`: what is not over is either waited for by the attempt that made it, or in a thread and of an attempt that timed out or was the last one of a handler that was cancelled. A retry starts from a clean slate because of the first half. |
| | `CompletedWasDone` | `FilesInv`: a file nobody else got a thread to write goes from absent over partial to whole. |
| | `ToolsCorrect`, `EffectsHappenOnce` | A `Local` invariant of each subtask with `VisitOK`: what changed a store or a site is a completed subtask, a visit under way, an attempt that was cut, or a malformed call. |
| | `IdsAreFresh` | `GivenExact`: the numbers given out are those up to the counter, after every call of an answer. |
| `MonitoringApiProofs` | `ProcessIsSound`, `MonitorCorrect` | `ProcessInv`: the position of the consumer is never past a message that no handler has seen, and what is committed is never past the position. |
| | `UpdatesSurvive` | `PatchesSurvive` with `ReadsExplained`: while a request holds a value it read in a column that had been written, the column has the value of an update that has ended, so a rollback or a late write cannot take it back. An update whose process died in its COMMIT stays "orphaned", with what it read and its lock, until Postgres has decided about it. |
| | `AnnouncementsAreExplained` | The copies in the topic and in the inboxes, counted per stage of the request that announces; a row is of a request that was answered, or that a crash left in its commit. |

`BuiltinAgentsProofs` extends two components, `FileAgents` and `ToolAgents`;
the names of the second carry a `Tool` where both would have the same.

Induction over data is needed in one place. An answer of the LLM names any
number of calls, and `Replay` is a recursive function over them. The
library's induction theorems take an operator as a parameter, which the provers
cannot instantiate; `BuiltinAgentsProofs` derives induction over a set of numbers
(`LeastNumber`, `Induction`) from the well-foundedness of `<` instead, shows
with it that the recursive function exists (`ReplayExists`, `ReplayFollows`), and that
every call of an answer leaves a store later than the one before (`ReplayLater`).

Some definitions have the form they have because it can be reasoned about, with
the same meaning as the code: unsubscribing and leaving a queue remove by index
(`RemoveAt`, `RemoveFirst`), the order of `from_configs` is chosen by its
characterization, the rate limiter's fresh entries are the end of its list
(which is sorted), and `Replay` is a function and not a fold.

Only model-checked: liveness (`AcceptedIsAnswered`, `EveryTaskEnds`,
`EntriesSettle`, `CallsEnd` of the pool and of the router, `AcceptedIsReplied`,
`ShutdownEnds`, `SubtasksEnd`, `Progress`), since TLAPS reasons neither about
fairness nor about ENABLED; and the two violations, which are counterexamples.

## 5. What is not modelled

* Of the monitoring service, what only reads: the GET routes, the health checks
  and the metrics. The cache of the dashboard statistics is left out too:
  whether the query that fills it ever succeeds depends on how SQLAlchemy
  treats `cast(..., text("integer"))` (`app/services/stats_service.py` 36),
  which the repository does not decide. One worker process is modelled
  although the Dockerfile starts two: they share Postgres, Kafka and Redis, and
  what a second one does to the first is in the moves of the partition.
* `app/kafka/producer.py` 31 hands `retries` to `AIOKafkaProducer`. Whether the
  pinned aiokafka takes that argument is not decided by the repository; if it
  does not, no producer ever starts. `MonitoringApi` has both: `Start` may leave
  the producer working or broken.
* What a browser or an HTTP client does inside: Playwright's own start and
  stop, and its pages, are external. `app.py` does not name the browser
  agent: it is discovered through its entry point (`pyproject.toml` 62).
* The dashboard API and front end: read-only views.
* Configuration, logging, tracing, migrations, plugins and examples: no state
  that a property is about.
* `setup_webhook`: one call to Telegram at the start, whose failure is logged and
  ignored. `RateLimiter.reset` and `remaining`, `StateStore.list_active`,
  `ConnectionManager.broadcast`: nothing in the program calls them.
* Importing agent modules from a directory: only its registrations are there.
* In `Platform`: entries that a loop of the Redis bus loses, and those whose
  acknowledgement fails (`RedisBus` has both), publishes of the orchestrator
  before the terminal ones (`Orchestrator` has them: they decide only which
  verdict it is), and which agents are registered when a backlog is taken up while the platform
  starts (`Orchestrator` lets them come and go at any moment).

## 6. The plan

Done: the core (orchestrator with its proofs), both buses, registry and
runtime, router, platform on either bus with restart and backlog, the five
agents that keep something, the monitoring service, and the proofs of every
safety property and refinement that the runs check.

Left:

1. An abstract specification of the monitoring service per row (an update that
   was answered is kept, announced once, and heard by who listens), refined by
   `MonitoringApi` with `UpdatesSurvive` and `AnnouncementsAreExplained`.
2. Shorter proofs: the lemmas about removal from a sequence in
   `InMemoryBusProofs`, `RedisBusProofs` and `AgentPoolProofs` are the same fact.

## 7. Where the code departs from its documents

Shown by a run:

* `orch_swallowed`: an exception of a publish inside a subtask is dropped by
  `gather`; the subtask stays EXECUTING and the workflow reports success
  (line 303).
* `redisbus_restart`: an entry that was read but not acknowledged when the
  process died is never delivered again (`event_bus/redis_streams.py` 119),
  against "at-least-once" and "survives restarts".

Met while modelling, and visible in the models, without a run of their own:

* README line 322 says a failure turns the workflow FAILED and sends an error; a
  workflow whose every subtask failed is COMPLETED and answered with "Done."
  (`application/orchestrator.py` 123, 415).
* `event_bus/memory.py` 73 drops what handlers publish while stop drains
  (`base.py` 18 and 41 promise at-least-once delivery and a graceful drain). In
  `Platform`, `AcceptedIsReplied` therefore excepts the shutdown.
* `stop` says "Gracefully shut down all components." (`app.py` 167), but
  `registry.shutdown()` (171) passes on what the teardown of an agent raises
  (`agents/registry.py` 92), and on Redis what the publish of
  AGENT_DEREGISTERED raises (99). The bus, the router and the Telegram client
  are then never stopped; `Abort` of `Platform` is what happens instead, and
  `ShutdownEnds` lets a shutdown end by it. A start that raises (a publish of
  AGENT_REGISTERED, the port) ends in the same way.
* A provider that failed once is never asked again: nothing calls
  `health_check_all` or `reset_provider` (`llm/router.py` 65 and 87; README
  line 66 speaks of health monitoring).
* A failed dependency makes the workflow fail as "circular or unresolvable"
  and discards the results of the other subtasks (`application/orchestrator.py`
  296).
* The handler of a terminal publish that raises contradicts it: when the publish
  of WORKFLOW_COMPLETED raises after it took effect, WORKFLOW_FAILED is published
  too (`application/orchestrator.py` 126-156), and the chat is told both; when
  both raise, it may be told nothing. `AnswerExplained`, `Retract`, `OneReply`,
  `ReplyService` and `AcceptedIsReplied` have these cases.
* An update without a chat id, as a callback without its message gives
  (`telegram/gateway.py` 76-80), is worked on and answered to nobody
  (`api/response_handler.py` 38, 54); all of them share one window of the
  limiter.
* `send_message` repeats a message after any error status, 5xx included
  (`telegram/gateway.py` 164-173), behind which the first one may have arrived.
  `denied` counts those.
* Publishing AGENT_DEREGISTERED may raise on Redis after the teardown and end a
  shutdown before the other agents are torn down (`agents/registry.py` 98-104,
  192); `Aborted` of `AgentPool` is that.
* A bus that stops cancels the handlers, and with them the attempts of the file
  agents: their threads go on (`Interrupt` of `FileAgents`).
* `infrastructure/README.md` line 131 speaks of retries on transient failures
  via tenacity and line 135 of 20 messages per 60 seconds; `send_message` repeats
  only what Telegram refused, once, and the default limit is 30 (`config.py` 50).
* Setting an agent object up again while calls hold permits of its old
  semaphore breaks its limit (`agents/base.py` 56): they release into the new
  one. `PermitsConserved` says by how much: an object that was set up `n`
  times never has more than `n` times its limit.
* A teardown hook that raises leaves its name in the capability index
  (`agents/registry.py` 92); `IndexExact` and `RegistryInv` except the
  names this happened to, and those with overlapping operations.
* Summaries of spreadsheets always fail: `_read_excel` returns no text
  (`document_processor/agent.py` 656).
* A tool call whose arguments are not a string fails the attempt of an agent of
  `ToolAgents` after the calls before it took effect, and the retry repeats
  them; `EffectsOnce` excepts those subtasks. For the browser agent arguments
  that are JSON but no object do the same: its own `except` block raises.
* A time-out among the calls of the browser agent makes the retry click or
  submit again (`browser/agent.py` 321); `EffectsOnce` counts those attempts. A
  call after the teardown makes an HTTP client that nobody closes (411; 516 of
  the image agent).
* The idempotency keys are in memory (`app.py` 71), the events in Redis: an
  update that a former process has worked on may be answered again. `OneReply`
  excepts those.
* `app/README.md` says that the consumer writes to Postgres; its handlers only
  log. It says that `/ready` answers 200 only with the database and Redis
  connected; it always does, and `/health` calls Kafka "ok" after a failed start
  of the producer.
* A POST announces its row on Kafka and Redis before it is committed
  (`app/api/routes/events.py` 30), so that a failing commit leaves an
  announcement of nothing; and a process that dies in its commit may leave a row
  or an update that nobody was told of. `AnnouncementsExplained` and
  `PatchesSurvive` have these cases.
* `/ws/events` learns that its client is gone only from the next event (or
  when the idle subscription times out); `Progress` is stated accordingly.
