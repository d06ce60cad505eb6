---------------------------- MODULE Orchestrator ----------------------------
(***************************************************************************)
(* The orchestration engine, src/vclaw/application/orchestrator.py: one    *)
(* handler coroutine per delivered MESSAGE_NORMALIZED event, and under it  *)
(* one coroutine per subtask of the running batch, joined by gather.       *)
(*                                                                         *)
(* Grain.  A step runs from one await that can suspend to the next: an LLM *)
(* call, a publish on the event bus, agent.run, the back-off sleep, the    *)
(* gather, and the save before AGGREGATING.  check_idempotency and         *)
(* mark_idempotency are one step together, because neither suspends in     *)
(* InMemoryStateStore, the only store of the repository.                   *)
(*                                                                         *)
(* The bus is what PublishOutcomes says of it: {"sent"} for the in-memory  *)
(* bus while it runs, with "dropped" once it is stopping, with "raised"    *)
(* and "sentThenRaised" for Redis (XADD fails, or its answer is lost).     *)
(* MayCancel adds the CancelledError that RedisStreamsEventBus.stop throws *)
(* into a handler.                                                         *)
(***************************************************************************)
EXTENDS Integers, FiniteSets

CONSTANTS
  Deliveries,        \* invocations of _handle_message, one per delivered event
  Keys,              \* idempotency keys, source:chat_id:message_id
  KeyOf,             \* the key of the message each delivery carries
  Agents,            \* names of the agents that can be registered
  Fallback,          \* the agent name "fallback", which nothing registers
  Intents,           \* values of IntentClassification.intent
  Providers,         \* agents whose manifest lists an intent as a capability
  Slots,             \* identities of the subtasks of one workflow
  MaxRetries,        \* retry_policy.max_retries of each agent, or the default
  DependencyGraphs,  \* values of depends_on; _decompose_task leaves them empty
  LlmOutcomes,       \* what LLMRouter.complete may do
  PublishOutcomes,   \* what EventBus.publish may do
  MayCancel          \* can a handler be cancelled while it awaits?

NoTarget == ""

Outcomes == {"sent", "dropped", "raised", "sentThenRaised"}

ASSUME ConstantsAssumption ==
  /\ KeyOf \in [Deliveries -> Keys]
  /\ Fallback \notin Agents
  /\ NoTarget \notin Agents
  /\ Providers \in [Intents -> SUBSET Agents]
  /\ MaxRetries \in [Agents -> Nat]
  /\ DependencyGraphs \subseteq [Slots -> SUBSET Slots]
  /\ LlmOutcomes \subseteq {"answered", "raised"}
  /\ PublishOutcomes \subseteq Outcomes
  /\ MayCancel \in BOOLEAN

VARIABLES
  registered,   \* names in AgentRegistry._agents
  marked,       \* StateStore._idempotency_keys
  pc,           \* where each handler stands
  status,       \* WorkflowState.status, "none" before the workflow exists
  error,        \* cause recorded in WorkflowState.error
  intent,       \* WorkflowState.intent: target agent and intent name
  result,       \* verdict of WorkflowState.result: its "success" field
  sent,         \* history: terminal events that reached the bus
  plan,         \* WorkflowState.subtasks, as the set of used slots
  agent,        \* SubTask.agent_name
  dependsOn,    \* SubTask.depends_on
  pending,      \* the local variable "pending" of _execute_subtasks
  ready,        \* the local variable "ready": the batch under gather
  completedIds, \* the local variable "completed_ids"
  tpc,          \* where each subtask coroutine stands
  tstatus,      \* SubTask.status
  tresult,      \* SubTask.result: absent, an empty dict, or data
  attempt,      \* the loop variable "attempt"
  calls         \* history: number of agent.run calls made for the subtask

workflowVars == <<pc, status, error, result, sent>>
planVars     == <<intent, plan, agent, dependsOn>>
batchVars    == <<pending, ready, completedIds>>
taskVars     == <<tpc, tstatus, tresult, attempt, calls>>
vars == <<registered, marked, workflowVars, planVars, batchVars, taskVars>>

HandlerPC == {"new", "skipped", "classify", "publishIntent", "decompose",
              "askSubtasks", "publishPlan", "schedule", "join", "aggregate",
              "publishCompleted", "publishFailed", "returned", "escaped",
              "cancelled"}

HandlerDone == {"skipped", "returned", "escaped", "cancelled"}

TaskPC == {"idle", "ready", "dispatch", "running", "publishCompleted",
           "backoff", "publishFailed", "returned", "raised", "cancelled"}

TaskAtRest == {"idle", "returned", "raised", "cancelled"}

Status == {"none", "routing", "executing", "aggregating", "completed", "failed"}

Terminal == {"completed", "failed"}

TypeOK ==
  /\ registered \subseteq Agents
  /\ marked \subseteq Keys
  /\ pc \in [Deliveries -> HandlerPC]
  /\ status \in [Deliveries -> Status]
  /\ error \in [Deliveries -> {"none", "llm", "publish", "unresolvable"}]
  /\ intent \in [Deliveries -> [target : Agents \cup {NoTarget}, name : Intents \cup {"none"}]]
  /\ result \in [Deliveries -> {"none", "success", "failure"}]
  /\ sent \in [Deliveries -> SUBSET Terminal]
  /\ plan \in [Deliveries -> SUBSET Slots]
  /\ agent \in [Deliveries -> [Slots -> Agents \cup {Fallback}]]
  /\ dependsOn \in [Deliveries -> [Slots -> SUBSET Slots]]
  /\ pending \in [Deliveries -> SUBSET Slots]
  /\ ready \in [Deliveries -> SUBSET Slots]
  /\ completedIds \in [Deliveries -> SUBSET Slots]
  /\ tpc \in [Deliveries -> [Slots -> TaskPC]]
  /\ tstatus \in [Deliveries -> [Slots -> {"pending", "executing", "completed", "failed"}]]
  /\ tresult \in [Deliveries -> [Slots -> {"none", "empty", "data"}]]
  /\ attempt \in [Deliveries -> [Slots -> Nat]]
  /\ calls \in [Deliveries -> [Slots -> Nat]]

PerTask(v) == [d \in Deliveries |-> [s \in Slots |-> v]]

Init ==
  /\ registered = Agents
  /\ marked = {}
  /\ pc = [d \in Deliveries |-> "new"]
  /\ status = [d \in Deliveries |-> "none"]
  /\ error = [d \in Deliveries |-> "none"]
  /\ intent = [d \in Deliveries |-> [target |-> NoTarget, name |-> "none"]]
  /\ result = [d \in Deliveries |-> "none"]
  /\ sent = [d \in Deliveries |-> {}]
  /\ plan = [d \in Deliveries |-> {}]
  /\ agent = PerTask(Fallback)
  /\ dependsOn = PerTask({})
  /\ pending = [d \in Deliveries |-> {}]
  /\ ready = [d \in Deliveries |-> {}]
  /\ completedIds = [d \in Deliveries |-> {}]
  /\ tpc = PerTask("idle")
  /\ tstatus = PerTask("pending")
  /\ tresult = PerTask("none")
  /\ attempt = PerTask(0)
  /\ calls = PerTask(0)
-----------------------------------------------------------------------------
(* What the environment of the handlers does.                              *)

\* AgentRegistry.register and .deregister, run by any other coroutine.
Register(a) == /\ a \notin registered
               /\ registered' = registered \cup {a}
               /\ UNCHANGED <<marked, workflowVars, planVars, batchVars, taskVars>>

Deregister(a) == /\ a \in registered
                 /\ registered' = registered \ {a}
                 /\ UNCHANGED <<marked, workflowVars, planVars, batchVars, taskVars>>

PublishReturns == PublishOutcomes \cap {"sent", "dropped"} # {}

PublishRaises == PublishOutcomes \cap {"raised", "sentThenRaised"} # {}

Goto(d, label) == pc' = [pc EXCEPT ![d] = label]

\* The "except Exception" arm of _handle_message up to its publish.
Fail(d, cause) == /\ status' = [status EXCEPT ![d] = "failed"]
                  /\ error' = [error EXCEPT ![d] = cause]
                  /\ Goto(d, "publishFailed")

-----------------------------------------------------------------------------
(* _handle_message up to the execution of the subtasks.                    *)

SkipDuplicate(d) == /\ pc[d] = "new"
                    /\ KeyOf[d] \in marked
                    /\ Goto(d, "skipped")
                    /\ UNCHANGED <<registered, marked, status, error, result, sent,
                                   planVars, batchVars, taskVars>>

\* Mutant of AcceptMessage: mark_idempotency is not called.
AcceptUnmarked(d) == /\ pc[d] = "new"
                     /\ KeyOf[d] \notin marked
                     /\ status' = [status EXCEPT ![d] = "routing"]
                     /\ Goto(d, "classify")
                     /\ UNCHANGED <<registered, marked, error, result, sent,
                                    planVars, batchVars, taskVars>>

AcceptMessage(d) == /\ pc[d] = "new"
                    /\ KeyOf[d] \notin marked
                    /\ marked' = marked \cup {KeyOf[d]}
                    /\ status' = [status EXCEPT ![d] = "routing"]
                    /\ Goto(d, "classify")
                    /\ UNCHANGED <<registered, error, result, sent,
                                   planVars, batchVars, taskVars>>

\* An answer that does not parse becomes the intent "unknown" without target:
\* it is one of the intents the LLM may answer.
ClassifyIntent(d) ==
  /\ pc[d] = "classify"
  /\ \/ /\ "answered" \in LlmOutcomes
        /\ \E target \in Agents \cup {NoTarget}, name \in Intents :
             intent' = [intent EXCEPT ![d] = [target |-> target, name |-> name]]
        /\ Goto(d, "publishIntent")
        /\ UNCHANGED <<status, error>>
     \/ /\ "raised" \in LlmOutcomes
        /\ Fail(d, "llm")
        /\ UNCHANGED intent
  /\ UNCHANGED <<registered, marked, result, sent, plan, agent, dependsOn,
                 batchVars, taskVars>>

PublishIntent(d) ==
  /\ pc[d] = "publishIntent"
  /\ \/ /\ PublishReturns
        /\ Goto(d, "decompose")
        /\ UNCHANGED <<status, error>>
     \/ /\ PublishRaises
        /\ Fail(d, "publish")
  /\ UNCHANGED <<registered, marked, result, sent, planVars, batchVars, taskVars>>

Capable(d) == Providers[intent[d].name] \cap registered

\* workflow.subtasks becomes the subtasks S, run by the agents "who".
Plan(d, S, who) == /\ plan' = [plan EXCEPT ![d] = S]
                   /\ agent' = [agent EXCEPT ![d] = who]
                   /\ \E graph \in DependencyGraphs :
                        dependsOn' = [dependsOn EXCEPT ![d] = graph]
                   /\ Goto(d, "publishPlan")

PlanOne(d, name) == \E s \in Slots :
  Plan(d, {s}, [t \in Slots |-> IF t = s THEN name ELSE Fallback])

RouteToTarget(d) == /\ pc[d] = "decompose"
                    /\ intent[d].target \in registered
                    /\ PlanOne(d, intent[d].target)
                    /\ UNCHANGED <<registered, marked, status, error, result, sent, intent,
                                   batchVars, taskVars>>

\* find_by_capability lists its agents in the order they registered in, which
\* is not kept here: any capable one may come first.
RouteByCapability(d) == /\ pc[d] = "decompose"
                        /\ intent[d].target \notin registered
                        /\ \E a \in Capable(d) : PlanOne(d, a)
                        /\ UNCHANGED <<registered, marked, status, error, result, sent, intent,
                                       batchVars, taskVars>>

AskSubtasks(d) == /\ pc[d] = "decompose"
                  /\ intent[d].target \notin registered
                  /\ Capable(d) = {}
                  /\ Goto(d, "askSubtasks")
                  /\ UNCHANGED <<registered, marked, status, error, result, sent,
                                 planVars, batchVars, taskVars>>

\* The names the LLM lists are kept when they are registered at the time of
\* the answer; an empty or unreadable list becomes one "fallback" subtask.
PlanFromAnswer(d) ==
  /\ pc[d] = "askSubtasks"
  /\ \/ /\ "answered" \in LlmOutcomes
        /\ \/ \E S \in (SUBSET Slots) \ {{}} : \E who \in [S -> registered] :
                Plan(d, S, [s \in Slots |-> IF s \in S THEN who[s] ELSE Fallback])
           \/ PlanOne(d, Fallback)
        /\ UNCHANGED <<status, error>>
     \/ /\ "raised" \in LlmOutcomes
        /\ Fail(d, "llm")
        /\ UNCHANGED <<plan, agent, dependsOn>>
  /\ UNCHANGED <<registered, marked, result, sent, intent, batchVars, taskVars>>

PublishPlan(d) ==
  /\ pc[d] = "publishPlan"
  /\ \/ /\ PublishReturns
        /\ status' = [status EXCEPT ![d] = "executing"]
        /\ pending' = [pending EXCEPT ![d] = plan[d]]
        /\ Goto(d, "schedule")
        /\ UNCHANGED error
     \/ /\ PublishRaises
        /\ Fail(d, "publish")
        /\ UNCHANGED pending
  /\ UNCHANGED <<registered, marked, result, sent, planVars, ready, completedIds, taskVars>>

-----------------------------------------------------------------------------
(* _execute_subtasks: batches of subtasks whose dependencies completed.    *)

\* Mutant of Runnable: a dependency need only be out of the way, not completed.
RunnableOnceTried(d) == {s \in pending[d] : dependsOn[d][s] \cap pending[d] = {}}

Runnable(d) == {s \in pending[d] : dependsOn[d][s] \subseteq completedIds[d]}

StartBatch(d) ==
  /\ pc[d] = "schedule"
  /\ Runnable(d) # {}
  /\ ready' = [ready EXCEPT ![d] = Runnable(d)]
  /\ tpc' = [tpc EXCEPT ![d] = [s \in Slots |->
                                  IF s \in Runnable(d) THEN "ready" ELSE tpc[d][s]]]
  /\ Goto(d, "join")
  /\ UNCHANGED <<registered, marked, status, error, result, sent, planVars,
                 pending, completedIds, tstatus, tresult, attempt, calls>>

\* Mutant of GiveUp: no test for an empty batch, the loop spins.
GiveUpNever(d) == /\ pc[d] = "schedule"
                  /\ pending[d] # {}
                  /\ Runnable(d) = {}
                  /\ UNCHANGED vars

\* Subtasks are left and none can run: "break" if one of them is marked
\* FAILED, RuntimeError otherwise.
GiveUp(d) ==
  /\ pc[d] = "schedule"
  /\ pending[d] # {}
  /\ Runnable(d) = {}
  /\ IF \E s \in pending[d] : tstatus[d][s] = "failed"
     THEN /\ status' = [status EXCEPT ![d] = "aggregating"]
          /\ Goto(d, "aggregate")
          /\ UNCHANGED error
     ELSE Fail(d, "unresolvable")
  /\ UNCHANGED <<registered, marked, result, sent, planVars, batchVars, taskVars>>

Finished(d) == {s \in ready[d] : tstatus[d][s] = "completed"}

\* gather has collected every coroutine of the batch, exceptions included.
JoinBatch(d) ==
  /\ pc[d] = "join"
  /\ \A s \in ready[d] : tpc[d][s] \in {"returned", "raised"}
  /\ completedIds' = [completedIds EXCEPT ![d] = @ \cup Finished(d)]
  /\ pending' = [pending EXCEPT ![d] = @ \ ready[d]]
  /\ Goto(d, "schedule")
  /\ UNCHANGED <<registered, marked, status, error, result, sent, planVars, ready, taskVars>>

-----------------------------------------------------------------------------
(* _execute_single_subtask: one coroutine per subtask of the batch.        *)

TaskGoto(d, s, label) == tpc' = [tpc EXCEPT ![d][s] = label]

Mark(d, s, st) == tstatus' = [tstatus EXCEPT ![d][s] = st]

\* Mutant of StartSubtask: an unknown agent ends the coroutine without an error.
StartSubtaskSilently(d, s) ==
  /\ tpc[d][s] = "ready"
  /\ \/ /\ agent[d][s] \in registered
        /\ Mark(d, s, "executing")
        /\ TaskGoto(d, s, "dispatch")
     \/ /\ agent[d][s] \notin registered
        /\ TaskGoto(d, s, "returned")
        /\ UNCHANGED tstatus
  /\ UNCHANGED <<registered, marked, workflowVars, planVars, batchVars,
                 tresult, attempt, calls>>

StartSubtask(d, s) ==
  /\ tpc[d][s] = "ready"
  /\ \/ /\ agent[d][s] \in registered
        /\ Mark(d, s, "executing")
        /\ TaskGoto(d, s, "dispatch")
     \/ /\ agent[d][s] \notin registered
        /\ Mark(d, s, "failed")
        /\ TaskGoto(d, s, "returned")
  /\ UNCHANGED <<registered, marked, workflowVars, planVars, batchVars,
                 tresult, attempt, calls>>

\* The publish of AGENT_DISPATCHED, then the call of agent.run: the agent
\* object was fetched by StartSubtask, a later deregistration changes nothing.
Dispatch(d, s) ==
  /\ tpc[d][s] = "dispatch"
  /\ \/ /\ PublishReturns
        /\ calls' = [calls EXCEPT ![d][s] = @ + 1]
        /\ TaskGoto(d, s, "running")
     \/ /\ PublishRaises
        /\ TaskGoto(d, s, "raised")
        /\ UNCHANGED calls
  /\ UNCHANGED <<registered, marked, workflowVars, planVars, batchVars,
                 tstatus, tresult, attempt>>

\* Mutant of AgentSucceeds: no return, the retry loop goes on.
AgentSucceedsAndLoops(d, s) ==
  /\ tpc[d][s] = "running"
  /\ Mark(d, s, "completed")
  /\ \E data \in {"empty", "data"} : tresult' = [tresult EXCEPT ![d][s] = data]
  /\ TaskGoto(d, s, IF attempt[d][s] < MaxRetries[agent[d][s]]
                    THEN "backoff" ELSE "publishCompleted")
  /\ UNCHANGED <<registered, marked, workflowVars, planVars, batchVars, attempt, calls>>

AgentSucceeds(d, s) ==
  /\ tpc[d][s] = "running"
  /\ Mark(d, s, "completed")
  /\ \E data \in {"empty", "data"} : tresult' = [tresult EXCEPT ![d][s] = data]
  /\ TaskGoto(d, s, "publishCompleted")
  /\ UNCHANGED <<registered, marked, workflowVars, planVars, batchVars, attempt, calls>>

MayRetry(d, s) == attempt[d][s] < MaxRetries[agent[d][s]]

\* agent.run turned a timeout or an exception into success = False, or the
\* agent said so itself: sleep and retry while the policy allows it.
AgentFails(d, s) ==
  /\ tpc[d][s] = "running"
  /\ \/ /\ MayRetry(d, s)
        /\ TaskGoto(d, s, "backoff")
        /\ UNCHANGED tstatus
     \/ /\ ~MayRetry(d, s)
        /\ Mark(d, s, "failed")
        /\ TaskGoto(d, s, "publishFailed")
  /\ UNCHANGED <<registered, marked, workflowVars, planVars, batchVars,
                 tresult, attempt, calls>>

Retry(d, s) ==
  /\ tpc[d][s] = "backoff"
  /\ attempt' = [attempt EXCEPT ![d][s] = @ + 1]
  /\ Mark(d, s, "executing")
  /\ TaskGoto(d, s, "dispatch")
  /\ UNCHANGED <<registered, marked, workflowVars, planVars, batchVars, tresult, calls>>

\* The publish of AGENT_COMPLETED or AGENT_FAILED ends the coroutine.
PublishTaskOutcome(d, s) ==
  /\ tpc[d][s] \in {"publishCompleted", "publishFailed"}
  /\ \/ PublishReturns /\ TaskGoto(d, s, "returned")
     \/ PublishRaises /\ TaskGoto(d, s, "raised")
  /\ UNCHANGED <<registered, marked, workflowVars, planVars, batchVars,
                 tstatus, tresult, attempt, calls>>

-----------------------------------------------------------------------------
(* The end of _handle_message.                                             *)

BeginAggregation(d) ==
  /\ pc[d] = "schedule"
  /\ pending[d] = {}
  /\ status' = [status EXCEPT ![d] = "aggregating"]
  /\ Goto(d, "aggregate")
  /\ UNCHANGED <<registered, marked, error, result, sent, planVars, batchVars, taskVars>>

Results(d) == {s \in plan[d] : tstatus[d][s] = "completed" /\ tresult[d][s] = "data"}

Errors(d) == {s \in plan[d] : tstatus[d][s] = "failed"}

\* Mutant of AggregateResults: one failed subtask makes the whole a failure.
AggregateStrictly(d) == IF Errors(d) # {} THEN "failure" ELSE "success"

AggregateResults(d) ==
  IF Results(d) = {} /\ Errors(d) # {} THEN "failure" ELSE "success"

Complete(d) ==
  /\ pc[d] = "aggregate"
  /\ result' = [result EXCEPT ![d] = AggregateResults(d)]
  /\ status' = [status EXCEPT ![d] = "completed"]
  /\ Goto(d, "publishCompleted")
  /\ UNCHANGED <<registered, marked, error, sent, planVars, batchVars, taskVars>>

\* The terminal event "verdict" is published with the given outcome.
PublishVerdict(d, verdict, outcome) ==
  sent' = [sent EXCEPT ![d] = IF outcome \in {"sent", "sentThenRaised"}
                              THEN @ \cup {verdict} ELSE @]

\* The publish of WORKFLOW_COMPLETED is still inside the try block.
PublishCompleted(d) ==
  /\ pc[d] = "publishCompleted"
  /\ \E outcome \in PublishOutcomes :
       /\ PublishVerdict(d, "completed", outcome)
       /\ IF outcome \in {"sent", "dropped"}
          THEN Goto(d, "returned") /\ UNCHANGED <<status, error>>
          ELSE Fail(d, "publish")
  /\ UNCHANGED <<registered, marked, result, planVars, batchVars, taskVars>>

\* Mutant of PublishFailed: the wrong event type.
PublishFailedAsCompleted(d) ==
  /\ pc[d] = "publishFailed"
  /\ \E outcome \in PublishOutcomes :
       /\ PublishVerdict(d, "completed", outcome)
       /\ Goto(d, IF outcome \in {"sent", "dropped"} THEN "returned" ELSE "escaped")
  /\ UNCHANGED <<registered, marked, status, error, result, planVars, batchVars, taskVars>>

PublishFailed(d) ==
  /\ pc[d] = "publishFailed"
  /\ \E outcome \in PublishOutcomes :
       /\ PublishVerdict(d, "failed", outcome)
       /\ Goto(d, IF outcome \in {"sent", "dropped"} THEN "returned" ELSE "escaped")
  /\ UNCHANGED <<registered, marked, status, error, result, planVars, batchVars, taskVars>>

\* CancelledError is no Exception: no handler of the coroutine or of its
\* subtasks catches it, and gather cancels its children.
Cancel(d) ==
  /\ MayCancel
  /\ pc[d] \notin HandlerDone \cup {"new"}
  /\ Goto(d, "cancelled")
  /\ tpc' = [tpc EXCEPT ![d] = [s \in Slots |->
               IF tpc[d][s] \in TaskAtRest THEN tpc[d][s] ELSE "cancelled"]]
  /\ UNCHANGED <<registered, marked, status, error, result, sent, planVars, batchVars,
                 tstatus, tresult, attempt, calls>>

-----------------------------------------------------------------------------
HandlerStep(d) ==
  \/ SkipDuplicate(d) \/ AcceptMessage(d)
  \/ ClassifyIntent(d) \/ PublishIntent(d)
  \/ RouteToTarget(d) \/ RouteByCapability(d) \/ AskSubtasks(d) \/ PlanFromAnswer(d)
  \/ PublishPlan(d)
  \/ StartBatch(d) \/ JoinBatch(d) \/ GiveUp(d)
  \/ BeginAggregation(d) \/ Complete(d)
  \/ PublishCompleted(d) \/ PublishFailed(d)

TaskStep(d, s) ==
  \/ StartSubtask(d, s) \/ Dispatch(d, s)
  \/ AgentSucceeds(d, s) \/ AgentFails(d, s) \/ Retry(d, s)
  \/ PublishTaskOutcome(d, s)

Next == \/ \E d \in Deliveries : HandlerStep(d) \/ Cancel(d)
        \/ \E d \in Deliveries, s \in Slots : TaskStep(d, s)
        \/ \E a \in Agents : Register(a) \/ Deregister(a)

Spec == Init /\ [][Next]_vars

\* The event loop resumes every coroutine whose await is over; LLM calls and
\* agents end (HTTP timeout, wait_for), sleeps elapse.
FairSpec == /\ Spec
            /\ \A d \in Deliveries : WF_vars(HandlerStep(d))
            /\ \A d \in Deliveries, s \in Slots : WF_vars(TaskStep(d, s))
=============================================================================
