----------------------- MODULE OrchestratorProperties -----------------------
(***************************************************************************)
(* What should hold of module Orchestrator.  Line numbers are those of     *)
(* src/vclaw/application/orchestrator.py.                                  *)
(***************************************************************************)
EXTENDS Orchestrator

-----------------------------------------------------------------------------
(* Safety.                                                                 *)

\* README "duplicates are rejected at the orchestrator layer": two deliveries
\* of one message never both become workflows, however their handlers
\* interleave (check_idempotency and mark_idempotency, lines 70-74).
OneWorkflowPerKey ==
  \A d, e \in Deliveries :
    d # e /\ KeyOf[d] = KeyOf[e] => status[d] = "none" \/ status[e] = "none"

\* "Subtasks whose dependencies are all COMPLETED are dispatched": an agent
\* that was called for a subtask finds every dependency of it completed,
\* across batches, retries and agents that disappear (lines 294, 305-308).
DependenciesFirst ==
  \A d \in Deliveries, s \in Slots :
    calls[d][s] > 0 => \A p \in dependsOn[d][s] : tstatus[d][p] = "completed"

\* gather joins the whole batch: outside of the join no subtask coroutine of
\* the workflow is alive, so nothing changes it behind the aggregation, the
\* answer, a failure or a cancellation (line 303).
GatherJoins ==
  \A d \in Deliveries :
    pc[d] # "join" => \A s \in Slots : tpc[d][s] \in TaskAtRest

\* An agent is called at most max_retries + 1 times for a subtask (line 323).
RetryBudget ==
  \A d \in Deliveries, s \in Slots :
    calls[d][s] > 0 => calls[d][s] <= MaxRetries[agent[d][s]] + 1

\* gather(..., return_exceptions=True) drops the exception of a subtask
\* coroutine whose publish raised (line 303).
Swallowed(d) == {s \in plan[d] : tpc[d][s] = "raised"}

\* Once the workflow aggregates, every subtask of its plan has succeeded or
\* has failed, but for those whose exception the gather dropped: no other work
\* is silently forgotten (lines 305-308, 405-413).
SettledBeforeAggregation ==
  \A d \in Deliveries :
    status[d] \in {"aggregating", "completed"} =>
      \A s \in plan[d] \ Swallowed(d) : tstatus[d][s] \in {"completed", "failed"}

\* The workflows are well typed, and what happens to a subtask happens inside
\* its batch, within its retries, and before the aggregation.
WorkflowInv == TypeOK /\ GatherJoins /\ RetryBudget /\ SettledBeforeAggregation

\* The verdict of the result tells the truth about the subtasks: "success"
\* needs one that completed (or was swallowed), "failure" needs a failed one
\* and none that completed with data (lines 415-420).
VerdictHonest(d) ==
  /\ result[d] = "success" => \/ \E s \in plan[d] : tstatus[d][s] = "completed"
                             \/ Swallowed(d) # {}
  /\ result[d] = "failure" => /\ \E s \in plan[d] : tstatus[d][s] = "failed"
                              /\ \A s \in plan[d] : tresult[d][s] # "data"

\* The RuntimeError "Circular dependency or unresolvable subtasks" blames the
\* plan only when a subtask failed or was swallowed, a dependency names no
\* subtask, or the subtasks left wait for one another (lines 295-300).
UnresolvableMeansBlocked(d) ==
  error[d] = "unresolvable" =>
    \/ \E s \in plan[d] : tstatus[d][s] = "failed"
    \/ Swallowed(d) # {}
    \/ \E s \in pending[d] : ~(dependsOn[d][s] \subseteq plan[d])
    \/ \A s \in pending[d] : dependsOn[d][s] \cap pending[d] # {}

\* What the user was told follows from the stored workflow: an error event
\* only for a FAILED workflow, a completion event only for a COMPLETED one or
\* one that failed while that very event was being published (lines 122-156).
AnswerExplained(d) ==
  /\ "failed" \in sent[d] => status[d] = "failed"
  /\ "completed" \in sent[d] =>
       \/ status[d] = "completed"
       \/ status[d] = "failed" /\ error[d] = "publish" /\ result[d] # "none"

\* Verdicts, errors and answers are deserved.
ReportsHonest ==
  \A d \in Deliveries : VerdictHonest(d) /\ UnresolvableMeansBlocked(d) /\ AnswerExplained(d)

\* A subtask whose agent answered successfully is never run again and keeps
\* its status (line 364 returns out of the retry loop).
SucceededNeverRerun ==
  [][\A d \in Deliveries, s \in Slots :
       tstatus[d][s] = "completed" => /\ tstatus'[d][s] = "completed"
                                      /\ calls'[d][s] = calls[d][s]]_vars

-----------------------------------------------------------------------------
(* Why the safety properties hold: the inductive invariant of the proofs.  *)

BeforeExecution == {"new", "skipped", "classify", "publishIntent", "decompose",
                    "askSubtasks", "publishPlan"}

\* The loop variables of _execute_subtasks agree with the subtask coroutines.
BatchOK(d) ==
  /\ pc[d] \in BeforeExecution =>
       pending[d] = {} /\ completedIds[d] = {} /\ \A s \in Slots : tpc[d][s] = "idle"
  /\ pc[d] = "schedule" => \A s \in pending[d] : tpc[d][s] = "idle"
  /\ pc[d] = "join" => /\ ready[d] \subseteq pending[d]
                       /\ \A s \in pending[d] \ ready[d] : tpc[d][s] = "idle"
                       /\ \A s \in Slots \ ready[d] : tpc[d][s] \in TaskAtRest
  /\ pc[d] # "join" => \A s \in Slots : tpc[d][s] \in TaskAtRest
  /\ pending[d] \cap completedIds[d] = {}
  /\ \A s \in completedIds[d] : tstatus[d][s] = "completed"

\* A subtask's status, attempt and call count agree with its coroutine.
TaskOK(d, s) ==
  /\ tpc[d][s] \in {"idle", "ready"} =>
       tstatus[d][s] = "pending" /\ attempt[d][s] = 0 /\ calls[d][s] = 0
  /\ tpc[d][s] # "idle" => dependsOn[d][s] \subseteq completedIds[d]
  /\ tpc[d][s] \in {"dispatch", "running", "backoff"} =>
       /\ tstatus[d][s] = "executing"
       /\ agent[d][s] \in Agents
       /\ attempt[d][s] <= MaxRetries[agent[d][s]]
  /\ tpc[d][s] = "dispatch" => calls[d][s] = attempt[d][s]
  /\ tpc[d][s] \in {"running", "backoff"} => calls[d][s] = attempt[d][s] + 1
  /\ tpc[d][s] = "backoff" => attempt[d][s] < MaxRetries[agent[d][s]]
  /\ tpc[d][s] = "publishCompleted" => tstatus[d][s] = "completed"
  /\ tpc[d][s] = "publishFailed" => tstatus[d][s] = "failed"
  /\ calls[d][s] > 0 => /\ agent[d][s] \in Agents
                        /\ calls[d][s] <= MaxRetries[agent[d][s]] + 1

\* The invariant DependenciesFirst, GatherJoins, RetryBudget and
\* SucceededNeverRerun follow from (lines 288-396).
SchedulingInv ==
  \A d \in Deliveries : BatchOK(d) /\ \A s \in Slots : TaskOK(d, s)

\* Where the handler stands, what the workflow says of itself and what has been
\* published agree.
StageOK(d) ==
  /\ pc[d] \in {"new", "skipped"} <=> status[d] = "none"
  /\ pc[d] \in BeforeExecution \ {"new", "skipped"} => status[d] = "routing"
  /\ pc[d] \in {"schedule", "join"} => status[d] = "executing"
  /\ pc[d] = "aggregate" => status[d] = "aggregating"
  /\ pc[d] = "publishCompleted" => status[d] = "completed"
  /\ pc[d] \in {"publishFailed", "escaped"} => status[d] = "failed"
  /\ pc[d] = "returned" => status[d] \in Terminal
  /\ error[d] # "none" => status[d] = "failed"
  /\ status[d] = "failed" => pc[d] \in {"publishFailed", "returned", "escaped", "cancelled"}
  /\ result[d] # "none" => status[d] \in Terminal
  /\ status[d] = "completed" => result[d] # "none"
  /\ sent[d] # {} => status[d] \in Terminal /\ pc[d] # "publishCompleted"
  /\ sent[d] # {} /\ pc[d] = "publishFailed" => PublishRaises /\ sent[d] = {"completed"}

\* A subtask that is not pending has ended, and completed_ids has it when it
\* completed; the plan is not empty.
PlanOK(d) ==
  /\ pending[d] \subseteq plan[d]
  /\ pc[d] = "publishPlan" => plan[d] # {}
  /\ status[d] \in {"executing", "aggregating", "completed"} =>
       /\ plan[d] # {}
       /\ \A s \in plan[d] \ pending[d] :
            \/ tpc[d][s] = "raised"
            \/ tpc[d][s] = "returned" /\ tstatus[d][s] = "failed"
            \/ tpc[d][s] = "returned" /\ s \in completedIds[d]
  /\ status[d] \in {"aggregating", "completed"} => pending[d] = {}
  /\ \A s \in Slots : tpc[d][s] = "returned" => tstatus[d][s] \in {"completed", "failed"}
  /\ \A s \in Slots : tresult[d][s] = "data" => tstatus[d][s] = "completed"

\* The invariant SettledBeforeAggregation and ReportsHonest follow from, with
\* SchedulingInv (lines 76-160 and 288-420).
ReportsOK(d) == /\ VerdictHonest(d) /\ UnresolvableMeansBlocked(d) /\ AnswerExplained(d)
                /\ StageOK(d) /\ PlanOK(d)

ReportsInv == \A d \in Deliveries : ReportsOK(d)

-----------------------------------------------------------------------------
(* Implementation of MessageService.                                       *)

Some(k, st) == \E d \in Deliveries : KeyOf[d] = k /\ status[d] = st

PhaseOf(k) == IF k \notin marked THEN "unseen"
              ELSE IF Some(k, "completed") THEN "completed"
              ELSE IF Some(k, "failed") THEN "failed"
              ELSE "working"

AnswersOf(k) == {a \in Deliveries \X Terminal : KeyOf[a[1]] = k /\ a[2] \in sent[a[1]]}

Service == INSTANCE MessageService
             WITH Handlers <- Deliveries,
                  Raises <- PublishRaises,
                  phase <- [k \in Keys |-> PhaseOf(k)],
                  answers <- [k \in Keys |-> AnswersOf(k)]

\* Every message is accepted once, settles, and is answered at most once with
\* the verdict it settled on, whatever the number of deliveries; it is a failure
\* after a success, and answered as such, only when the publish of the success
\* raised (lines 65-156).
ImplementsService == Service!Spec

-----------------------------------------------------------------------------
(* Liveness, under FairSpec.                                               *)

\* Every accepted message is eventually answered.
AcceptedIsAnswered ==
  \A d \in Deliveries : status[d] = "routing" ~> sent[d] # {}

-----------------------------------------------------------------------------
(* A statement of the documentation that the code does not keep.           *)

\* README "Each stage has try/catch -> on failure, workflow transitions to
\* FAILED": a workflow is not a success when none of its subtasks completed.
SuccessNeedsWork ==
  \A d \in Deliveries :
    result[d] = "success" => \E s \in plan[d] : tstatus[d][s] = "completed"
=============================================================================
