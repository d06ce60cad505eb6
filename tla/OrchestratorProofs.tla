------------------------- MODULE OrchestratorProofs -------------------------
(***************************************************************************)
(* Theorems about module Orchestrator, for every set of deliveries, agents *)
(* and subtasks, every retry policy and every dependency graph.            *)
(***************************************************************************)
EXTENDS OrchestratorProperties, TLAPS

USE DEF HandlerPC, HandlerDone, TaskPC, TaskAtRest, Status, Terminal

-----------------------------------------------------------------------------
(* Type correctness.                                                       *)

LEMMA InitType == Init => TypeOK
<1> SUFFICES ASSUME Init PROVE TypeOK
  OBVIOUS
<1>1. intent \in [Deliveries -> [target : Agents \cup {NoTarget}, name : Intents \cup {"none"}]]
  BY DEF Init
<1>2. /\ agent \in [Deliveries -> [Slots -> Agents \cup {Fallback}]]
      /\ dependsOn \in [Deliveries -> [Slots -> SUBSET Slots]]
      /\ tpc \in [Deliveries -> [Slots -> TaskPC]]
      /\ tstatus \in [Deliveries -> [Slots -> {"pending", "executing", "completed", "failed"}]]
      /\ tresult \in [Deliveries -> [Slots -> {"none", "empty", "data"}]]
      /\ attempt \in [Deliveries -> [Slots -> Nat]]
      /\ calls \in [Deliveries -> [Slots -> Nat]]
  BY DEF Init, PerTask
<1> QED BY <1>1, <1>2 DEF Init, TypeOK

\* Planning writes a set of slots, an agent name per slot and a graph.
LEMMA PlanOneType ==
  ASSUME TypeOK, NEW d \in Deliveries, NEW a \in Agents \cup {Fallback}, PlanOne(d, a)
  PROVE  /\ plan' \in [Deliveries -> SUBSET Slots]
         /\ agent' \in [Deliveries -> [Slots -> Agents \cup {Fallback}]]
         /\ dependsOn' \in [Deliveries -> [Slots -> SUBSET Slots]]
         /\ pc' \in [Deliveries -> HandlerPC]
  BY ConstantsAssumption DEF TypeOK, PlanOne, Plan, Goto

LEMMA FailType ==
  ASSUME TypeOK, NEW d \in Deliveries,
         NEW cause \in {"llm", "publish", "unresolvable"}, Fail(d, cause)
  PROVE  /\ pc' \in [Deliveries -> HandlerPC]
         /\ status' \in [Deliveries -> Status]
         /\ error' \in [Deliveries -> {"none", "llm", "publish", "unresolvable"}]
  BY DEF TypeOK, Fail, Goto

LEMMA HandlerStepType ==
  ASSUME TypeOK, NEW d \in Deliveries, HandlerStep(d)
  PROVE  TypeOK'
<1>1. CASE SkipDuplicate(d)
  BY <1>1 DEF TypeOK, SkipDuplicate, Goto, planVars, batchVars, taskVars
<1>2. CASE AcceptMessage(d)
  <2>1. KeyOf[d] \in Keys
    BY ConstantsAssumption
  <2> QED BY <1>2, <2>1 DEF TypeOK, AcceptMessage, Goto, planVars, batchVars, taskVars
<1>3. CASE ClassifyIntent(d)
  <2>1. intent' \in [Deliveries -> [target : Agents \cup {NoTarget}, name : Intents \cup {"none"}]]
    <3>1. ASSUME NEW target \in Agents \cup {NoTarget}, NEW name \in Intents,
                 intent' = [intent EXCEPT ![d] = [target |-> target, name |-> name]]
          PROVE  intent' \in [Deliveries ->
                               [target : Agents \cup {NoTarget}, name : Intents \cup {"none"}]]
      BY <3>1 DEF TypeOK
    <3>2. CASE UNCHANGED intent
      BY <3>2 DEF TypeOK
    <3> QED BY <1>3, <3>1, <3>2 DEF ClassifyIntent
  <2>2. /\ pc' \in [Deliveries -> HandlerPC]
        /\ status' \in [Deliveries -> Status]
        /\ error' \in [Deliveries -> {"none", "llm", "publish", "unresolvable"}]
    <3>1. CASE Fail(d, "llm")
      BY <3>1, FailType
    <3>2. CASE Goto(d, "publishIntent") /\ UNCHANGED <<status, error>>
      BY <3>2 DEF TypeOK, Goto
    <3> QED BY <1>3, <3>1, <3>2 DEF ClassifyIntent
  <2> QED BY <1>3, <2>1, <2>2 DEF TypeOK, ClassifyIntent, batchVars, taskVars
<1>4. CASE PublishIntent(d)
  BY <1>4 DEF TypeOK, PublishIntent, Fail, Goto, planVars, batchVars, taskVars
<1>5. CASE RouteToTarget(d)
  <2>1. intent[d].target \in Agents
    BY <1>5 DEF TypeOK, RouteToTarget
  <2>2. PlanOne(d, intent[d].target)
    BY <1>5 DEF RouteToTarget
  <2> QED BY <1>5, <2>1, <2>2, PlanOneType DEF TypeOK, RouteToTarget, batchVars, taskVars
<1>6. CASE RouteByCapability(d)
  <2>1. PICK a \in Capable(d) : PlanOne(d, a)
    BY <1>6 DEF RouteByCapability
  <2>2. a \in Agents
    BY <2>1 DEF TypeOK, Capable
  <2> QED BY <1>6, <2>1, <2>2, PlanOneType DEF TypeOK, RouteByCapability, batchVars, taskVars
<1>7. CASE AskSubtasks(d)
  BY <1>7 DEF TypeOK, AskSubtasks, Goto, planVars, batchVars, taskVars
<1>8. CASE PlanFromAnswer(d)
  <2>1. CASE PlanOne(d, Fallback) /\ UNCHANGED <<status, error>>
    BY <1>8, <2>1, PlanOneType DEF TypeOK, PlanFromAnswer, batchVars, taskVars
  <2>2. ASSUME NEW S \in SUBSET Slots, NEW who \in [S -> registered],
               Plan(d, S, [s \in Slots |-> IF s \in S THEN who[s] ELSE Fallback]),
               UNCHANGED <<status, error>>
        PROVE  TypeOK'
    <3>1. [s \in Slots |-> IF s \in S THEN who[s] ELSE Fallback]
             \in [Slots -> Agents \cup {Fallback}]
      BY DEF TypeOK
    <3> QED BY <1>8, <2>2, <3>1, ConstantsAssumption
            DEF TypeOK, PlanFromAnswer, Plan, Goto, batchVars, taskVars
  <2>3. CASE Fail(d, "llm") /\ UNCHANGED <<plan, agent, dependsOn>>
    BY <1>8, <2>3 DEF TypeOK, PlanFromAnswer, Fail, Goto, batchVars, taskVars
  <2> QED BY <1>8, <2>1, <2>2, <2>3 DEF PlanFromAnswer
<1>9. CASE PublishPlan(d)
  <2>1. pending' \in [Deliveries -> SUBSET Slots]
    <3>1. CASE pending' = [pending EXCEPT ![d] = plan[d]]
      BY <3>1 DEF TypeOK
    <3>2. CASE UNCHANGED pending
      BY <3>2 DEF TypeOK
    <3> QED BY <1>9, <3>1, <3>2 DEF PublishPlan
  <2>2. /\ pc' \in [Deliveries -> HandlerPC]
        /\ status' \in [Deliveries -> Status]
        /\ error' \in [Deliveries -> {"none", "llm", "publish", "unresolvable"}]
    <3>1. CASE Fail(d, "publish")
      BY <3>1, FailType
    <3>2. CASE /\ status' = [status EXCEPT ![d] = "executing"]
               /\ Goto(d, "schedule")
               /\ UNCHANGED error
      BY <3>2 DEF TypeOK, Goto
    <3> QED BY <1>9, <3>1, <3>2 DEF PublishPlan
  <2> QED BY <1>9, <2>1, <2>2 DEF TypeOK, PublishPlan, planVars, taskVars
<1>10. CASE StartBatch(d)
  <2>1. Runnable(d) \subseteq Slots
    BY DEF TypeOK, Runnable
  <2> QED BY <1>10, <2>1 DEF TypeOK, StartBatch, Goto, planVars
<1>11. CASE JoinBatch(d)
  BY <1>11 DEF TypeOK, JoinBatch, Finished, Goto, planVars, taskVars
<1>12. CASE GiveUp(d)
  <2>1. /\ pc' \in [Deliveries -> HandlerPC]
        /\ status' \in [Deliveries -> Status]
        /\ error' \in [Deliveries -> {"none", "llm", "publish", "unresolvable"}]
    <3>1. CASE Fail(d, "unresolvable")
      BY <3>1, FailType
    <3>2. CASE /\ status' = [status EXCEPT ![d] = "aggregating"]
               /\ Goto(d, "aggregate")
               /\ UNCHANGED error
      BY <3>2 DEF TypeOK, Goto
    <3> QED BY <1>12, <3>1, <3>2 DEF GiveUp
  <2>2. UNCHANGED <<registered, marked, result, sent, planVars, batchVars, taskVars>>
    BY <1>12 DEF GiveUp
  <2> QED BY <2>1, <2>2 DEF TypeOK, planVars, batchVars, taskVars
<1>13. CASE BeginAggregation(d)
  BY <1>13 DEF TypeOK, BeginAggregation, Goto, planVars, batchVars, taskVars
<1>14. CASE Complete(d)
  BY <1>14 DEF TypeOK, Complete, AggregateResults, Goto, planVars, batchVars, taskVars
<1>15. CASE PublishCompleted(d)
  <2>1. sent' \in [Deliveries -> SUBSET Terminal]
    BY <1>15 DEF TypeOK, PublishCompleted, PublishVerdict
  <2>2. /\ pc' \in [Deliveries -> HandlerPC]
        /\ status' \in [Deliveries -> Status]
        /\ error' \in [Deliveries -> {"none", "llm", "publish", "unresolvable"}]
    BY <1>15 DEF TypeOK, PublishCompleted, Fail, Goto
  <2> QED BY <1>15, <2>1, <2>2 DEF TypeOK, PublishCompleted, planVars, batchVars, taskVars
<1>16. CASE PublishFailed(d)
  BY <1>16 DEF TypeOK, PublishFailed, PublishVerdict, Goto, planVars, batchVars, taskVars
<1> QED BY <1>1, <1>2, <1>3, <1>4, <1>5, <1>6, <1>7, <1>8, <1>9, <1>10, <1>11, <1>12,
           <1>13, <1>14, <1>15, <1>16 DEF HandlerStep

LEMMA NestedUpdate ==
  ASSUME NEW A, NEW B, NEW C, NEW f \in [A -> [B -> C]], NEW a \in A, NEW b \in B, NEW v \in C
  PROVE  [f EXCEPT ![a][b] = v] \in [A -> [B -> C]]
  OBVIOUS

LEMMA MarkType ==
  ASSUME TypeOK, NEW d \in Deliveries, NEW s \in Slots,
         NEW st \in {"pending", "executing", "completed", "failed"}, Mark(d, s, st)
  PROVE  tstatus' \in [Deliveries -> [Slots -> {"pending", "executing", "completed", "failed"}]]
  BY NestedUpdate DEF TypeOK, Mark

LEMMA TaskGotoType ==
  ASSUME TypeOK, NEW d \in Deliveries, NEW s \in Slots,
         NEW label \in TaskPC, TaskGoto(d, s, label)
  PROVE  tpc' \in [Deliveries -> [Slots -> TaskPC]]
<1> HIDE DEF TaskPC
<1> QED BY NestedUpdate DEF TypeOK, TaskGoto

LEMMA TaskStepType ==
  ASSUME TypeOK, NEW d \in Deliveries, NEW s \in Slots, TaskStep(d, s)
  PROVE  TypeOK'
<1> USE DEF workflowVars, planVars, batchVars
<1>1. CASE StartSubtask(d, s)
  BY <1>1, MarkType, TaskGotoType DEF TypeOK, StartSubtask
<1>2. CASE Dispatch(d, s)
  <2>1. calls' \in [Deliveries -> [Slots -> Nat]]
    <3>1. calls[d][s] + 1 \in Nat
      BY DEF TypeOK
    <3>2. CASE calls' = [calls EXCEPT ![d][s] = @ + 1]
      BY <3>1, <3>2, NestedUpdate DEF TypeOK
    <3>3. CASE UNCHANGED calls
      BY <3>3 DEF TypeOK
    <3> QED BY <1>2, <3>2, <3>3 DEF Dispatch
  <2> QED BY <1>2, <2>1, TaskGotoType DEF TypeOK, Dispatch
<1>3. CASE AgentSucceeds(d, s)
  <2>1. tresult' \in [Deliveries -> [Slots -> {"none", "empty", "data"}]]
    <3>1. PICK data \in {"empty", "data"} : tresult' = [tresult EXCEPT ![d][s] = data]
      BY <1>3 DEF AgentSucceeds
    <3> QED BY <3>1, NestedUpdate DEF TypeOK
  <2> QED BY <1>3, <2>1, MarkType, TaskGotoType DEF TypeOK, AgentSucceeds
<1>4. CASE AgentFails(d, s)
  BY <1>4, MarkType, TaskGotoType DEF TypeOK, AgentFails
<1>5. CASE Retry(d, s)
  <2>1. attempt' \in [Deliveries -> [Slots -> Nat]]
    <3>1. attempt[d][s] + 1 \in Nat
      BY DEF TypeOK
    <3> QED BY <1>5, <3>1, NestedUpdate DEF TypeOK, Retry
  <2> QED BY <1>5, <2>1, MarkType, TaskGotoType DEF TypeOK, Retry
<1>6. CASE PublishTaskOutcome(d, s)
  BY <1>6, TaskGotoType DEF TypeOK, PublishTaskOutcome
<1> QED BY <1>1, <1>2, <1>3, <1>4, <1>5, <1>6 DEF TaskStep

LEMMA NextType == TypeOK /\ [Next]_vars => TypeOK'
<1> SUFFICES ASSUME TypeOK, [Next]_vars PROVE TypeOK'
  OBVIOUS
<1>1. ASSUME NEW d \in Deliveries, Cancel(d) PROVE TypeOK'
  BY <1>1 DEF TypeOK, Cancel, Goto, planVars, batchVars
<1>2. ASSUME NEW a \in Agents, Register(a) \/ Deregister(a) PROVE TypeOK'
  BY <1>2 DEF TypeOK, Register, Deregister, workflowVars, planVars, batchVars, taskVars
<1>3. CASE UNCHANGED vars
  BY <1>3 DEF TypeOK, vars, workflowVars, planVars, batchVars, taskVars
<1> QED BY <1>1, <1>2, <1>3, HandlerStepType, TaskStepType DEF Next

\* Every reachable state is well typed.
THEOREM TypeCorrect == Spec => []TypeOK
  BY InitType, NextType, PTL DEF Spec
-----------------------------------------------------------------------------
(* The scheduling invariant.                                               *)

LEMMA InitScheduling == Init => SchedulingInv
  BY DEF Init, SchedulingInv, BatchOK, TaskOK, BeforeExecution, PerTask

\* A handler that moves on outside of the batch loop keeps the invariant.
LEMMA MoveKeepsScheduling ==
  ASSUME TypeOK, SchedulingInv, NEW d \in Deliveries, NEW label \in HandlerPC,
         Goto(d, label), pc[d] # "join", label \notin {"join", "schedule"},
         label \in BeforeExecution => pc[d] \in BeforeExecution,
         UNCHANGED <<agent, dependsOn, batchVars, taskVars>>
  PROVE  SchedulingInv'
<1> SUFFICES ASSUME NEW e \in Deliveries
             PROVE  BatchOK(e)' /\ \A s \in Slots : TaskOK(e, s)'
  BY DEF SchedulingInv
<1>1. BatchOK(e)'
  BY DEF TypeOK, SchedulingInv, BatchOK, Goto, batchVars, taskVars
<1>2. \A s \in Slots : TaskOK(e, s)'
  BY DEF SchedulingInv, TaskOK, batchVars, taskVars
<1> QED BY <1>1, <1>2

\* Planning happens while every subtask is idle.
LEMMA PlanKeepsScheduling ==
  ASSUME TypeOK, SchedulingInv, NEW d \in Deliveries, NEW S, NEW who, Plan(d, S, who),
         pc[d] \in BeforeExecution, UNCHANGED <<batchVars, taskVars>>
  PROVE  SchedulingInv'
<1> SUFFICES ASSUME NEW e \in Deliveries
             PROVE  BatchOK(e)' /\ \A s \in Slots : TaskOK(e, s)'
  BY DEF SchedulingInv
<1>1. BatchOK(e)'
  BY DEF TypeOK, SchedulingInv, BatchOK, BeforeExecution, Plan, Goto, batchVars, taskVars
<1>2. ASSUME NEW s \in Slots PROVE TaskOK(e, s)'
  <2>1. CASE e = d
    <3>1. tpc[e][s] = "idle" /\ TaskOK(e, s)
      BY <2>1 DEF SchedulingInv, BatchOK
    <3> QED BY <3>1 DEF TaskOK, taskVars
  <2>2. CASE e # d
    <3>1. agent'[e] = agent[e] /\ dependsOn'[e] = dependsOn[e]
      BY <2>2 DEF TypeOK, Plan
    <3>2. TaskOK(e, s)
      BY DEF SchedulingInv
    <3> QED BY <3>1, <3>2 DEF TaskOK, batchVars, taskVars
  <2> QED BY <2>1, <2>2
<1> QED BY <1>1, <1>2

LEMMA PublishPlanKeepsScheduling ==
  ASSUME TypeOK, SchedulingInv, NEW d \in Deliveries, PublishPlan(d)
  PROVE  SchedulingInv'
<1>1. CASE Fail(d, "publish") /\ UNCHANGED pending
  BY <1>1, MoveKeepsScheduling
  DEF PublishPlan, Fail, BeforeExecution, planVars, batchVars
<1>2. CASE pending' = [pending EXCEPT ![d] = plan[d]] /\ Goto(d, "schedule")
  <2> SUFFICES ASSUME NEW e \in Deliveries
               PROVE  BatchOK(e)' /\ \A s \in Slots : TaskOK(e, s)'
    BY DEF SchedulingInv
  <2>1. BatchOK(e)'
    BY <1>2 DEF TypeOK, SchedulingInv, BatchOK, BeforeExecution, PublishPlan, Goto, taskVars
  <2>2. \A s \in Slots : TaskOK(e, s)'
    BY DEF SchedulingInv, TaskOK, PublishPlan, planVars, taskVars
  <2> QED BY <2>1, <2>2
<1> QED BY <1>1, <1>2 DEF PublishPlan

LEMMA StartBatchKeepsScheduling ==
  ASSUME TypeOK, SchedulingInv, NEW d \in Deliveries, StartBatch(d)
  PROVE  SchedulingInv'
<1> SUFFICES ASSUME NEW e \in Deliveries
             PROVE  BatchOK(e)' /\ \A s \in Slots : TaskOK(e, s)'
  BY DEF SchedulingInv
<1>1. CASE e = d
  <2>1. /\ pc[d] = "schedule" /\ pc'[d] = "join"
        /\ ready'[d] = Runnable(d) /\ pending'[d] = pending[d]
        /\ completedIds'[d] = completedIds[d]
        /\ \A s \in Slots : tpc'[d][s] = IF s \in Runnable(d) THEN "ready" ELSE tpc[d][s]
    BY DEF TypeOK, StartBatch, Goto
  <2>2. Runnable(d) \subseteq pending[d] /\ pending[d] \subseteq Slots
    BY DEF TypeOK, Runnable
  <2>3. BatchOK(d)
    BY DEF SchedulingInv
  <2>4. BatchOK(d)'
    BY <2>1, <2>2, <2>3 DEF BatchOK, BeforeExecution, StartBatch
  <2>5. ASSUME NEW s \in Slots PROVE TaskOK(d, s)'
    <3>1. TaskOK(d, s)
      BY DEF SchedulingInv
    <3>2. s \in Runnable(d) => /\ tpc[d][s] = "idle"
                               /\ dependsOn[d][s] \subseteq completedIds[d]
      BY <2>1, <2>2, <2>3 DEF BatchOK, Runnable
    <3> QED BY <2>1, <3>1, <3>2 DEF TaskOK, StartBatch, planVars
  <2> QED BY <1>1, <2>4, <2>5
<1>2. CASE e # d
  <2>1. /\ pc'[e] = pc[e] /\ ready'[e] = ready[e] /\ tpc'[e] = tpc[e]
        /\ pending'[e] = pending[e] /\ completedIds'[e] = completedIds[e]
    BY <1>2 DEF TypeOK, StartBatch, Goto
  <2> QED BY <2>1 DEF SchedulingInv, BatchOK, TaskOK, StartBatch, planVars
<1> QED BY <1>1, <1>2

LEMMA JoinBatchKeepsScheduling ==
  ASSUME TypeOK, SchedulingInv, NEW d \in Deliveries, JoinBatch(d)
  PROVE  SchedulingInv'
<1> SUFFICES ASSUME NEW e \in Deliveries
             PROVE  BatchOK(e)' /\ \A s \in Slots : TaskOK(e, s)'
  BY DEF SchedulingInv
<1>0. BatchOK(e) /\ \A s \in Slots : TaskOK(e, s)
  BY DEF SchedulingInv
<1>1. CASE e = d
  <2>1. /\ pc[d] = "join" /\ pc'[d] = "schedule"
        /\ \A s \in ready[d] : tpc[d][s] \in {"returned", "raised"}
        /\ pending'[d] = pending[d] \ ready[d]
        /\ completedIds'[d] = completedIds[d] \cup Finished(d)
    BY DEF TypeOK, JoinBatch, Goto
  <2>2. Finished(d) \subseteq ready[d] /\ \A s \in Finished(d) : tstatus[d][s] = "completed"
    BY DEF Finished
  <2>3. BatchOK(d)'
    BY <1>0, <1>1, <2>1, <2>2 DEF TypeOK, BatchOK, BeforeExecution, JoinBatch, taskVars
  <2>4. \A s \in Slots : TaskOK(d, s)'
    BY <1>0, <1>1, <2>1 DEF TaskOK, JoinBatch, planVars, taskVars
  <2> QED BY <1>1, <2>3, <2>4
<1>2. CASE e # d
  <2>1. /\ pc'[e] = pc[e] /\ pending'[e] = pending[e]
        /\ completedIds'[e] = completedIds[e]
    BY <1>2 DEF TypeOK, JoinBatch, Goto
  <2> QED BY <1>0, <2>1 DEF BatchOK, TaskOK, JoinBatch, planVars, taskVars
<1> QED BY <1>1, <1>2

LEMMA CancelKeepsScheduling ==
  ASSUME TypeOK, SchedulingInv, NEW d \in Deliveries, Cancel(d)
  PROVE  SchedulingInv'
<1> SUFFICES ASSUME NEW e \in Deliveries
             PROVE  BatchOK(e)' /\ \A s \in Slots : TaskOK(e, s)'
  BY DEF SchedulingInv
<1>0. BatchOK(e) /\ \A s \in Slots : TaskOK(e, s)
  BY DEF SchedulingInv
<1>1. CASE e = d
  <2>1. /\ pc'[d] = "cancelled" /\ pc[d] # "new" /\ pc[d] # "skipped"
        /\ \A s \in Slots : tpc'[d][s] = IF tpc[d][s] \in TaskAtRest
                                         THEN tpc[d][s] ELSE "cancelled"
    BY DEF TypeOK, Cancel, Goto
  <2>2. BatchOK(d)'
    BY <1>0, <1>1, <2>1 DEF BatchOK, BeforeExecution, Cancel, batchVars
  <2>3. \A s \in Slots : TaskOK(d, s)'
    BY <1>0, <1>1, <2>1 DEF TaskOK, Cancel, planVars, batchVars
  <2> QED BY <1>1, <2>2, <2>3
<1>2. CASE e # d
  <2>1. pc'[e] = pc[e] /\ tpc'[e] = tpc[e]
    BY <1>2 DEF TypeOK, Cancel, Goto
  <2> QED BY <1>0, <2>1 DEF BatchOK, TaskOK, Cancel, planVars, batchVars
<1> QED BY <1>1, <1>2

\* A live subtask coroutine belongs to the batch its handler waits for.
LEMMA LiveTaskIsReady ==
  ASSUME TypeOK, SchedulingInv, NEW d \in Deliveries, NEW s \in Slots, tpc[d][s] \notin TaskAtRest
  PROVE  pc[d] = "join" /\ s \in ready[d] /\ s \in pending[d] /\ s \notin completedIds[d]
  BY DEF SchedulingInv, BatchOK

\* The subtasks other than s of workflow d are as they were.
OthersUntouched(d, s) ==
  \A e \in Deliveries, t \in Slots :
    e # d \/ t # s => /\ tpc'[e][t] = tpc[e][t]
                      /\ tstatus'[e][t] = tstatus[e][t]
                      /\ attempt'[e][t] = attempt[e][t]
                      /\ calls'[e][t] = calls[e][t]

\* A step of a live subtask coroutine has to answer for its own subtask only.
LEMMA TaskFrame ==
  ASSUME TypeOK, SchedulingInv, NEW d \in Deliveries, NEW s \in Slots,
         tpc[d][s] \notin TaskAtRest, TaskOK(d, s)',
         UNCHANGED <<pc, planVars, batchVars>>,
         OthersUntouched(d, s)
  PROVE  SchedulingInv'
<1>1. pc[d] = "join" /\ s \in ready[d] /\ s \notin completedIds[d]
  BY LiveTaskIsReady
<1> SUFFICES ASSUME NEW e \in Deliveries
             PROVE  BatchOK(e)' /\ \A t \in Slots : TaskOK(e, t)'
  BY DEF SchedulingInv
<1>2. BatchOK(e)'
  <2>1. BatchOK(e) /\ pending[e] \subseteq Slots /\ completedIds[e] \subseteq Slots
    BY DEF TypeOK, SchedulingInv
  <2> QED BY <1>1, <2>1 DEF BatchOK, BeforeExecution, OthersUntouched, planVars, batchVars
<1>3. ASSUME NEW t \in Slots, e # d \/ t # s PROVE TaskOK(e, t)'
  <2>1. TaskOK(e, t)
    BY DEF SchedulingInv
  <2> QED BY <1>3, <2>1 DEF TaskOK, OthersUntouched, planVars, batchVars
<1> QED BY <1>2, <1>3

LEMMA TaskStepKeepsScheduling ==
  ASSUME TypeOK, SchedulingInv, NEW d \in Deliveries, NEW s \in Slots, TaskStep(d, s)
  PROVE  SchedulingInv'
<1>0. TaskOK(d, s) /\ attempt[d][s] \in Nat /\ calls[d][s] \in Nat
  BY DEF TypeOK, SchedulingInv
<1>a. \A a \in Agents : MaxRetries[a] \in Nat
  BY ConstantsAssumption
<1> USE DEF TaskGoto, Mark, workflowVars, planVars
<1>1. CASE StartSubtask(d, s)
  <2>1. TaskOK(d, s)'
    BY <1>0, <1>a, <1>1, ConstantsAssumption DEF TypeOK, StartSubtask, TaskOK, batchVars
  <2>2. OthersUntouched(d, s)
    BY <1>1 DEF TypeOK, StartSubtask, OthersUntouched
  <2>3. tpc[d][s] \notin TaskAtRest /\ UNCHANGED <<pc, planVars, batchVars>>
    BY <1>1 DEF StartSubtask
  <2> QED BY <2>1, <2>2, <2>3, TaskFrame
<1>2. CASE Dispatch(d, s)
  <2>1. TaskOK(d, s)'
    BY <1>0, <1>a, <1>2 DEF TypeOK, Dispatch, TaskOK, batchVars
  <2>2. OthersUntouched(d, s)
    BY <1>2 DEF TypeOK, Dispatch, OthersUntouched
  <2>3. tpc[d][s] \notin TaskAtRest /\ UNCHANGED <<pc, planVars, batchVars>>
    BY <1>2 DEF Dispatch
  <2> QED BY <2>1, <2>2, <2>3, TaskFrame
<1>3. CASE AgentSucceeds(d, s)
  <2>1. TaskOK(d, s)'
    BY <1>0, <1>a, <1>3 DEF TypeOK, AgentSucceeds, TaskOK, batchVars
  <2>2. OthersUntouched(d, s)
    BY <1>3 DEF TypeOK, AgentSucceeds, OthersUntouched
  <2>3. tpc[d][s] \notin TaskAtRest /\ UNCHANGED <<pc, planVars, batchVars>>
    BY <1>3 DEF AgentSucceeds
  <2> QED BY <2>1, <2>2, <2>3, TaskFrame
<1>4. CASE AgentFails(d, s)
  <2>1. TaskOK(d, s)'
    BY <1>0, <1>a, <1>4 DEF TypeOK, AgentFails, MayRetry, TaskOK, batchVars
  <2>2. OthersUntouched(d, s)
    BY <1>4 DEF TypeOK, AgentFails, OthersUntouched
  <2>3. tpc[d][s] \notin TaskAtRest /\ UNCHANGED <<pc, planVars, batchVars>>
    BY <1>4 DEF AgentFails
  <2> QED BY <2>1, <2>2, <2>3, TaskFrame
<1>5. CASE Retry(d, s)
  <2>1. TaskOK(d, s)'
    BY <1>0, <1>a, <1>5 DEF TypeOK, Retry, TaskOK, batchVars
  <2>2. OthersUntouched(d, s)
    BY <1>5 DEF TypeOK, Retry, OthersUntouched
  <2>3. tpc[d][s] \notin TaskAtRest /\ UNCHANGED <<pc, planVars, batchVars>>
    BY <1>5 DEF Retry
  <2> QED BY <2>1, <2>2, <2>3, TaskFrame
<1>6. CASE PublishTaskOutcome(d, s)
  <2>1. TaskOK(d, s)'
    BY <1>0, <1>a, <1>6 DEF TypeOK, PublishTaskOutcome, TaskOK, batchVars
  <2>2. OthersUntouched(d, s)
    BY <1>6 DEF TypeOK, PublishTaskOutcome, OthersUntouched
  <2>3. tpc[d][s] \notin TaskAtRest /\ UNCHANGED <<pc, planVars, batchVars>>
    BY <1>6 DEF PublishTaskOutcome
  <2> QED BY <2>1, <2>2, <2>3, TaskFrame
<1> QED BY <1>1, <1>2, <1>3, <1>4, <1>5, <1>6 DEF TaskStep

LEMMA HandlerStepKeepsScheduling ==
  ASSUME TypeOK, SchedulingInv, NEW d \in Deliveries, HandlerStep(d)
  PROVE  SchedulingInv'
<1> USE DEF BeforeExecution
<1>1. CASE SkipDuplicate(d)
  BY <1>1, MoveKeepsScheduling DEF SkipDuplicate, planVars
<1>2. CASE AcceptMessage(d)
  BY <1>2, MoveKeepsScheduling DEF AcceptMessage, planVars
<1>3. CASE ClassifyIntent(d)
  <2>1. CASE Goto(d, "publishIntent")
    BY <1>3, <2>1, MoveKeepsScheduling DEF ClassifyIntent
  <2>2. CASE Fail(d, "llm")
    BY <1>3, <2>2, MoveKeepsScheduling DEF ClassifyIntent, Fail
  <2> QED BY <1>3, <2>1, <2>2 DEF ClassifyIntent
<1>4. CASE PublishIntent(d)
  <2>1. CASE Goto(d, "decompose")
    BY <1>4, <2>1, MoveKeepsScheduling DEF PublishIntent, planVars
  <2>2. CASE Fail(d, "publish")
    BY <1>4, <2>2, MoveKeepsScheduling DEF PublishIntent, Fail, planVars
  <2> QED BY <1>4, <2>1, <2>2 DEF PublishIntent
<1>5. CASE RouteToTarget(d)
  BY <1>5, PlanKeepsScheduling DEF RouteToTarget, PlanOne
<1>6. CASE RouteByCapability(d)
  BY <1>6, PlanKeepsScheduling DEF RouteByCapability, PlanOne
<1>7. CASE AskSubtasks(d)
  BY <1>7, MoveKeepsScheduling DEF AskSubtasks, planVars
<1>8. CASE PlanFromAnswer(d)
  <2>1. ASSUME NEW S, NEW who, Plan(d, S, who)
        PROVE  SchedulingInv'
    BY <1>8, <2>1, PlanKeepsScheduling DEF PlanFromAnswer
  <2>2. CASE PlanOne(d, Fallback)
    BY <2>1, <2>2 DEF PlanOne
  <2>3. CASE Fail(d, "llm") /\ UNCHANGED <<plan, agent, dependsOn>>
    BY <1>8, <2>3, MoveKeepsScheduling DEF PlanFromAnswer, Fail
  <2> QED BY <1>8, <2>1, <2>2, <2>3 DEF PlanFromAnswer
<1>9. CASE PublishPlan(d)
  BY <1>9, PublishPlanKeepsScheduling
<1>10. CASE StartBatch(d)
  BY <1>10, StartBatchKeepsScheduling
<1>11. CASE JoinBatch(d)
  BY <1>11, JoinBatchKeepsScheduling
<1>12. CASE GiveUp(d)
  <2>1. CASE Goto(d, "aggregate")
    BY <1>12, <2>1, MoveKeepsScheduling DEF GiveUp, planVars
  <2>2. CASE Fail(d, "unresolvable")
    BY <1>12, <2>2, MoveKeepsScheduling DEF GiveUp, Fail, planVars
  <2> QED BY <1>12, <2>1, <2>2 DEF GiveUp
<1>13. CASE BeginAggregation(d)
  BY <1>13, MoveKeepsScheduling DEF BeginAggregation, planVars
<1>14. CASE Complete(d)
  BY <1>14, MoveKeepsScheduling DEF Complete, planVars
<1>15. CASE PublishCompleted(d)
  <2>1. CASE Goto(d, "returned")
    BY <1>15, <2>1, MoveKeepsScheduling DEF PublishCompleted, planVars
  <2>2. CASE Fail(d, "publish")
    BY <1>15, <2>2, MoveKeepsScheduling DEF PublishCompleted, Fail, planVars
  <2> QED BY <1>15, <2>1, <2>2 DEF PublishCompleted
<1>16. CASE PublishFailed(d)
  <2>1. CASE Goto(d, "returned")
    BY <1>16, <2>1, MoveKeepsScheduling DEF PublishFailed, planVars
  <2>2. CASE Goto(d, "escaped")
    BY <1>16, <2>2, MoveKeepsScheduling DEF PublishFailed, planVars
  <2> QED BY <1>16, <2>1, <2>2 DEF PublishFailed
<1> QED BY <1>1, <1>2, <1>3, <1>4, <1>5, <1>6, <1>7, <1>8, <1>9, <1>10, <1>11, <1>12,
           <1>13, <1>14, <1>15, <1>16 DEF HandlerStep

LEMMA NextKeepsScheduling == TypeOK /\ SchedulingInv /\ [Next]_vars => SchedulingInv'
<1> SUFFICES ASSUME TypeOK, SchedulingInv, [Next]_vars PROVE SchedulingInv'
  OBVIOUS
<1>1. ASSUME NEW a \in Agents, Register(a) \/ Deregister(a) PROVE SchedulingInv'
  BY <1>1 DEF SchedulingInv, BatchOK, TaskOK, Register, Deregister,
              workflowVars, planVars, batchVars, taskVars
<1>2. CASE UNCHANGED vars
  BY <1>2 DEF SchedulingInv, BatchOK, TaskOK, vars, workflowVars, planVars, batchVars, taskVars
<1> QED BY <1>1, <1>2, HandlerStepKeepsScheduling, TaskStepKeepsScheduling,
           CancelKeepsScheduling DEF Next

\* The loop variables, coroutines and statuses of every batch agree.
THEOREM Scheduling == Spec => []SchedulingInv
  BY TypeCorrect, InitScheduling, NextKeepsScheduling, PTL DEF Spec

\* No agent is called for a subtask before all its dependencies completed.
THEOREM DependenciesRespected == Spec => []DependenciesFirst
<1>1. SchedulingInv => DependenciesFirst
  <2> SUFFICES ASSUME SchedulingInv, NEW d \in Deliveries, NEW s \in Slots, calls[d][s] > 0
               PROVE  \A p \in dependsOn[d][s] : tstatus[d][p] = "completed"
    BY DEF DependenciesFirst
  <2>1. tpc[d][s] # "idle"
    BY DEF SchedulingInv, TaskOK
  <2> QED BY <2>1 DEF SchedulingInv, BatchOK, TaskOK
<1> QED BY <1>1, Scheduling, PTL

\* Outside of the gather no subtask coroutine is alive.
THEOREM NothingOutlivesTheBatch == Spec => []GatherJoins
<1>1. SchedulingInv => GatherJoins
  BY DEF SchedulingInv, BatchOK, GatherJoins
<1> QED BY <1>1, Scheduling, PTL

\* No retry policy is overrun.
THEOREM RetriesBounded == Spec => []RetryBudget
<1>1. SchedulingInv => RetryBudget
  BY DEF SchedulingInv, TaskOK, RetryBudget
<1> QED BY <1>1, Scheduling, PTL

\* A subtask whose agent answered is finished for good.
THEOREM SuccessIsFinal == Spec => SucceededNeverRerun
<1> DEFINE Kept == \A d \in Deliveries, s \in Slots :
                     tstatus[d][s] = "completed" => /\ tstatus'[d][s] = "completed"
                                                    /\ calls'[d][s] = calls[d][s]
<1>1. ASSUME TypeOK, SchedulingInv, NEW d \in Deliveries, NEW s \in Slots, TaskStep(d, s)
      PROVE  Kept
  <2>1. TaskOK(d, s)
    BY <1>1 DEF SchedulingInv
  <2>2. CASE tpc[d][s] \in {"ready", "dispatch", "running", "backoff"}
    <3>1. tstatus[d][s] # "completed"
      BY <2>1, <2>2 DEF TaskOK
    <3> QED BY <1>1, <3>1 DEF TypeOK, TaskStep, StartSubtask, Dispatch, AgentSucceeds,
               AgentFails, Retry, PublishTaskOutcome, Mark
  <2>3. CASE tpc[d][s] \in {"publishCompleted", "publishFailed"}
    BY <1>1, <2>3 DEF TaskStep, StartSubtask, Dispatch, AgentSucceeds,
                      AgentFails, Retry, PublishTaskOutcome
  <2> QED BY <1>1, <2>2, <2>3 DEF TaskStep, StartSubtask, Dispatch, AgentSucceeds,
             AgentFails, Retry, PublishTaskOutcome
<1>2. ASSUME NEW d \in Deliveries, HandlerStep(d) \/ Cancel(d) PROVE Kept
  BY <1>2 DEF HandlerStep, SkipDuplicate, AcceptMessage, ClassifyIntent, PublishIntent,
     RouteToTarget, RouteByCapability, AskSubtasks, PlanFromAnswer, PublishPlan, StartBatch,
     JoinBatch, GiveUp, BeginAggregation, Complete, PublishCompleted, PublishFailed, Cancel,
     taskVars
<1>3. ASSUME NEW a \in Agents, Register(a) \/ Deregister(a) PROVE Kept
  BY <1>3 DEF Register, Deregister, taskVars
<1>4. TypeOK /\ SchedulingInv /\ [Next]_vars => [Kept]_vars
  BY <1>1, <1>2, <1>3 DEF Next
<1> QED BY <1>4, TypeCorrect, Scheduling, PTL DEF Spec, SucceededNeverRerun

-----------------------------------------------------------------------------
(* Idempotency.                                                            *)

\* Accepted messages are marked, and a handler has a workflow exactly when it
\* got past the idempotency check.
IdempotencyInv ==
  /\ OneWorkflowPerKey
  /\ \A d \in Deliveries : /\ status[d] = "none" <=> pc[d] \in {"new", "skipped"}
                           /\ status[d] # "none" => KeyOf[d] \in marked

LEMMA InitIdempotency == Init => IdempotencyInv
  BY DEF Init, IdempotencyInv, OneWorkflowPerKey

\* A step of a handler that has a workflow keeps it.
LEMMA WorkKeepsIdempotency ==
  ASSUME TypeOK, IdempotencyInv, NEW d \in Deliveries, NEW label \in HandlerPC, Goto(d, label),
         pc[d] \notin {"new", "skipped"}, label \notin {"new", "skipped"}, UNCHANGED marked,
         \/ UNCHANGED status
         \/ \E st \in Status \ {"none"} : status' = [status EXCEPT ![d] = st]
  PROVE  IdempotencyInv'
<1>1. \A e \in Deliveries : /\ e # d => status'[e] = status[e] /\ pc'[e] = pc[e]
                            /\ status[d] # "none" /\ status'[d] # "none"
                            /\ pc'[d] = label
  BY DEF TypeOK, IdempotencyInv, Goto
<1> QED BY <1>1 DEF IdempotencyInv, OneWorkflowPerKey

LEMMA AcceptKeepsIdempotency ==
  ASSUME TypeOK, IdempotencyInv, NEW d \in Deliveries, AcceptMessage(d)
  PROVE  IdempotencyInv'
<1>1. /\ pc'[d] = "classify" /\ status'[d] = "routing" /\ marked' = marked \cup {KeyOf[d]}
      /\ \A e \in Deliveries : e # d => status'[e] = status[e] /\ pc'[e] = pc[e]
  BY DEF TypeOK, AcceptMessage, Goto
<1>2. \A e \in Deliveries : KeyOf[e] = KeyOf[d] => status[e] = "none"
  BY DEF IdempotencyInv, AcceptMessage
<1> QED BY <1>1, <1>2 DEF IdempotencyInv, OneWorkflowPerKey

\* What every step of a handler past the idempotency check has in common.
LEMMA WorkStep ==
  ASSUME TypeOK, NEW d \in Deliveries, HandlerStep(d) \/ Cancel(d),
         ~SkipDuplicate(d), ~AcceptMessage(d)
  PROVE  /\ pc[d] \notin HandlerDone \cup {"new"}
         /\ \E label \in HandlerPC \ {"new", "skipped"} : Goto(d, label)
         /\ UNCHANGED <<registered, marked>>
         /\ \/ UNCHANGED status
            \/ \E st \in Status \ {"none"} : status' = [status EXCEPT ![d] = st]
<1>1. CASE ClassifyIntent(d) \/ PublishIntent(d) \/ PublishPlan(d) \/ GiveUp(d)
  <2>1. ASSUME NEW cause, Fail(d, cause)
        PROVE  /\ \E label \in HandlerPC \ {"new", "skipped"} : Goto(d, label)
               /\ \E st \in Status \ {"none"} : status' = [status EXCEPT ![d] = st]
    BY <2>1 DEF Fail
  <2>2. CASE ClassifyIntent(d) BY <2>1, <2>2 DEF ClassifyIntent
  <2>3. CASE PublishIntent(d) BY <2>1, <2>3 DEF PublishIntent
  <2>4. CASE PublishPlan(d) BY <2>1, <2>4 DEF PublishPlan
  <2>5. CASE GiveUp(d) BY <2>1, <2>5 DEF GiveUp
  <2> QED BY <1>1, <2>2, <2>3, <2>4, <2>5
<1>2. CASE RouteToTarget(d) \/ RouteByCapability(d) \/ AskSubtasks(d)
  BY <1>2 DEF RouteToTarget, RouteByCapability, AskSubtasks, PlanOne, Plan
<1>3. CASE PlanFromAnswer(d)
  BY <1>3 DEF PlanFromAnswer, PlanOne, Plan, Fail
<1>4. CASE StartBatch(d) \/ JoinBatch(d) \/ BeginAggregation(d) \/ Complete(d)
  BY <1>4 DEF StartBatch, JoinBatch, BeginAggregation, Complete
<1>5. CASE PublishCompleted(d)
  BY <1>5 DEF PublishCompleted, Fail
<1>6. CASE PublishFailed(d)
  BY <1>6 DEF PublishFailed
<1>7. CASE Cancel(d)
  BY <1>7 DEF Cancel
<1> QED BY <1>1, <1>2, <1>3, <1>4, <1>5, <1>6, <1>7 DEF HandlerStep

LEMMA NextKeepsIdempotency == TypeOK /\ IdempotencyInv /\ [Next]_vars => IdempotencyInv'
<1> SUFFICES ASSUME TypeOK, IdempotencyInv, [Next]_vars PROVE IdempotencyInv'
  OBVIOUS
<1>1. ASSUME NEW d \in Deliveries, SkipDuplicate(d) PROVE IdempotencyInv'
  <2>1. /\ pc[d] = "new" /\ pc'[d] = "skipped" /\ UNCHANGED <<status, marked>>
        /\ \A e \in Deliveries : e # d => pc'[e] = pc[e]
    BY <1>1 DEF TypeOK, SkipDuplicate, Goto
  <2> QED BY <2>1 DEF IdempotencyInv, OneWorkflowPerKey
<1>2. ASSUME NEW d \in Deliveries, HandlerStep(d) \/ Cancel(d),
             ~SkipDuplicate(d), ~AcceptMessage(d)
      PROVE  IdempotencyInv'
  <2>1. PICK label \in HandlerPC \ {"new", "skipped"} : Goto(d, label)
    BY <1>2, WorkStep
  <2> QED BY <1>2, <2>1, WorkStep, WorkKeepsIdempotency
<1>3. ASSUME NEW d \in Deliveries, NEW s \in Slots, TaskStep(d, s) PROVE IdempotencyInv'
  <2>1. UNCHANGED <<pc, status, marked>>
    BY <1>3 DEF TaskStep, StartSubtask, Dispatch, AgentSucceeds, AgentFails, Retry,
                PublishTaskOutcome, workflowVars
  <2> QED BY <2>1 DEF IdempotencyInv, OneWorkflowPerKey
<1>4. ASSUME NEW a \in Agents, Register(a) \/ Deregister(a) PROVE IdempotencyInv'
  BY <1>4 DEF IdempotencyInv, OneWorkflowPerKey, Register, Deregister, workflowVars
<1>5. CASE UNCHANGED vars
  BY <1>5 DEF IdempotencyInv, OneWorkflowPerKey, vars, workflowVars
<1> QED BY <1>1, <1>2, <1>3, <1>4, <1>5, AcceptKeepsIdempotency DEF Next, HandlerStep

\* No two deliveries of one message become workflows.
THEOREM DuplicatesRejected == Spec => []OneWorkflowPerKey
<1>1. IdempotencyInv => OneWorkflowPerKey
  BY DEF IdempotencyInv
<1> QED BY <1>1, TypeCorrect, InitIdempotency, NextKeepsIdempotency, PTL DEF Spec

-----------------------------------------------------------------------------
(* Verdicts, errors and answers.                                           *)

\* What ReportsOK(d) reads.
WorkflowSame(d) ==
  /\ pc'[d] = pc[d] /\ status'[d] = status[d] /\ error'[d] = error[d]
  /\ result'[d] = result[d] /\ sent'[d] = sent[d]
  /\ plan'[d] = plan[d] /\ dependsOn'[d] = dependsOn[d]
  /\ pending'[d] = pending[d] /\ completedIds'[d] = completedIds[d]
  /\ tpc'[d] = tpc[d] /\ tstatus'[d] = tstatus[d] /\ tresult'[d] = tresult[d]

LEMMA SameReports ==
  ASSUME NEW d \in Deliveries, ReportsOK(d), WorkflowSame(d)
  PROVE  ReportsOK(d)'
<1>1. VerdictHonest(d)'
  BY DEF ReportsOK, WorkflowSame, VerdictHonest, Swallowed
<1>2. UnresolvableMeansBlocked(d)'
  BY DEF ReportsOK, WorkflowSame, UnresolvableMeansBlocked, Swallowed
<1>3. AnswerExplained(d)'
  BY DEF ReportsOK, WorkflowSame, AnswerExplained
<1>4. StageOK(d)'
  BY DEF ReportsOK, WorkflowSame, StageOK, BeforeExecution
<1>5. PlanOK(d)'
  BY DEF ReportsOK, WorkflowSame, PlanOK
<1> QED BY <1>1, <1>2, <1>3, <1>4, <1>5 DEF ReportsOK

LEMMA InitReports == Init => ReportsInv
<1> SUFFICES ASSUME Init, NEW d \in Deliveries PROVE ReportsOK(d)
  BY DEF ReportsInv
<1> QED BY DEF Init, PerTask, ReportsOK, VerdictHonest, UnresolvableMeansBlocked,
               AnswerExplained, StageOK, PlanOK, BeforeExecution

\* A handler's step leaves the other workflows as they were.
LEMMA OtherWorkflowsSame ==
  ASSUME TypeOK, NEW d \in Deliveries, HandlerStep(d) \/ Cancel(d),
         NEW e \in Deliveries, e # d
  PROVE  WorkflowSame(e)
<1> USE DEF TypeOK, Goto, Fail, planVars, batchVars, taskVars, WorkflowSame
<1>1. CASE SkipDuplicate(d) \/ AcceptMessage(d)
  BY <1>1 DEF SkipDuplicate, AcceptMessage
<1>2. CASE ClassifyIntent(d) \/ PublishIntent(d)
  BY <1>2 DEF ClassifyIntent, PublishIntent
<1>3. CASE RouteToTarget(d) \/ RouteByCapability(d) \/ AskSubtasks(d)
  BY <1>3 DEF RouteToTarget, RouteByCapability, AskSubtasks, PlanOne, Plan
<1>4. CASE PlanFromAnswer(d)
  BY <1>4 DEF PlanFromAnswer, PlanOne, Plan
<1>5. CASE PublishPlan(d)
  BY <1>5 DEF PublishPlan
<1>6. CASE StartBatch(d) \/ JoinBatch(d) \/ GiveUp(d)
  BY <1>6 DEF StartBatch, JoinBatch, GiveUp
<1>7. CASE BeginAggregation(d) \/ Complete(d)
  BY <1>7 DEF BeginAggregation, Complete
<1>8. CASE PublishCompleted(d) \/ PublishFailed(d)
  BY <1>8 DEF PublishCompleted, PublishFailed, PublishVerdict
<1>9. CASE Cancel(d)
  BY <1>9 DEF Cancel
<1> QED BY <1>1, <1>2, <1>3, <1>4, <1>5, <1>6, <1>7, <1>8, <1>9 DEF HandlerStep

\* The idempotency check.
LEMMA AcceptReports ==
  ASSUME TypeOK, SchedulingInv, NEW d \in Deliveries, ReportsOK(d),
         SkipDuplicate(d) \/ AcceptMessage(d)
  PROVE  ReportsOK(d)'
<1>1. CASE SkipDuplicate(d)
  <2>1. /\ pc[d] = "new" /\ pc'[d] = "skipped" /\ UNCHANGED <<error, result, sent, status>>
        /\ UNCHANGED <<plan, dependsOn, pending, completedIds, tpc, tstatus, tresult>>
    BY <1>1 DEF TypeOK, SkipDuplicate, Goto, planVars, batchVars, taskVars
  <2> QED BY <2>1 DEF ReportsOK, VerdictHonest, UnresolvableMeansBlocked, AnswerExplained,
                    StageOK, PlanOK, BeforeExecution, Swallowed
<1>2. CASE AcceptMessage(d)
  <2>1. /\ pc[d] = "new" /\ pc'[d] = "classify" /\ status'[d] = "routing"
        /\ UNCHANGED <<error, result, sent>>
        /\ UNCHANGED <<plan, dependsOn, pending, completedIds, tpc, tstatus, tresult>>
    BY <1>2 DEF TypeOK, AcceptMessage, Goto, planVars, batchVars, taskVars
  <2> QED BY <2>1 DEF ReportsOK, VerdictHonest, UnresolvableMeansBlocked, AnswerExplained,
                    StageOK, PlanOK, BeforeExecution, Swallowed
<1> QED BY <1>1, <1>2

\* The "except Exception" arm before the subtasks run.
LEMMA EarlyFailReports ==
  ASSUME TypeOK, NEW d \in Deliveries, ReportsOK(d), NEW cause \in {"llm", "publish"},
         Fail(d, cause), pc[d] \in BeforeExecution \ {"new", "skipped"},
         UNCHANGED <<result, sent, plan, dependsOn, batchVars, taskVars>>
  PROVE  ReportsOK(d)'
<1>1. /\ pc'[d] = "publishFailed" /\ status'[d] = "failed" /\ error'[d] = cause
      /\ UNCHANGED <<pending, completedIds, tpc, tstatus, tresult>>
  BY DEF TypeOK, Fail, Goto, batchVars, taskVars
<1> QED BY <1>1 DEF ReportsOK, VerdictHonest, UnresolvableMeansBlocked, AnswerExplained,
                    StageOK, PlanOK, BeforeExecution, Swallowed

\* A step from one stage before the execution to another.
LEMMA EarlyMoveReports ==
  ASSUME TypeOK, SchedulingInv, NEW d \in Deliveries, ReportsOK(d), NEW label, Goto(d, label),
         {pc[d], label} \subseteq BeforeExecution \ {"new", "skipped"},
         label = "publishPlan" => plan'[d] # {},
         UNCHANGED <<status, error, result, sent, batchVars, taskVars>>
  PROVE  ReportsOK(d)'
<1>1. /\ pc'[d] = label /\ pending[d] = {}
      /\ UNCHANGED <<pending, completedIds, tpc, tstatus, tresult>>
  BY DEF TypeOK, Goto, SchedulingInv, BatchOK, batchVars, taskVars
<1>2. status[d] = "routing" /\ error[d] = "none" /\ result[d] = "none" /\ sent[d] = {}
  BY DEF TypeOK, ReportsOK, StageOK
<1> QED BY <1>1, <1>2 DEF ReportsOK, VerdictHonest, UnresolvableMeansBlocked, AnswerExplained,
                    StageOK, PlanOK, BeforeExecution

LEMMA PlanReports ==
  ASSUME TypeOK, SchedulingInv, NEW d \in Deliveries, ReportsOK(d), NEW S, NEW who,
         Plan(d, S, who), S # {}, pc[d] \in {"decompose", "askSubtasks"},
         UNCHANGED <<status, error, result, sent, batchVars, taskVars>>
  PROVE  ReportsOK(d)'
<1>1. Goto(d, "publishPlan") /\ plan'[d] # {}
  BY DEF TypeOK, Plan
<1> QED BY <1>1, EarlyMoveReports DEF BeforeExecution

LEMMA PublishPlanReports ==
  ASSUME TypeOK, SchedulingInv, NEW d \in Deliveries, ReportsOK(d), PublishPlan(d)
  PROVE  ReportsOK(d)'
<1>1. CASE Fail(d, "publish") /\ UNCHANGED pending
  BY <1>1, EarlyFailReports DEF PublishPlan, BeforeExecution, planVars, batchVars
<1>2. CASE /\ status' = [status EXCEPT ![d] = "executing"]
           /\ pending' = [pending EXCEPT ![d] = plan[d]]
           /\ Goto(d, "schedule")
           /\ UNCHANGED error
  <2>1. /\ pc[d] = "publishPlan" /\ pc'[d] = "schedule" /\ status'[d] = "executing"
        /\ pending'[d] = plan[d]
        /\ UNCHANGED <<error, result, sent, plan, dependsOn, completedIds, tpc, tstatus, tresult>>
    BY <1>2 DEF TypeOK, PublishPlan, Goto, planVars, taskVars
  <2>2. status[d] = "routing" /\ error[d] = "none" /\ result[d] = "none" /\ sent[d] = {}
    BY <2>1 DEF TypeOK, ReportsOK, StageOK, BeforeExecution
  <2> QED BY <2>1, <2>2 DEF ReportsOK, VerdictHonest, UnresolvableMeansBlocked, AnswerExplained,
                    StageOK, PlanOK, BeforeExecution
<1> QED BY <1>1, <1>2 DEF PublishPlan

\* The batch loop.
LEMMA BatchReports ==
  ASSUME TypeOK, SchedulingInv, NEW d \in Deliveries, ReportsOK(d),
         StartBatch(d) \/ JoinBatch(d)
  PROVE  ReportsOK(d)'
<1>0. pc[d] \in {"schedule", "join"}
  BY DEF StartBatch, JoinBatch
<1>1. /\ status[d] = "executing" /\ error[d] = "none" /\ result[d] = "none" /\ sent[d] = {}
      /\ plan[d] # {}
  BY <1>0 DEF TypeOK, ReportsOK, StageOK, PlanOK
<1>2. CASE StartBatch(d)
  <2>1. /\ pc'[d] = "join"
        /\ UNCHANGED <<status, error, result, sent, plan, pending, completedIds, tstatus, tresult>>
        /\ \A s \in Slots : tpc'[d][s] = IF s \in Runnable(d) THEN "ready" ELSE tpc[d][s]
    BY <1>2 DEF TypeOK, StartBatch, Goto, planVars
  <2>2. Runnable(d) \subseteq pending[d] /\ pending[d] \subseteq plan[d] /\ plan[d] \subseteq Slots
    BY DEF TypeOK, Runnable, ReportsOK, PlanOK
  <2>3. PlanOK(d)'
    BY <1>1, <2>1, <2>2 DEF ReportsOK, PlanOK
  <2> QED BY <1>1, <2>1, <2>3 DEF ReportsOK, VerdictHonest, UnresolvableMeansBlocked,
                    AnswerExplained, StageOK,
                      BeforeExecution
<1>3. CASE JoinBatch(d)
  <2>1. /\ pc'[d] = "schedule"
        /\ UNCHANGED <<status, error, result, sent, plan, tpc, tstatus, tresult>>
        /\ pending'[d] = pending[d] \ ready[d]
        /\ completedIds'[d] = completedIds[d] \cup Finished(d)
        /\ \A s \in ready[d] : tpc[d][s] \in {"returned", "raised"}
    BY <1>3 DEF TypeOK, JoinBatch, Goto, planVars, taskVars
  <2>2. /\ pending[d] \subseteq plan[d] /\ plan[d] \subseteq Slots
        /\ \A s \in ready[d] : tpc[d][s] = "returned" =>
                                 tstatus[d][s] = "failed" \/ s \in Finished(d)
    BY DEF TypeOK, Finished, ReportsOK, PlanOK
  <2>3. PlanOK(d)'
    BY <1>1, <2>1, <2>2 DEF ReportsOK, PlanOK
  <2> QED BY <1>1, <2>1, <2>3 DEF ReportsOK, VerdictHonest, UnresolvableMeansBlocked,
                    AnswerExplained, StageOK,
                      BeforeExecution
<1> QED BY <1>2, <1>3

\* No subtask of a pending one has run, so the "break" of the loop is never
\* taken; what the error says of the plan is true.
LEMMA GiveUpReports ==
  ASSUME TypeOK, SchedulingInv, NEW d \in Deliveries, ReportsOK(d), GiveUp(d)
  PROVE  ReportsOK(d)'
<1>1. /\ pc[d] = "schedule" /\ pending[d] # {} /\ Runnable(d) = {}
      /\ UNCHANGED <<result, sent, plan, dependsOn, pending, completedIds, tpc, tstatus, tresult>>
  BY DEF GiveUp, planVars, batchVars, taskVars
<1>2. \A s \in pending[d] : s \in Slots /\ tstatus[d][s] = "pending"
  <2>1. pending[d] \subseteq Slots
    BY DEF TypeOK
  <2> QED BY <1>1, <2>1 DEF SchedulingInv, BatchOK, TaskOK
<1>3. pc'[d] = "publishFailed" /\ status'[d] = "failed" /\ error'[d] = "unresolvable"
  BY <1>2 DEF TypeOK, GiveUp, Fail, Goto
<1>4. /\ status[d] = "executing" /\ error[d] = "none" /\ result[d] = "none" /\ sent[d] = {}
      /\ PlanOK(d)
  BY <1>1 DEF TypeOK, ReportsOK, StageOK
<1>5. UnresolvableMeansBlocked(d)
  BY <1>4 DEF UnresolvableMeansBlocked
<1>6. \/ \E s \in plan[d] : tstatus[d][s] = "failed"
      \/ Swallowed(d) # {}
      \/ \E s \in pending[d] : ~(dependsOn[d][s] \subseteq plan[d])
      \/ \A s \in pending[d] : dependsOn[d][s] \cap pending[d] # {}
  <2> SUFFICES ASSUME \A s \in plan[d] : tstatus[d][s] # "failed",
                      \A s \in plan[d] : tpc[d][s] # "raised",
                      NEW s \in pending[d], dependsOn[d][s] \subseteq plan[d]
               PROVE  dependsOn[d][s] \cap pending[d] # {}
    BY DEF Swallowed
  <2>1. PICK p \in dependsOn[d][s] : p \notin completedIds[d]
    BY <1>1 DEF Runnable
  <2>2. p \in plan[d]
    BY <2>1
  <2>3. p \in pending[d]
    BY <1>4, <2>1, <2>2 DEF PlanOK
  <2> QED BY <2>1, <2>3
<1>7. UnresolvableMeansBlocked(d)'
  BY <1>1, <1>6 DEF UnresolvableMeansBlocked, Swallowed
<1> QED BY <1>1, <1>3, <1>4, <1>7 DEF ReportsOK, VerdictHonest, AnswerExplained, StageOK, PlanOK,
                      BeforeExecution

LEMMA BeginAggregationReports ==
  ASSUME TypeOK, SchedulingInv, NEW d \in Deliveries, ReportsOK(d), BeginAggregation(d)
  PROVE  ReportsOK(d)'
<1>1. /\ pc[d] = "schedule" /\ pending[d] = {} /\ pc'[d] = "aggregate" /\ status'[d] = "aggregating"
      /\ UNCHANGED <<error, result, sent, plan, dependsOn, pending, completedIds, tpc, tstatus,
                     tresult>>
  BY DEF TypeOK, BeginAggregation, Goto, planVars, batchVars, taskVars
<1>2. status[d] = "executing" /\ error[d] = "none" /\ result[d] = "none" /\ sent[d] = {}
  BY <1>1 DEF TypeOK, ReportsOK, StageOK
<1> QED BY <1>1, <1>2 DEF ReportsOK, VerdictHonest, UnresolvableMeansBlocked, AnswerExplained,
                    StageOK, PlanOK, BeforeExecution

LEMMA CompleteReports ==
  ASSUME TypeOK, SchedulingInv, NEW d \in Deliveries, ReportsOK(d), Complete(d)
  PROVE  ReportsOK(d)'
<1>1. /\ pc[d] = "aggregate" /\ pc'[d] = "publishCompleted" /\ status'[d] = "completed"
      /\ result'[d] = AggregateResults(d)
      /\ UNCHANGED <<error, sent, plan, dependsOn, pending, completedIds, tpc, tstatus, tresult>>
  BY DEF TypeOK, Complete, Goto, planVars, batchVars, taskVars
<1>2. /\ status[d] = "aggregating" /\ error[d] = "none" /\ sent[d] = {}
      /\ PlanOK(d) /\ plan[d] \subseteq Slots
  BY <1>1 DEF TypeOK, ReportsOK, StageOK
<1>3. VerdictHonest(d)'
  <2>1. CASE AggregateResults(d) = "failure"
    <3>1. Results(d) = {} /\ Errors(d) # {}
      BY <2>1 DEF AggregateResults
    <3> QED BY <1>1, <1>2, <2>1, <3>1 DEF VerdictHonest, Results, Errors, PlanOK
  <2>2. CASE AggregateResults(d) = "success" /\ Results(d) # {}
    BY <1>1, <2>2 DEF VerdictHonest, Results
  <2>3. CASE AggregateResults(d) = "success" /\ Errors(d) = {}
    <3>1. PICK s \in plan[d] : TRUE
      BY <1>2 DEF PlanOK
    <3>2. tpc[d][s] = "raised" \/ tstatus[d][s] = "completed"
      BY <1>2, <2>3 DEF PlanOK, Errors, SchedulingInv, BatchOK
    <3> QED BY <1>1, <2>3, <3>2 DEF VerdictHonest, Swallowed
  <2> QED BY <2>1, <2>2, <2>3 DEF AggregateResults
<1>4. result'[d] # "none"
  BY <1>1 DEF AggregateResults
<1> QED BY <1>1, <1>2, <1>3, <1>4 DEF ReportsOK, UnresolvableMeansBlocked, AnswerExplained,
                    StageOK, PlanOK,
                      BeforeExecution

\* The publish of the terminal event, inside the try block and in its handler.
LEMMA PublishCompletedReports ==
  ASSUME TypeOK, SchedulingInv, NEW d \in Deliveries, ReportsOK(d), PublishCompleted(d)
  PROVE  ReportsOK(d)'
<1>0. PICK outcome \in PublishOutcomes :
        /\ PublishVerdict(d, "completed", outcome)
        /\ IF outcome \in {"sent", "dropped"}
           THEN Goto(d, "returned") /\ UNCHANGED <<status, error>>
           ELSE Fail(d, "publish")
  BY DEF PublishCompleted
<1>1. /\ pc[d] = "publishCompleted"
      /\ UNCHANGED <<result, plan, dependsOn, pending, completedIds, tpc, tstatus, tresult>>
  BY DEF PublishCompleted, planVars, batchVars, taskVars
<1>2. status[d] = "completed" /\ error[d] = "none" /\ sent[d] = {} /\ result[d] # "none"
  BY <1>1 DEF TypeOK, ReportsOK, StageOK
<1>3. sent'[d] \subseteq {"completed"}
  BY <1>0, <1>2 DEF TypeOK, PublishVerdict
<1>4. CASE outcome \in {"sent", "dropped"}
  <2>1. pc'[d] = "returned" /\ UNCHANGED <<status, error>>
    BY <1>0, <1>4 DEF TypeOK, Goto
  <2> QED BY <1>1, <1>2, <1>3, <2>1 DEF ReportsOK, VerdictHonest, UnresolvableMeansBlocked,
                    AnswerExplained, StageOK,
                      PlanOK, BeforeExecution, Swallowed
<1>5. CASE outcome \notin {"sent", "dropped"}
  <2>1. pc'[d] = "publishFailed" /\ status'[d] = "failed" /\ error'[d] = "publish"
    BY <1>0, <1>5 DEF TypeOK, Goto, Fail
  <2>2. PublishRaises /\ PublishRaises'
    BY <1>5, ConstantsAssumption DEF PublishRaises, Outcomes
  <2> QED BY <1>1, <1>2, <1>3, <2>1, <2>2 DEF ReportsOK, VerdictHonest,
                    UnresolvableMeansBlocked, AnswerExplained,
                      StageOK, PlanOK, BeforeExecution, Swallowed
<1> QED BY <1>4, <1>5

LEMMA PublishFailedReports ==
  ASSUME TypeOK, SchedulingInv, NEW d \in Deliveries, ReportsOK(d), PublishFailed(d)
  PROVE  ReportsOK(d)'
<1>0. PICK outcome \in PublishOutcomes :
        /\ PublishVerdict(d, "failed", outcome)
        /\ Goto(d, IF outcome \in {"sent", "dropped"} THEN "returned" ELSE "escaped")
  BY DEF PublishFailed
<1>1. /\ pc[d] = "publishFailed" /\ pc'[d] \in {"returned", "escaped"}
      /\ UNCHANGED <<status, error, result, plan, dependsOn, pending, completedIds, tpc, tstatus,
                     tresult>>
  BY <1>0 DEF TypeOK, PublishFailed, Goto, planVars, batchVars, taskVars
<1>2. status[d] = "failed"
  BY <1>1 DEF ReportsOK, StageOK
<1>3. sent'[d] \subseteq sent[d] \cup {"failed"}
  BY <1>0 DEF TypeOK, PublishVerdict
<1> QED BY <1>1, <1>2, <1>3 DEF ReportsOK, VerdictHonest, UnresolvableMeansBlocked, AnswerExplained,
                    StageOK, PlanOK, BeforeExecution, Swallowed

LEMMA CancelReports ==
  ASSUME TypeOK, SchedulingInv, NEW d \in Deliveries, ReportsOK(d), Cancel(d)
  PROVE  ReportsOK(d)'
<1>1. /\ pc[d] \notin HandlerDone \cup {"new"} /\ pc'[d] = "cancelled"
      /\ UNCHANGED <<status, error, result, sent, plan, dependsOn, pending, completedIds, tstatus,
                     tresult>>
      /\ \A s \in Slots : tpc'[d][s] = IF tpc[d][s] \in TaskAtRest THEN tpc[d][s] ELSE "cancelled"
  BY DEF TypeOK, Cancel, Goto, planVars, batchVars
<1>2. plan[d] \subseteq Slots /\ pending[d] \subseteq Slots
  BY DEF TypeOK
<1>3. PlanOK(d)' /\ StageOK(d)' /\ AnswerExplained(d)'
  BY <1>1, <1>2 DEF ReportsOK, AnswerExplained, PlanOK, StageOK, BeforeExecution
<1>4. Swallowed(d)' = Swallowed(d)
  BY <1>1, <1>2 DEF Swallowed
<1>5. VerdictHonest(d)' /\ UnresolvableMeansBlocked(d)'
  BY <1>1, <1>4 DEF ReportsOK, VerdictHonest, UnresolvableMeansBlocked
<1> QED BY <1>3, <1>5 DEF ReportsOK

LEMMA HandlerStepReports ==
  ASSUME TypeOK, SchedulingInv, NEW d \in Deliveries, ReportsOK(d), HandlerStep(d)
  PROVE  ReportsOK(d)'
<1> USE DEF BeforeExecution
<1>1. CASE ClassifyIntent(d)
  <2>1. CASE Goto(d, "publishIntent") /\ UNCHANGED <<status, error>>
    BY <1>1, <2>1, EarlyMoveReports DEF ClassifyIntent
  <2>2. CASE Fail(d, "llm") /\ UNCHANGED intent
    BY <1>1, <2>2, EarlyFailReports DEF ClassifyIntent
  <2> QED BY <1>1, <2>1, <2>2 DEF ClassifyIntent
<1>2. CASE PublishIntent(d)
  <2>1. CASE Goto(d, "decompose") /\ UNCHANGED <<status, error>>
    BY <1>2, <2>1, EarlyMoveReports DEF PublishIntent
  <2>2. CASE Fail(d, "publish")
    BY <1>2, <2>2, EarlyFailReports DEF PublishIntent, planVars
  <2> QED BY <1>2, <2>1, <2>2 DEF PublishIntent
<1>3. ASSUME NEW a, PlanOne(d, a), pc[d] \in {"decompose", "askSubtasks"},
             UNCHANGED <<status, error, result, sent, batchVars, taskVars>>
      PROVE  ReportsOK(d)'
  BY <1>3, PlanReports DEF PlanOne
<1>4. CASE RouteToTarget(d) \/ RouteByCapability(d)
  BY <1>3, <1>4 DEF RouteToTarget, RouteByCapability
<1>5. CASE AskSubtasks(d)
  BY <1>5, EarlyMoveReports DEF AskSubtasks
<1>6. CASE PlanFromAnswer(d)
  <2>1. ASSUME NEW S \in (SUBSET Slots) \ {{}}, NEW who \in [S -> registered],
               Plan(d, S, [s \in Slots |-> IF s \in S THEN who[s] ELSE Fallback]),
               UNCHANGED <<status, error>>
        PROVE  ReportsOK(d)'
    BY <1>6, <2>1, PlanReports DEF PlanFromAnswer
  <2>2. CASE PlanOne(d, Fallback) /\ UNCHANGED <<status, error>>
    BY <1>3, <1>6, <2>2 DEF PlanFromAnswer
  <2>3. CASE Fail(d, "llm") /\ UNCHANGED <<plan, agent, dependsOn>>
    BY <1>6, <2>3, EarlyFailReports DEF PlanFromAnswer
  <2> QED BY <1>6, <2>1, <2>2, <2>3 DEF PlanFromAnswer
<1> QED BY <1>1, <1>2, <1>4, <1>5, <1>6, AcceptReports, PublishPlanReports, BatchReports,
           GiveUpReports, BeginAggregationReports, CompleteReports, PublishCompletedReports,
           PublishFailedReports DEF HandlerStep

\* A subtask coroutine moves only under the join, where nothing is reported.
LEMMA TaskStepReports ==
  ASSUME TypeOK, SchedulingInv, NEW d \in Deliveries, ReportsOK(d), NEW s \in Slots,
         TaskStep(d, s)
  PROVE  ReportsOK(d)'
<1>1. /\ tpc[d][s] \notin TaskAtRest
      /\ UNCHANGED <<workflowVars, planVars, batchVars>>
  BY DEF TaskStep, StartSubtask, Dispatch, AgentSucceeds, AgentFails, Retry, PublishTaskOutcome
<1>2. pc[d] = "join" /\ s \in pending[d]
  BY <1>1, LiveTaskIsReady
<1>3. /\ status[d] = "executing" /\ error[d] = "none" /\ result[d] = "none" /\ sent[d] = {}
      /\ PlanOK(d) /\ pending[d] \subseteq Slots /\ plan[d] \subseteq Slots
  BY <1>2 DEF TypeOK, ReportsOK, StageOK
<1>4. \A t \in Slots : t # s => /\ tpc'[d][t] = tpc[d][t] /\ tstatus'[d][t] = tstatus[d][t]
                                /\ tresult'[d][t] = tresult[d][t]
  BY DEF TypeOK, TaskStep, StartSubtask, Dispatch, AgentSucceeds, AgentFails, Retry,
         PublishTaskOutcome, Mark, TaskGoto
<1>5. /\ tpc'[d][s] = "returned" => tstatus'[d][s] \in {"completed", "failed"}
      /\ tresult'[d][s] = "data" => tstatus'[d][s] = "completed"
  <2>1. TaskOK(d, s) /\ (tresult[d][s] = "data" => tstatus[d][s] = "completed")
    BY <1>3 DEF SchedulingInv, PlanOK
  <2>a. /\ tpc \in [Deliveries -> [Slots -> TaskPC]]
        /\ tstatus \in [Deliveries -> [Slots -> {"pending", "executing", "completed", "failed"}]]
        /\ tresult \in [Deliveries -> [Slots -> {"none", "empty", "data"}]]
    BY DEF TypeOK
  <2> USE <2>a DEF Mark, TaskGoto
  <2>2. CASE StartSubtask(d, s) BY <2>1, <2>2 DEF StartSubtask, TaskOK
  <2>3. CASE Dispatch(d, s) BY <2>1, <2>3 DEF Dispatch, TaskOK
  <2>4. CASE AgentSucceeds(d, s) BY <2>1, <2>4 DEF AgentSucceeds, TaskOK
  <2>5. CASE AgentFails(d, s) BY <2>1, <2>5 DEF AgentFails, TaskOK
  <2>6. CASE Retry(d, s) BY <2>1, <2>6 DEF Retry, TaskOK
  <2>7. CASE PublishTaskOutcome(d, s) BY <2>1, <2>7 DEF PublishTaskOutcome, TaskOK
  <2> QED BY <2>2, <2>3, <2>4, <2>5, <2>6, <2>7 DEF TaskStep
<1>6. PlanOK(d)'
  BY <1>1, <1>2, <1>3, <1>4, <1>5 DEF PlanOK, workflowVars, planVars, batchVars
<1> QED BY <1>1, <1>3, <1>6 DEF ReportsOK, VerdictHonest, UnresolvableMeansBlocked,
                    AnswerExplained, StageOK,
           BeforeExecution, workflowVars

LEMMA NextReports == TypeOK /\ SchedulingInv /\ ReportsInv /\ [Next]_vars => ReportsInv'
<1> SUFFICES ASSUME TypeOK, SchedulingInv, ReportsInv, [Next]_vars, NEW e \in Deliveries
             PROVE  ReportsOK(e)'
  BY DEF ReportsInv
<1>0. ReportsOK(e)
  BY DEF ReportsInv
<1>1. ASSUME NEW d \in Deliveries, HandlerStep(d) \/ Cancel(d) PROVE ReportsOK(e)'
  <2>1. CASE e = d
    BY <1>0, <1>1, <2>1, HandlerStepReports, CancelReports
  <2>2. CASE e # d
    BY <1>0, <1>1, <2>2, OtherWorkflowsSame, SameReports
  <2> QED BY <2>1, <2>2
<1>2. ASSUME NEW d \in Deliveries, NEW s \in Slots, TaskStep(d, s) PROVE ReportsOK(e)'
  <2>1. CASE e = d
    BY <1>0, <1>2, <2>1, TaskStepReports
  <2>2. CASE e # d
    <3>1. WorkflowSame(e)
      BY <1>2, <2>2 DEF TypeOK, TaskStep, StartSubtask, Dispatch, AgentSucceeds, AgentFails,
         Retry, PublishTaskOutcome, Mark, TaskGoto, WorkflowSame, workflowVars, planVars, batchVars
    <3> QED BY <1>0, <3>1, SameReports
  <2> QED BY <2>1, <2>2
<1>3. CASE UNCHANGED vars \/ \E a \in Agents : Register(a) \/ Deregister(a)
  <2>1. WorkflowSame(e)
    BY <1>3 DEF Register, Deregister, WorkflowSame, vars, workflowVars, planVars, batchVars,
                    taskVars
  <2> QED BY <1>0, <2>1, SameReports
<1> QED BY <1>1, <1>2, <1>3 DEF Next

\* Stages, verdicts, errors and plans of every workflow agree.
THEOREM Reports == Spec => []ReportsInv
  BY TypeCorrect, Scheduling, InitReports, NextReports, PTL DEF Spec

\* Verdicts, error texts and published answers tell the truth.
THEOREM ReportsAreHonest == Spec => []ReportsHonest
<1>1. ReportsInv => ReportsHonest
  BY DEF ReportsInv, ReportsOK, ReportsHonest
<1> QED BY <1>1, Reports, PTL

\* No subtask is forgotten when the workflow aggregates, but for the swallowed.
THEOREM NothingForgotten == Spec => []SettledBeforeAggregation
<1>1. SchedulingInv /\ ReportsInv => SettledBeforeAggregation
  <2> SUFFICES ASSUME SchedulingInv, NEW d \in Deliveries, PlanOK(d),
                      status[d] \in {"aggregating", "completed"},
                      NEW s \in plan[d] \ Swallowed(d)
               PROVE  tstatus[d][s] \in {"completed", "failed"}
    BY DEF SettledBeforeAggregation, ReportsInv, ReportsOK
  <2> QED BY DEF PlanOK, SchedulingInv, BatchOK, Swallowed
<1> QED BY <1>1, Scheduling, Reports, PTL

\* Types, batches, retries and the aggregation together (lines 286-420).
THEOREM WorkflowsCorrect == Spec => []WorkflowInv
<1>1. TypeOK /\ GatherJoins /\ RetryBudget /\ SettledBeforeAggregation => WorkflowInv
  BY DEF WorkflowInv
<1> QED BY <1>1, TypeCorrect, NothingOutlivesTheBatch, RetriesBounded, NothingForgotten, PTL

-----------------------------------------------------------------------------
(* Implementation of MessageService.                                       *)

\* What is abstracted of the state is a function of these.
LEMMA ServiceStutter ==
  ASSUME UNCHANGED marked,
         \A e \in Deliveries : \A st \in Terminal : status'[e] = st <=> status[e] = st,
         \A e \in Deliveries : sent'[e] = sent[e]
  PROVE  UNCHANGED Service!vars
<1>1. \A k \in Keys : PhaseOf(k)' = PhaseOf(k)
  BY DEF PhaseOf, Some
<1>2. \A k \in Keys : AnswersOf(k)' = AnswersOf(k)
  BY DEF AnswersOf
<1> QED BY <1>1, <1>2 DEF Service!vars

\* The message of a handler that has a workflow belongs to it alone.
LEMMA KeyOwner ==
  ASSUME IdempotencyInv, NEW d \in Deliveries, status[d] # "none"
  PROVE  /\ KeyOf[d] \in Keys /\ KeyOf[d] \in marked
         /\ \A e \in Deliveries : e # d /\ KeyOf[e] = KeyOf[d] => status[e] = "none"
  BY ConstantsAssumption DEF IdempotencyInv, OneWorkflowPerKey

LEMMA AcceptImplements ==
  ASSUME TypeOK, IdempotencyInv, NEW d \in Deliveries, AcceptMessage(d)
  PROVE  Service!Next
<1> DEFINE k == KeyOf[d]
<1>1. /\ k \in Keys /\ k \notin marked /\ marked' = marked \cup {k} /\ UNCHANGED sent
      /\ status'[d] = "routing" /\ \A e \in Deliveries : e # d => status'[e] = status[e]
  BY ConstantsAssumption DEF TypeOK, AcceptMessage
<1>2. \A e \in Deliveries : KeyOf[e] = k => status[e] = "none"
  BY <1>1 DEF IdempotencyInv
<1>3. PhaseOf(k) = "unseen" /\ PhaseOf(k)' = "working"
  BY <1>1, <1>2 DEF PhaseOf, Some
<1>4. \A j \in Keys : j # k => PhaseOf(j)' = PhaseOf(j)
  <2> SUFFICES ASSUME NEW j \in Keys, j # k PROVE PhaseOf(j)' = PhaseOf(j)
    OBVIOUS
  <2>1. \A st \in Terminal : Some(j, st)' = Some(j, st)
    BY <1>1 DEF Some
  <2> QED BY <1>1, <2>1 DEF PhaseOf
<1>5. \A j \in Keys : AnswersOf(j)' = AnswersOf(j)
  BY <1>1 DEF AnswersOf
<1>6. Service!Accept(k)
  BY <1>1, <1>3, <1>4, <1>5 DEF Service!Accept
<1> QED BY <1>1, <1>6 DEF Service!Next

LEMMA SettleImplements ==
  ASSUME TypeOK, IdempotencyInv, NEW d \in Deliveries, NEW st \in Terminal,
         status[d] \notin Terminal \cup {"none"}, status' = [status EXCEPT ![d] = st],
         UNCHANGED <<marked, sent>>
  PROVE  Service!Next
<1> DEFINE k == KeyOf[d]
<1>1. /\ k \in Keys /\ k \in marked
      /\ \A e \in Deliveries : e # d /\ KeyOf[e] = k => status[e] = "none"
  BY KeyOwner
<1>2. status'[d] = st /\ \A e \in Deliveries : e # d => status'[e] = status[e]
  BY DEF TypeOK
<1>3. PhaseOf(k) = "working" /\ PhaseOf(k)' = st
  BY <1>1, <1>2 DEF PhaseOf, Some
<1>4. \A j \in Keys : j # k => PhaseOf(j)' = PhaseOf(j)
  <2> SUFFICES ASSUME NEW j \in Keys, j # k PROVE PhaseOf(j)' = PhaseOf(j)
    OBVIOUS
  <2>1. \A v \in Terminal : Some(j, v)' = Some(j, v)
    BY <1>2 DEF Some
  <2> QED BY <2>1 DEF PhaseOf
<1>5. \A j \in Keys : AnswersOf(j)' = AnswersOf(j)
  BY DEF AnswersOf
<1>6. Service!Settle(k)
  BY <1>1, <1>3, <1>4, <1>5 DEF Service!Settle, Service!Verdict
<1> QED BY <1>1, <1>6 DEF Service!Next

LEMMA AnswerImplements ==
  ASSUME TypeOK, IdempotencyInv, ReportsInv, NEW d \in Deliveries, NEW v \in Terminal,
         status[d] = v, sent[d] \subseteq Terminal \ {v}, sent' = [sent EXCEPT ![d] = @ \cup {v}],
         UNCHANGED <<marked, status>>
  PROVE  Service!Next
<1> DEFINE k == KeyOf[d]
<1>1. /\ k \in Keys /\ k \in marked
      /\ \A e \in Deliveries : e # d /\ KeyOf[e] = k => status[e] = "none"
  BY KeyOwner
<1>2. sent'[d] = sent[d] \cup {v} /\ \A e \in Deliveries : e # d => sent'[e] = sent[e]
  BY DEF TypeOK
<1>3. \A e \in Deliveries : e # d /\ KeyOf[e] = k => sent[e] = {}
  BY <1>1 DEF ReportsInv, ReportsOK, StageOK
<1>4. \A j \in Keys : PhaseOf(j)' = PhaseOf(j)
  BY DEF PhaseOf, Some
<1>5. PhaseOf(k) = v
  BY <1>1 DEF PhaseOf, Some
<1>6. AnswersOf(k) \subseteq {d} \X (Terminal \ {v}) /\ AnswersOf(k)' = AnswersOf(k) \cup {<<d, v>>}
  BY <1>2, <1>3 DEF AnswersOf
<1>7. \A j \in Keys : j # k => AnswersOf(j)' = AnswersOf(j)
  BY <1>2 DEF AnswersOf
<1>8. Service!Answer(k)
  BY <1>1, <1>4, <1>5, <1>6, <1>7 DEF Service!Answer, Service!Verdict, Terminal
<1> QED BY <1>1, <1>8 DEF Service!Next

\* The publish of WORKFLOW_COMPLETED raised, and the bus may have taken it.
LEMMA RetractImplements ==
  ASSUME TypeOK, IdempotencyInv, ReportsInv, PublishRaises, NEW d \in Deliveries,
         status[d] = "completed", sent[d] = {}, status' = [status EXCEPT ![d] = "failed"],
         sent' \in {sent, [sent EXCEPT ![d] = {"completed"}]}, UNCHANGED marked
  PROVE  Service!Next
<1> DEFINE k == KeyOf[d]
<1>1. /\ k \in Keys /\ k \in marked
      /\ \A e \in Deliveries : e # d /\ KeyOf[e] = k => status[e] = "none"
  BY KeyOwner
<1>2. status'[d] = "failed" /\ \A e \in Deliveries : e # d => status'[e] = status[e] /\ sent'[e] = sent[e]
  BY DEF TypeOK
<1>3. \A e \in Deliveries : e # d /\ KeyOf[e] = k => sent[e] = {}
  BY <1>1 DEF ReportsInv, ReportsOK, StageOK
<1>4. PhaseOf(k) = "completed" /\ PhaseOf(k)' = "failed"
  BY <1>1, <1>2 DEF PhaseOf, Some
<1>5. \A j \in Keys : j # k => PhaseOf(j)' = PhaseOf(j) /\ AnswersOf(j)' = AnswersOf(j)
  <2> SUFFICES ASSUME NEW j \in Keys, j # k
               PROVE  PhaseOf(j)' = PhaseOf(j) /\ AnswersOf(j)' = AnswersOf(j)
    OBVIOUS
  <2>1. \A v \in Terminal : Some(j, v)' = Some(j, v)
    BY <1>2 DEF Some
  <2>2. PhaseOf(j)' = PhaseOf(j)
    BY <2>1 DEF PhaseOf, Terminal
  <2>3. AnswersOf(j)' = AnswersOf(j)
    BY <1>2 DEF AnswersOf
  <2> QED BY <2>2, <2>3
<1>6. AnswersOf(k) = {}
  BY <1>3 DEF AnswersOf
<1>7. AnswersOf(k)' = {} \/ AnswersOf(k)' = {<<d, "completed">>}
  <2>1. CASE sent' = sent
    BY <1>6, <2>1 DEF AnswersOf
  <2>2. CASE sent' = [sent EXCEPT ![d] = {"completed"}]
    <3>1. sent'[d] = {"completed"}
      BY <2>2 DEF TypeOK
    <3> QED BY <1>2, <1>3, <3>1 DEF AnswersOf, Terminal
  <2> QED BY <2>1, <2>2
<1>8. Service!Retract(k)
  BY <1>1, <1>4, <1>5, <1>6, <1>7 DEF Service!Retract
<1> QED BY <1>1, <1>8 DEF Service!Next


LEMMA InitImplements == Init => Service!Init
<1> SUFFICES ASSUME Init PROVE Service!Init
  OBVIOUS
<1>1. \A k \in Keys : PhaseOf(k) = "unseen"
  BY DEF Init, PhaseOf
<1>2. \A k \in Keys : AnswersOf(k) = {}
  BY DEF Init, AnswersOf
<1> QED BY <1>1, <1>2 DEF Service!Init

\* Every handler step accepts, settles, answers, retracts or stutters.
LEMMA HandlerStepImplements ==
  ASSUME TypeOK, SchedulingInv, IdempotencyInv, ReportsInv, NEW d \in Deliveries, HandlerStep(d)
  PROVE  Service!Next \/ UNCHANGED Service!vars
<1>0. StageOK(d) /\ pc[d] \in HandlerPC
  BY DEF ReportsInv, ReportsOK, TypeOK
<1>1. CASE AcceptMessage(d)
  BY <1>1, AcceptImplements
<1>2. CASE \/ SkipDuplicate(d) \/ RouteToTarget(d) \/ RouteByCapability(d) \/ AskSubtasks(d)
           \/ StartBatch(d) \/ JoinBatch(d)
  BY <1>2, ServiceStutter DEF SkipDuplicate, RouteToTarget, RouteByCapability, AskSubtasks,
     StartBatch, JoinBatch
<1>3. ASSUME NEW cause, Fail(d, cause), UNCHANGED <<marked, sent>>,
             status[d] \notin Terminal \cup {"none"}
      PROVE  Service!Next
  BY <1>3, SettleImplements DEF Fail
<1>4. ASSUME NEW st \in {"executing", "aggregating"}, status' = [status EXCEPT ![d] = st],
             UNCHANGED <<marked, sent>>, status[d] \notin Terminal
      PROVE  UNCHANGED Service!vars
  BY <1>4, ServiceStutter DEF TypeOK
<1>5. CASE ClassifyIntent(d)
  BY <1>0, <1>3, <1>5, ServiceStutter DEF ClassifyIntent, StageOK, BeforeExecution
<1>6. CASE PublishIntent(d)
  <2>1. status[d] = "routing" /\ UNCHANGED <<marked, sent>>
    BY <1>0, <1>6 DEF PublishIntent, StageOK, BeforeExecution
  <2>2. CASE UNCHANGED status
    BY <2>1, <2>2, ServiceStutter
  <2>3. CASE Fail(d, "publish")
    BY <1>3, <2>1, <2>3 DEF Terminal
  <2> QED BY <1>6, <2>2, <2>3 DEF PublishIntent
<1>7. CASE PlanFromAnswer(d)
  BY <1>0, <1>3, <1>7, ServiceStutter DEF PlanFromAnswer, StageOK, BeforeExecution
<1>8. CASE PublishPlan(d)
  <2>1. status[d] = "routing" /\ UNCHANGED <<marked, sent>>
    BY <1>0, <1>8 DEF PublishPlan, StageOK, BeforeExecution
  <2>2. CASE status' = [status EXCEPT ![d] = "executing"]
    BY <1>4, <2>1, <2>2 DEF Terminal
  <2>3. CASE Fail(d, "publish")
    BY <1>3, <2>1, <2>3 DEF Terminal
  <2> QED BY <1>8, <2>2, <2>3 DEF PublishPlan
<1>9. CASE GiveUp(d)
  BY <1>0, <1>3, <1>4, <1>9 DEF GiveUp, StageOK
<1>10. CASE BeginAggregation(d)
  BY <1>0, <1>4, <1>10 DEF BeginAggregation, StageOK
<1>11. CASE Complete(d)
  <2>1. status[d] = "aggregating" /\ status' = [status EXCEPT ![d] = "completed"]
        /\ UNCHANGED <<marked, sent>>
    BY <1>0, <1>11 DEF Complete, StageOK
  <2> QED BY <2>1, SettleImplements
<1>12. ASSUME NEW v \in Terminal, NEW outcome \in PublishOutcomes,
              PublishVerdict(d, v, outcome), status[d] = v, sent[d] \subseteq Terminal \ {v},
              UNCHANGED <<marked, status>>
       PROVE  Service!Next \/ UNCHANGED Service!vars
  <2>1. CASE outcome \in {"sent", "sentThenRaised"}
    BY <1>12, <2>1, AnswerImplements DEF PublishVerdict
  <2>2. CASE outcome \notin {"sent", "sentThenRaised"}
    <3>1. UNCHANGED sent
      BY <1>12, <2>2 DEF PublishVerdict, TypeOK
    <3> QED BY <1>12, <3>1, ServiceStutter
  <2> QED BY <2>1, <2>2
<1>13. CASE PublishCompleted(d)
  <2>1. PICK outcome \in PublishOutcomes :
          /\ PublishVerdict(d, "completed", outcome)
          /\ IF outcome \in {"sent", "dropped"}
             THEN Goto(d, "returned") /\ UNCHANGED <<status, error>>
             ELSE Fail(d, "publish")
    BY <1>13 DEF PublishCompleted
  <2>2. status[d] = "completed" /\ sent[d] = {} /\ UNCHANGED marked
    BY <1>0, <1>13 DEF PublishCompleted, StageOK
  <2>3. CASE outcome \in {"sent", "dropped"}
    BY <1>12, <2>1, <2>2, <2>3 DEF Terminal
  <2>4. CASE outcome \notin {"sent", "dropped"}
    <3>1. status' = [status EXCEPT ![d] = "failed"]
      BY <2>1, <2>4 DEF Fail
    <3>2. sent' \in {sent, [sent EXCEPT ![d] = {"completed"}]}
      BY <2>1, <2>2 DEF PublishVerdict, TypeOK
    <3>3. PublishRaises
      BY <2>4, ConstantsAssumption DEF PublishRaises, Outcomes
    <3> QED BY <2>2, <3>1, <3>2, <3>3, RetractImplements
  <2> QED BY <2>3, <2>4
<1>14. CASE PublishFailed(d)
  <2>1. PICK outcome \in PublishOutcomes : PublishVerdict(d, "failed", outcome)
    BY <1>14 DEF PublishFailed
  <2>2. status[d] = "failed" /\ sent[d] \subseteq Terminal \ {"failed"} /\ UNCHANGED <<marked, status>>
    BY <1>0, <1>14 DEF PublishFailed, StageOK, Terminal
  <2> QED BY <1>12, <2>1, <2>2 DEF Terminal
<1> QED BY <1>1, <1>2, <1>5, <1>6, <1>7, <1>8, <1>9, <1>10, <1>11, <1>13, <1>14 DEF HandlerStep

\* Per message, the orchestrator does what MessageService says, on any bus:
\* accept once, settle, answer at most once with each verdict, and have a second
\* one only because the publish of the first raised.
THEOREM OrchestratorImplementsService == Spec => ImplementsService
<1>2. ASSUME TypeOK, SchedulingInv, IdempotencyInv, ReportsInv, [Next]_vars
      PROVE  [Service!Next]_(Service!vars)
  <2>1. ASSUME NEW d \in Deliveries, Cancel(d) PROVE UNCHANGED Service!vars
    BY <2>1, ServiceStutter DEF Cancel
  <2>2. ASSUME NEW d \in Deliveries, NEW s \in Slots, TaskStep(d, s)
        PROVE  UNCHANGED Service!vars
    <3>1. UNCHANGED <<marked, status, sent>>
      BY <2>2 DEF TaskStep, StartSubtask, Dispatch, AgentSucceeds, AgentFails, Retry,
                  PublishTaskOutcome, workflowVars
    <3> QED BY <3>1, ServiceStutter
  <2>3. CASE UNCHANGED vars \/ \E a \in Agents : Register(a) \/ Deregister(a)
    <3>1. UNCHANGED <<marked, status, sent>>
      BY <2>3 DEF Register, Deregister, vars, workflowVars
    <3> QED BY <3>1, ServiceStutter
  <2> QED BY <1>2, <2>1, <2>2, <2>3, HandlerStepImplements DEF Next
<1> QED BY <1>2, InitImplements, TypeCorrect, Scheduling, Reports, InitIdempotency,
           NextKeepsIdempotency, PTL DEF Spec, ImplementsService, Service!Spec
=============================================================================
