------------------------ MODULE BuiltinAgentsProofs -------------------------
(***************************************************************************)
(* Theorems about the builtin agents: FileAgents, for every number of      *)
(* subtasks, files, plans, retries and threads, and, in the second half,   *)
(* ToolAgents, for every number of subtasks, plans and retries.            *)
(***************************************************************************)
EXTENDS FileAgents, ToolAgents, FiniteSetTheorems, SequenceTheorems, WellFoundedInduction, TLAPS

-----------------------------------------------------------------------------
(* The agents that work on files: what a timeout leaves behind.            *)

JobState == {"none", "queued", "asking"} \cup InThread \cup Over

Typed ==
  /\ pc \in [Requests -> Active \cup {"completed", "failed", "cut"}]
  /\ attempt \in [Requests -> Attempts]
  /\ plan \in [Requests \X Attempts -> Plans \cup {Given[r] : r \in Requests} \cup {<<>>}]
  /\ job \in [Jobs -> JobState]

\* A job belongs to an attempt that was made and to a call of its plan; what
\* is not over is waited for, or it is in a thread and its attempt timed out
\* or was the last one when the handler ended.
Tracked(j) ==
  /\ job[j] # "none" =>
       /\ j[3] \in 1..Len(plan[<<j[1], j[2]>>])
       /\ j[2] <= attempt[j[1]]
       /\ j[2] = attempt[j[1]] => pc[j[1]] \notin {"ready", "asking"}
  /\ job[j] \notin Over \cup {"none"} /\ Abandoned(j) =>
       /\ job[j] \in InThread
       /\ \/ <<j[1], j[2]>> \in timedOut
          \/ pc[j[1]] = "cut" /\ j[2] = attempt[j[1]]

JobsTracked == Typed /\ \A j \in Jobs : Tracked(j)

USE DEF Active, InThread, Over, JobState

\* At the start no job exists, so there is nothing to keep track of.
LEMMA InitTracked == Init => JobsTracked
  BY FileAgentsAssumption DEF Init, JobsTracked, Typed, Tracked, Jobs, Attempts

\* An attempt ends: nothing of it goes on that is not in the set of attempts
\* that timed out.
LEMMA OutcomeTracked ==
  ASSUME JobsTracked, NEW r \in Requests, NEW success \in BOOLEAN, Outcome(r, success),
         plan' = plan,
         pc[r] \in Active,
         job' \in [Jobs -> JobState],
         timedOut \subseteq timedOut',
         \A j \in Jobs : \/ job'[j] = job[j]
                         \/ job[j] # "none" /\ job'[j] = "cancelled",
         \A j \in Jobs : j[1] = r /\ j[2] = attempt[r] /\ job'[j] \notin Over \cup {"none"} =>
                           job'[j] \in InThread /\ <<j[1], j[2]>> \in timedOut'
  PROVE  JobsTracked'
<1>1. Typed'
  BY FileAgentsAssumption DEF JobsTracked, Typed, Outcome, Attempts
<1>2. ASSUME NEW j \in Jobs PROVE Tracked(j)'
  <2>1. j[1] \in Requests /\ j[2] \in Attempts /\ j[2] \in Int /\ attempt[j[1]] \in Int
    BY FileAgentsAssumption DEF Jobs, Attempts, JobsTracked, Typed
  <2>2. Tracked(j)
    BY DEF JobsTracked
  <2>3. CASE j[1] # r
    <3>1. pc'[j[1]] = pc[j[1]] /\ attempt'[j[1]] = attempt[j[1]]
      BY <2>1, <2>3 DEF Outcome, JobsTracked, Typed
    <3> QED BY <2>1, <2>2, <3>1 DEF Tracked, Abandoned
  <2>4. CASE j[1] = r
    <3>1. /\ attempt'[r] \in {attempt[r], attempt[r] + 1}
          /\ attempt'[r] = attempt[r] => pc'[r] \in {"completed", "failed"}
      BY FileAgentsAssumption, <2>1, <2>4 DEF Outcome, JobsTracked, Typed, Attempts
    <3> QED BY <2>1, <2>2, <2>4, <3>1 DEF Tracked, Abandoned
  <2> QED BY <2>3, <2>4
<1> QED BY <1>1, <1>2 DEF JobsTracked

\* _dispatch_tool_calls makes the jobs of the attempt that is under way.
LEMMA DispatchTracked ==
  ASSUME JobsTracked, NEW r \in Requests, pc[r] \in {"ready", "asking"},
         NEW p \in Plans \cup {Given[q] : q \in Requests}, Dispatch(r, p)
  PROVE  JobsTracked'
<1>1. Typed'
  BY DEF JobsTracked, Typed, Dispatch, StartOf
<1>2. ASSUME NEW j \in Jobs PROVE Tracked(j)'
  <2>1. j[1] \in Requests /\ j[2] \in Attempts /\ j[3] \in Slots
    BY DEF Jobs
  <2>2. Tracked(j)
    BY DEF JobsTracked
  <2>3. CASE j[1] = r /\ j[2] = attempt[r]
    <3>1. plan'[<<j[1], j[2]>>] = p /\ pc'[j[1]] = "gathering" /\ attempt' = attempt
      BY <2>1, <2>3 DEF Dispatch, JobsTracked, Typed
    <3>2. job[j] = "none"
      BY <2>2, <2>3 DEF Tracked
    <3>3. job'[j] # "none" => j[3] \in 1..Len(p)
      BY <3>2 DEF Dispatch
    <3>4. attempt[r] \in Int
      BY FileAgentsAssumption DEF JobsTracked, Typed, Attempts
    <3> QED BY <2>3, <3>1, <3>3, <3>4 DEF Tracked, Abandoned
  <2>4. CASE ~(j[1] = r /\ j[2] = attempt[r])
    <3>1. plan'[<<j[1], j[2]>>] = plan[<<j[1], j[2]>>] /\ job'[j] = job[j]
      BY <2>1, <2>4 DEF Dispatch, JobsTracked, Typed
    <3>2. attempt' = attempt /\ timedOut' = timedOut
      BY DEF Dispatch
    <3>3. pc'[j[1]] = IF j[1] = r THEN "gathering" ELSE pc[j[1]]
      BY <2>1 DEF Dispatch, JobsTracked, Typed
    <3> QED BY <2>2, <2>4, <3>1, <3>2, <3>3 DEF Tracked, Abandoned
  <2> QED BY <2>3, <2>4
<1> QED BY <1>1, <1>2 DEF JobsTracked

\* A call goes on, without leaving its thread unless it is over or waited for.
LEMMA MoveTracked ==
  ASSUME JobsTracked, NEW k \in Jobs, NEW state \in JobState \ {"none"}, Becomes(k, state),
         UNCHANGED <<pc, attempt, plan, timedOut>>,
         job[k] \notin Over \cup {"none"},
         state \in Over \cup InThread \/ ~Abandoned(k)
  PROVE  JobsTracked'
<1>1. Typed'
  BY DEF JobsTracked, Typed, Becomes
<1>2. ASSUME NEW j \in Jobs PROVE Tracked(j)'
  <2>1. Tracked(j) /\ Tracked(k)
    BY DEF JobsTracked
  <2>2. job'[j] = IF j = k THEN state ELSE job[j]
    BY DEF Becomes, JobsTracked, Typed
  <2> QED BY <2>1, <2>2 DEF Tracked, Abandoned
<1> QED BY <1>1, <1>2 DEF JobsTracked

\* What a thread or the LLM's client does for one job.
LEMMA ThreadStepTracked ==
  ASSUME JobsTracked, NEW k \in Jobs, ThreadStep(k) \/ LlmReturns(k)
  PROVE  JobsTracked'
<1> USE MoveTracked
<1>1. CASE ChainFails(k)
  BY <1>1 DEF ChainFails
<1>2. CASE StartThread(k)
  BY <1>2 DEF StartThread
<1>3. CASE ThreadFails(k)
  BY <1>3 DEF ThreadFails
<1>4. CASE Reads(k)
  BY <1>4 DEF Reads
<1>5. CASE OpenOutput(k)
  BY <1>5 DEF OpenOutput
<1>6. CASE CloseOutput(k)
  BY <1>6 DEF CloseOutput
<1>7. CASE WriteFails(k)
  BY <1>7 DEF WriteFails
<1>8. CASE LlmReturns(k)
  BY <1>8 DEF LlmReturns
<1> QED BY <1>1, <1>2, <1>3, <1>4, <1>5, <1>6, <1>7, <1>8 DEF ThreadStep

\* What the event loop does for one subtask.
LEMMA RequestStepTracked ==
  ASSUME JobsTracked, NEW r \in Requests,
         \/ Begin(r) \/ LlmAnswersInText(r) \/ LlmNamesTools(r)
         \/ LlmRaises(r) \/ Aggregate(r) \/ TimeOut(r) \/ Interrupt(r)
  PROVE  JobsTracked'
<1>0. /\ job \in [Jobs -> JobState]
      /\ \A j \in Jobs : Tracked(j)
  BY DEF JobsTracked, Typed
<1>1. CASE Begin(r)
  <2>1. CASE Given[r] # <<>>
    BY <1>1, <2>1, DispatchTracked DEF Begin
  <2>2. CASE Given[r] = <<>> /\ r \in Empty
    <3>1. /\ Outcome(r, FALSE)
          /\ pc[r] = "ready"
          /\ UNCHANGED <<plan, job, timedOut>>
      BY <1>1, <2>2 DEF Begin
    <3>2. \A j \in Jobs : j[1] = r /\ j[2] = attempt[r] => job[j] = "none"
      BY <1>0, <3>1 DEF Tracked
    <3> QED BY <1>0, <3>1, <3>2, OutcomeTracked
  <2>3. CASE Given[r] = <<>> /\ r \notin Empty
    <3>1. /\ pc[r] = "ready"
          /\ pc' = [pc EXCEPT ![r] = "asking"]
          /\ UNCHANGED <<attempt, plan, job, timedOut>>
      BY <1>1, <2>3 DEF Begin
    <3>2. Typed'
      BY <3>1 DEF JobsTracked, Typed
    <3>3. ASSUME NEW j \in Jobs PROVE Tracked(j)'
      <4>1. pc'[j[1]] = IF j[1] = r THEN "asking" ELSE pc[j[1]]
        BY <3>1 DEF JobsTracked, Typed, Jobs
      <4> QED BY <1>0, <3>1, <4>1 DEF Tracked, Abandoned
    <3> QED BY <3>2, <3>3 DEF JobsTracked
  <2> QED BY <2>1, <2>2, <2>3
<1>2. CASE LlmAnswersInText(r) \/ LlmRaises(r)
  <2>1. /\ pc[r] = "asking"
        /\ \E success \in BOOLEAN : Outcome(r, success)
        /\ UNCHANGED <<plan, job, timedOut>>
    BY <1>2 DEF LlmAnswersInText, LlmRaises
  <2>2. \A j \in Jobs : j[1] = r /\ j[2] = attempt[r] => job[j] = "none"
    BY <1>0, <2>1 DEF Tracked
  <2> QED BY <1>0, <2>1, <2>2, OutcomeTracked
<1>3. CASE LlmNamesTools(r)
  BY <1>3, DispatchTracked DEF LlmNamesTools
<1>4. CASE Aggregate(r)
  <2>1. /\ pc[r] = "gathering"
        /\ \E success \in BOOLEAN : Outcome(r, success)
        /\ UNCHANGED <<plan, job, timedOut>>
        /\ \A j \in Current(r) : job[j] \in Over
    BY <1>4 DEF Aggregate, Gathered
  <2>2. \A j \in Jobs : j[1] = r /\ j[2] = attempt[r] => job[j] \in Over \cup {"none"}
    BY <1>0, <2>1 DEF Tracked, Current
  <2> QED BY <1>0, <2>1, <2>2, OutcomeTracked
<1>5. CASE TimeOut(r)
  <2>1. /\ pc[r] \in {"asking", "gathering"}
        /\ Outcome(r, FALSE)
        /\ plan' = plan
        /\ timedOut' = timedOut \cup {<<r, attempt[r]>>}
        /\ job' = [j \in Jobs |-> IF j \in Current(r) /\ job[j] \in {"queued", "asking"}
                                  THEN "cancelled" ELSE job[j]]
    BY <1>5 DEF TimeOut, CancelJobs
  <2>2. job' \in [Jobs -> JobState]
    BY <1>0, <2>1
  <2>3. \A j \in Jobs : \/ job'[j] = job[j]
                        \/ job[j] # "none" /\ job'[j] = "cancelled"
    BY <2>1
  <2>4. \A j \in Jobs : j[1] = r /\ j[2] = attempt[r] /\ job'[j] \notin Over \cup {"none"} =>
                          job'[j] \in InThread /\ <<j[1], j[2]>> \in timedOut'
    <3>1. \A j \in Jobs : j[1] = r /\ j[2] = attempt[r] /\ job[j] # "none" => j \in Current(r)
      BY <1>0 DEF Tracked, Current
    <3> QED BY <1>0, <2>1, <3>1
  <2> QED BY <2>1, <2>2, <2>3, <2>4, OutcomeTracked
<1>6. CASE Interrupt(r)
  <2>1. /\ pc[r] \in Active
        /\ pc' = [pc EXCEPT ![r] = "cut"]
        /\ UNCHANGED <<attempt, plan, timedOut>>
        /\ job' = [j \in Jobs |-> IF j \in Current(r) /\ job[j] \in {"queued", "asking"}
                                  THEN "cancelled" ELSE job[j]]
    BY <1>6 DEF Interrupt, CancelJobs
  <2>2. Typed'
    BY <1>0, <2>1 DEF JobsTracked, Typed
  <2>3. ASSUME NEW j \in Jobs PROVE Tracked(j)'
    <3>1. pc'[j[1]] = IF j[1] = r THEN "cut" ELSE pc[j[1]]
      BY <2>1 DEF JobsTracked, Typed, Jobs
    <3>2. Tracked(j)
      BY <1>0
    <3>3. job'[j] = IF j \in Current(r) /\ job[j] \in {"queued", "asking"}
                    THEN "cancelled" ELSE job[j]
      BY <2>1
    <3>4. CASE j[1] # r
      <4>1. j \notin Current(r)
        BY <3>4 DEF Current
      <4> QED BY <2>1, <3>1, <3>2, <3>3, <3>4, <4>1 DEF Tracked, Abandoned
    <3>5. CASE j[1] = r /\ j[2] = attempt[r]
      <4>1. job[j] # "none" => j \in Current(r)
        BY <3>2, <3>5 DEF Tracked, Current
      <4>2. job'[j] \in Over \cup {"none"} \/ job'[j] \in InThread
        BY <1>0, <3>3, <4>1
      <4> QED BY <2>1, <3>1, <3>2, <3>3, <3>5, <4>1, <4>2 DEF Tracked, Abandoned
    <3>6. CASE j[1] = r /\ j[2] # attempt[r]
      <4>1. j \notin Current(r)
        BY <3>6 DEF Current
      <4> QED BY <2>1, <3>1, <3>2, <3>3, <3>6, <4>1 DEF Tracked, Abandoned
    <3> QED BY <3>4, <3>5, <3>6
  <2> QED BY <2>2, <2>3 DEF JobsTracked
<1> QED BY <1>1, <1>2, <1>3, <1>4, <1>5, <1>6

\* Every step keeps track of the jobs.
LEMMA NextTracked == JobsTracked /\ [Next]_vars => JobsTracked'
<1> SUFFICES ASSUME JobsTracked, [Next]_vars PROVE JobsTracked'
  OBVIOUS
<1>1. CASE Next
  BY <1>1, RequestStepTracked, ThreadStepTracked DEF Next
<1>2. CASE UNCHANGED vars
  BY <1>2 DEF vars, JobsTracked, Typed, Tracked, Abandoned
<1> QED BY <1>1, <1>2

\* The inductive invariant, as an invariant of the specification.
LEMMA AlwaysTracked == Spec => []JobsTracked
  BY InitTracked, NextTracked, PTL DEF Spec

\* Whatever the plans, the number of threads and the retries: an old attempt
\* is at work next to a new one only if it timed out (lines 331-362), and the end of
\* the handler leaves no thread behind but those of the last attempt.
THEOREM OnlyTimeoutsStraggle == Spec => []StragglersTimedOut
<1>1. JobsTracked => StragglersTimedOut
  BY DEF JobsTracked, Tracked, StragglersTimedOut
<1> QED BY <1>1, AlwaysTracked, PTL

\* And nothing that a timeout took out of the executor's queue is started.
THEOREM AbandonedStayCancelled == Spec => AbandonedNeverStarts
<1>1. JobsTracked /\ [Next]_vars =>
        [\A j \in Jobs : job[j] = "queued" /\ job'[j] = "running" => ~Abandoned(j)]_vars
  BY DEF JobsTracked, Tracked
<1> QED BY <1>1, AlwaysTracked, PTL DEF Spec, AbandonedNeverStarts

-----------------------------------------------------------------------------
(* A completed subtask is done.                                            *)

Threads == {j \in Jobs : job[j] \in InThread}

FilesTyped ==
  /\ file \in [Files -> [state : {"absent", "partial", "torn", "whole"}, writers : SUBSET Jobs]]
  /\ \A f \in Files : file[f].writers = {j \in Jobs : job[j] = "writing" /\ Tool(j).dst = f}
  /\ IsFiniteSet(Threads) /\ Cardinality(Threads) <= Workers

AllDone(r) == pc[r] = "completed" => \A j \in Current(r) : job[j] = "ok"

DoneInv == /\ JobsTracked /\ FilesTyped /\ FilesInv
           /\ \A r \in Requests : AllDone(r)

LEMMA DoneInitially == Init => DoneInv
<1> SUFFICES ASSUME Init PROVE DoneInv
  OBVIOUS
<1>1. JobsTracked
  BY InitTracked
<1>2. \A j \in Jobs : job[j] = "none"
  BY DEF Init
<1>3. Threads = {}
  BY <1>2 DEF Threads
<1>4. IsFiniteSet(Threads) /\ Cardinality(Threads) <= Workers
  BY <1>3, FS_EmptySet, FileAgentsAssumption
<1>5. FilesTyped
  <2>1. PICK there \in SUBSET Files :
          file = [f \in Files |-> [state |-> IF f \in there THEN "whole" ELSE "absent", writers |-> {}]]
    BY DEF Init
  <2>2. \A f \in Files : /\ file[f] \in [state : {"absent", "partial", "torn", "whole"}, writers : SUBSET Jobs]
                         /\ file[f].writers = {}
    BY <2>1
  <2>3. file \in [Files -> [state : {"absent", "partial", "torn", "whole"}, writers : SUBSET Jobs]]
    BY <2>1, <2>2
  <2>4. \A f \in Files : {j \in Jobs : job[j] = "writing" /\ Tool(j).dst = f} = {}
    BY <1>2
  <2> QED BY <1>4, <2>2, <2>3, <2>4 DEF FilesTyped
<1>6. FilesInv
  <2>1. \A j \in Jobs : AloneWhole(j)
    BY <1>2 DEF AloneWhole, Wrote
  <2>2. NothingPlanned
    BY DEF NothingPlanned, Init
  <2> QED BY <2>1, <2>2 DEF FilesInv
<1>7. \A r \in Requests : AllDone(r)
  BY DEF AllDone, Init
<1> QED BY <1>1, <1>5, <1>6, <1>7 DEF DoneInv

\* The calls of a plan are calls.
LEMMA ToolTyped ==
  ASSUME JobsTracked, NEW j \in Jobs, job[j] # "none"
  PROVE  Tool(j) \in Call
<1> DEFINE p == plan[<<j[1], j[2]>>]
<1>1. j[1] \in Requests /\ j[2] \in Attempts
  BY DEF Jobs
<1>2. p \in Plans \cup {Given[r] : r \in Requests} \cup {<<>>}
  BY <1>1 DEF JobsTracked, Typed
<1>3. j[3] \in 1..Len(p)
  BY DEF JobsTracked, Tracked
<1>4. CASE p \in Plans
  BY <1>3, <1>4, FileAgentsAssumption DEF Tool
<1>5. CASE p \in {Given[r] : r \in Requests}
  <2>1. PICK r \in Requests : p = Given[r]
    BY <1>5
  <2>2. p \in {<<>>} \cup {<<c>> : c \in Call}
    BY <2>1, FileAgentsAssumption
  <2>3. PICK c \in Call : p = <<c>>
    BY <1>3, <2>2
  <2>4. j[3] = 1
    BY <1>3, <2>3
  <2> QED BY <2>3, <2>4 DEF Tool
<1>6. CASE p = <<>>
  BY <1>3, <1>6
<1> QED BY <1>2, <1>4, <1>5, <1>6

\* What a job may do without touching a file.
Started == InThread \cup {"ok", "bad"}
Writes(kind) == kind \in {"write", "convert"}

Quiet(j) ==
  /\ job[j] # "none" => Tool(j)' = Tool(j) /\ job'[j] # "none"
  /\ job[j] \in Started /\ Writes(Tool(j).kind) => job'[j] \in Started
  /\ job'[j] = "asking" => Tool(j)'.kind \in {"chain", "remote"}
  /\ job'[j] = "writing" <=> job[j] = "writing"
  /\ job'[j] = "ok" /\ Writes(Tool(j)'.kind) => job[j] = "ok"

LEMMA QuietKeeps ==
  ASSUME FilesTyped, \A j \in Jobs : AloneWhole(j), \A j \in Jobs : Quiet(j), file' = file,
         Threads' \subseteq Threads \/ (IsFiniteSet(Threads') /\ Cardinality(Threads') <= Workers)
  PROVE  FilesTyped' /\ \A j \in Jobs : AloneWhole(j)'
<1>1. IsFiniteSet(Threads') /\ Cardinality(Threads') <= Workers
  <2>1. CASE Threads' \subseteq Threads
    <3>1. /\ IsFiniteSet(Threads') /\ Cardinality(Threads') <= Cardinality(Threads)
          /\ Cardinality(Threads) \in Nat /\ Cardinality(Threads') \in Nat
      BY <2>1, FS_Subset, FS_CardinalityType DEF FilesTyped
    <3> QED BY <3>1, FileAgentsAssumption DEF FilesTyped
  <2> QED BY <2>1
<1>2. \A f \in Files : {j \in Jobs : job'[j] = "writing" /\ Tool(j)'.dst = f}
                       = {j \in Jobs : job[j] = "writing" /\ Tool(j).dst = f}
  BY DEF Quiet
<1>3. FilesTyped'
  BY <1>1, <1>2 DEF FilesTyped
<1>4. ASSUME NEW j \in Jobs PROVE AloneWhole(j)'
  <2>1. Quiet(j) /\ AloneWhole(j)
    OBVIOUS
  <2>2. ASSUME job[j] # "none", Contenders(j)' = {} PROVE Contenders(j) = {}
    <3> SUFFICES ASSUME NEW k \in Contenders(j) PROVE k \in Contenders(j)'
      BY <2>2
    <3>1. k \in Jobs /\ k # j /\ job[k] \in Started /\ Writes(Tool(k).kind) /\ Tool(k).dst = Tool(j).dst
      BY DEF Contenders, Started, Writes
    <3>2. job'[k] \in Started /\ Tool(k)' = Tool(k) /\ Tool(j)' = Tool(j)
      BY <2>1, <2>2, <3>1 DEF Quiet, Started
    <3> QED BY <3>1, <3>2 DEF Contenders, Started, Writes
  <2>3. job'[j] = "asking" => Tool(j)'.kind \in {"chain", "remote"}
    BY <2>1 DEF Quiet
  <2>4. ASSUME job'[j] = "writing"
        PROVE  /\ Tool(j)'.kind \in {"write", "convert"}
               /\ Contenders(j)' = {} => file'[Tool(j)'.dst].state = "partial"
    BY <2>1, <2>2, <2>4 DEF Quiet, AloneWhole
  <2>5. ASSUME Wrote(j)', Contenders(j)' = {} PROVE file'[Tool(j)'.dst].state = "whole"
    <3>1. job'[j] = "ok" /\ Writes(Tool(j)'.kind)
      BY <2>5 DEF Wrote, Writes
    <3>2. job[j] = "ok" /\ Tool(j)' = Tool(j)
      BY <2>1, <3>1 DEF Quiet
    <3>3. Wrote(j) /\ Contenders(j) = {}
      BY <2>2, <2>5, <3>1, <3>2 DEF Wrote, Writes
    <3> QED BY <2>1, <3>2, <3>3 DEF AloneWhole
  <2> QED BY <2>3, <2>4, <2>5 DEF AloneWhole
<1> QED BY <1>3, <1>4

\* One job moves; the others stay as they are.
LEMMA OneMoves ==
  ASSUME JobsTracked, NEW k \in Jobs, NEW state \in JobState, Becomes(k, state),
         UNCHANGED <<pc, attempt, plan>>
  PROVE  /\ job'[k] = state
         /\ \A j \in Jobs \ {k} : job'[j] = job[j]
         /\ \A j \in Jobs : Tool(j)' = Tool(j)
         /\ \A r \in Requests : Current(r)' = Current(r)
         /\ NothingPlanned => NothingPlanned'
<1>1. job \in [Jobs -> JobState]
  BY DEF JobsTracked, Typed
<1>2. job'[k] = state /\ \A j \in Jobs \ {k} : job'[j] = job[j]
  BY <1>1 DEF Becomes
<1>3. (\A j \in Jobs : Tool(j)' = Tool(j)) /\ \A r \in Requests : Current(r)' = Current(r)
  BY DEF Tool, Current
<1> QED BY <1>2, <1>3 DEF NothingPlanned

\* No job that is over moves, so that what is done stays done.
LEMMA DoneStays ==
  ASSUME JobsTracked, NEW k \in Jobs, NEW state \in JobState, Becomes(k, state),
         UNCHANGED <<pc, attempt, plan>>, job[k] # "ok",
         \A r \in Requests : AllDone(r)
  PROVE  \A r \in Requests : AllDone(r)'
BY OneMoves DEF AllDone, Current

\* The threads when a job moves.
LEMMA ThreadsNext ==
  ASSUME JobsTracked, FilesTyped, NEW k \in Jobs, NEW state \in JobState, Becomes(k, state),
         UNCHANGED <<pc, attempt, plan>>,
         state \in InThread => job[k] \in InThread \/ Cardinality(Threads) < Workers
  PROVE  IsFiniteSet(Threads') /\ Cardinality(Threads') <= Workers
<1>1. IsFiniteSet(Threads) /\ Cardinality(Threads) \in Nat /\ Cardinality(Threads) <= Workers /\ Workers \in Nat
  BY FS_CardinalityType, FileAgentsAssumption DEF FilesTyped
<1>2. Threads' \subseteq Threads \cup {k}
  BY OneMoves DEF Threads
<1>3. CASE Threads' \subseteq Threads
  <2>1. /\ IsFiniteSet(Threads') /\ Cardinality(Threads') <= Cardinality(Threads)
        /\ Cardinality(Threads') \in Nat
    BY <1>1, <1>3, FS_Subset, FS_CardinalityType
  <2> QED BY <1>1, <2>1
<1>4. CASE ~(Threads' \subseteq Threads)
  <2>1. k \in Threads' /\ k \notin Threads
    BY <1>2, <1>4
  <2>2. state \in InThread /\ job[k] \notin InThread
    BY <2>1, OneMoves DEF Threads
  <2>3. Threads' = Threads \cup {k}
    <3>1. \A j \in Threads : j # k /\ j \in Threads'
      BY <2>1, OneMoves DEF Threads
    <3> QED BY <1>2, <2>1, <3>1
  <2>4. IsFiniteSet(Threads \cup {k}) /\ Cardinality(Threads \cup {k}) = Cardinality(Threads) + 1
    BY <1>1, <2>1, FS_AddElement
  <2> QED BY <1>1, <2>2, <2>3, <2>4
<1> QED BY <1>3, <1>4

\* The moves that leave the files alone.
LEMMA QuietMoves ==
  ASSUME DoneInv, NEW k \in Jobs,
         ChainFails(k) \/ StartThread(k) \/ ThreadFails(k) \/ Reads(k) \/ LlmReturns(k)
  PROVE  /\ FilesTyped' /\ FilesInv' /\ \A r \in Requests : AllDone(r)'
<1>1. /\ JobsTracked /\ FilesTyped /\ NothingPlanned /\ \A r \in Requests : AllDone(r)
      /\ \A j \in Jobs : AloneWhole(j)
  BY DEF DoneInv, FilesInv
<1>2. PICK state \in JobState :
        /\ Becomes(k, state) /\ UNCHANGED <<pc, attempt, plan, file>>
        /\ job[k] \in {"queued", "running", "asking"} /\ state \in {"running", "bad", "ok", "asking"}
        /\ state = "running" => Cardinality(Threads) < Workers
        /\ state = "asking" => Tool(k).kind = "chain"
        /\ state = "ok" => job[k] = "asking" \/ Tool(k).kind \in {"read", "chain"}
  <2>1. CASE ChainFails(k)
    BY <2>1 DEF ChainFails
  <2>2. CASE StartThread(k)
    BY <2>2 DEF StartThread, Threads
  <2>3. CASE ThreadFails(k)
    BY <2>3 DEF ThreadFails
  <2>4. CASE Reads(k)
    BY <2>4 DEF Reads
  <2>5. CASE LlmReturns(k)
    BY <2>5 DEF LlmReturns
  <2> QED BY <2>1, <2>2, <2>3, <2>4, <2>5
<1>3. ASSUME NEW j \in Jobs PROVE Quiet(j)
  <2>1. CASE j = k
    <3>1. job'[k] = state /\ Tool(k)' = Tool(k)
      BY <1>1, <1>2, OneMoves
    <3>2. job[k] = "asking" => Tool(k).kind \in {"chain", "remote"}
      BY <1>1 DEF AloneWhole
    <3> QED BY <1>2, <2>1, <3>1, <3>2 DEF Quiet, Started, Writes
  <2>2. CASE j # k
    <3>1. job'[j] = job[j] /\ Tool(j)' = Tool(j)
      BY <1>1, <1>2, <2>2, OneMoves
    <3>2. job[j] = "asking" => Tool(j).kind \in {"chain", "remote"}
      BY <1>1 DEF AloneWhole
    <3> QED BY <3>1, <3>2 DEF Quiet
  <2> QED BY <2>1, <2>2
<1>4. IsFiniteSet(Threads') /\ Cardinality(Threads') <= Workers
  BY <1>1, <1>2, ThreadsNext
<1>5. FilesTyped' /\ \A j \in Jobs : AloneWhole(j)'
  BY <1>1, <1>2, <1>3, <1>4, QuietKeeps
<1>6. NothingPlanned'
  BY <1>1, <1>2, OneMoves
<1>7. \A r \in Requests : AllDone(r)'
  BY <1>1, <1>2, DoneStays
<1> QED BY <1>5, <1>6, <1>7 DEF FilesInv

\* The moves of a job that writes a file.
LEMMA WritingMoves ==
  ASSUME DoneInv, NEW k \in Jobs, OpenOutput(k) \/ CloseOutput(k) \/ WriteFails(k)
  PROVE  /\ FilesTyped' /\ FilesInv' /\ \A r \in Requests : AllDone(r)'
<1> DEFINE f == Tool(k).dst
<1>1. /\ JobsTracked /\ FilesTyped /\ NothingPlanned /\ \A r \in Requests : AllDone(r)
      /\ \A j \in Jobs : AloneWhole(j)
  BY DEF DoneInv, FilesInv
<1>2. job[k] \in InThread
  BY DEF OpenOutput, CloseOutput, WriteFails
<1>3. Tool(k) \in Call /\ f \in Files
  BY <1>1, <1>2, ToolTyped DEF Call
<1>4. /\ file[f] \in [state : {"absent", "partial", "torn", "whole"}, writers : SUBSET Jobs]
      /\ file[f].writers = {j \in Jobs : job[j] = "writing" /\ Tool(j).dst = f}
  BY <1>1, <1>3 DEF FilesTyped
<1>5. Writes(Tool(k).kind)
  <2>1. CASE OpenOutput(k)
    BY <2>1 DEF OpenOutput, Writes
  <2>2. CASE CloseOutput(k) \/ WriteFails(k)
    <3>1. job[k] = "writing"
      BY <2>2 DEF CloseOutput, WriteFails
    <3> QED BY <1>1, <3>1 DEF AloneWhole, Writes
  <2> QED BY <2>1, <2>2
<1>6. PICK state \in {"writing", "ok", "bad"}, rec \in [state : {"absent", "partial", "torn", "whole"}, writers : SUBSET Jobs] :
        /\ Becomes(k, state) /\ UNCHANGED <<pc, attempt, plan>>
        /\ file' = [file EXCEPT ![f] = rec]
        /\ rec.writers = IF state = "writing" THEN file[f].writers \cup {k} ELSE file[f].writers \ {k}
        /\ state = "writing" => job[k] = "running" /\ (file[f].writers = {} => rec.state = "partial")
        /\ state = "ok" => job[k] = "writing" /\ (file[f].state = "partial" => rec.state = "whole")
  <2>1. CASE OpenOutput(k)
    <3> DEFINE rec == [state |-> IF file[f].writers = {} THEN "partial" ELSE "torn",
                       writers |-> file[f].writers \cup {k}]
    <3>1. /\ Becomes(k, "writing") /\ UNCHANGED <<pc, attempt, plan>> /\ job[k] = "running"
          /\ file' = [file EXCEPT ![f] = rec]
      BY <2>1 DEF OpenOutput
    <3>2. rec \in [state : {"absent", "partial", "torn", "whole"}, writers : SUBSET Jobs]
      BY <1>4
    <3>3. rec.writers = file[f].writers \cup {k} /\ (file[f].writers = {} => rec.state = "partial")
      OBVIOUS
    <3> HIDE DEF rec, f
    <3> QED BY <3>1, <3>2, <3>3
  <2>2. CASE CloseOutput(k)
    <3> DEFINE rec == [state |-> IF file[f].state = "partial" THEN "whole" ELSE file[f].state,
                       writers |-> file[f].writers \ {k}]
    <3>1. /\ Becomes(k, "ok") /\ UNCHANGED <<pc, attempt, plan>> /\ job[k] = "writing"
          /\ file' = [file EXCEPT ![f] = rec]
      BY <2>2 DEF CloseOutput
    <3>2. rec \in [state : {"absent", "partial", "torn", "whole"}, writers : SUBSET Jobs]
      BY <1>4
    <3>3. rec.writers = file[f].writers \ {k} /\ (file[f].state = "partial" => rec.state = "whole")
      OBVIOUS
    <3> HIDE DEF rec, f
    <3> QED BY <3>1, <3>2, <3>3
  <2>3. CASE WriteFails(k)
    <3> DEFINE rec == [file[f] EXCEPT !.writers = file[f].writers \ {k}]
    <3>1. /\ Becomes(k, "bad") /\ UNCHANGED <<pc, attempt, plan>>
          /\ file' = [file EXCEPT ![f] = rec]
      BY <2>3 DEF WriteFails
    <3>2. /\ rec \in [state : {"absent", "partial", "torn", "whole"}, writers : SUBSET Jobs]
          /\ rec.writers = file[f].writers \ {k}
      BY <1>4
    <3> HIDE DEF rec, f
    <3> QED BY <3>1, <3>2
  <2> QED BY <2>1, <2>2, <2>3
<1> HIDE DEF f
<1>7. /\ job'[k] = state /\ \A j \in Jobs \ {k} : job'[j] = job[j]
      /\ \A j \in Jobs : Tool(j)' = Tool(j)
      /\ NothingPlanned'
  BY <1>1, <1>6, OneMoves
<1>8. /\ file' \in [Files -> [state : {"absent", "partial", "torn", "whole"}, writers : SUBSET Jobs]]
      /\ file'[f] = rec /\ \A g \in Files \ {f} : file'[g] = file[g]
  BY <1>1, <1>3, <1>6 DEF FilesTyped
<1>9. FilesTyped'
  <2>1. IsFiniteSet(Threads') /\ Cardinality(Threads') <= Workers
    BY <1>1, <1>2, <1>6, ThreadsNext
  <2>2. ASSUME NEW g \in Files
        PROVE  file'[g].writers = {j \in Jobs : job'[j] = "writing" /\ Tool(j)'.dst = g}
    <3>1. CASE g = f
      <4>1. Tool(k).dst = g
        BY <3>1 DEF f
      <4>2. \A j \in Jobs : job'[j] = "writing" /\ Tool(j)'.dst = g <=> j \in rec.writers
        BY <1>4, <1>6, <1>7, <3>1, <4>1
      <4>3. rec.writers \subseteq Jobs
        BY <1>6
      <4> QED BY <1>8, <3>1, <4>2, <4>3
    <3>2. CASE g # f
      <4>1. Tool(k).dst # g
        BY <3>2 DEF f
      <4>2. \A j \in Jobs : job'[j] = "writing" /\ Tool(j)'.dst = g <=> job[j] = "writing" /\ Tool(j).dst = g
        BY <1>7, <4>1
      <4> QED BY <1>1, <1>8, <3>2, <4>2 DEF FilesTyped
    <3> QED BY <3>1, <3>2
  <2> QED BY <1>8, <2>1, <2>2 DEF FilesTyped
<1>10. \A j \in Jobs : job[j] # "none" => Tool(j).dst \in Files
  BY <1>1, ToolTyped DEF Call
<1>11. ASSUME NEW j \in Jobs, NEW i \in Contenders(j) PROVE i \in Contenders(j)'
  <2>1. i \in Jobs /\ i # j /\ job[i] \in Started /\ Writes(Tool(i).kind) /\ Tool(i).dst = Tool(j).dst
    BY DEF Contenders, Started, Writes
  <2>2. job'[i] \in Started
    BY <1>6, <1>7, <2>1 DEF Started
  <2> QED BY <1>7, <2>1, <2>2 DEF Contenders, Started, Writes
<1>12. ASSUME NEW j \in Jobs PROVE AloneWhole(j)'
  <2>1. AloneWhole(j)
    BY <1>1
  <2>2. CASE j # k
    <3>1. job'[j] = job[j] /\ Tool(j)' = Tool(j)
      BY <1>7, <2>2
    <3>2. CASE Tool(j).dst = f
      <4>1. k \in Contenders(j)
        BY <1>2, <1>5, <2>2, <3>2 DEF Contenders, Writes, f
      <4>2. Contenders(j)' # {}
        BY <1>11, <4>1
      <4> QED BY <2>1, <3>1, <4>2 DEF AloneWhole
    <3>3. CASE Tool(j).dst # f
      <4>1. Contenders(j)' = {} => Contenders(j) = {}
        BY <1>11
      <4>2. Tool(j).dst \in Files => file'[Tool(j).dst] = file[Tool(j).dst]
        BY <1>8, <3>3
      <4> QED BY <1>10, <2>1, <3>1, <4>1, <4>2 DEF AloneWhole, Wrote
    <3> QED BY <3>2, <3>3
  <2>3. CASE j = k
    <3>1. job'[k] = state /\ Tool(k)' = Tool(k) /\ file'[Tool(k).dst] = rec
      BY <1>7, <1>8 DEF f
    <3>2. CASE state = "writing"
      <4>1. ASSUME Contenders(k)' = {} PROVE file[f].writers = {} \/ job[k] = "writing"
        <5> SUFFICES ASSUME NEW i \in file[f].writers PROVE job[k] = "writing"
          OBVIOUS
        <5>1. i \in Jobs /\ job[i] = "writing" /\ Tool(i).dst = f
          BY <1>4
        <5>2. CASE i = k
          BY <5>1, <5>2
        <5>3. CASE i # k
          <6>1. Writes(Tool(i).kind)
            BY <1>1, <5>1 DEF AloneWhole, Writes
          <6>2. i \in Contenders(k)
            BY <5>1, <5>3, <6>1 DEF Contenders, Writes, f
          <6> QED BY <1>11, <4>1, <6>2
        <5> QED BY <5>2, <5>3
      <4>2. job[k] # "writing"
        BY <1>6, <3>2
      <4>3. Contenders(k)' = {} => rec.state = "partial"
        BY <1>6, <3>2, <4>1, <4>2
      <4> QED BY <1>5, <2>3, <3>1, <3>2, <4>3 DEF AloneWhole, Wrote, Writes
    <3>3. CASE state = "ok"
      <4>1. Contenders(k)' = {} => Contenders(k) = {}
        BY <1>11
      <4>2. Contenders(k)' = {} => rec.state = "whole"
        BY <1>6, <2>1, <2>3, <3>3, <4>1 DEF AloneWhole, f
      <4> QED BY <2>3, <3>1, <3>3, <4>2 DEF AloneWhole, Wrote
    <3>4. CASE state = "bad"
      BY <2>3, <3>1, <3>4 DEF AloneWhole, Wrote
    <3> QED BY <1>6, <3>2, <3>3, <3>4
  <2> QED BY <2>2, <2>3
<1>13. \A r \in Requests : AllDone(r)'
  BY <1>1, <1>2, <1>6, DoneStays
<1> QED BY <1>7, <1>9, <1>12, <1>13 DEF FilesInv

\* The end of an attempt.
LEMMA OutcomeOf ==
  ASSUME JobsTracked, NEW r \in Requests, NEW success \in BOOLEAN, Outcome(r, success)
  PROVE  /\ \A q \in Requests \ {r} : pc'[q] = pc[q] /\ attempt'[q] = attempt[q]
         /\ pc'[r] = "completed" => success /\ attempt'[r] = attempt[r]
         /\ attempt[r] \in Nat /\ attempt'[r] \in Nat /\ attempt'[r] >= attempt[r]
         /\ pc'[r] # "asking" /\ (pc'[r] = "ready" => attempt'[r] = attempt[r] + 1)
<1>1. /\ pc \in [Requests -> Active \cup {"completed", "failed", "cut"}] /\ attempt \in [Requests -> Attempts]
      /\ attempt[r] \in Nat /\ MaxRetries \in Nat
  BY FileAgentsAssumption DEF JobsTracked, Typed, Attempts
<1>2. \A q \in Requests \ {r} : pc'[q] = pc[q] /\ attempt'[q] = attempt[q]
  BY <1>1 DEF Outcome
<1>3. /\ pc'[r] = IF success THEN "completed"
                  ELSE IF attempt[r] < MaxRetries THEN "ready" ELSE "failed"
      /\ attempt'[r] = IF ~success /\ attempt[r] < MaxRetries THEN attempt[r] + 1 ELSE attempt[r]
  BY <1>1 DEF Outcome
<1> QED BY <1>1, <1>2, <1>3

\* An attempt that ends leaves the plans as they are.
LEMMA OutcomePlans ==
  ASSUME JobsTracked, NothingPlanned, NEW r \in Requests, NEW success \in BOOLEAN, Outcome(r, success),
         plan' = plan
  PROVE  NothingPlanned' /\ \A j \in Jobs : Tool(j)' = Tool(j)
<1>1. /\ \A q \in Requests \ {r} : pc'[q] = pc[q] /\ attempt'[q] = attempt[q]
      /\ attempt[r] \in Nat /\ attempt'[r] \in Nat /\ attempt'[r] >= attempt[r]
      /\ pc'[r] # "asking" /\ (pc'[r] = "ready" => attempt'[r] = attempt[r] + 1)
  BY OutcomeOf
<1>2. ASSUME NEW q \in Requests, NEW n \in Attempts,
             n > attempt'[q] \/ (n = attempt'[q] /\ pc'[q] \in {"ready", "asking"})
      PROVE  plan'[<<q, n>>] = <<>>
  <2>1. CASE q # r
    BY <1>1, <1>2, <2>1 DEF NothingPlanned
  <2>2. CASE q = r
    <3>1. n \in Nat
      BY FileAgentsAssumption DEF Attempts
    <3>2. n > attempt[r]
      BY <1>1, <1>2, <2>2, <3>1
    <3> QED BY <2>2, <3>2 DEF NothingPlanned
  <2> QED BY <2>1, <2>2
<1> QED BY <1>2 DEF NothingPlanned, Tool

LEMMA DispatchDone ==
  ASSUME DoneInv, NEW r \in Requests, pc[r] \in {"ready", "asking"},
         NEW p \in Plans \cup {Given[q] : q \in Requests}, Dispatch(r, p)
  PROVE  /\ FilesTyped' /\ FilesInv' /\ \A q \in Requests : AllDone(q)'
<1>1. /\ JobsTracked /\ FilesTyped /\ NothingPlanned /\ (\A q \in Requests : AllDone(q))
      /\ \A j \in Jobs : AloneWhole(j)
  BY DEF DoneInv, FilesInv
<1>2. /\ attempt' = attempt /\ file' = file
      /\ plan \in [Requests \X Attempts -> Plans \cup {Given[q] : q \in Requests} \cup {<<>>}]
      /\ plan' = [plan EXCEPT ![<<r, attempt[r]>>] = p]
      /\ attempt \in [Requests -> Attempts]
      /\ pc'[r] = "gathering" /\ \A q \in Requests \ {r} : pc'[q] = pc[q]
  BY <1>1 DEF Dispatch, JobsTracked, Typed
<1>3. ASSUME NEW j \in Jobs
      PROVE  \/ /\ job[j] = "none" /\ j[1] = r /\ Tool(j)' = p[j[3]]
                /\ job'[j] = StartOf(p[j[3]].kind)
             \/ /\ job'[j] = job[j]
                /\ job[j] # "none" => Tool(j)' = Tool(j)
  <2>1. j[1] \in Requests /\ j[2] \in Attempts
    BY DEF Jobs
  <2>2. CASE j[1] = r /\ j[2] = attempt[r]
    <3>1. job[j] = "none"
      BY <1>1, <2>2 DEF JobsTracked, Tracked
    <3>2. plan'[<<j[1], j[2]>>] = p
      BY <1>2, <2>1, <2>2
    <3> QED BY <2>2, <3>1, <3>2 DEF Dispatch, Tool
  <2>3. CASE ~(j[1] = r /\ j[2] = attempt[r])
    <3>1. plan'[<<j[1], j[2]>>] = plan[<<j[1], j[2]>>]
      BY <1>2, <2>1, <2>3
    <3>2. job'[j] = job[j]
      BY <2>3 DEF Dispatch
    <3> QED BY <3>1, <3>2 DEF Tool
  <2> QED BY <2>2, <2>3
<1>4. \A kind : /\ StartOf(kind) \in {"bad", "asking", "queued"}
                /\ StartOf(kind) = "asking" => kind = "remote"
                /\ StartOf(kind) = "bad" => kind = "unknown"
  BY DEF StartOf
<1>5. ASSUME NEW j \in Jobs PROVE Quiet(j)
  <2>1. CASE job[j] = "none" /\ j[1] = r /\ Tool(j)' = p[j[3]] /\ job'[j] = StartOf(p[j[3]].kind)
    BY <1>4, <2>1 DEF Quiet, Started, Writes
  <2>2. CASE job'[j] = job[j] /\ (job[j] # "none" => Tool(j)' = Tool(j))
    BY <1>1, <2>2 DEF Quiet, Started, Writes, AloneWhole
  <2> QED BY <1>3, <2>1, <2>2
<1>6. Threads' \subseteq Threads
  <2>1. ASSUME NEW j \in Jobs, job'[j] \in InThread PROVE job[j] \in InThread
    BY <1>3, <1>4, <2>1
  <2> QED BY <2>1 DEF Threads
<1>7. FilesTyped' /\ \A j \in Jobs : AloneWhole(j)'
  BY <1>1, <1>2, <1>5, <1>6, QuietKeeps
<1>8. NothingPlanned'
  <2>1. ASSUME NEW q \in Requests, NEW n \in Attempts,
               n > attempt[q] \/ (n = attempt[q] /\ pc'[q] \in {"ready", "asking"})
        PROVE  plan'[<<q, n>>] = <<>>
    <3>1. <<q, n>> # <<r, attempt[r]>>
      BY <1>2, <2>1, FileAgentsAssumption DEF Attempts
    <3>2. plan'[<<q, n>>] = plan[<<q, n>>]
      BY <1>2, <3>1
    <3> QED BY <1>1, <1>2, <2>1, <3>2 DEF NothingPlanned
  <2> QED BY <1>2, <2>1 DEF NothingPlanned
<1>9. ASSUME NEW q \in Requests PROVE AllDone(q)'
  <2>1. CASE q = r
    BY <1>2, <2>1 DEF AllDone
  <2>2. CASE q # r
    <3>1. plan'[<<q, attempt[q]>>] = plan[<<q, attempt[q]>>]
      BY <1>2, <2>2
    <3>2. \A j \in Jobs : j[1] = q => job'[j] = job[j]
      BY <2>2 DEF Dispatch
    <3>3. Current(q)' = Current(q)
      BY <1>2, <3>1 DEF Current
    <3> QED BY <1>1, <1>2, <2>2, <3>2, <3>3 DEF AllDone, Current
  <2> QED BY <2>1, <2>2
<1> QED BY <1>7, <1>8, <1>9 DEF FilesInv

\* An attempt ends, or its subtask turns to the LLM, and no file is touched.
LEMMA AttemptEnds ==
  ASSUME DoneInv, NEW r \in Requests, NEW success \in BOOLEAN, Outcome(r, success),
         UNCHANGED <<plan, file>>,
         \A j \in Jobs : \/ job'[j] = job[j]
                         \/ job[j] \in {"queued", "asking"} /\ job'[j] = "cancelled" /\ ~success /\ j[1] = r,
         success => \A j \in Current(r) : job[j] = "ok",
         pc[r] \in {"ready", "asking", "gathering"}
  PROVE  /\ FilesTyped' /\ FilesInv' /\ \A q \in Requests : AllDone(q)'
<1>1. /\ JobsTracked /\ FilesTyped /\ NothingPlanned /\ (\A q \in Requests : AllDone(q))
      /\ \A j \in Jobs : AloneWhole(j)
  BY DEF DoneInv, FilesInv
<1>2. NothingPlanned' /\ \A j \in Jobs : Tool(j)' = Tool(j)
  BY <1>1, OutcomePlans
<1>3. ASSUME NEW j \in Jobs PROVE Quiet(j)
  BY <1>1, <1>2 DEF Quiet, Started, Writes, AloneWhole
<1>4. Threads' \subseteq Threads
  BY DEF Threads
<1>5. FilesTyped' /\ \A j \in Jobs : AloneWhole(j)'
  BY <1>1, <1>3, <1>4, QuietKeeps
<1>6. ASSUME NEW q \in Requests, pc'[q] = "completed", NEW j \in Current(q)' PROVE job'[j] = "ok"
  <2>1. attempt'[q] = attempt[q]
    BY <1>1, <1>6, OutcomeOf
  <2>2. j \in Current(q)
    BY <2>1 DEF Current
  <2>3. j \in Jobs /\ j[1] = q
    BY <2>2 DEF Current
  <2>4. CASE q = r
    <3>1. success
      BY <1>1, <1>6, <2>4, OutcomeOf
    <3> QED BY <2>2, <2>3, <2>4, <3>1
  <2>5. CASE q # r
    <3>1. pc[q] = "completed"
      BY <1>1, <1>6, <2>5, OutcomeOf
    <3>2. job[j] = "ok"
      BY <1>1, <2>2, <3>1 DEF AllDone
    <3> QED BY <2>3, <2>5, <3>2
  <2> QED BY <2>4, <2>5
<1> QED BY <1>2, <1>5, <1>6 DEF FilesInv, AllDone

LEMMA RequestDone ==
  ASSUME DoneInv, NEW r \in Requests,
         \/ Begin(r) \/ LlmAnswersInText(r) \/ LlmNamesTools(r)
         \/ LlmRaises(r) \/ Aggregate(r) \/ TimeOut(r) \/ Interrupt(r)
  PROVE  /\ FilesTyped' /\ FilesInv' /\ \A q \in Requests : AllDone(q)'
<1>1. /\ JobsTracked /\ FilesTyped /\ NothingPlanned /\ (\A q \in Requests : AllDone(q))
      /\ \A j \in Jobs : AloneWhole(j)
  BY DEF DoneInv, FilesInv
<1>2. CASE Begin(r)
  <2>1. CASE Given[r] # <<>>
    BY <1>2, <2>1, DispatchDone DEF Begin
  <2>2. CASE Given[r] = <<>> /\ r \in Empty
    <3>1. Outcome(r, FALSE) /\ UNCHANGED <<plan, job, file>> /\ pc[r] = "ready"
      BY <1>2, <2>2 DEF Begin
    <3> QED BY <3>1, AttemptEnds
  <2>3. CASE Given[r] = <<>> /\ r \notin Empty
    <3>1. /\ pc[r] = "ready" /\ pc' = [pc EXCEPT ![r] = "asking"]
          /\ UNCHANGED <<attempt, plan, job, file>>
      BY <1>2, <2>3 DEF Begin
    <3>2. \A j \in Jobs : Tool(j)' = Tool(j)
      BY <3>1 DEF Tool
    <3>3. ASSUME NEW j \in Jobs PROVE Quiet(j)
      BY <1>1, <3>1, <3>2 DEF Quiet, Started, Writes, AloneWhole
    <3>4. Threads' = Threads
      BY <3>1 DEF Threads
    <3>5. FilesTyped' /\ \A j \in Jobs : AloneWhole(j)'
      BY <1>1, <3>1, <3>3, <3>4, QuietKeeps
    <3>6. \A q \in Requests : pc'[q] = pc[q] \/ (pc'[q] = "asking" /\ pc[q] = "ready")
      BY <1>1, <3>1 DEF JobsTracked, Typed
    <3>7. NothingPlanned'
      BY <1>1, <3>1, <3>6 DEF NothingPlanned
    <3>8. \A q \in Requests : AllDone(q)'
      BY <1>1, <3>1, <3>6 DEF AllDone, Current
    <3> QED BY <3>5, <3>7, <3>8 DEF FilesInv
  <2> QED BY <2>1, <2>2, <2>3
<1>3. CASE LlmAnswersInText(r)
  <2>1. pc[r] = "asking" /\ Outcome(r, TRUE) /\ UNCHANGED <<plan, job, file>>
    BY <1>3 DEF LlmAnswersInText
  <2>2. attempt[r] \in Attempts
    BY <1>1 DEF JobsTracked, Typed
  <2>3. plan[<<r, attempt[r]>>] = <<>>
    BY <1>1, <2>1, <2>2 DEF NothingPlanned
  <2>4. Current(r) = {}
    BY <2>3 DEF Current
  <2> QED BY <2>1, <2>4, AttemptEnds
<1>4. CASE LlmNamesTools(r)
  BY <1>4, DispatchDone DEF LlmNamesTools
<1>5. CASE LlmRaises(r)
  <2>1. pc[r] = "asking" /\ Outcome(r, FALSE) /\ UNCHANGED <<plan, job, file>>
    BY <1>5 DEF LlmRaises
  <2> QED BY <2>1, AttemptEnds
<1>6. CASE Aggregate(r)
  <2> DEFINE success == \A j \in Current(r) : job[j] = "ok"
  <2>1. pc[r] = "gathering" /\ Outcome(r, success) /\ UNCHANGED <<plan, job, file>> /\ success \in BOOLEAN
    BY <1>6 DEF Aggregate
  <2>2. success => \A j \in Current(r) : job[j] = "ok"
    OBVIOUS
  <2> HIDE DEF success
  <2> QED BY <2>1, <2>2, AttemptEnds
<1>7. CASE TimeOut(r)
  <2>1. /\ pc[r] \in {"asking", "gathering"} /\ Outcome(r, FALSE) /\ UNCHANGED <<plan, file>>
        /\ job' = [j \in Jobs |-> IF j \in Current(r) /\ job[j] \in {"queued", "asking"}
                                  THEN "cancelled" ELSE job[j]]
    BY <1>7 DEF TimeOut, CancelJobs
  <2>2. \A j \in Jobs : \/ job'[j] = job[j]
                        \/ job[j] \in {"queued", "asking"} /\ job'[j] = "cancelled" /\ j[1] = r
    BY <2>1 DEF Current
  <2> QED BY <2>1, <2>2, AttemptEnds
<1>8. CASE Interrupt(r)
  <2>1. /\ pc[r] \in Active /\ pc' = [pc EXCEPT ![r] = "cut"]
        /\ UNCHANGED <<attempt, plan, file>>
        /\ job' = [j \in Jobs |-> IF j \in Current(r) /\ job[j] \in {"queued", "asking"}
                                  THEN "cancelled" ELSE job[j]]
    BY <1>8 DEF Interrupt, CancelJobs
  <2>2. \A j \in Jobs : \/ job'[j] = job[j]
                        \/ job[j] \in {"queued", "asking"} /\ job'[j] = "cancelled" /\ j[1] = r
    BY <2>1 DEF Current
  <2>3. \A j \in Jobs : Tool(j)' = Tool(j)
    BY <2>1 DEF Tool
  <2>4. ASSUME NEW j \in Jobs PROVE Quiet(j)
    BY <1>1, <2>2, <2>3 DEF Quiet, Started, Writes, AloneWhole
  <2>5. Threads' \subseteq Threads
    BY <2>2 DEF Threads
  <2>6. FilesTyped' /\ \A j \in Jobs : AloneWhole(j)'
    BY <1>1, <2>1, <2>4, <2>5, QuietKeeps
  <2>7. \A q \in Requests : pc'[q] = IF q = r THEN "cut" ELSE pc[q]
    BY <1>1, <2>1 DEF JobsTracked, Typed
  <2>8. NothingPlanned'
    BY <1>1, <2>1, <2>7 DEF NothingPlanned
  <2>9. ASSUME NEW q \in Requests PROVE AllDone(q)'
    <3>1. CASE q = r
      BY <2>7, <3>1 DEF AllDone
    <3>2. CASE q # r
      BY <1>1, <2>1, <2>2, <2>7, <3>2 DEF AllDone, Current
    <3> QED BY <3>1, <3>2
  <2> QED BY <2>6, <2>8, <2>9 DEF FilesInv
<1> QED BY <1>2, <1>3, <1>4, <1>5, <1>6, <1>7, <1>8

LEMMA AlwaysDone == Spec => []DoneInv
<1>1. ASSUME DoneInv, [Next]_vars PROVE DoneInv'
  <2>1. JobsTracked'
    BY <1>1, NextTracked DEF DoneInv
  <2>2. CASE UNCHANGED vars
    <3>1. UNCHANGED <<pc, attempt, plan, job, file>>
      BY <2>2 DEF vars
    <3>2. FilesTyped' /\ (\A r \in Requests : AllDone(r)')
      BY <1>1, <3>1 DEF DoneInv, FilesTyped, Threads, AllDone, Current, Tool
    <3>3. FilesInv'
      BY <1>1, <3>1 DEF DoneInv, FilesInv, NothingPlanned, AloneWhole, Wrote, Contenders, Tool
    <3> QED BY <2>1, <3>2, <3>3 DEF DoneInv
  <2>3. ASSUME NEW r \in Requests,
               \/ Begin(r) \/ LlmAnswersInText(r) \/ LlmNamesTools(r)
               \/ LlmRaises(r) \/ Aggregate(r) \/ TimeOut(r) \/ Interrupt(r)
        PROVE  DoneInv'
    <3>1. FilesTyped' /\ FilesInv' /\ \A q \in Requests : AllDone(q)'
      BY <1>1, <2>3, RequestDone
    <3> QED BY <2>1, <3>1 DEF DoneInv
  <2>4. ASSUME NEW k \in Jobs, ThreadStep(k) \/ LlmReturns(k)
        PROVE  DoneInv'
    <3>1. FilesTyped' /\ FilesInv' /\ \A q \in Requests : AllDone(q)'
      BY <1>1, <2>4, QuietMoves, WritingMoves DEF ThreadStep
    <3> QED BY <2>1, <3>1 DEF DoneInv
  <2> QED BY <1>1, <2>2, <2>3, <2>4 DEF Next
<1> QED BY <1>1, DoneInitially, PTL DEF Spec

\* A subtask that is reported as completed did all that its last answer of the
\* LLM asked for, and a file that it alone wrote is whole (document_processor
\* 331-362): for any plans, timeouts, retries and threads.
THEOREM CompletedWasDone == Spec => []JobsInv
<1>1. ASSUME DoneInv PROVE JobsInv
  <2>1. TypeOK
    BY <1>1 DEF DoneInv, JobsTracked, Typed, FilesTyped, Threads, Tool, TypeOK
  <2>2. ASSUME NEW r \in Requests, pc[r] = "completed", NEW j \in Current(r)
        PROVE  /\ job[j] = "ok"
               /\ Wrote(j) /\ Rivals(j) = {} => file[Tool(j).dst].state = "whole"
    <3>1. j \in Jobs /\ job[j] = "ok"
      BY <1>1, <2>2 DEF DoneInv, AllDone, Current
    <3>2. Contenders(j) \subseteq Rivals(j)
      BY DEF Contenders, Rivals
    <3> QED BY <1>1, <3>1, <3>2 DEF DoneInv, FilesInv, AloneWhole
  <2> QED BY <2>1, <2>2 DEF JobsInv, CompletedIsDone
<1> QED BY <1>1, AlwaysDone, PTL
-----------------------------------------------------------------------------
(* The agents that carry out tool calls one after the other.  They are     *)
(* others than those above, with subtasks and variables of their own.      *)
-----------------------------------------------------------------------------
(* Induction over a number, as the least one that is not in a set.         *)

Below == {p \in Nat \X Nat : p[1] < p[2]}

LEMMA LeastNumber ==
  ASSUME NEW S \in SUBSET Nat, S # {}
  PROVE  \E n \in S : \A m \in S : n <= m
<1>1. IsWellFoundedOn(Below, Nat)
  BY NatLessThanWellFounded DEF OpToRel, Below, IsWellFoundedOn
<1>2. PICK n \in S : \A m \in S : ~(<<m, n>> \in Below)
  BY <1>1, WFMin, Zenon
<1>3. \A m \in S : ~(m < n)
  BY <1>2 DEF Below
<1>4. \A m \in S : m \in Nat /\ n \in Nat
  OBVIOUS
<1> QED BY <1>2, <1>3, <1>4

LEMMA Induction ==
  ASSUME NEW n \in Nat, NEW S, 0 \in S, \A k \in 1..n : k - 1 \in S => k \in S
  PROVE  0..n \subseteq S
<1> DEFINE B == (0..n) \ S
<1> SUFFICES ASSUME B # {} PROVE FALSE
  OBVIOUS
<1>1. B \in SUBSET Nat
  OBVIOUS
<1>2. PICK m \in B : \A k \in B : m <= k
  BY <1>1, LeastNumber
<1>3. m \in 1..n /\ m - 1 \in 0..n /\ ~(m <= m - 1)
  BY <1>2
<1>4. m - 1 \in S
  BY <1>2, <1>3
<1> QED BY <1>2, <1>3, <1>4

\* Search of a sequence finds the first place that there is.
LEMMA LeastIsMin ==
  ASSUME NEW S \in SUBSET Nat, S # {}
  PROVE  Min(S) \in S /\ \A m \in S : Min(S) <= m
<1> DEFINE P(n) == n \in S /\ \A m \in S : n <= m
<1>1. \E n : P(n)
  BY LeastNumber
<1>2. P(CHOOSE n : P(n))
  BY <1>1, Zenon
<1>3. Min(S) = CHOOSE n \in S : \A m \in S : n <= m
  BY DEF Min
<1> QED BY <1>2, <1>3

LEMMA ValidTyped ==
  ASSUME NEW calls \in Seq(Calls)
  PROVE  Valid(calls) \in Seq(Calls)
<1> DEFINE I == {i \in 1..Len(calls) : calls[i].tool = "malformed"}
<1>1. I \in SUBSET Nat
  OBVIOUS
<1>2. CASE I = {}
  BY <1>2 DEF Valid, SelectInSeq
<1>3. CASE I # {}
  <2>1. Min(I) \in I
    BY <1>1, <1>3, LeastIsMin
  <2>2. Min(I) \in 1..Len(calls)
    BY <2>1
  <2>3. Valid(calls) = IF Min(I) = 0 THEN calls ELSE SubSeq(calls, 1, Min(I) - 1)
    BY <1>3, Zenon DEF Valid, SelectInSeq
  <2> HIDE DEF I
  <2> QED BY <2>2, <2>3, SubSeqProperties
<1> QED BY <1>2, <1>3

LEMMA SkipTyped ==
  ASSUME NEW calls \in Seq(Calls)
  PROVE  Skip(calls) \in Seq(Calls)
<1> DEFINE I == {i \in 1..Len(calls) : ~AtOnce(calls[i])}
<1>1. I \in SUBSET Nat
  OBVIOUS
<1>2. CASE I = {}
  BY <1>2 DEF Skip, SelectInSeq
<1>3. CASE I # {}
  <2>1. Min(I) \in I
    BY <1>1, <1>3, LeastIsMin
  <2>2. Min(I) \in 1..Len(calls)
    BY <2>1
  <2>3. Skip(calls) = IF Min(I) = 0 THEN <<>> ELSE SubSeq(calls, Min(I), Len(calls))
    BY <1>3, Zenon DEF Skip, SelectInSeq
  <2> HIDE DEF I
  <2> QED BY <2>2, <2>3, SubSeqProperties
<1> QED BY <1>2, <1>3

-----------------------------------------------------------------------------
(* The calls of a plan, one after the other.                               *)

\* One step of the recursion, and a function that follows it.
Follows(agent, s, calls, n, f) ==
  f = [k \in 0..n |-> IF k = 0 THEN s ELSE ExecuteTool(agent, f[k - 1], calls[k])]

\* The recursion has a solution for every length: a solution for one call less
\* is extended by the result of the last call.
LEMMA ReplayExists ==
  ASSUME NEW agent, NEW s, NEW calls, NEW n \in Nat
  PROVE  \E f : Follows(agent, s, calls, n, f)
<1> DEFINE S == {m \in 0..n : \E f : Follows(agent, s, calls, m, f)}
<1>1. 0 \in S
  <2>1. Follows(agent, s, calls, 0, [k \in 0..0 |-> s])
    BY DEF Follows
  <2> QED BY <2>1
<1>2. ASSUME NEW m \in 1..n, m - 1 \in S
      PROVE  m \in S
  <2>1. PICK f : Follows(agent, s, calls, m - 1, f)
    BY <1>2
  <2> DEFINE last == ExecuteTool(agent, f[m - 1], calls[m])
             g == [k \in 0..m |-> IF k = m THEN last ELSE f[k]]
  <2>2. \A k \in 0..(m - 1) :
          f[k] = IF k = 0 THEN s ELSE ExecuteTool(agent, f[k - 1], calls[k])
    BY <2>1 DEF Follows
  <2> HIDE DEF last
  <2>3. \A k \in 0..(m - 1) : g[k] = f[k]
    OBVIOUS
  <2>4. ASSUME NEW k \in 0..m
        PROVE  g[k] = IF k = 0 THEN s ELSE ExecuteTool(agent, g[k - 1], calls[k])
    <3>1. CASE k = m
      <4>1. g[k] = ExecuteTool(agent, f[m - 1], calls[m]) /\ k # 0
        BY <3>1 DEF last
      <4>2. g[k - 1] = f[m - 1]
        BY <2>3, <3>1
      <4> QED BY <3>1, <4>1, <4>2
    <3>2. CASE k # m /\ k # 0
      <4>1. g[k] = f[k] /\ g[k - 1] = f[k - 1] /\ k \in 0..(m - 1)
        BY <2>3, <3>2
      <4> QED BY <2>2, <3>2, <4>1
    <3>3. CASE k # m /\ k = 0
      <4>1. g[k] = f[k] /\ k \in 0..(m - 1)
        BY <2>3, <3>3
      <4> QED BY <2>2, <3>3, <4>1
    <3> QED BY <3>1, <3>2, <3>3
  <2>5. g = [k \in 0..m |-> g[k]]
    OBVIOUS
  <2> HIDE DEF g
  <2>6. Follows(agent, s, calls, m, g)
    BY <2>4, <2>5, Zenon DEF Follows
  <2> QED BY <2>6
<1> HIDE DEF S
<1>3. 0..n \subseteq S
  BY <1>1, <1>2, Induction
<1>4. n \in S
  BY <1>3
<1> QED BY <1>4 DEF S

LEMMA ReplayFollows ==
  ASSUME NEW agent, NEW s, NEW calls \in Seq(Calls)
  PROVE  Follows(agent, s, calls, Len(calls), Replay(agent, s, calls))
<1>0. Len(calls) \in Nat
  OBVIOUS
<1>1. \E f : Follows(agent, s, calls, Len(calls), f)
  BY <1>0, ReplayExists, Zenon
<1>2. Follows(agent, s, calls, Len(calls), CHOOSE f : Follows(agent, s, calls, Len(calls), f))
  BY <1>1, Zenon
<1>3. Replay(agent, s, calls) = CHOOSE f : Follows(agent, s, calls, Len(calls), f)
  BY Zenon DEF Replay, Follows
<1> QED BY <1>2, <1>3, Zenon

\* A store that came out of another: what is new in it has a new number.
Later(s, t) == /\ IsStore(t)
               /\ s.counter <= t.counter
               /\ DOMAIN t.records \ DOMAIN s.records \subseteq (s.counter + 1)..t.counter

LEMMA ExecuteToolLater ==
  ASSUME NEW agent \in StoreAgents, NEW s, IsStore(s), NEW call \in Calls
  PROVE  Later(s, ExecuteTool(agent, s, call))
<1> DEFINE t == ExecuteTool(agent, s, call)
<1>1. Later(s, s)
  BY DEF Later, IsStore
<1>2. Later(s, Create(s))
  BY DEF Later, IsStore, Create
<1>3. Later(s, Change(s, call.id))
  BY DEF Later, IsStore, Change
<1>4. Later(s, Delete(s, call.id))
  BY DEF Later, IsStore, Delete
<1>5. Later(s, Waste(s))
  BY DEF Later, IsStore, Waste
<1>6. t \in {s, Create(s), Waste(s), Change(s, call.id), Delete(s, call.id)}
  BY DEF ExecuteTool, Tools, StoreAgents
<1> QED BY <1>1, <1>2, <1>3, <1>4, <1>5, <1>6

LEMMA LaterIsTransitive ==
  ASSUME NEW s, NEW t, NEW u, IsStore(s), Later(s, t), Later(t, u)
  PROVE  Later(s, u)
BY DEF Later, IsStore

LEMMA ReplayLater ==
  ASSUME NEW agent \in StoreAgents, NEW s, IsStore(s), NEW calls \in Seq(Calls)
  PROVE  Later(s, Replay(agent, s, calls)[Len(calls)])
<1> DEFINE run == Replay(agent, s, calls)
           S == {k \in 0..Len(calls) : Later(s, run[k])}
<1>1. \A k \in 0..Len(calls) :
        run[k] = IF k = 0 THEN s ELSE ExecuteTool(agent, run[k - 1], calls[k])
  <2>1. Follows(agent, s, calls, Len(calls), run)
    BY ReplayFollows, Zenon
  <2> HIDE DEF run
  <2> QED BY <2>1, Zenon DEF Follows
<1> HIDE DEF run
<1>0. Len(calls) \in Nat
  OBVIOUS
<1>2. 0 \in S
  <2>1. 0 \in 0..Len(calls) /\ run[0] = s
    BY <1>0, <1>1
  <2>2. Later(s, s)
    BY DEF Later, IsStore
  <2> QED BY <2>1, <2>2
<1>3. ASSUME NEW k \in 1..Len(calls), k - 1 \in S
      PROVE  k \in S
  <2>1. run[k] = ExecuteTool(agent, run[k - 1], calls[k]) /\ calls[k] \in Calls
    BY <1>1
  <2>2. Later(s, run[k - 1]) /\ IsStore(run[k - 1])
    BY <1>3 DEF Later
  <2>3. Later(run[k - 1], run[k])
    BY <2>1, <2>2, ExecuteToolLater
  <2>4. Later(s, run[k])
    BY <2>2, <2>3, LaterIsTransitive
  <2> QED BY <2>4
<1> HIDE DEF S
<1>4. 0..Len(calls) \subseteq S
  BY <1>0, <1>2, <1>3, Induction, Zenon
<1>5. Len(calls) \in S
  BY <1>0, <1>4
<1> QED BY <1>5 DEF S, run
-----------------------------------------------------------------------------
(* The stores.                                                             *)

StoresInv == /\ DOMAIN store = StoreAgents /\ \A a \in StoreAgents : IsStore(store[a])
             /\ DOMAIN given = StoreAgents /\ GivenExact

\* A store moves on to what a plan makes of it.
StoreStep(a, new) == /\ Later(store[a], new)
                     /\ store' = [store EXCEPT ![a] = new]
                     /\ given' = [given EXCEPT ![a] = @ \cup (1..new.counter)]

LEMMA NextStores ==
  ASSUME StoresInv, [ToolNext]_toolVars
  PROVE  \/ UNCHANGED storeVars
         \/ \E a \in StoreAgents : \E new : StoreStep(a, new)
<1>1. ASSUME NEW r \in ToolRequests, LlmAnswers(r)
      PROVE  \E a \in StoreAgents : \E new : StoreStep(a, new)
  <2> DEFINE a == request[r].agent
  <2>1. PICK calls \in PlansOf[a] : HandleToolCalls(r, calls) /\ a \in StoreAgents
    BY <1>1 DEF LlmAnswers
  <2>2. calls \in Seq(Calls)
    BY ToolAgentsAssumption, <2>1 DEF AgentNames
  <2>3. Valid(calls) \in Seq(Calls) /\ IsStore(store[a])
    BY <2>1, <2>2, ValidTyped DEF StoresInv
  <2>4. Later(store[a], After(a, calls))
    BY <2>1, <2>3, ReplayLater, Zenon DEF After
  <2>5. StoreStep(a, After(a, calls))
    BY <2>1, <2>4, Zenon DEF HandleToolCalls, Record, StoreStep
  <2> QED BY <2>1, <2>5
<1>2. ASSUME NEW r \in ToolRequests, LlmFails(r)
      PROVE  \E a \in StoreAgents : \E new : StoreStep(a, new)
  <2> DEFINE a == request[r].agent
  <2>1. a \in StoreAgents /\ IsStore(store[a])
    BY <1>2 DEF LlmFails, StoresInv
  <2>2. Later(store[a], store[a]) /\ Later(store[a], Create(store[a]))
    BY <2>1 DEF Later, IsStore, Create
  <2>3. \E new \in {store[a], Create(store[a])} : Record(r, new)
    BY <1>2 DEF LlmFails
  <2>4. \E new : StoreStep(a, new)
    BY <2>2, <2>3 DEF Record, StoreStep
  <2> QED BY <2>1, <2>4
<1>3. CASE UNCHANGED toolVars
  BY <1>3 DEF toolVars, storeVars
<1>4. CASE BeginTeardown \/ EndTeardown
  BY <1>4 DEF BeginTeardown, EndTeardown, storeVars
<1>5. ASSUME NEW r \in ToolRequests, BeginAttempt(r) \/ AttemptTimesOut(r)
      PROVE  UNCHANGED storeVars
  BY <1>5 DEF BeginAttempt, AttemptTimesOut, storeVars
<1>6. ASSUME NEW r \in ToolRequests, LlmNamesCalls(r) \/ LlmUnavailable(r) \/ FallbackReturns(r)
      PROVE  UNCHANGED storeVars
  BY <1>6 DEF LlmNamesCalls, LlmUnavailable, FallbackReturns, Proceed, storeVars
<1>7. ASSUME NEW r \in ToolRequests,
             \/ GetReturns(r) \/ ExtractReturns(r) \/ PageLoads(r)
             \/ ClickLands(r) \/ ClickRaises(r) \/ Settles(r)
      PROVE  UNCHANGED storeVars
  BY <1>7 DEF GetReturns, ExtractReturns, PageLoads, ClickLands, ClickRaises, Settles, StepTo,
              CallReturns, Proceed, storeVars
<1> QED
  BY <1>1, <1>2, <1>3, <1>4, <1>5, <1>6, <1>7 DEF ToolNext

LEMMA StoreStepKeeps ==
  ASSUME StoresInv, NEW a \in StoreAgents, NEW new, StoreStep(a, new)
  PROVE  /\ StoresInv'
         /\ \A i \in DOMAIN store'[a].records \ DOMAIN store[a].records : i \notin given[a]
<1>1. /\ DOMAIN store' = StoreAgents /\ DOMAIN given' = StoreAgents
      /\ store'[a] = new /\ given'[a] = given[a] \cup (1..new.counter)
      /\ \A b \in StoreAgents \ {a} : store'[b] = store[b] /\ given'[b] = given[b]
  BY DEF StoresInv, StoreStep
<1>2. /\ IsStore(store[a]) /\ IsStore(new) /\ store[a].counter <= new.counter
      /\ DOMAIN new.records \ DOMAIN store[a].records \subseteq (store[a].counter + 1)..new.counter
      /\ given[a] = 1..store[a].counter
  BY DEF StoresInv, StoreStep, Later, GivenExact
<1>3. store[a].counter \in Nat /\ new.counter \in Nat
  BY <1>2 DEF IsStore
<1>4. given'[a] = 1..new.counter
  BY <1>1, <1>2, <1>3
<1>5. \A i \in DOMAIN new.records \ DOMAIN store[a].records : i \notin given[a]
  BY <1>2, <1>3
<1>6. \A b \in StoreAgents : IsStore(store'[b]) /\ given'[b] = 1..store'[b].counter
  BY <1>1, <1>2, <1>4 DEF StoresInv, GivenExact
<1> QED BY <1>1, <1>5, <1>6, Zenon DEF StoresInv, GivenExact, IsStore

LEMMA StoresInitially == ToolInit => StoresInv
<1> SUFFICES ASSUME ToolInit PROVE StoresInv
  OBVIOUS
<1> DEFINE s == [records |-> [i \in {} |-> "new"], counter |-> 0]
<1>1. DOMAIN s.records = {} /\ s.counter = 0
  OBVIOUS
<1>2. IsStore(s) /\ 1..s.counter = {}
  BY <1>1 DEF IsStore
<1> HIDE DEF s
<1>3. store = [a \in StoreAgents |-> s] /\ given = [a \in StoreAgents |-> {}]
  BY DEF ToolInit, s
<1> QED BY <1>2, <1>3 DEF StoresInv, GivenExact

LEMMA NextKeepsStores ==
  ASSUME StoresInv, [ToolNext]_toolVars
  PROVE  StoresInv'
<1>1. CASE UNCHANGED storeVars
  BY <1>1 DEF storeVars, StoresInv, GivenExact, IsStore
<1>2. ASSUME NEW a \in StoreAgents, NEW new, StoreStep(a, new)
      PROVE  StoresInv'
  BY <1>2, StoreStepKeeps
<1>3. \/ UNCHANGED storeVars
      \/ \E a \in StoreAgents : \E new : StoreStep(a, new)
  BY NextStores
<1> QED BY <1>1, <1>2, <1>3, Zenon

\* No step brings back a number that was given out.
LEMMA NextIsFresh ==
  ASSUME StoresInv, [ToolNext]_toolVars
  PROVE  \A a \in StoreAgents :
           \A i \in DOMAIN store'[a].records \ DOMAIN store[a].records : i \notin given[a]
<1>1. CASE UNCHANGED storeVars
  BY <1>1 DEF storeVars
<1>2. ASSUME NEW a \in StoreAgents, NEW new, StoreStep(a, new)
      PROVE  \A b \in StoreAgents :
               \A i \in DOMAIN store'[b].records \ DOMAIN store[b].records : i \notin given[b]
  <2>1. \A b \in StoreAgents \ {a} : store'[b] = store[b]
    BY <1>2 DEF StoreStep, StoresInv
  <2> QED BY <1>2, <2>1, StoreStepKeeps
<1> QED BY <1>1, <1>2, NextStores
-----------------------------------------------------------------------------
(* The subtasks.                                                           *)

RequestStates == [agent : AgentNames, text : Texts, attempt : Nat,
                  pc : Waiting \cup {"ready", "completed", "failed"}]
VisitStates == [todo : Seq(Calls), touched : BOOLEAN,
                step : {"none", "getting", "extracting"} \cup Browsing]

ToolsTyped == /\ request \in [ToolRequests -> RequestStates]
              /\ visit \in [ToolRequests -> VisitStates]
              /\ open \cup stray \cup garbled \subseteq ToolRequests
              /\ client \in {"open", "closing", "none"} /\ playwright \in BOOLEAN
              /\ changed \in [ToolRequests -> Nat] /\ cut \in [ToolRequests -> Nat]

\* What TypeOK and the invariants say of one subtask.
Local(r) ==
  /\ request[r].text \in TextsOf[request[r].agent]
  /\ request[r].attempt <= ToolRetries[request[r].agent]
  /\ visit[r].step # "none" <=> request[r].pc \in {"calling", "fetching"}
  /\ visit[r].todo # <<>> <=> request[r].pc = "calling"
  /\ VisitOK(r)
  /\ r \in open => visit[r].step \in Browsing
  /\ cut[r] > 0 => request[r].agent = "browser"
  /\ r \notin garbled =>
       changed[r] <= cut[r] + (IF request[r].pc = "completed" \/ visit[r].touched THEN 1 ELSE 0)

USE DEF VisitOK

StrayLate == stray # {} => client = "none"

SubtasksInv == ToolsTyped /\ StrayLate /\ \A r \in ToolRequests : Local(r)

\* A step that is about one subtask.
About(r) == /\ \A p \in ToolRequests \ {r} :
                 /\ request'[p] = request[p] /\ visit'[p] = visit[p]
                 /\ changed'[p] = changed[p] /\ cut'[p] = cut[p]
                 /\ p \in open' <=> p \in open
                 /\ p \in garbled' <=> p \in garbled

LEMMA AboutOne ==
  ASSUME SubtasksInv, NEW r \in ToolRequests, ToolsTyped', StrayLate', About(r), Local(r)'
  PROVE  SubtasksInv'
<1>1. ASSUME NEW p \in ToolRequests \ {r}
      PROVE  Local(p)'
  BY <1>1 DEF SubtasksInv, About, Local
<1> QED BY <1>1 DEF SubtasksInv

LEMMA OutcomeMoves ==
  ASSUME ToolsTyped, NEW r \in ToolRequests, Local(r),
         NEW success \in BOOLEAN, EndAttempt(r, success)
  PROVE  /\ request' \in [ToolRequests -> RequestStates]
         /\ \A p \in ToolRequests \ {r} : request'[p] = request[p]
         /\ request'[r].agent = request[r].agent /\ request'[r].text = request[r].text
         /\ request'[r].attempt <= ToolRetries[request[r].agent]
         /\ request'[r].pc = "completed" <=> success
         /\ request'[r].pc \in {"completed", "ready", "failed"}
<1> DEFINE q == request[r]
           done == [q EXCEPT !.pc = "completed"]
           again == [q EXCEPT !.pc = "ready", !.attempt = q.attempt + 1]
           over == [q EXCEPT !.pc = "failed"]
<1>1. /\ q \in RequestStates /\ q.agent \in AgentNames /\ q.attempt \in Nat
      /\ ToolRetries[q.agent] \in Nat /\ q.attempt <= ToolRetries[q.agent]
  BY ToolAgentsAssumption DEF ToolsTyped, Local, RequestStates
<1> HIDE DEF q
<1>2. /\ done \in RequestStates /\ done.agent = q.agent /\ done.text = q.text
      /\ done.attempt = q.attempt /\ done.pc = "completed"
  BY <1>1 DEF RequestStates, Waiting
<1>3. /\ again \in RequestStates /\ again.agent = q.agent /\ again.text = q.text
      /\ again.attempt = q.attempt + 1 /\ again.pc = "ready"
  <2>1. q.attempt + 1 \in Nat /\ [q EXCEPT !.pc = "ready"].attempt = q.attempt
    BY <1>1 DEF RequestStates
  <2> QED BY <1>1, <2>1 DEF RequestStates, Waiting
<1>4. /\ over \in RequestStates /\ over.agent = q.agent /\ over.text = q.text
      /\ over.attempt = q.attempt /\ over.pc = "failed"
  BY <1>1 DEF RequestStates, Waiting
<1>5. request' = [request EXCEPT ![r] =
        IF success THEN done ELSE IF q.attempt < ToolRetries[q.agent] THEN again ELSE over]
  BY DEF EndAttempt, q
<1> HIDE DEF done, again, over
<1>6. /\ request' \in [ToolRequests -> RequestStates]
      /\ \A p \in ToolRequests \ {r} : request'[p] = request[p]
      /\ request'[r] = IF success THEN done ELSE IF q.attempt < ToolRetries[q.agent] THEN again ELSE over
  BY <1>2, <1>3, <1>4, <1>5 DEF ToolsTyped
<1>7. CASE success
  <2>1. request'[r] = done
    BY <1>6, <1>7
  <2> QED BY <1>1, <1>2, <1>6, <1>7, <2>1 DEF q
<1>8. CASE ~success /\ q.attempt < ToolRetries[q.agent]
  <2>1. request'[r] = again
    BY <1>6, <1>8
  <2>2. q.attempt + 1 <= ToolRetries[q.agent]
    BY <1>1, <1>8
  <2> QED BY <1>3, <1>6, <1>8, <2>1, <2>2 DEF q
<1>9. CASE ~success /\ ~(q.attempt < ToolRetries[q.agent])
  <2>1. request'[r] = over
    BY <1>6, <1>9
  <2> QED BY <1>1, <1>4, <1>6, <1>9, <2>1 DEF q
<1> QED BY <1>7, <1>8, <1>9

LEMMA EndVisitMoves ==
  ASSUME ToolsTyped, NEW r \in ToolRequests, EndVisit(r)
  PROVE  /\ visit' \in [ToolRequests -> VisitStates] /\ visit'[r] = AtRest
         /\ AtRest.step = "none" /\ AtRest.todo = <<>> /\ AtRest.touched = FALSE
         /\ \A p \in ToolRequests \ {r} : visit'[p] = visit[p]
         /\ r \notin open' /\ open' \subseteq ToolRequests
         /\ \A p \in ToolRequests \ {r} : p \in open' <=> p \in open
         /\ stray' = stray
<1>1. AtRest \in VisitStates
  BY DEF AtRest, VisitStates
<1> QED BY <1>1 DEF ToolsTyped, EndVisit, AtRest
\* Where the calls of a visit go on, or end.
LEMMA ProceedMoves ==
  ASSUME ToolsTyped, StrayLate, NEW r \in ToolRequests, Local(r),
         NEW calls \in Seq(Calls), NEW touched \in BOOLEAN, Proceed(r, calls, touched)
  PROVE  /\ request' \in [ToolRequests -> RequestStates] /\ visit' \in [ToolRequests -> VisitStates]
         /\ open' \cup stray' \cup garbled' \subseteq ToolRequests
         /\ StrayLate' /\ UNCHANGED <<client, playwright, cut>>
         /\ \A p \in ToolRequests \ {r} : /\ request'[p] = request[p] /\ visit'[p] = visit[p]
                                          /\ p \in open' <=> p \in open
                                          /\ p \in garbled' <=> p \in garbled
         /\ request'[r].agent = request[r].agent /\ request'[r].text = request[r].text
         /\ request'[r].attempt <= ToolRetries[request[r].agent]
         /\ request'[r].pc # "fetching"
         /\ visit'[r].step # "none" <=> request'[r].pc = "calling"
         /\ visit'[r].todo # <<>> <=> request'[r].pc = "calling"
         /\ visit'[r].touched => request'[r].pc = "calling"
         /\ r \in open' => visit'[r].step \in Browsing
         /\ r \notin garbled' => /\ r \notin garbled
                                 /\ request'[r].pc = "completed" \/ visit'[r].touched = touched
<1> DEFINE rest == Skip(calls)
<1>1. rest \in Seq(Calls) /\ UNCHANGED <<client, playwright, cut>>
  BY SkipTyped DEF Proceed
<1>2. CASE rest = <<>>
  <2>1. EndVisit(r) /\ EndAttempt(r, TRUE) /\ UNCHANGED garbled
    BY <1>2 DEF Proceed
  <2>2. /\ request' \in [ToolRequests -> RequestStates]
        /\ \A p \in ToolRequests \ {r} : request'[p] = request[p]
        /\ request'[r].agent = request[r].agent /\ request'[r].text = request[r].text
        /\ request'[r].attempt <= ToolRetries[request[r].agent]
        /\ request'[r].pc = "completed"
    BY <2>1, OutcomeMoves
  <2> QED BY <1>1, <2>1, <2>2, EndVisitMoves DEF ToolsTyped, StrayLate
<1>3. CASE rest # <<>> /\ rest[1].tool = "malformed"
  <2>1. EndVisit(r) /\ EndAttempt(r, FALSE) /\ garbled' = garbled \cup {r}
    BY <1>3 DEF Proceed
  <2>2. /\ request' \in [ToolRequests -> RequestStates]
        /\ \A p \in ToolRequests \ {r} : request'[p] = request[p]
        /\ request'[r].agent = request[r].agent /\ request'[r].text = request[r].text
        /\ request'[r].attempt <= ToolRetries[request[r].agent]
        /\ request'[r].pc \in {"completed", "ready", "failed"}
    BY <2>1, OutcomeMoves
  <2> QED BY <1>1, <2>1, <2>2, EndVisitMoves DEF ToolsTyped, StrayLate
<1>4. CASE rest # <<>> /\ rest[1].tool # "malformed"
  <2> DEFINE first == IF rest[1].tool \in NeedsPlaywright THEN "loading" ELSE "getting"
             v == [todo |-> rest, touched |-> touched, step |-> first]
  <2>1. /\ visit' = [visit EXCEPT ![r] = v]
        /\ open' = IF rest[1].tool \in NeedsPlaywright THEN open \cup {r} ELSE open \ {r}
        /\ IF rest[1].tool \in NeedsPlaywright THEN UNCHANGED stray ELSE UseClient(r)
        /\ request' = [request EXCEPT ![r].pc = "calling"]
        /\ UNCHANGED garbled
    BY <1>4 DEF Proceed
  <2>2. v \in VisitStates
    BY <1>1 DEF VisitStates, Browsing
  <2>3. /\ visit' \in [ToolRequests -> VisitStates] /\ visit'[r] = v
        /\ \A p \in ToolRequests \ {r} : visit'[p] = visit[p]
    BY <2>1, <2>2 DEF ToolsTyped
  <2>4. /\ v.todo # <<>> /\ v.step = first /\ v.step # "none" /\ v.touched = touched
        /\ rest[1].tool \in NeedsPlaywright => v.step \in Browsing
    BY <1>4 DEF Browsing
  <2>5. /\ request' \in [ToolRequests -> RequestStates] /\ request'[r].pc = "calling"
        /\ request'[r].agent = request[r].agent /\ request'[r].text = request[r].text
        /\ request'[r].attempt = request[r].attempt
        /\ \A p \in ToolRequests \ {r} : request'[p] = request[p]
    BY <2>1 DEF ToolsTyped, RequestStates, Waiting
  <2>6. /\ open' \subseteq ToolRequests /\ \A p \in ToolRequests \ {r} : p \in open' <=> p \in open
        /\ r \in open' => rest[1].tool \in NeedsPlaywright
    BY <2>1 DEF ToolsTyped
  <2>7. stray' \subseteq ToolRequests /\ StrayLate'
    BY <1>1, <2>1 DEF ToolsTyped, StrayLate, UseClient
  <2>8. request'[r].attempt <= ToolRetries[request[r].agent]
    BY <2>5 DEF Local
  <2> HIDE DEF v, rest
  <2> QED BY <1>1, <2>1, <2>3, <2>4, <2>5, <2>6, <2>7, <2>8 DEF ToolsTyped
<1> QED BY <1>2, <1>3, <1>4

\* A step that goes on with the calls, or an attempt's visit that ends, keeps
\* the invariant when the changes it counts do.
LEMMA ProceedKeeps ==
  ASSUME SubtasksInv, NEW r \in ToolRequests, request[r].agent = "browser",
         NEW calls \in Seq(Calls), NEW touched \in BOOLEAN, Proceed(r, calls, touched),
         changed' \in [ToolRequests -> Nat], \A p \in ToolRequests \ {r} : changed'[p] = changed[p],
         r \notin garbled => changed'[r] <= cut[r] + (IF touched THEN 1 ELSE 0)
  PROVE  SubtasksInv'
<1>1. ToolsTyped /\ StrayLate /\ Local(r)
  BY DEF SubtasksInv
<1>2. /\ request' \in [ToolRequests -> RequestStates] /\ visit' \in [ToolRequests -> VisitStates]
      /\ open' \cup stray' \cup garbled' \subseteq ToolRequests
      /\ StrayLate' /\ UNCHANGED <<client, playwright, cut>>
      /\ \A p \in ToolRequests \ {r} : /\ request'[p] = request[p] /\ visit'[p] = visit[p]
                                       /\ p \in open' <=> p \in open
                                       /\ p \in garbled' <=> p \in garbled
  BY <1>1, ProceedMoves
<1>3. /\ request'[r].agent = request[r].agent /\ request'[r].text = request[r].text
      /\ request'[r].attempt <= ToolRetries[request[r].agent]
      /\ request'[r].pc # "fetching"
      /\ visit'[r].step # "none" <=> request'[r].pc = "calling"
      /\ visit'[r].todo # <<>> <=> request'[r].pc = "calling"
      /\ visit'[r].touched => request'[r].pc = "calling"
      /\ r \in open' => visit'[r].step \in Browsing
      /\ r \notin garbled' => /\ r \notin garbled
                              /\ request'[r].pc = "completed" \/ visit'[r].touched = touched
  BY <1>1, ProceedMoves
<1>4. ToolsTyped'
  BY <1>1, <1>2 DEF ToolsTyped
<1>5. About(r)
  BY <1>2 DEF About
<1>6. r \notin garbled' =>
        changed'[r] <= cut'[r] + (IF request'[r].pc = "completed" \/ visit'[r].touched THEN 1 ELSE 0)
  <2>1. changed'[r] \in Nat /\ cut[r] \in Nat
    BY <1>1 DEF ToolsTyped
  <2> QED BY <1>2, <1>3, <2>1
<1>7. Local(r)'
  BY <1>1, <1>2, <1>3, <1>6 DEF Local
<1> QED BY <1>2, <1>4, <1>5, <1>7, AboutOne
LEMMA ToolAttemptEnds ==
  ASSUME SubtasksInv, NEW r \in ToolRequests, NEW success \in BOOLEAN, EndAttempt(r, success),
         EndVisit(r) \/ (request[r].pc \in {"ready", "asking"} /\ UNCHANGED <<visit, open, stray>>),
         UNCHANGED <<client, playwright>>, garbled' \in {garbled, garbled \cup {r}},
         changed' \in [ToolRequests -> Nat], \A p \in ToolRequests \ {r} : changed'[p] = changed[p],
         cut' \in [ToolRequests -> Nat], \A p \in ToolRequests \ {r} : cut'[p] = cut[p],
         cut'[r] > 0 => request[r].agent = "browser",
         r \notin garbled' => changed'[r] <= cut'[r] + (IF success THEN 1 ELSE 0)
  PROVE  SubtasksInv'
<1>1. ToolsTyped /\ StrayLate /\ Local(r)
  BY DEF SubtasksInv
<1>2. /\ request' \in [ToolRequests -> RequestStates]
      /\ \A p \in ToolRequests \ {r} : request'[p] = request[p]
      /\ request'[r].agent = request[r].agent /\ request'[r].text = request[r].text
      /\ request'[r].attempt <= ToolRetries[request[r].agent]
      /\ request'[r].pc = "completed" <=> success
      /\ request'[r].pc \in {"completed", "ready", "failed"}
  BY <1>1, OutcomeMoves
<1>3. /\ visit' \in [ToolRequests -> VisitStates]
      /\ visit'[r].step = "none" /\ visit'[r].todo = <<>> /\ visit'[r].touched = FALSE
      /\ \A p \in ToolRequests \ {r} : visit'[p] = visit[p]
      /\ r \notin open' /\ open' \subseteq ToolRequests
      /\ \A p \in ToolRequests \ {r} : p \in open' <=> p \in open
      /\ stray' = stray
  <2>1. CASE EndVisit(r)
    BY <1>1, <2>1, EndVisitMoves
  <2>2. CASE request[r].pc \in {"ready", "asking"} /\ UNCHANGED <<visit, open, stray>>
    <3>1. visit[r] \in VisitStates
      BY <1>1 DEF ToolsTyped
    <3> QED BY <1>1, <2>2, <3>1 DEF ToolsTyped, Local, VisitStates, Browsing
  <2> QED BY <2>1, <2>2
<1>4. ToolsTyped' /\ StrayLate'
  BY <1>1, <1>2, <1>3 DEF ToolsTyped, StrayLate
<1>5. About(r)
  BY <1>2, <1>3 DEF About
<1>6. Local(r)'
  BY <1>1, <1>2, <1>3 DEF Local
<1> QED BY <1>4, <1>5, <1>6, AboutOne

\* An attempt that has not come to its calls has no effect to count.
LEMMA NothingYet ==
  ASSUME SubtasksInv, NEW r \in ToolRequests, request[r].pc \in {"ready", "asking", "fetching"}
  PROVE  /\ ToolsTyped /\ StrayLate /\ Local(r)
         /\ changed \in [ToolRequests -> Nat] /\ cut \in [ToolRequests -> Nat]
         /\ changed[r] \in Nat /\ cut[r] \in Nat
         /\ r \notin garbled => changed[r] <= cut[r]
         /\ cut[r] > 0 => request[r].agent = "browser"
<1>1. ToolsTyped /\ StrayLate /\ Local(r)
  BY DEF SubtasksInv
<1>2. changed \in [ToolRequests -> Nat] /\ cut \in [ToolRequests -> Nat]
  BY <1>1 DEF ToolsTyped
<1>3. changed[r] \in Nat /\ cut[r] \in Nat
  BY <1>2
<1>4. visit[r].touched = FALSE /\ request[r].pc # "completed"
  <2>1. visit[r].touched \in BOOLEAN
    BY <1>1 DEF ToolsTyped, VisitStates
  <2>2. ~visit[r].touched
    BY <1>1 DEF Local
  <2> QED BY <2>1, <2>2
<1> QED BY <1>1, <1>2, <1>3, <1>4 DEF Local

LEMMA BeginKeeps ==
  ASSUME SubtasksInv, NEW r \in ToolRequests, BeginAttempt(r)
  PROVE  SubtasksInv'
<1>1. request[r].pc = "ready" /\ ToolsTyped /\ StrayLate /\ Local(r)
  BY DEF SubtasksInv, BeginAttempt
<1>2. UNCHANGED <<visit, open, stray, client, playwright, cut, changed, garbled>>
  BY DEF BeginAttempt, webVars
<1>3. CASE request[r].text = ""
  <2>1. EndAttempt(r, FALSE) /\ FALSE \in BOOLEAN
    BY <1>3 DEF BeginAttempt
  <2>2. /\ changed \in [ToolRequests -> Nat] /\ cut \in [ToolRequests -> Nat]
        /\ cut[r] > 0 => request[r].agent = "browser"
        /\ r \notin garbled => changed[r] <= cut[r] + 0
    BY <1>1, NothingYet
  <2>3. /\ changed' \in [ToolRequests -> Nat] /\ cut' \in [ToolRequests -> Nat]
        /\ cut'[r] > 0 => request[r].agent = "browser"
        /\ r \notin garbled' => changed'[r] <= cut'[r] + 0
        /\ \A p \in ToolRequests \ {r} : changed'[p] = changed[p] /\ cut'[p] = cut[p]
        /\ garbled' \in {garbled, garbled \cup {r}}
    BY <1>2, <2>2
  <2> QED BY <1>1, <1>2, <2>1, <2>3, ToolAttemptEnds
<1>4. CASE request[r].text # ""
  <2>1. request' = [request EXCEPT ![r].pc = "asking"]
    BY <1>4 DEF BeginAttempt
  <2>2. /\ request' \in [ToolRequests -> RequestStates] /\ request'[r].pc = "asking"
        /\ request'[r].agent = request[r].agent /\ request'[r].text = request[r].text
        /\ request'[r].attempt = request[r].attempt
        /\ \A p \in ToolRequests \ {r} : request'[p] = request[p]
    BY <1>1, <2>1 DEF ToolsTyped, RequestStates, Waiting
  <2>3. ToolsTyped' /\ StrayLate' /\ About(r)
    BY <1>1, <1>2, <2>2 DEF ToolsTyped, StrayLate, About
  <2>4. Local(r)'
    BY <1>1, <1>2, <2>2 DEF Local
  <2> QED BY <2>3, <2>4, AboutOne
<1> QED BY <1>3, <1>4

LEMMA StoreCallsKeep ==
  ASSUME SubtasksInv, NEW r \in ToolRequests, LlmAnswers(r) \/ LlmFails(r)
  PROVE  SubtasksInv'
<1> DEFINE a == request[r].agent
<1>1. ToolsTyped /\ StrayLate /\ Local(r) /\ request[r].pc = "asking" /\ a \in StoreAgents
  BY DEF SubtasksInv, LlmAnswers, LlmFails
<1>2. /\ UNCHANGED <<visit, open, stray, client, playwright, cut>>
      /\ cut \in [ToolRequests -> Nat] /\ cut[r] \in Nat
      /\ cut[r] > 0 => request[r].agent = "browser"
      /\ r \notin garbled => changed[r] <= cut[r]
      /\ changed[r] \in Nat
  BY <1>1 DEF LlmAnswers, LlmFails, HandleToolCalls, webVars, ToolsTyped, Local
<1>3. ASSUME NEW new, Record(r, new)
      PROVE  /\ changed' \in [ToolRequests -> Nat] /\ changed'[r] <= changed[r] + 1
             /\ new = store[a] => changed'[r] = changed[r]
             /\ \A p \in ToolRequests \ {r} : changed'[p] = changed[p]
  BY <1>1, <1>3 DEF Record, ToolsTyped
<1>4. CASE LlmAnswers(r)
  <2>1. PICK calls \in PlansOf[a] : HandleToolCalls(r, calls)
    BY <1>4 DEF LlmAnswers
  <2>2. /\ Record(r, After(a, calls)) /\ EndAttempt(r, Valid(calls) = calls)
        /\ garbled' = IF Valid(calls) = calls THEN garbled ELSE garbled \cup {r}
    BY <2>1, Zenon DEF HandleToolCalls
  <2>3. PICK success \in BOOLEAN : /\ EndAttempt(r, success)
                                   /\ success <=> Valid(calls) = calls
    BY <2>2
  <2>4. r \notin garbled' => changed'[r] <= cut'[r] + (IF success THEN 1 ELSE 0)
    <3>1. changed'[r] \in Nat /\ changed'[r] <= changed[r] + 1
      BY <1>3, <2>2
    <3> QED BY <1>2, <2>2, <2>3, <3>1
  <2>5. garbled' \in {garbled, garbled \cup {r}}
    BY <2>2
  <2>6. changed' \in [ToolRequests -> Nat] /\ \A p \in ToolRequests \ {r} : changed'[p] = changed[p]
    BY <1>3, <2>2
  <2> QED BY <1>1, <1>2, <2>3, <2>4, <2>5, <2>6, ToolAttemptEnds
<1>5. CASE LlmFails(r)
  <2> DEFINE creates == a = "task_management" /\ request[r].text = "create"
             new == IF creates THEN Create(store[a]) ELSE store[a]
  <2>1. /\ Record(r, new) /\ UNCHANGED garbled
        /\ EndAttempt(r, a = "public_service" \/ request[r].text \in {"create", "list"})
    BY <1>5, Zenon DEF LlmFails
  <2>2. PICK success \in BOOLEAN : EndAttempt(r, success) /\ (creates => success)
    BY <2>1
  <2>3. ~creates => new = store[a]
    OBVIOUS
  <2> HIDE DEF new
  <2>4. r \notin garbled' => changed'[r] <= cut'[r] + (IF success THEN 1 ELSE 0)
    <3>1. /\ changed'[r] \in Nat /\ changed'[r] <= changed[r] + 1
          /\ ~creates => changed'[r] = changed[r]
      BY <1>3, <2>1, <2>3
    <3> HIDE DEF creates
    <3> QED BY <1>2, <2>1, <2>2, <3>1
  <2>5. changed' \in [ToolRequests -> Nat] /\ \A p \in ToolRequests \ {r} : changed'[p] = changed[p]
    BY <1>3, <2>1
  <2> QED BY <1>1, <1>2, <2>1, <2>2, <2>4, <2>5, ToolAttemptEnds
<1> QED BY <1>4, <1>5
\* The calls left of a visit under way.
LEMMA VisitUnderWay ==
  ASSUME SubtasksInv, NEW r \in ToolRequests, request[r].pc = "calling"
  PROVE  /\ ToolsTyped /\ StrayLate /\ Local(r) /\ request[r].agent = "browser"
         /\ visit[r] \in VisitStates /\ Tail(visit[r].todo) \in Seq(Calls)
         /\ visit[r].touched \in BOOLEAN
         /\ changed \in [ToolRequests -> Nat] /\ cut \in [ToolRequests -> Nat]
         /\ changed[r] \in Nat /\ cut[r] \in Nat
         /\ r \notin garbled => changed[r] <= cut[r] + (IF visit[r].touched THEN 1 ELSE 0)
<1>1. ToolsTyped /\ StrayLate /\ Local(r)
  BY DEF SubtasksInv
<1>2. visit[r] \in VisitStates /\ visit[r].todo # <<>> /\ request[r].agent = "browser"
  BY <1>1 DEF ToolsTyped, Local
<1>3. visit[r].todo \in Seq(Calls) /\ visit[r].touched \in BOOLEAN
  BY <1>2 DEF VisitStates
<1>4. Tail(visit[r].todo) \in Seq(Calls)
  BY <1>2, <1>3, HeadTailProperties
<1>5. /\ changed \in [ToolRequests -> Nat] /\ cut \in [ToolRequests -> Nat]
      /\ changed[r] \in Nat /\ cut[r] \in Nat
  BY <1>1 DEF ToolsTyped
<1> QED BY <1>1, <1>2, <1>3, <1>4, <1>5 DEF Local

LEMMA ReturnsKeep ==
  ASSUME SubtasksInv, NEW r \in ToolRequests, request[r].pc = "calling",
         NEW touched \in BOOLEAN, CallReturns(r, touched), visit[r].touched => touched,
         \/ UNCHANGED changed
         \/ touched /\ Takes(r)
  PROVE  SubtasksInv'
<1> DEFINE calls == Tail(visit[r].todo)
<1>1. /\ calls \in Seq(Calls) /\ request[r].agent = "browser" /\ visit[r].touched \in BOOLEAN
      /\ changed \in [ToolRequests -> Nat] /\ changed[r] \in Nat /\ cut[r] \in Nat
      /\ r \notin garbled => changed[r] <= cut[r] + (IF visit[r].touched THEN 1 ELSE 0)
  BY VisitUnderWay
<1>2. Proceed(r, calls, touched)
  BY DEF CallReturns
<1>3. /\ changed' \in [ToolRequests -> Nat] /\ \A p \in ToolRequests \ {r} : changed'[p] = changed[p]
      /\ r \notin garbled => changed'[r] <= cut[r] + (IF touched THEN 1 ELSE 0)
  <2>1. CASE UNCHANGED changed
    BY <1>1, <2>1
  <2>2. CASE touched /\ Takes(r)
    BY <1>1, <2>2 DEF Takes
  <2> QED BY <2>1, <2>2
<1> HIDE DEF calls
<1> QED BY <1>1, <1>2, <1>3, ProceedKeeps

\* A visit that only moves on to its next await.
LEMMA StepKeeps ==
  ASSUME SubtasksInv, NEW r \in ToolRequests, request[r].pc = "calling",
         NEW step \in {"extracting", "clicking", "settling"}, NEW touched \in BOOLEAN,
         visit' = [visit EXCEPT ![r].step = step, ![r].touched = touched],
         visit[r].touched => touched, r \in open => step \in Browsing,
         UNCHANGED <<request, open, client, stray, playwright, cut, garbled>>,
         \/ UNCHANGED changed
         \/ touched /\ Takes(r)
  PROVE  SubtasksInv'
<1>1. /\ ToolsTyped /\ StrayLate /\ Local(r) /\ visit[r] \in VisitStates /\ visit[r].touched \in BOOLEAN
      /\ changed \in [ToolRequests -> Nat] /\ changed[r] \in Nat /\ cut[r] \in Nat
      /\ r \notin garbled => changed[r] <= cut[r] + (IF visit[r].touched THEN 1 ELSE 0)
  BY VisitUnderWay
<1>2. /\ visit' \in [ToolRequests -> VisitStates]
      /\ visit'[r].todo = visit[r].todo /\ visit'[r].step = step /\ visit'[r].touched = touched
      /\ \A p \in ToolRequests \ {r} : visit'[p] = visit[p]
  BY <1>1 DEF ToolsTyped, VisitStates, Browsing
<1>3. /\ changed' \in [ToolRequests -> Nat] /\ \A p \in ToolRequests \ {r} : changed'[p] = changed[p]
      /\ r \notin garbled => changed'[r] <= cut[r] + (IF touched THEN 1 ELSE 0)
  <2>1. CASE UNCHANGED changed
    BY <1>1, <2>1
  <2>2. CASE touched /\ Takes(r)
    BY <1>1, <2>2 DEF Takes
  <2> QED BY <2>1, <2>2
<1>4. ToolsTyped' /\ StrayLate' /\ About(r)
  BY <1>1, <1>2, <1>3 DEF ToolsTyped, StrayLate, About
<1>5. Local(r)'
  BY <1>1, <1>2, <1>3 DEF Local
<1> QED BY <1>4, <1>5, AboutOne

LEMMA CallsKeep ==
  ASSUME SubtasksInv, NEW r \in ToolRequests,
         \/ GetReturns(r) \/ ExtractReturns(r) \/ PageLoads(r)
         \/ ClickLands(r) \/ ClickRaises(r) \/ Settles(r)
  PROVE  SubtasksInv'
<1>1. Local(r)
  BY DEF SubtasksInv
<1>2. ASSUME visit[r].step \in {"extracting", "loading", "clicking", "settling"}
      PROVE  request[r].pc = "calling"
  BY <1>1, <1>2 DEF Local
<1>3. ASSUME request[r].pc = "calling"
      PROVE  /\ visit[r].touched \in BOOLEAN /\ visit[r] \in VisitStates
             /\ r \in open => visit[r].step \in Browsing
  BY <1>1, <1>3, VisitUnderWay DEF Local
<1>4. ASSUME NEW step \in {"extracting", "clicking"}, StepTo(r, step), request[r].pc = "calling",
             UNCHANGED changed, r \in open => step \in Browsing
      PROVE  SubtasksInv'
  <2>1. visit' = [visit EXCEPT ![r].step = step, ![r].touched = visit[r].touched]
    <3>1. visit[r] \in VisitStates /\ visit \in [ToolRequests -> VisitStates]
      BY <1>3, <1>4 DEF SubtasksInv, ToolsTyped
    <3> QED BY <1>4, <3>1 DEF StepTo, VisitStates
  <2>2. UNCHANGED <<request, open, client, stray, playwright, cut, garbled>>
    BY <1>4 DEF StepTo
  <2> QED BY <1>3, <1>4, <2>1, <2>2, StepKeeps
<1>5. CASE GetReturns(r)
  <2>1. request[r].pc = "calling" /\ visit[r].step = "getting" /\ UNCHANGED changed
    BY <1>5 DEF GetReturns
  <2>2. r \notin open
    BY <1>3, <2>1 DEF Browsing
  <2>3. CallReturns(r, visit[r].touched) \/ StepTo(r, "extracting")
    BY <1>5 DEF GetReturns
  <2> QED BY <1>3, <1>4, <2>1, <2>2, <2>3, ReturnsKeep
<1>6. CASE ExtractReturns(r)
  <2>1. request[r].pc = "calling" /\ UNCHANGED changed /\ CallReturns(r, visit[r].touched)
    BY <1>2, <1>6 DEF ExtractReturns
  <2> QED BY <1>3, <2>1, ReturnsKeep
<1>7. CASE PageLoads(r)
  <2>1. request[r].pc = "calling" /\ UNCHANGED changed
    BY <1>2, <1>7 DEF PageLoads
  <2>2. CallReturns(r, visit[r].touched) \/ StepTo(r, "clicking")
    BY <1>7 DEF PageLoads
  <2>3. "clicking" \in Browsing
    BY DEF Browsing
  <2> QED BY <1>3, <1>4, <2>1, <2>2, <2>3, ReturnsKeep
<1>8. CASE ClickLands(r)
  <2>1. request[r].pc = "calling"
    BY <1>2, <1>8 DEF ClickLands
  <2>2. /\ visit' = [visit EXCEPT ![r].step = "settling", ![r].touched = TRUE] /\ Takes(r)
        /\ UNCHANGED <<request, open, client, stray, playwright, cut, garbled>>
        /\ "settling" \in Browsing
    BY <1>8 DEF ClickLands, Browsing
  <2> QED BY <2>1, <2>2, StepKeeps
<1>9. CASE ClickRaises(r)
  <2>1. request[r].pc = "calling"
    BY <1>2, <1>9 DEF ClickRaises
  <2>2. \/ CallReturns(r, visit[r].touched) /\ UNCHANGED changed
        \/ CallReturns(r, TRUE) /\ Takes(r)
    BY <1>9 DEF ClickRaises
  <2> QED BY <1>3, <2>1, <2>2, ReturnsKeep
<1>10. CASE Settles(r)
  <2>1. request[r].pc = "calling" /\ UNCHANGED changed /\ CallReturns(r, TRUE)
    BY <1>2, <1>10 DEF Settles
  <2> QED BY <2>1, ReturnsKeep
<1> QED BY <1>5, <1>6, <1>7, <1>8, <1>9, <1>10
LEMMA BrowserKeeps ==
  ASSUME SubtasksInv, NEW r \in ToolRequests,
         LlmNamesCalls(r) \/ LlmUnavailable(r) \/ FallbackReturns(r)
  PROVE  SubtasksInv'
<1>1. /\ request[r].pc \in {"asking", "fetching"} /\ UNCHANGED changed
      /\ UNCHANGED <<client, playwright, cut>>
  BY DEF LlmNamesCalls, LlmUnavailable, FallbackReturns, Proceed
<1>2. /\ ToolsTyped /\ StrayLate /\ Local(r)
      /\ changed \in [ToolRequests -> Nat] /\ cut \in [ToolRequests -> Nat]
      /\ changed[r] \in Nat /\ cut[r] \in Nat
      /\ r \notin garbled => changed[r] <= cut[r]
      /\ cut[r] > 0 => request[r].agent = "browser"
  BY <1>1, NothingYet
<1>3. ASSUME NEW success \in BOOLEAN, EndAttempt(r, success), UNCHANGED garbled,
             EndVisit(r) \/ (request[r].pc \in {"ready", "asking"} /\ UNCHANGED <<visit, open, stray>>)
      PROVE  SubtasksInv'
  <2>1. r \notin garbled' => changed'[r] <= cut'[r] + (IF success THEN 1 ELSE 0)
    BY <1>1, <1>2, <1>3
  <2> QED BY <1>1, <1>2, <1>3, <2>1, ToolAttemptEnds
<1>4. CASE LlmNamesCalls(r)
  <2>1. PICK calls \in PlansOf["browser"] : Proceed(r, calls, FALSE)
    BY <1>4 DEF LlmNamesCalls
  <2>2. calls \in Seq(Calls) /\ request[r].agent = "browser"
    BY ToolAgentsAssumption, <1>4 DEF AgentNames, LlmNamesCalls
  <2>3. r \notin garbled => changed'[r] <= cut[r] + (IF FALSE THEN 1 ELSE 0)
    BY <1>1, <1>2
  <2>4. changed' \in [ToolRequests -> Nat] /\ \A p \in ToolRequests \ {r} : changed'[p] = changed[p]
    BY <1>1, <1>2
  <2>5. FALSE \in BOOLEAN
    OBVIOUS
  <2> QED BY <2>1, <2>2, <2>3, <2>4, <2>5, ProceedKeeps
<1>5. CASE LlmUnavailable(r) /\ request[r].text # "url"
  <2>1. EndAttempt(r, FALSE) /\ UNCHANGED <<visit, open, stray, garbled>> /\ request[r].pc = "asking"
    BY <1>5 DEF LlmUnavailable
  <2>2. FALSE \in BOOLEAN
    OBVIOUS
  <2> QED BY <1>3, <2>1, <2>2
<1>6. CASE LlmUnavailable(r) /\ request[r].text = "url"
  <2>1. /\ request' = [request EXCEPT ![r].pc = "fetching"]
        /\ visit' = [visit EXCEPT ![r].step = "getting"]
        /\ UseClient(r) /\ UNCHANGED <<open, garbled>>
        /\ request[r].pc = "asking" /\ request[r].agent = "browser"
    BY <1>6 DEF LlmUnavailable
  <2>2. /\ request' \in [ToolRequests -> RequestStates] /\ request'[r].pc = "fetching"
        /\ request'[r].agent = request[r].agent /\ request'[r].text = request[r].text
        /\ request'[r].attempt = request[r].attempt
        /\ \A p \in ToolRequests \ {r} : request'[p] = request[p]
    BY <1>2, <2>1 DEF ToolsTyped, RequestStates, Waiting
  <2>3. /\ visit' \in [ToolRequests -> VisitStates] /\ visit'[r].step = "getting"
        /\ visit'[r].todo = visit[r].todo /\ visit'[r].touched = visit[r].touched
        /\ \A p \in ToolRequests \ {r} : visit'[p] = visit[p]
    BY <1>2, <2>1 DEF ToolsTyped, VisitStates
  <2>4. stray' \subseteq ToolRequests /\ StrayLate'
    BY <1>1, <1>2, <2>1 DEF ToolsTyped, StrayLate, UseClient
  <2>5. ToolsTyped' /\ About(r)
    BY <1>1, <1>2, <2>1, <2>2, <2>3, <2>4 DEF ToolsTyped, About
  <2>6. r \notin open /\ ~visit[r].touched /\ visit[r].todo = <<>>
    BY <1>2, <2>1 DEF Local, Browsing
  <2>7. Local(r)'
    BY <1>1, <1>2, <2>1, <2>2, <2>3, <2>6 DEF Local
  <2> QED BY <2>4, <2>5, <2>7, AboutOne
<1>7. CASE FallbackReturns(r)
  <2>1. /\ EndVisit(r) \/ (request[r].pc \in {"ready", "asking"} /\ UNCHANGED <<visit, open, stray>>)
        /\ UNCHANGED garbled
    BY <1>7, Zenon DEF FallbackReturns
  <2>2. PICK success \in BOOLEAN : EndAttempt(r, success)
    BY <1>7 DEF FallbackReturns
  <2> QED BY <1>3, <2>1, <2>2
<1> QED BY <1>4, <1>5, <1>6, <1>7

LEMMA TimeOutKeeps ==
  ASSUME SubtasksInv, NEW r \in ToolRequests, AttemptTimesOut(r)
  PROVE  SubtasksInv'
<1>0. EndVisit(r) \/ (request[r].pc \in {"ready", "asking"} /\ UNCHANGED <<visit, open, stray>>)
  BY Zenon DEF AttemptTimesOut
<1>1. /\ EndAttempt(r, FALSE) /\ UNCHANGED <<client, playwright, garbled>>
      /\ request[r].pc \in {"asking", "calling", "fetching"} /\ FALSE \in BOOLEAN
      /\ cut' = [cut EXCEPT ![r] = @ + (IF request[r].pc = "calling" THEN 1 ELSE 0)]
  BY DEF AttemptTimesOut, Waiting
<1>2. ToolsTyped /\ Local(r) /\ changed \in [ToolRequests -> Nat] /\ cut \in [ToolRequests -> Nat]
  BY DEF SubtasksInv, ToolsTyped
<1>3. CASE request[r].pc # "calling"
  <2>1. visit[r].step \in {"none", "getting"} /\ UNCHANGED changed
    BY <1>2, <1>3 DEF Local, AttemptTimesOut
  <2>2. UNCHANGED cut
    BY <1>1, <1>2, <1>3
  <2>3. /\ r \notin garbled => changed[r] <= cut[r]
        /\ cut[r] > 0 => request[r].agent = "browser"
        /\ changed[r] \in Nat /\ cut[r] \in Nat
    BY <1>1, <1>3, NothingYet
  <2>4. /\ changed' \in [ToolRequests -> Nat] /\ cut' \in [ToolRequests -> Nat]
        /\ cut'[r] > 0 => request[r].agent = "browser"
        /\ r \notin garbled' => changed'[r] <= cut'[r] + 0
        /\ \A p \in ToolRequests \ {r} : changed'[p] = changed[p] /\ cut'[p] = cut[p]
        /\ garbled' \in {garbled, garbled \cup {r}}
    BY <1>1, <1>2, <2>1, <2>2, <2>3
  <2> QED BY <1>0, <1>1, <2>4, ToolAttemptEnds
<1>4. CASE request[r].pc = "calling"
  <2>1. /\ changed[r] \in Nat /\ cut[r] \in Nat /\ request[r].agent = "browser"
        /\ visit[r].touched \in BOOLEAN
        /\ r \notin garbled => changed[r] <= cut[r] + (IF visit[r].touched THEN 1 ELSE 0)
    BY <1>4, VisitUnderWay
  <2>2. /\ cut' \in [ToolRequests -> Nat] /\ cut'[r] = cut[r] + 1
        /\ \A p \in ToolRequests \ {r} : cut'[p] = cut[p]
    BY <1>1, <1>2, <1>4, <2>1
  <2>3. /\ changed' \in [ToolRequests -> Nat] /\ \A p \in ToolRequests \ {r} : changed'[p] = changed[p]
        /\ changed'[r] \in {changed[r], changed[r] + (IF visit[r].touched THEN 0 ELSE 1)}
    <3>1. UNCHANGED changed \/ Takes(r)
      BY DEF AttemptTimesOut
    <3> QED BY <1>2, <2>1, <3>1 DEF Takes
  <2>4. r \notin garbled' => changed'[r] <= cut'[r] + 0
    BY <1>1, <2>1, <2>2, <2>3
  <2>5. garbled' \in {garbled, garbled \cup {r}}
    BY <1>1
  <2> QED BY <1>0, <1>1, <2>1, <2>2, <2>3, <2>4, <2>5, ToolAttemptEnds
<1> QED BY <1>3, <1>4

LEMMA SubtasksInitially == ToolInit => SubtasksInv
<1> SUFFICES ASSUME ToolInit PROVE SubtasksInv
  OBVIOUS
<1>1. \A r \in ToolRequests : /\ request[r] \in RequestStates /\ request[r].attempt = 0
                              /\ request[r].pc = "ready"
                              /\ request[r].text \in TextsOf[request[r].agent]
  BY DEF ToolInit, RequestStates
<1>2. request \in [ToolRequests -> RequestStates]
  BY <1>1 DEF ToolInit
<1>3. AtRest \in VisitStates /\ AtRest.step = "none" /\ AtRest.todo = <<>> /\ AtRest.touched = FALSE
  BY DEF AtRest, VisitStates
<1>4. /\ visit \in [ToolRequests -> VisitStates] /\ \A r \in ToolRequests : visit[r] = AtRest
      /\ open = {} /\ stray = {} /\ garbled = {} /\ client = "open" /\ playwright \in BOOLEAN
      /\ changed \in [ToolRequests -> Nat] /\ cut \in [ToolRequests -> Nat]
      /\ \A r \in ToolRequests : changed[r] = 0 /\ cut[r] = 0
  BY <1>3 DEF ToolInit
<1>5. ToolsTyped /\ StrayLate
  BY <1>2, <1>4 DEF ToolsTyped, StrayLate
<1>6. ASSUME NEW r \in ToolRequests
      PROVE  Local(r)
  <2>1. request[r].agent \in AgentNames
    BY <1>2 DEF RequestStates
  <2>2. 0 <= ToolRetries[request[r].agent]
    BY ToolAgentsAssumption, <2>1
  <2> QED BY <1>1, <1>3, <1>4, <2>2 DEF Local
<1> QED BY <1>5, <1>6 DEF SubtasksInv

LEMMA NextKeepsSubtasks ==
  ASSUME SubtasksInv, [ToolNext]_toolVars
  PROVE  SubtasksInv'
<1>1. CASE UNCHANGED toolVars
  BY <1>1 DEF toolVars, SubtasksInv, ToolsTyped, StrayLate, Local
<1>2. CASE BeginTeardown \/ EndTeardown
  <2>1. /\ UNCHANGED <<request, visit, open, stray, playwright, changed, cut, garbled>>
        /\ client' \in {"closing", "none"} /\ client # "none"
    BY <1>2 DEF BeginTeardown, EndTeardown
  <2> QED BY <2>1 DEF SubtasksInv, ToolsTyped, StrayLate, Local
<1>3. ASSUME NEW r \in ToolRequests, BeginAttempt(r) \/ AttemptTimesOut(r)
      PROVE  SubtasksInv'
  BY <1>3, BeginKeeps, TimeOutKeeps
<1>4. ASSUME NEW r \in ToolRequests, LlmAnswers(r) \/ LlmFails(r)
      PROVE  SubtasksInv'
  BY <1>4, StoreCallsKeep
<1>5. ASSUME NEW r \in ToolRequests, LlmNamesCalls(r) \/ LlmUnavailable(r) \/ FallbackReturns(r)
      PROVE  SubtasksInv'
  BY <1>5, BrowserKeeps
<1>6. ASSUME NEW r \in ToolRequests,
             \/ GetReturns(r) \/ ExtractReturns(r) \/ PageLoads(r)
             \/ ClickLands(r) \/ ClickRaises(r) \/ Settles(r)
      PROVE  SubtasksInv'
  BY <1>6, CallsKeep
<1> QED
  BY <1>1, <1>2, <1>3, <1>4, <1>5, <1>6 DEF ToolNext

LEMMA ToolAgentsInvariant == ToolSpec => [](StoresInv /\ SubtasksInv)
<1>1. ToolInit => StoresInv /\ SubtasksInv
  BY StoresInitially, SubtasksInitially
<1>2. StoresInv /\ SubtasksInv /\ [ToolNext]_toolVars => (StoresInv /\ SubtasksInv)'
  BY NextKeepsStores, NextKeepsSubtasks
<1> QED BY <1>1, <1>2, PTL DEF ToolSpec

\* The three agents are well typed, and however a call of the browser agent
\* ends, by itself, by its page or by wait_for, no browser process is left and
\* only a call after the teardown makes a client that nobody closes.
THEOREM ToolsCorrect == ToolSpec => []ToolsInv
<1>1. StoresInv /\ SubtasksInv => ToolsInv
  <2> SUFFICES ASSUME StoresInv, SubtasksInv PROVE ToolsInv
    OBVIOUS
  <2>1. ToolTypeOK
    BY DEF StoresInv, SubtasksInv, ToolsTyped, Local, ToolTypeOK, RequestStates, VisitStates
  <2>2. NothingLeftOpen
    BY DEF SubtasksInv, ToolsTyped, Local, StrayLate, NothingLeftOpen
  <2>3. \A r \in ToolRequests : cut[r] > 0 => request[r].agent = "browser"
    BY DEF SubtasksInv, Local
  <2> QED BY <2>1, <2>2, <2>3 DEF ToolsInv
<1> QED BY <1>1, ToolAgentsInvariant, PTL

\* The retries of _execute_single_subtask repeat no effect: apart from attempts
\* cut among the browser's calls and from malformed arguments, one attempt of a
\* subtask at most changed a store or a site, and the subtask is completed.
THEOREM EffectsHappenOnce == ToolSpec => []EffectsOnce
<1>1. SubtasksInv => EffectsOnce
  BY DEF SubtasksInv, Local, EffectsOnce
<1> QED BY <1>1, ToolAgentsInvariant, PTL

\* create_task and submit_application never give out a number again, whatever
\* was deleted in between and however many calls an answer of the LLM names.
THEOREM IdsAreFresh == ToolSpec => IdsFresh
<1>1. StoresInv /\ [ToolNext]_toolVars =>
        [\A a \in StoreAgents :
           \A i \in DOMAIN store'[a].records \ DOMAIN store[a].records : i \notin given[a]]_toolVars
  BY NextIsFresh
<1> QED BY <1>1, ToolAgentsInvariant, PTL DEF ToolSpec, IdsFresh
=============================================================================
