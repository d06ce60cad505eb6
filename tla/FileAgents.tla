----------------------------- MODULE FileAgents -----------------------------
(***************************************************************************)
(* The agents that work on files: document_processor and image_processor,  *)
(* called and retried by Orchestrator._execute_subtask.  All tool calls of *)
(* one LLM answer run together under one gather, the file operations in    *)
(* the threads of the event loop's executor.  A timeout, or the end of the *)
(* handler with the bus that stops, cancels what the event loop runs and   *)
(* what the executor has not started; a thread that runs goes on, behind   *)
(* the back of the next attempt if there is one.                           *)
(*                                                                         *)
(* The contents of a file are left out: it is whole or it is not.          *)
(***************************************************************************)
EXTENDS Integers, Sequences, FiniteSets

CONSTANTS Requests,    \* subtasks routed to the two agents
          Empty,       \* those of them without a text
          Given,       \* the one tool call that a subtask brings along, or <<>>
          Files,
          Plans,       \* tool calls that the LLM may answer with
          MaxRetries,  \* max_retries of the retry policies
          Workers      \* threads of the executor

\* What a tool reads and writes; a chain asks the LLM about what it read, a
\* remote tool fetches a URL and asks the LLM about it.
Kinds == {"read", "write", "convert", "chain", "remote", "unknown"}

Call == [kind : Kinds, src : Files, dst : Files]

ASSUME FileAgentsAssumption ==
  /\ Empty \subseteq Requests
  /\ MaxRetries \in Nat
  /\ Workers \in Nat \ {0}
  /\ \A p \in Plans : \A i \in 1..Len(p) : p[i] \in Call
  /\ Given \in [Requests -> {<<>>} \cup {<<c>> : c \in Call}]

Attempts == 0..MaxRetries

Slots == {1} \cup UNION {1..Len(p) : p \in Plans}

Jobs == Requests \X Attempts \X Slots

VARIABLES pc,       \* where each subtask stands
          attempt,  \* its attempt
          plan,     \* the tool calls of each attempt
          job,      \* what became of each tool call
          file,     \* what is on the disk, and the jobs that write it
          timedOut  \* history: attempts that ended by their timeout

vars == <<pc, attempt, plan, job, file, timedOut>>

InThread == {"running", "writing"}
Over == {"ok", "bad", "cancelled"}
Active == {"ready", "asking", "gathering"}

TypeOK ==
  /\ pc \in [Requests -> Active \cup {"completed", "failed", "cut"}]
  /\ attempt \in [Requests -> Attempts]
  /\ plan \in [Requests \X Attempts -> Plans \cup {Given[r] : r \in Requests} \cup {<<>>}]
  /\ job \in [Jobs -> {"none", "queued", "asking"} \cup InThread \cup Over]
  /\ file \in [Files -> [state : {"absent", "partial", "torn", "whole"}, writers : SUBSET Jobs]]
  /\ \A f \in Files : file[f].writers = {j \in Jobs : /\ job[j] = "writing"
                                                     /\ plan[<<j[1], j[2]>>][j[3]].dst = f}
  /\ Cardinality({j \in Jobs : job[j] \in InThread}) <= Workers

Init ==
  /\ pc = [r \in Requests |-> "ready"]
  /\ attempt = [r \in Requests |-> 0]
  /\ plan = [a \in Requests \X Attempts |-> <<>>]
  /\ job = [j \in Jobs |-> "none"]
  /\ \E there \in SUBSET Files :
       file = [f \in Files |-> [state |-> IF f \in there THEN "whole" ELSE "absent",
                                writers |-> {}]]
  /\ timedOut = {}

Tool(j) == plan[<<j[1], j[2]>>][j[3]]

\* The jobs of the current attempt.
Current(r) == {j \in Jobs : /\ j[1] = r /\ j[2] = attempt[r]
                            /\ j[3] \in 1..Len(plan[<<r, attempt[r]>>])}

\* The attempt that made the job no longer waits for it.
Abandoned(j) == pc[j[1]] # "gathering" \/ attempt[j[1]] # j[2]

-----------------------------------------------------------------------------
\* execute, and the loop around it in _execute_subtask.

Outcome(r, success) ==
  /\ pc' = [pc EXCEPT ![r] = IF success THEN "completed"
                             ELSE IF attempt[r] < MaxRetries THEN "ready" ELSE "failed"]
  /\ attempt' = [attempt EXCEPT ![r] = IF ~success /\ @ < MaxRetries THEN @ + 1 ELSE @]

\* Each tool call starts as a task of its own.
StartOf(kind) == CASE kind = "unknown" -> "bad"
                   [] kind = "remote" -> "asking"
                   [] OTHER -> "queued"

Dispatch(r, p) ==
  /\ plan' = [plan EXCEPT ![<<r, attempt[r]>>] = p]
  /\ job' = [j \in Jobs |->
               IF j[1] = r /\ j[2] = attempt[r] /\ j[3] \in 1..Len(p)
               THEN StartOf(p[j[3]].kind) ELSE job[j]]
  /\ pc' = [pc EXCEPT ![r] = "gathering"]
  /\ UNCHANGED <<attempt, file, timedOut>>

\* A tool that the subtask names is called without the LLM.
Begin(r) ==
  /\ pc[r] = "ready"
  /\ IF Given[r] # <<>>
     THEN Dispatch(r, Given[r])
     ELSE /\ IF r \in Empty
             THEN Outcome(r, FALSE)
             ELSE pc' = [pc EXCEPT ![r] = "asking"] /\ UNCHANGED attempt
          /\ UNCHANGED <<plan, job, file, timedOut>>

\* No tool call: the text of the LLM is the answer.
LlmAnswersInText(r) == /\ pc[r] = "asking"
                       /\ Outcome(r, TRUE)
                       /\ UNCHANGED <<plan, job, file, timedOut>>

LlmNamesTools(r) == /\ pc[r] = "asking"
                    /\ \E p \in Plans \ {<<>>} : Dispatch(r, p)

\* _no_llm_response, or arguments that are no string: then json.loads raises a
\* TypeError before any of the calls has started.
LlmRaises(r) == /\ pc[r] = "asking"
                /\ Outcome(r, FALSE)
                /\ UNCHANGED <<plan, job, file, timedOut>>

\* Mutant of Gathered: the first failure ends the gather.
GatheredUntilFailure(r) == \/ \A j \in Current(r) : job[j] \in Over
                           \/ \E j \in Current(r) : job[j] = "bad"

\* gather returns when every tool call has returned.
Gathered(r) == \A j \in Current(r) : job[j] \in Over

\* Mutant of Aggregate: one tool call that succeeded is enough.
AggregateLeniently(r) ==
  /\ pc[r] = "gathering"
  /\ Gathered(r)
  /\ Outcome(r, \E j \in Current(r) : job[j] = "ok")
  /\ UNCHANGED <<plan, job, file, timedOut>>

\* One tool call that failed makes the attempt a failure.
Aggregate(r) ==
  /\ pc[r] = "gathering"
  /\ Gathered(r)
  /\ Outcome(r, \A j \in Current(r) : job[j] = "ok")
  /\ UNCHANGED <<plan, job, file, timedOut>>

\* Mutant of TimeOut: what the executor has not started stays in its queue.
TimeOutOnLoop(r) ==
  /\ pc[r] \in {"asking", "gathering"}
  /\ Outcome(r, FALSE)
  /\ job' = [j \in Jobs |-> IF j \in Current(r) /\ job[j] = "asking" THEN "cancelled" ELSE job[j]]
  /\ timedOut' = timedOut \cup {<<r, attempt[r]>>}
  /\ UNCHANGED <<plan, file>>

\* Mutant of TimeOut: only the request to the LLM has a timeout.
TimeOutAsking(r) ==
  /\ pc[r] = "asking"
  /\ Outcome(r, FALSE)
  /\ timedOut' = timedOut \cup {<<r, attempt[r]>>}
  /\ UNCHANGED <<plan, job, file>>

\* The gather is cancelled, and with it every call the loop waits for.
CancelJobs(r) == job' = [j \in Jobs |-> IF j \in Current(r) /\ job[j] \in {"queued", "asking"}
                                       THEN "cancelled" ELSE job[j]]

\* wait_for does that.
TimeOut(r) ==
  /\ pc[r] \in {"asking", "gathering"}
  /\ Outcome(r, FALSE)
  /\ CancelJobs(r)
  /\ timedOut' = timedOut \cup {<<r, attempt[r]>>}
  /\ UNCHANGED <<plan, file>>

\* So does the bus that stops, or the event loop that ends: the handler that
\* waits for the subtask is cancelled, and nobody tries again.
Interrupt(r) ==
  /\ pc[r] \in Active
  /\ pc' = [pc EXCEPT ![r] = "cut"]
  /\ CancelJobs(r)
  /\ UNCHANGED <<attempt, plan, file, timedOut>>

-----------------------------------------------------------------------------
\* The threads.

Becomes(j, state) == job' = [job EXCEPT ![j] = state]

\* A chain looks at its arguments before it asks for a thread: the type of the
\* file is not supported, or there is no such file, or no LLM.
ChainFails(j) ==
  /\ job[j] = "queued"
  /\ Tool(j).kind = "chain"
  /\ Becomes(j, "bad")
  /\ UNCHANGED <<pc, attempt, plan, file, timedOut>>

StartThread(j) ==
  /\ job[j] = "queued"
  /\ Cardinality({k \in Jobs : job[k] \in InThread}) < Workers
  /\ Becomes(j, "running")
  /\ UNCHANGED <<pc, attempt, plan, file, timedOut>>

\* A library is missing, an argument too, the file cannot be read, or the
\* directory cannot be made.
ThreadFails(j) ==
  /\ job[j] = "running"
  /\ Becomes(j, "bad")
  /\ UNCHANGED <<pc, attempt, plan, file, timedOut>>

\* The whole file is read; what one of the libraries makes of half a file is
\* its own affair.  Without an LLM the beginning of the text is its summary.
Reads(j) ==
  /\ job[j] = "running"
  /\ Tool(j).kind \in {"read", "chain"}
  /\ file[Tool(j).src].state # "absent"
  /\ \/ Becomes(j, "ok")
     \/ Tool(j).kind = "chain" /\ ~Abandoned(j) /\ Becomes(j, "asking")
  /\ UNCHANGED <<pc, attempt, plan, file, timedOut>>

\* The output is opened, which empties it (save, output and the like).
OpenOutput(j) ==
  /\ job[j] = "running"
  /\ \/ Tool(j).kind = "write"
     \/ Tool(j).kind = "convert" /\ file[Tool(j).src].state # "absent"
  /\ Becomes(j, "writing")
  /\ file' = [file EXCEPT ![Tool(j).dst] =
                [state |-> IF @.writers = {} THEN "partial" ELSE "torn",
                 writers |-> @.writers \cup {j}]]
  /\ UNCHANGED <<pc, attempt, plan, timedOut>>

CloseOutput(j) ==
  /\ job[j] = "writing"
  /\ Becomes(j, "ok")
  /\ file' = [file EXCEPT ![Tool(j).dst] =
                [state |-> IF @.state = "partial" THEN "whole" ELSE @.state,
                 writers |-> @.writers \ {j}]]
  /\ UNCHANGED <<pc, attempt, plan, timedOut>>

\* The disk is full, or the library rejects the contents while it writes.
WriteFails(j) ==
  /\ job[j] = "writing"
  /\ Becomes(j, "bad")
  /\ file' = [file EXCEPT ![Tool(j).dst].writers = @ \ {j}]
  /\ UNCHANGED <<pc, attempt, plan, timedOut>>

\* The LLM, or the download before it, answers or raises.
LlmReturns(j) ==
  /\ job[j] = "asking"
  /\ \E state \in {"ok", "bad"} : Becomes(j, state)
  /\ UNCHANGED <<pc, attempt, plan, file, timedOut>>

ThreadStep(j) == \/ ChainFails(j) \/ StartThread(j) \/ ThreadFails(j)
                 \/ Reads(j) \/ OpenOutput(j) \/ CloseOutput(j) \/ WriteFails(j)

Next == \/ \E r \in Requests : \/ Begin(r) \/ LlmAnswersInText(r) \/ LlmNamesTools(r)
                               \/ LlmRaises(r) \/ Aggregate(r) \/ TimeOut(r) \/ Interrupt(r)
        \/ \E j \in Jobs : ThreadStep(j) \/ LlmReturns(j)

Spec == Init /\ [][Next]_vars

\* The event loop runs what is ready and the timeout fires.  A thread or a
\* request to the LLM may hang for ever.
FairSpec == /\ Spec
            /\ \A r \in Requests : WF_vars(Begin(r)) /\ WF_vars(Aggregate(r) \/ TimeOut(r))

-----------------------------------------------------------------------------
\* A subtask is completed only when every tool call of its last attempt did
\* its work; a file it wrote is then on the disk from end to end, unless it
\* was written by another job as well (lines 331-362).
Wrote(j) == job[j] = "ok" /\ Tool(j).kind \in {"write", "convert"}

Rivals(j) == {k \in Jobs \ {j} : /\ job[k] \notin {"none", "queued", "cancelled"}
                                 /\ Tool(k).dst = Tool(j).dst}

CompletedIsDone ==
  \A r \in Requests : pc[r] = "completed" =>
    \A j \in Current(r) : /\ job[j] = "ok"
                          /\ Wrote(j) /\ Rivals(j) = {} => file[Tool(j).dst].state = "whole"

\* The jobs are well typed and done where that is said.
JobsInv == TypeOK /\ CompletedIsDone

\* Two attempts of one subtask are at work at the same time only if the older
\* one timed out: a retry after a failure that was reported finds no thread of
\* the attempt before it writing its files.  The end of the handler leaves no
\* thread behind but those of its last attempt.
StragglersTimedOut ==
  \A j \in Jobs : job[j] \in InThread /\ Abandoned(j) =>
    \/ <<j[1], j[2]>> \in timedOut
    \/ pc[j[1]] = "cut" /\ j[2] = attempt[j[1]]

\* What a timeout or the end of the handler took out of the queue is never
\* started: only jobs that an attempt waits for get a thread, and the next
\* attempt meets no more than the threads that were running.
AbandonedNeverStarts ==
  [][\A j \in Jobs : job[j] = "queued" /\ job'[j] = "running" => ~Abandoned(j)]_vars

\* Every subtask comes to an end, even when threads and requests hang.
SubtasksEnd == \A r \in Requests : pc[r] = "ready" ~> pc[r] \in {"completed", "failed", "cut"}

-----------------------------------------------------------------------------
\* Why a completed subtask is done: the parts of the inductive invariant.

\* An attempt that has not dispatched has no calls.
NothingPlanned ==
  \A r \in Requests : \A n \in Attempts :
    n > attempt[r] \/ (n = attempt[r] /\ pc[r] \in {"ready", "asking"}) => plan[<<r, n>>] = <<>>

\* The other jobs that got a thread to write the same file.
Contenders(j) == {k \in Jobs \ {j} : /\ job[k] \in InThread \cup {"ok", "bad"}
                                      /\ Tool(k).kind \in {"write", "convert"}
                                      /\ Tool(k).dst = Tool(j).dst}

\* Without them a file is written from its beginning to its end.
AloneWhole(j) ==
  /\ job[j] = "asking" => Tool(j).kind \in {"chain", "remote"}
  /\ job[j] = "writing" => /\ Tool(j).kind \in {"write", "convert"}
                           /\ Contenders(j) = {} => file[Tool(j).dst].state = "partial"
  /\ Wrote(j) /\ Contenders(j) = {} => file[Tool(j).dst].state = "whole"

FilesInv == NothingPlanned /\ \A j \in Jobs : AloneWhole(j)
=============================================================================
