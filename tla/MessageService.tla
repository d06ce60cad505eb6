--------------------------- MODULE MessageService ---------------------------
(***************************************************************************)
(* What the orchestrator promises to the rest of the platform, told per    *)
(* idempotency key (one user message): the message is accepted once, is    *)
(* worked on, settles as completed or as failed, and one handler publishes *)
(* at most one event for each verdict it has had.  There is a second one   *)
(* only on a bus that raises: a success that could not be published, or    *)
(* was published and seemed not to be, becomes a failure.  Subtasks,       *)
(* agents and retries do not appear here: module Orchestrator is the       *)
(* implementation.                                                         *)
(***************************************************************************)
CONSTANTS Keys,      \* idempotency keys
          Handlers,  \* handler invocations that may publish an answer
          Raises     \* may a publish raise, whether or not the bus took the event?

VARIABLES phase,     \* phase[k]: where the message with key k stands
          answers    \* answers[k]: <<handler, verdict>> of every terminal event

vars == <<phase, answers>>

Verdict == {"completed", "failed"}

Phase == {"unseen", "working"} \cup Verdict

TypeOK == /\ phase \in [Keys -> Phase]
          /\ answers \in [Keys -> SUBSET (Handlers \X Verdict)]

Init == /\ phase = [k \in Keys |-> "unseen"]
        /\ answers = [k \in Keys |-> {}]

Accept(k) == /\ phase[k] = "unseen"
             /\ phase' = [phase EXCEPT ![k] = "working"]
             /\ UNCHANGED answers

Settle(k) == /\ phase[k] = "working"
             /\ \E v \in Verdict : phase' = [phase EXCEPT ![k] = v]
             /\ UNCHANGED answers

Answer(k) == /\ phase[k] \in Verdict
             /\ \E h \in Handlers :
                  /\ answers[k] \subseteq {h} \X (Verdict \ {phase[k]})
                  /\ answers' = [answers EXCEPT ![k] = @ \cup {<<h, phase[k]>>}]
             /\ UNCHANGED phase

\* The publish of a success raised.
Retract(k) == /\ Raises
              /\ phase[k] = "completed" /\ answers[k] = {}
              /\ phase' = [phase EXCEPT ![k] = "failed"]
              /\ \/ \E h \in Handlers : answers' = [answers EXCEPT ![k] = {<<h, "completed">>}]
                 \/ UNCHANGED answers

Next == \E k \in Keys : Accept(k) \/ Settle(k) \/ Answer(k) \/ Retract(k)

Spec == Init /\ [][Next]_vars
=============================================================================
