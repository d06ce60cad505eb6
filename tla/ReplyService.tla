---------------------------- MODULE ReplyService ----------------------------
(***************************************************************************)
(* What Vclaw promises to the people who write to it, told per Telegram    *)
(* update: it is decided after it was taken, as completed or as failed,    *)
(* and each verdict is told at most once, after it was given; when the     *)
(* service has closed, nothing happens any more.  Two doubts weaken it.    *)
(* A bus that raises although it took the verdict lets a failure follow a  *)
(* success, and a Telegram that answers with an error status although it   *)
(* took the message is told again, once.  Requests, bus, orchestrator and  *)
(* retries do not appear here: module Platform is the implementation.      *)
(***************************************************************************)
EXTENDS Naturals

CONSTANT Updates

VARIABLES doubtful, \* may the bus raise although it took an event?
          taken,    \* updates that wait for a reply, or had one
          verdicts, \* what has been decided on each update
          replies,  \* per update and verdict, what reached the chat
          denied,   \* replies that reached it under an error status
          serving   \* the service is there

vars == <<doubtful, taken, verdicts, replies, denied, serving>>

Reply == Updates \X {"completed", "failed"}

\* A former service may have taken updates.
Init == /\ doubtful \in BOOLEAN
        /\ taken \in SUBSET Updates
        /\ verdicts = [u \in Updates |-> {}]
        /\ replies = [r \in Reply |-> 0]
        /\ denied = {}
        /\ serving = TRUE

Take(u) == /\ serving
           /\ taken' = taken \cup {u}
           /\ UNCHANGED <<doubtful, verdicts, replies, denied, serving>>

Decide(u, v) == /\ serving
                /\ u \in taken
                /\ \/ verdicts[u] = {}
                   \/ doubtful /\ verdicts[u] = {"completed"} /\ v = "failed"
                /\ verdicts' = [verdicts EXCEPT ![u] = @ \cup {v}]
                /\ UNCHANGED <<doubtful, taken, replies, denied, serving>>

\* The replies of rs reach their chats, those of errors under an error status.
\* Several may be on their way when the service is told to close, and arrive as
\* it does.
Tell(rs, errors) ==
  /\ serving
  /\ \A r \in rs : /\ r[2] \in verdicts[r[1]]
                   /\ replies[r] = 0 \/ (replies[r] = 1 /\ r \in denied)
  /\ replies' = [r \in Reply |-> IF r \in rs THEN replies[r] + 1 ELSE replies[r]]
  /\ denied' = denied \cup errors
  /\ serving' \in BOOLEAN
  /\ UNCHANGED <<doubtful, taken, verdicts>>

Close == /\ serving' = FALSE
         /\ UNCHANGED <<doubtful, taken, verdicts, replies, denied>>

Next == \/ \E u \in Updates : Take(u) \/ \E v \in {"completed", "failed"} : Decide(u, v)
        \/ \E rs \in SUBSET Reply : \E errors \in SUBSET rs : Tell(rs, errors)
        \/ Close

Spec == Init /\ [][Next]_vars
=============================================================================
