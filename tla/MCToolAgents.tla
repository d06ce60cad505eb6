---------------------------- MODULE MCToolAgents ----------------------------
(* Small instances of ToolAgents for TLC. *)
EXTENDS ToolAgents, TLC

RecordCalls == [tool : {"create", "waste", "look", "unknown", "malformed"}, id : {0}]
                 \cup [tool : {"change", "delete"}, id : {1, 2}]
\* extract may end like fetch.
WebCalls == [tool : {"extract", "render", "click", "create", "malformed"}, id : {0}]

\* No call, one, or two.
UpToTwo(calls) == UNION {[1..n -> calls] : n \in 0..2}

MCPlansOf == [a \in AgentNames |-> IF a = "browser" THEN UpToTwo(WebCalls) ELSE UpToTwo(RecordCalls)]

Symmetry == Permutations(ToolRequests)

MCMaxRetries == [a \in AgentNames |-> IF a = "task_management" THEN 2 ELSE 1]
=============================================================================
