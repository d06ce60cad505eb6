---------------------------- MODULE MCAgentPool -----------------------------
(* Small instances of AgentPool for TLC. *)
EXTENDS AgentPool

\* "old" and "new" are two versions of one agent: they share a name and a
\* capability, and each has one of its own.
MCNameOf == [o \in Objects |-> "n1"]
MCCapsOf == [o \in Objects |-> IF o = "old" THEN {"both", "a"} ELSE {"both", "b"}]
MCLimit == [o \in Objects |-> 1]

\* Each of them may be registered twice.
MCMaxSetups == [o \in Objects |-> 2]
=============================================================================
