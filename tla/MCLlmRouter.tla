---------------------------- MODULE MCLlmRouter -----------------------------
(* Small instances of LlmRouter for TLC. *)
EXTENDS LlmRouter

\* "b" comes first by priority.  "off" is disabled in the settings; when
\* add_provider adds it, it shares the name of "a".
MCNameOf == [s \in Services |-> IF s = "off" THEN "a" ELSE s]
MCConfigs == <<[service |-> "a", priority |-> 2, enabled |-> TRUE],
               [service |-> "off", priority |-> 0, enabled |-> FALSE],
               [service |-> "b", priority |-> 1, enabled |-> TRUE]>>
MCRejected == {c \in Calls : c = "bad"}
=============================================================================
