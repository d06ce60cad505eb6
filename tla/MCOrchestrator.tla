--------------------------- MODULE MCOrchestrator ---------------------------
(* Small instances of Orchestrator for TLC. *)
EXTENDS OrchestratorProperties, TLC

\* d1 and d2 carry the same message ... or different ones.
KeyOfDuplicates == [d \in Deliveries |-> "k1"]
KeyOfDistinct == [d \in Deliveries |-> IF d = "d1" THEN "k1" ELSE "k2"]

\* Only agent a1 declares the capability "act"; nothing is called "unknown".
CapabilityOfA1 == [i \in Intents |-> IF i = "act" THEN {"a1"} ELSE {}]

\* a1 has a policy of one retry, the others of none.
RetryA1 == [a \in Agents |-> IF a = "a1" THEN 1 ELSE 0]
NoRetry == [a \in Agents |-> 0]

\* What _decompose_task produces, and what SubTask.depends_on allows.
NoDependencies == {[s \in Slots |-> {}]}
AnyDependencies == [Slots -> SUBSET Slots]

SlotSymmetry == Permutations(Slots)
=============================================================================
