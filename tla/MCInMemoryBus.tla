---------------------------- MODULE MCInMemoryBus ---------------------------
(* Small instances of InMemoryBus for TLC. *)
EXTENDS InMemoryBus

\* Messages m1 and m2; handling m1 publishes the reply r1.
MCTypeOf == [e \in Events |-> IF e = "r1" THEN "reply" ELSE "message"]
MCFollowUp == [e \in Events |-> IF e = "m1" /\ "r1" \in Events THEN "r1" ELSE NoEvent]

\* Every handler wants the messages, h1 also the replies.
MCInterests == ({"message"} \X Handlers) \cup {<<"reply", "h1">>}
=============================================================================
