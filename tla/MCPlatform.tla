----------------------------- MODULE MCPlatform -----------------------------
(* Small instances of Platform for TLC. *)
EXTENDS Platform

\* Both deliveries are of one update.
MCUpdateOf == [d \in Deliveries |-> "u1"]
MCChatOf == [u \in Updates |-> "c1"]
=============================================================================
