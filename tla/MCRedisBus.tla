----------------------------- MODULE MCRedisBus -----------------------------
(* Small instances of RedisBus for TLC.  Events and handlers are model     *)
(* values; every definition of RedisBus treats them alike.                 *)
EXTENDS RedisBus, TLC

Interchangeable == Permutations(Events) \cup Permutations(Handlers)
=============================================================================
