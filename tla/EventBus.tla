------------------------------ MODULE EventBus ------------------------------
(***************************************************************************)
(* The contract of src/vclaw/infrastructure/event_bus/base.py: what a bus  *)
(* accepted for a handler it owes to that handler until the handler has    *)
(* seen it, or until it is in the dead-letter queue.  Nothing is forgotten *)
(* and nothing settles twice.                                              *)
(***************************************************************************)
CONSTANTS Events, Handlers

VARIABLES owed,     \* deliveries accepted and not settled
          handled,  \* deliveries whose handler returned
          dead      \* deliveries that went to the dead-letter queue

vars == <<owed, handled, dead>>

Duties == Events \X Handlers

TypeOK == /\ owed \subseteq Duties
          /\ handled \subseteq Duties
          /\ dead \subseteq Duties

Init == owed = {} /\ handled = {} /\ dead = {}

Accept(e) == \E hs \in SUBSET Handlers :
               /\ hs # {}
               /\ ({e} \X hs) \cap (owed \cup handled \cup dead) = {}
               /\ owed' = owed \cup ({e} \X hs)
               /\ UNCHANGED <<handled, dead>>

Handle(d) == /\ d \in owed
             /\ owed' = owed \ {d}
             /\ handled' = handled \cup {d}
             /\ UNCHANGED dead

\* Several deliveries may be buried together.
Bury == \E ds \in SUBSET owed :
          /\ owed' = owed \ ds
          /\ dead' = dead \cup ds
          /\ UNCHANGED handled

Next == \/ Bury
        \/ \E e \in Events : Accept(e)
        \/ \E d \in owed : Handle(d)

Spec == Init /\ [][Next]_vars
=============================================================================
