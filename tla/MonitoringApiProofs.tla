------------------------- MODULE MonitoringApiProofs ------------------------
(***************************************************************************)
(* Theorems about module MonitoringApi, for any requests, updates, clients *)
(* and workloads, and any number of starts and partition moves.            *)
(***************************************************************************)
EXTENDS MonitoringApi, FiniteSetTheorems, TLAPS

USE DEF Working, Answered, Left, Connected

-----------------------------------------------------------------------------
(* The process, the consumer and the connections.                          *)

LEMMA PostedType == Posted \in [Fields -> Values]
  BY DEF Posted, Values

LEMMA InitProcess == Init => ProcessInv
<1> SUFFICES ASSUME Init PROVE ProcessInv
  OBVIOUS
<1>1. op \in [Requests -> [pc : {"idle"} \cup Working \cup Answered \cup Left, tries : 0..Attempts,
                           read : [Fields -> Values]]]
  BY PostedType DEF Init, Attempts
<1>2. server \in [up : BOOLEAN, producer : {"working", "broken"}, consuming : BOOLEAN,
                  lives : 0..MaxLives, moves : 0..MaxMoves]
  BY MonitoringAssumption DEF Init
<1>3. row \in [Events -> [Fields -> Values]]
  BY PostedType DEF Init
<1>4. client \in [Clients -> [pc : {"away", "left"} \cup Connected, there : BOOLEAN,
                              inbox : Seq(Events)]]
  BY DEF Init
<1>5. /\ active \in Workloads /\ rows \subseteq Posts /\ topic \in Seq(Posts) /\ handled \subseteq 1..Len(topic)
      /\ offset \in [position : Nat, committed : Nat]
      /\ offset.committed <= offset.position /\ offset.position <= Len(topic)
      /\ manager \in [connections : SUBSET Clients, gauge : Nat]
  BY DEF Init
<1>6. TypeOK
  BY <1>1, <1>2, <1>3, <1>4, <1>5 DEF TypeOK
<1>7. {c \in Clients : client[c].pc \in Connected} = {} /\ manager.connections = {} /\ manager.gauge = 0
  BY DEF Init
<1>8. ConnectionsExact /\ IsFiniteSet(manager.connections)
  BY <1>7, FS_EmptySet DEF ConnectionsExact
<1>9. /\ 1..offset.position \subseteq handled
      /\ \A o \in Requests : op[o].tries < Attempts
  BY DEF Init, Attempts
<1> QED BY <1>6, <1>8, <1>9 DEF ProcessInv

\* Moving a request, with or without what it has read.
LEMMA GoToType ==
  ASSUME TypeOK, NEW o \in Requests, NEW pc \in {"idle"} \cup Working \cup Answered \cup Left, GoTo(o, pc)
  PROVE  /\ op' \in [Requests -> [pc : {"idle"} \cup Working \cup Answered \cup Left, tries : 0..Attempts,
                                  read : [Fields -> Values]]]
         /\ op'[o] = [op[o] EXCEPT !.pc = pc]
         /\ op'[o].pc = pc /\ op'[o].tries = op[o].tries /\ op'[o].read = op[o].read
         /\ \A r \in Requests : r # o => op'[r] = op[r]
<1> HIDE DEF Working, Answered, Left
<1> DEFINE R == [pc : {"idle"} \cup Working \cup Answered \cup Left, tries : 0..Attempts,
                 read : [Fields -> Values]]
           to == [op[o] EXCEPT !.pc = pc]
<1>1. op \in [Requests -> R] /\ op[o] \in R
  BY DEF TypeOK
<1>2. op' = [op EXCEPT ![o] = to]
  BY DEF GoTo
<1>3. to \in R /\ to.pc = pc /\ to.tries = op[o].tries /\ to.read = op[o].read
  BY <1>1
<1> HIDE DEF R, to
<1>4. op' \in [Requests -> R] /\ op'[o] = to /\ \A r \in Requests : r # o => op'[r] = op[r]
  BY <1>1, <1>2, <1>3
<1>5. to = [op[o] EXCEPT !.pc = pc]
  BY DEF to
<1> QED BY <1>3, <1>4, <1>5 DEF R

LEMMA ReadType ==
  ASSUME TypeOK, NEW o \in Requests, NEW columns \in [Fields -> Values],
         op' = [op EXCEPT ![o].pc = "read", ![o].read = columns]
  PROVE  /\ op' \in [Requests -> [pc : {"idle"} \cup Working \cup Answered \cup Left, tries : 0..Attempts,
                                  read : [Fields -> Values]]]
         /\ op'[o].pc = "read" /\ op'[o].read = columns
         /\ \A r \in Requests : r # o => op'[r] = op[r]
<1> DEFINE R == [pc : {"idle"} \cup Working \cup Answered \cup Left, tries : 0..Attempts, read : [Fields -> Values]]
           new == [op[o] EXCEPT !.pc = "read", !.read = columns]
<1>1. op' = [op EXCEPT ![o] = new]
  BY DEF TypeOK
<1>2. op \in [Requests -> R]
  BY DEF TypeOK
<1>3. new \in R /\ new.pc = "read" /\ new.read = columns
  <2>1. op[o] \in R
    BY <1>2
  <2> QED BY <2>1
<1> SUFFICES /\ op' \in [Requests -> R] /\ op'[o] = new
             /\ \A r \in Requests : r # o => op'[r] = op[r]
  BY <1>3
<1> HIDE DEF new, R
<1> QED BY <1>1, <1>2, <1>3

\* A step that moves one request and commits what it commits.
LEMMA RequestMoveKeepsProcess ==
  ASSUME ProcessInv, NEW o \in Requests, NEW pc \in {"idle"} \cup Working \cup Answered \cup Left,
         GoTo(o, pc), pc \in {"idle", "producing"} => op[o].pc \in {"idle", "producing"},
         UNCHANGED <<active, server, topic, offset, handled, socketVars>>,
         rows' \subseteq Posts, row' \in [Events -> [Fields -> Values]]
  PROVE  ProcessInv'
<1>1. /\ op' \in [Requests -> [pc : {"idle"} \cup Working \cup Answered \cup Left, tries : 0..Attempts,
                               read : [Fields -> Values]]]
      /\ op'[o].pc = pc /\ op'[o].tries = op[o].tries
      /\ \A r \in Requests : r # o => op'[r] = op[r]
  BY GoToType DEF ProcessInv
<1> QED BY <1>1 DEF ProcessInv, TypeOK, ConnectionsExact, socketVars

LEMMA ProduceKeepsProcess ==
  ASSUME ProcessInv, NEW o \in Posts, Produce(o)
  PROVE  ProcessInv'
<1>1. PICK taken \in BOOLEAN, repeat \in BOOLEAN : Attempt(o, taken, repeat)
  BY DEF Produce
<1>2. o \in Requests /\ op[o].pc = "producing" /\ op[o].tries \in 0..Attempts - 1
  BY DEF Requests, Produce, At, ProcessInv, TypeOK, Attempts
<1>3. UNCHANGED <<active, server, rows, row, offset, handled, socketVars>>
  BY DEF Produce
<1> DEFINE next == IF repeat /\ op[o].tries + 1 < Attempts THEN "producing"
                   ELSE IF o \in Events THEN "publishing" ELSE "committing"
<1>4. /\ op' \in [Requests -> [pc : {"idle"} \cup Working \cup Answered \cup Left, tries : 0..Attempts,
                               read : [Fields -> Values]]]
      /\ op'[o].pc = next /\ op'[o].tries = op[o].tries + 1
      /\ \A r \in Requests : r # o => op'[r] = op[r]
  <2>1. /\ op \in [Requests -> [pc : {"idle"} \cup Working \cup Answered \cup Left, tries : 0..Attempts,
                                read : [Fields -> Values]]]
        /\ op' = [op EXCEPT ![o].tries = @ + 1, ![o].pc = next]
    BY <1>1 DEF ProcessInv, TypeOK, Attempt
  <2>2. op[o].tries + 1 \in 0..Attempts /\ next \in Working
    BY <1>2 DEF Attempts
  <2> HIDE DEF next, Attempts, Working, Answered, Left
  <2>3. op' = [op EXCEPT ![o] = [op[o] EXCEPT !.tries = @ + 1, !.pc = next]]
    BY <1>2, <2>1
  <2>4. [op[o] EXCEPT !.tries = @ + 1, !.pc = next]
          \in [pc : {"idle"} \cup Working \cup Answered \cup Left, tries : 0..Attempts, read : [Fields -> Values]]
    BY <1>2, <2>1, <2>2
  <2> QED BY <1>2, <2>1, <2>3, <2>4
<1>5. topic' \in Seq(Posts) /\ Len(topic') >= Len(topic) /\ Len(topic) \in Nat /\ Len(topic') \in Nat
  BY <1>1 DEF ProcessInv, TypeOK, Attempt
<1>6. TypeOK'
  BY <1>3, <1>4, <1>5 DEF ProcessInv, TypeOK, socketVars
<1>7. next = "producing" => op'[o].tries < Attempts
  BY <1>2, <1>4
<1> QED BY <1>3, <1>4, <1>6, <1>7 DEF ProcessInv, ConnectionsExact, socketVars

LEMMA PublishKeepsProcess ==
  ASSUME ProcessInv, NEW o \in Events, Publish(o)
  PROVE  ProcessInv'
<1>1. PICK copies \in 0..2 :
        client' = [c \in Clients |-> IF client[c].pc = "subscribed"
                     THEN [client[c] EXCEPT !.inbox = @ \o [i \in 1..copies |-> o]] ELSE client[c]]
  BY DEF Publish
<1>2. [i \in 1..copies |-> o] \in Seq(Events)
  OBVIOUS
<1>3. /\ client' \in [Clients -> [pc : {"away", "left"} \cup Connected, there : BOOLEAN,
                                  inbox : Seq(Events)]]
      /\ \A c \in Clients : client'[c].pc = client[c].pc
  <2>1. ASSUME NEW c \in Clients
        PROVE  /\ client[c].inbox \o [i \in 1..copies |-> o] \in Seq(Events)
               /\ client[c] \in [pc : {"away", "left"} \cup Connected, there : BOOLEAN,
                                  inbox : Seq(Events)]
    <3>1. client[c].inbox \in Seq(Events)
      BY DEF ProcessInv, TypeOK
    <3> QED BY <1>2, <3>1 DEF ProcessInv, TypeOK
  <2> QED BY <1>1, <2>1
<1>4. /\ op' \in [Requests -> [pc : {"idle"} \cup Working \cup Answered \cup Left, tries : 0..Attempts,
                               read : [Fields -> Values]]]
      /\ o \in Requests /\ op'[o].pc = "committing"
      /\ \A r \in Requests : r # o => op'[r] = op[r]
  <2>1. o \in Requests /\ TypeOK /\ GoTo(o, "committing")
    BY DEF ProcessInv, Publish, Requests, Posts
  <2> QED BY <2>1, GoToType
<1>5. UNCHANGED <<active, server, rows, row, kafkaVars, manager>>
  BY DEF Publish
<1>6. TypeOK'
  BY <1>3, <1>4, <1>5 DEF ProcessInv, TypeOK, kafkaVars
<1> QED BY <1>3, <1>4, <1>5, <1>6 DEF ProcessInv, ConnectionsExact, kafkaVars

LEMMA PatchKeepsProcess ==
  ASSUME ProcessInv, NEW p \in Patches, Read(p) \/ CommitPatch(p)
  PROVE  ProcessInv'
<1>0. p \in Requests /\ Target[p] \in Events /\ DOMAIN Sets[p] \subseteq Fields
  BY MonitoringAssumption DEF Requests
<1>1. CASE Read(p)
  <2>1. /\ op' \in [Requests -> [pc : {"idle"} \cup Working \cup Answered \cup Left, tries : 0..Attempts,
                                 read : [Fields -> Values]]]
        /\ op'[p].pc \in {"read", "missing"}
        /\ \A r \in Requests : r # p => op'[r] = op[r]
    <3>1. row[Target[p]] \in [Fields -> Values]
      BY <1>0 DEF ProcessInv, TypeOK
    <3>2. CASE op' = [op EXCEPT ![p].pc = "read", ![p].read = row[Target[p]]]
      BY <1>0, <3>1, <3>2, ReadType DEF ProcessInv
    <3>3. CASE GoTo(p, "missing")
      BY <1>0, <3>3, GoToType DEF ProcessInv
    <3> QED BY <1>1, <3>2, <3>3 DEF Read, GoTo
  <2> QED BY <1>1, <2>1 DEF Read, ProcessInv, TypeOK, ConnectionsExact, kafkaVars, socketVars
<1>2. CASE CommitPatch(p)
  <2>1. PICK landed \in BOOLEAN :
          /\ row' = IF landed THEN [row EXCEPT ![Target[p]] = Written(p)] ELSE row
          /\ Ends(p, "updated", landed)
    BY <1>2 DEF CommitPatch
  <2>2. Written(p) \in [Fields -> Values]
    <3>1. \A f \in DOMAIN Sets[p] : Sets[p][f] \in Values
      BY DEF Values
    <3> QED BY <1>0, <3>1 DEF Written, ProcessInv, TypeOK
  <2>3. row' \in [Events -> [Fields -> Values]]
    BY <1>0, <2>1, <2>2 DEF ProcessInv, TypeOK
  <2>4. PICK pc \in {"error", "updated"} : GoTo(p, pc)
    BY <2>1 DEF Ends
  <2> QED BY <1>0, <1>2, <2>3, <2>4, RequestMoveKeepsProcess
          DEF CommitPatch, ProcessInv, TypeOK, kafkaVars
<1> QED BY <1>1, <1>2

LEMMA RequestStepKeepsProcess ==
  ASSUME ProcessInv, NEW o \in Requests,
         \/ o \in Posts /\ (Flush(o) \/ Produce(o) \/ Publish(o) \/ Commit(o))
         \/ o \in Patches /\ (Read(o) \/ FlushPatch(o) \/ CommitPatch(o))
  PROVE  ProcessInv'
<1>0. rows \subseteq Posts /\ row \in [Events -> [Fields -> Values]]
  BY DEF ProcessInv, TypeOK
<1>1. CASE o \in Posts /\ Flush(o)
  <2>1. PICK pc \in {"producing", "error"} : GoTo(o, pc)
    BY <1>1 DEF Flush
  <2> QED BY <1>0, <1>1, <2>1, RequestMoveKeepsProcess DEF Flush, At, kafkaVars
<1>2. CASE o \in Posts /\ Commit(o)
  <2>1. PICK landed \in BOOLEAN : /\ rows' = IF landed THEN rows \cup {o} ELSE rows
                                  /\ Ends(o, "created", landed)
    BY <1>2 DEF Commit
  <2>2. PICK pc \in {"error", "created"} : GoTo(o, pc)
    BY <2>1 DEF Ends
  <2> QED BY <1>0, <1>2, <2>1, <2>2, RequestMoveKeepsProcess DEF Commit, kafkaVars
<1>3. CASE o \in Patches /\ FlushPatch(o)
  <2>1. PICK pc \in {"locked", "error"} : GoTo(o, pc)
    BY <1>3 DEF FlushPatch
  <2> QED BY <1>0, <1>3, <2>1, RequestMoveKeepsProcess DEF FlushPatch, kafkaVars
<1>4. CASE o \in Posts /\ Publish(o)
  BY <1>4, PublishKeepsProcess DEF Publish
<1> QED BY <1>1, <1>2, <1>3, <1>4, ProduceKeepsProcess, PatchKeepsProcess

LEMMA SettleKeepsProcess ==
  ASSUME ProcessInv, NEW o \in Requests, Settle(o)
  PROVE  ProcessInv'
<1>0. rows \subseteq Posts /\ row \in [Events -> [Fields -> Values]]
  BY DEF ProcessInv, TypeOK
<1>1. row' \in [Events -> [Fields -> Values]]
  <2>1. CASE o \in Patches
    <3>1. Target[o] \in Events /\ DOMAIN Sets[o] \subseteq Fields
      BY <2>1, MonitoringAssumption
    <3>2. \A f \in DOMAIN Sets[o] : Sets[o][f] \in Values
      BY <2>1 DEF Values
    <3>3. Written(o) \in [Fields -> Values]
      BY <1>0, <3>1, <3>2 DEF Written
    <3> QED BY <1>0, <3>1, <3>3 DEF Settle
  <2>2. CASE o \notin Patches
    BY <1>0, <2>2 DEF Settle
  <2> QED BY <2>1, <2>2
<1>2. rows' \subseteq Posts
  BY <1>0 DEF Settle
<1>3. GoTo(o, "lost") /\ UNCHANGED <<active, server, topic, offset, handled, socketVars>>
  BY DEF Settle, kafkaVars
<1> QED BY <1>1, <1>2, <1>3, RequestMoveKeepsProcess

LEMMA ServerType ==
  ASSUME TypeOK
  PROVE  /\ server.lives \in Nat /\ server.moves \in Nat
         /\ \A p \in {"working", "broken"}, c \in BOOLEAN : server.lives < MaxLives =>
              [server EXCEPT !.up = TRUE, !.producer = p, !.consuming = c, !.lives = @ + 1]
                \in [up : BOOLEAN, producer : {"working", "broken"}, consuming : BOOLEAN,
                     lives : 0..MaxLives, moves : 0..MaxMoves]
         /\ [server EXCEPT !.up = FALSE, !.producer = "broken", !.consuming = FALSE]
              \in [up : BOOLEAN, producer : {"working", "broken"}, consuming : BOOLEAN,
                   lives : 0..MaxLives, moves : 0..MaxMoves]
         /\ server.moves < MaxMoves => [server EXCEPT !.moves = @ + 1]
              \in [up : BOOLEAN, producer : {"working", "broken"}, consuming : BOOLEAN,
                   lives : 0..MaxLives, moves : 0..MaxMoves]
<1>1. /\ server.lives \in 0..MaxLives /\ server.moves \in 0..MaxMoves
      /\ MaxLives \in Nat /\ MaxMoves \in Nat
      /\ server \in [up : BOOLEAN, producer : {"working", "broken"}, consuming : BOOLEAN,
                     lives : 0..MaxLives, moves : 0..MaxMoves]
  BY MonitoringAssumption DEF TypeOK
<1>2. /\ server.lives < MaxLives => server.lives + 1 \in 0..MaxLives
      /\ server.moves < MaxMoves => server.moves + 1 \in 0..MaxMoves
  BY <1>1
<1>3. ASSUME NEW p \in {"working", "broken"}, NEW c \in BOOLEAN, server.lives < MaxLives
      PROVE  [server EXCEPT !.up = TRUE, !.producer = p, !.consuming = c, !.lives = @ + 1]
               \in [up : BOOLEAN, producer : {"working", "broken"}, consuming : BOOLEAN,
                    lives : 0..MaxLives, moves : 0..MaxMoves]
  BY <1>1, <1>2, <1>3
<1>4. [server EXCEPT !.up = FALSE, !.producer = "broken", !.consuming = FALSE]
        \in [up : BOOLEAN, producer : {"working", "broken"}, consuming : BOOLEAN,
             lives : 0..MaxLives, moves : 0..MaxMoves]
  BY <1>1
<1>5. server.moves < MaxMoves => [server EXCEPT !.moves = @ + 1]
        \in [up : BOOLEAN, producer : {"working", "broken"}, consuming : BOOLEAN,
             lives : 0..MaxLives, moves : 0..MaxMoves]
  BY <1>1, <1>2
<1>6. server.lives \in Nat /\ server.moves \in Nat
  BY <1>1
<1> QED BY <1>3, <1>4, <1>5, <1>6

LEMMA ProcessStepKeepsProcess ==
  ASSUME ProcessInv, Start \/ Stop \/ Crash
  PROVE  ProcessInv'
<1>0. TypeOK /\ UNCHANGED <<active, rows, row, topic, handled>>
  BY DEF ProcessInv, Start, Stop, Crash, requestVars, kafkaVars
<1>1. offset \in [position : Nat, committed : Nat] /\ offset.committed <= offset.position
      /\ offset.position <= Len(topic) /\ Len(topic) \in Nat
  BY <1>0 DEF TypeOK
<1>2. CASE Start \/ Stop
  <2>1. server' \in [up : BOOLEAN, producer : {"working", "broken"}, consuming : BOOLEAN,
                     lives : 0..MaxLives, moves : 0..MaxMoves]
    BY <1>0, <1>2, ServerType DEF Start, Stop
  <2>2. offset' \in [position : Nat, committed : Nat] /\ offset'.committed <= offset'.position
        /\ offset'.position <= offset.position
    <3>1. CASE Start
      <4>1. offset' = [offset EXCEPT !.position = offset.committed]
        BY <3>1 DEF Start
      <4> QED BY <1>1, <4>1
    <3>2. CASE Stop
      <4>1. \/ offset' = [offset EXCEPT !.committed = offset.position]
            \/ offset' = offset
        BY <1>1, <3>2 DEF Stop
      <4> QED BY <1>1, <4>1
    <3> QED BY <1>2, <3>1, <3>2
  <2>3. UNCHANGED <<op, client, manager>>
    BY <1>2 DEF Start, Stop, requestVars, socketVars
  <2>4. TypeOK'
    BY <1>0, <1>1, <2>1, <2>2, <2>3 DEF TypeOK
  <2>5. 1..offset'.position \subseteq 1..offset.position
    BY <1>1, <2>2
  <2>6. 1..offset'.position \subseteq handled'
    BY <1>0, <2>5 DEF ProcessInv
  <2> QED BY <2>3, <2>4, <2>6 DEF ProcessInv, ConnectionsExact
<1>3. CASE Crash
  <2>1. /\ server' \in [up : BOOLEAN, producer : {"working", "broken"}, consuming : BOOLEAN,
                       lives : 0..MaxLives, moves : 0..MaxMoves]
        /\ UNCHANGED offset
    BY <1>0, <1>3, ServerType DEF Crash, kafkaVars
  <2> DEFINE R == [pc : {"idle"} \cup Working \cup Answered \cup Left, tries : 0..Attempts, read : [Fields -> Values]]
             C == [pc : {"away", "left"} \cup Connected, there : BOOLEAN, inbox : Seq(Events)]
  <2>2. /\ op' \in [Requests -> R]
        /\ \A o \in Requests : op'[o].pc \in {"idle", "producing"} => op'[o].tries < Attempts
    <3>0. \A o \in Requests : op[o] \in R
      BY <1>0 DEF TypeOK
    <3> DEFINE over(o) == IF op[o].pc \in {"committing", "locked"} THEN "orphaned" ELSE "cut"
    <3>1. \A o \in Requests : op[o] \in R /\ [op[o] EXCEPT !.pc = over(o)] \in R
                              /\ [op[o] EXCEPT !.pc = over(o)].pc \in {"orphaned", "cut"}
      <4> SUFFICES ASSUME NEW o \in Requests
                   PROVE  /\ op[o] \in R /\ [op[o] EXCEPT !.pc = over(o)] \in R
                          /\ [op[o] EXCEPT !.pc = over(o)].pc \in {"orphaned", "cut"}
        OBVIOUS
      <4>1. op[o] \in R /\ over(o) \in {"orphaned", "cut"} /\ {"orphaned", "cut"} \subseteq Left
        BY <3>0 DEF Left
      <4> HIDE DEF Working, Answered, Left, over
      <4> QED BY <4>1
    <3>2. op' = [o \in Requests |-> IF op[o].pc \notin Working THEN op[o] ELSE [op[o] EXCEPT !.pc = over(o)]]
      BY <1>3 DEF Crash
    <3> HIDE DEF R, over
    <3> QED BY <3>1, <3>2 DEF ProcessInv
  <2>3. client' \in [Clients -> C] /\ \A c \in Clients : client'[c].pc \notin Connected
    <3>1. \A c \in Clients : client[c] \in C
      BY <1>0 DEF TypeOK
    <3>2. [pc |-> "left", there |-> FALSE, inbox |-> <<>>] \in C
      OBVIOUS
    <3> HIDE DEF C
    <3> QED BY <1>3, <3>1, <3>2 DEF Crash
  <2>4. manager' = [connections |-> {}, gauge |-> 0]
    BY <1>3 DEF Crash
  <2>5. TypeOK'
    BY <1>0, <2>1, <2>2, <2>3, <2>4 DEF TypeOK
  <2>6. ConnectionsExact' /\ IsFiniteSet(manager.connections)'
    BY <2>3, <2>4, FS_EmptySet DEF ConnectionsExact
  <2> QED BY <1>0, <2>1, <2>2, <2>5, <2>6 DEF ProcessInv
<1> QED BY <1>2, <1>3

\* Whatever the consumer and the group do, the position stays inside of what
\* is handled.
LEMMA ConsumerKeepsProcess ==
  ASSUME ProcessInv, Consume \/ AutoCommit \/ Move
  PROVE  ProcessInv'
<1>0. TypeOK /\ UNCHANGED <<active, requestVars, topic, socketVars>>
  BY DEF ProcessInv, Consume, AutoCommit, Move
<1>1. offset \in [position : Nat, committed : Nat] /\ offset.committed <= offset.position
      /\ offset.position <= Len(topic) /\ Len(topic) \in Nat
  BY <1>0 DEF TypeOK
<1>2. server' \in [up : BOOLEAN, producer : {"working", "broken"}, consuming : BOOLEAN,
                   lives : 0..MaxLives, moves : 0..MaxMoves]
  <2>1. CASE Consume \/ AutoCommit
    BY <1>0, <2>1 DEF Consume, AutoCommit, TypeOK
  <2>2. CASE Move
    BY <1>0, <2>2, ServerType DEF Move
  <2> QED BY <2>1, <2>2
<1>3. /\ offset' \in [position : Nat, committed : Nat] /\ offset'.committed <= offset'.position
      /\ offset'.position <= Len(topic)
      /\ handled' \subseteq 1..Len(topic) /\ 1..offset'.position \subseteq handled'
  <2>0. handled \subseteq 1..Len(topic) /\ 1..offset.position \subseteq handled
    BY DEF ProcessInv, TypeOK
  <2>1. CASE Consume
    <3>1. /\ offset'.position = offset.position + 1 /\ offset'.committed = offset.committed
          /\ offset' \in [position : Nat, committed : Nat] /\ offset.position < Len(topic)
          /\ handled' = handled \cup {offset.position + 1}
      BY <1>1, <2>1 DEF Consume
    <3>2. \A i \in 1..offset.position + 1 : i \in 1..offset.position \/ i = offset.position + 1
      BY <1>1
    <3>3. offset.position + 1 \in 1..Len(topic)
      BY <1>1, <3>1
    <3>4. 1..offset'.position \subseteq handled'
      BY <2>0, <3>1, <3>2
    <3>5. handled' \subseteq 1..Len(topic)
      BY <2>0, <3>1, <3>3
    <3>6. offset'.committed <= offset'.position /\ offset'.position <= Len(topic)
      BY <1>1, <3>1
    <3> QED BY <3>1, <3>4, <3>5, <3>6
  <2>2. CASE AutoCommit \/ Move
    <3>1. /\ offset'.position <= offset.position /\ offset'.committed <= offset'.position
          /\ offset' \in [position : Nat, committed : Nat] /\ UNCHANGED handled
      BY <1>1, <2>2 DEF AutoCommit, Move
    <3>2. 1..offset'.position \subseteq 1..offset.position
      BY <1>1, <3>1
    <3> QED BY <1>1, <2>0, <3>1, <3>2
  <2> QED BY <2>1, <2>2
<1> QED BY <1>0, <1>2, <1>3 DEF ProcessInv, TypeOK, ConnectionsExact, requestVars, socketVars
\* A step of one client: the connections and the gauge follow its handler.
LEMMA ClientStepKeepsProcess ==
  ASSUME ProcessInv, NEW c \in Clients,
         Connect(c) \/ Subscribe(c) \/ GoAway(c) \/ Sent(c) \/ End(c)
  PROVE  ProcessInv'
<1> DEFINE C == [pc : {"away", "left"} \cup Connected, there : BOOLEAN, inbox : Seq(Events)]
<1>0. /\ TypeOK /\ ConnectionsExact /\ IsFiniteSet(manager.connections)
      /\ UNCHANGED <<active, server, requestVars, kafkaVars>>
  BY DEF ProcessInv, Connect, Subscribe, GoAway, Sent, End
<1>1. client \in [Clients -> C] /\ manager \in [connections : SUBSET Clients, gauge : Nat]
      /\ client[c] \in C
  BY <1>0 DEF TypeOK
<1>2. Cardinality(manager.connections) = manager.gauge /\ manager.gauge \in Nat
  BY <1>0, <1>1 DEF ConnectionsExact
<1>3. PICK new \in C : client' = [client EXCEPT ![c] = new]
  <2>1. CASE Connect(c)
    <3>1. client' = [client EXCEPT ![c] = [client[c] EXCEPT !.pc = "open", !.there = TRUE]]
      BY <1>1, <2>1 DEF Connect
    <3>2. [client[c] EXCEPT !.pc = "open", !.there = TRUE] \in C
      BY <1>1
    <3> QED BY <3>1, <3>2
  <2>2. CASE Subscribe(c)
    <3>1. client' = [client EXCEPT ![c] = [client[c] EXCEPT !.pc = "subscribed"]]
      BY <1>1, <2>2 DEF Subscribe
    <3>2. [client[c] EXCEPT !.pc = "subscribed"] \in C
      BY <1>1
    <3> QED BY <3>1, <3>2
  <2>3. CASE GoAway(c)
    <3>1. client' = [client EXCEPT ![c] = [client[c] EXCEPT !.there = FALSE]]
      BY <1>1, <2>3 DEF GoAway
    <3>2. [client[c] EXCEPT !.there = FALSE] \in C
      BY <1>1
    <3> QED BY <3>1, <3>2
  <2>4. CASE Sent(c)
    <3>1. client' = [client EXCEPT ![c] = [client[c] EXCEPT !.inbox = Tail(client[c].inbox)]]
      BY <1>1, <2>4 DEF Sent
    <3>2. client[c].inbox \in Seq(Events) /\ client[c].inbox # <<>>
      BY <1>1, <2>4 DEF Sent
    <3>3. Tail(client[c].inbox) \in Seq(Events)
      BY <3>2
    <3>4. [client[c] EXCEPT !.inbox = Tail(client[c].inbox)] \in C
      BY <1>1, <3>3
    <3> QED BY <3>1, <3>4
  <2>5. CASE End(c)
    <3>1. client' = [client EXCEPT ![c] = [pc |-> "left", there |-> FALSE, inbox |-> <<>>]]
      BY <2>5 DEF End
    <3>2. [pc |-> "left", there |-> FALSE, inbox |-> <<>>] \in C
      OBVIOUS
    <3> QED BY <3>1, <3>2
  <2> QED BY <2>1, <2>2, <2>3, <2>4, <2>5
<1>4. client' \in [Clients -> C] /\ client'[c] = new
      /\ \A d \in Clients : d # c => client'[d] = client[d]
  <2> HIDE DEF C
  <2> QED BY <1>1, <1>3
<1>5. /\ manager' \in [connections : SUBSET Clients, gauge : Nat]
      /\ ConnectionsExact' /\ IsFiniteSet(manager'.connections)
  <2>1. CASE Connect(c)
    <3>1. c \notin manager.connections /\ client'[c].pc = "open"
      BY <1>0, <1>1, <2>1 DEF Connect, ConnectionsExact
    <3>2. /\ manager'.connections = manager.connections \cup {c} /\ manager'.gauge = manager.gauge + 1
          /\ manager' \in [connections : SUBSET Clients, gauge : Nat]
      BY <1>1, <2>1 DEF Connect
    <3>3. /\ IsFiniteSet(manager'.connections)
          /\ Cardinality(manager'.connections) = Cardinality(manager.connections) + 1
      <4>1. /\ IsFiniteSet(manager.connections \cup {c})
            /\ Cardinality(manager.connections \cup {c}) = Cardinality(manager.connections) + 1
        BY <1>0, <3>1, FS_AddElement
      <4> QED BY <3>2, <4>1
    <3>4. manager'.connections = {d \in Clients : client'[d].pc \in Connected}
      BY <1>0, <1>4, <3>1, <3>2 DEF ConnectionsExact
    <3> QED BY <1>2, <3>2, <3>3, <3>4 DEF ConnectionsExact
  <2>2. CASE Subscribe(c) \/ GoAway(c) \/ Sent(c)
    <3>1. UNCHANGED manager
      BY <2>2 DEF Subscribe, GoAway, Sent
    <3>2. client'[c].pc \in Connected <=> client[c].pc \in Connected
      BY <1>1, <2>2 DEF Subscribe, GoAway, Sent
    <3>3. manager'.connections = {d \in Clients : client'[d].pc \in Connected}
      BY <1>0, <1>4, <3>1, <3>2 DEF ConnectionsExact
    <3> QED BY <1>0, <1>1, <1>2, <3>1, <3>3 DEF ConnectionsExact
  <2>3. CASE End(c)
    <3>1. c \in manager.connections /\ client'[c].pc = "left"
      BY <1>0, <1>1, <2>3 DEF End, ConnectionsExact
    <3>2. /\ IsFiniteSet(manager.connections \ {c})
          /\ Cardinality(manager.connections \ {c}) = Cardinality(manager.connections) - 1
      BY <1>0, <3>1, FS_RemoveElement
    <3>3. manager.gauge - 1 \in Nat
      BY <1>2, <3>2, FS_CardinalityType
    <3>4. /\ manager'.connections = manager.connections \ {c} /\ manager'.gauge = manager.gauge - 1
          /\ manager' \in [connections : SUBSET Clients, gauge : Nat]
      BY <1>1, <2>3, <3>3 DEF End
    <3>5. manager'.connections = {d \in Clients : client'[d].pc \in Connected}
      BY <1>0, <1>4, <3>1, <3>4 DEF ConnectionsExact
    <3> QED BY <1>2, <3>2, <3>4, <3>5 DEF ConnectionsExact
  <2> QED BY <2>1, <2>2, <2>3
<1>6. TypeOK'
  BY <1>0, <1>4, <1>5 DEF TypeOK, requestVars, kafkaVars
<1> QED BY <1>0, <1>5, <1>6 DEF ProcessInv, requestVars, kafkaVars

LEMMA NextProcess == ProcessInv /\ [Next]_vars => ProcessInv'
<1> SUFFICES ASSUME ProcessInv, [Next]_vars PROVE ProcessInv'
  OBVIOUS
<1>1. CASE Start \/ Stop \/ Crash
  BY <1>1, ProcessStepKeepsProcess
<1>2. CASE \E o \in Posts : Flush(o) \/ Produce(o) \/ Publish(o) \/ Commit(o)
  BY <1>2, RequestStepKeepsProcess DEF Requests
<1>3. CASE \E p \in Patches : Read(p) \/ FlushPatch(p) \/ CommitPatch(p)
  BY <1>3, RequestStepKeepsProcess DEF Requests
<1>4. CASE Consume \/ AutoCommit \/ Move
  BY <1>4, ConsumerKeepsProcess
<1>5. CASE \E c \in Clients : Connect(c) \/ Subscribe(c) \/ GoAway(c) \/ Sent(c) \/ End(c)
  BY <1>5, ClientStepKeepsProcess
<1>6. CASE UNCHANGED vars
  BY <1>6 DEF vars, requestVars, kafkaVars, socketVars, ProcessInv, TypeOK, ConnectionsExact
<1>7. CASE \E o \in Requests : Settle(o)
  BY <1>7, SettleKeepsProcess
<1> QED BY <1>1, <1>2, <1>3, <1>4, <1>5, <1>6, <1>7 DEF Next

\* The position of the consumer never passes an unhandled message, and the
\* connections and the gauge always agree with the handlers that run.
THEOREM ProcessIsSound == Spec => []ProcessInv
<1>1. Spec => Init /\ [][Next]_vars
  BY DEF Spec
<1> QED BY <1>1, InitProcess, NextProcess, PTL

\* The service is well typed, knows its connections, and the group never
\* commits past a message that no handler has seen, through any number of
\* crashes, restarts and moves of the partition.
THEOREM MonitorCorrect == Spec => []MonitorInv
<1>1. ProcessInv => MonitorInv
  <2>1. ASSUME ProcessInv PROVE 1..offset.committed \subseteq 1..offset.position
    BY <2>1 DEF ProcessInv, TypeOK
  <2> QED BY <2>1 DEF ProcessInv, MonitorInv, CommittedMeansHandled
<1> QED BY <1>1, ProcessIsSound, PTL
-----------------------------------------------------------------------------
(* Updates of an event.  What an answered update wrote stays accounted for,*)
(* and an update that waits has read a column nobody wrote, or knows whose *)
(* value it read: that is ReadsExplained, without which an update that     *)
(* changes nothing could be blamed for a column.                           *)

LEMMA AssignedKept ==
  ASSUME NEW e, NEW f, NEW ends, \A q \in Patches : op[q].pc \in ends => op'[q].pc \in ends
  PROVE  Assigned(e, f, ends) \subseteq Assigned(e, f, ends)'
  BY DEF Assigned

LEMMA AssignedSame ==
  ASSUME NEW e, NEW f, NEW ends,
         \A q \in Patches : Target[q] = e /\ f \in DOMAIN Sets[q] =>
           (op[q].pc \in ends <=> op'[q].pc \in ends)
  PROVE  Assigned(e, f, ends)' = Assigned(e, f, ends)
  BY DEF Assigned

LEMMA TargetType ==
  ASSUME NEW p \in Patches
  PROVE  p \in Requests /\ Target[p] \in Events /\ DOMAIN Sets[p] \subseteq Fields
  BY MonitoringAssumption DEF Requests

\* Where only a post stands.
PostOnly == {"producing", "publishing", "committing"}

PatchesInv ==
  /\ TypeOK /\ PatchesSurvive /\ ReadsExplained
  /\ \A p \in Patches : op[p].pc \notin PostOnly

\* How a crash leaves a request.
LEMMA CrashMoves ==
  ASSUME TypeOK, Crash, NEW o \in Requests
  PROVE  \/ op'[o] = op[o]
         \/ /\ op[o].pc \in Working /\ op'[o].read = op[o].read /\ op'[o].tries = op[o].tries
            /\ op'[o].pc = IF op[o].pc \in {"committing", "locked"} THEN "orphaned" ELSE "cut"
<1> DEFINE over == IF op[o].pc \in {"committing", "locked"} THEN "orphaned" ELSE "cut"
<1>1. /\ op[o] \in [pc : {"idle"} \cup Working \cup Answered \cup Left, tries : 0..Attempts,
                     read : [Fields -> Values]]
      /\ op'[o] = IF op[o].pc \notin Working THEN op[o] ELSE [op[o] EXCEPT !.pc = over]
  BY DEF TypeOK, Crash
<1> HIDE DEF over
<1>2. CASE op[o].pc \in Working
  <2>1. op'[o] = [op[o] EXCEPT !.pc = over]
    BY <1>1, <1>2
  <2>2. op'[o].pc = over /\ op'[o].read = op[o].read /\ op'[o].tries = op[o].tries
    <3> HIDE DEF Working, Answered, Left
    <3> QED BY <1>1, <2>1
  <2> QED BY <1>2, <2>2 DEF over
<1> QED BY <1>1, <1>2

\* A step that neither reads nor writes the columns for an update.
Quiet ==
  /\ UNCHANGED row
  /\ \A q \in Patches :
       /\ op[q].pc \in {"updated", "error", "lost"} => op'[q] = op[q]
       /\ op'[q].pc = "updated" => op[q].pc = "updated"
       /\ op'[q].pc \in {"read", "locked", "orphaned"} =>
            op[q].pc \in {"read", "locked", "orphaned"} /\ op'[q].read = op[q].read
       /\ op'[q].pc \notin PostOnly

LEMMA QuietSteps ==
  ASSUME PatchesInv, [Next]_vars, ~ \E p \in Patches : Read(p) \/ CommitPatch(p) \/ Settle(p)
  PROVE  Quiet
<1> DEFINE R == [pc : {"idle"} \cup Working \cup Answered \cup Left, tries : 0..Attempts, read : [Fields -> Values]]
<1>0. /\ op \in [Requests -> R] /\ \A q \in Patches : q \in Requests /\ op[q].pc \notin PostOnly
      /\ TypeOK
  BY TargetType DEF PatchesInv, TypeOK
<1>1. ASSUME NEW o \in Requests, NEW pc \in {"idle"} \cup Working \cup Answered \cup Left, GoTo(o, pc),
             pc \in PostOnly => o \notin Patches,
             UNCHANGED row, op[o].pc \notin {"updated", "error", "lost"},
             pc \notin {"updated", "read", "orphaned"}, pc = "locked" => op[o].pc = "read"
      PROVE  Quiet
  <2>1. /\ op'[o].pc = pc /\ op'[o].read = op[o].read
        /\ \A r \in Requests : r # o => op'[r] = op[r]
    BY <1>0, <1>1, GoToType
  <2> QED BY <1>0, <1>1, <2>1 DEF Quiet
<1>2. CASE UNCHANGED <<op, row>>
  BY <1>0, <1>2 DEF Quiet
<1>3. CASE Crash
  <2>1. UNCHANGED row
    BY <1>3 DEF Crash
  <2>2. ASSUME NEW q \in Patches
        PROVE  \/ op'[q] = op[q]
               \/ /\ op[q].pc \in Working /\ op'[q].read = op[q].read
                  /\ op'[q].pc = IF op[q].pc \in {"committing", "locked"} THEN "orphaned" ELSE "cut"
    BY <1>0, <1>3, CrashMoves
  <2>3. ASSUME NEW q \in Patches, op[q].pc \in {"updated", "error", "lost"} PROVE op'[q] = op[q]
    BY <2>2, <2>3
  <2>4. ASSUME NEW q \in Patches, op'[q].pc \in {"read", "locked", "orphaned"}
        PROVE  op[q].pc \in {"read", "locked", "orphaned"} /\ op'[q].read = op[q].read
    BY <1>0, <2>2, <2>4 DEF PostOnly
  <2>5. ASSUME NEW q \in Patches PROVE op'[q].pc \notin PostOnly
    BY <1>0, <2>2 DEF PostOnly
  <2>6. ASSUME NEW q \in Patches, op'[q].pc = "updated" PROVE op[q].pc = "updated"
    BY <2>2, <2>6
  <2> QED BY <2>1, <2>3, <2>4, <2>5, <2>6 DEF Quiet
<1>4. ASSUME NEW o \in Posts, Flush(o) \/ Publish(o) \/ Commit(o)
      PROVE  Quiet
  <2>0. o \in Requests
    BY DEF Requests
  <2>1. PICK pc \in {"producing", "error", "committing", "created"} : GoTo(o, pc)
    BY <1>4 DEF Flush, Publish, Commit, Ends
  <2>2. op[o].pc \in {"idle", "publishing", "committing"} /\ UNCHANGED row
    BY <1>4 DEF Flush, Publish, Commit, At
  <2>3. o \notin Patches
    BY MonitoringAssumption
  <2> QED BY <1>1, <2>0, <2>1, <2>2, <2>3
<1>5. ASSUME NEW o \in Posts, Produce(o)
      PROVE  Quiet
  <2>0. o \in Requests /\ op[o].pc = "producing" /\ UNCHANGED row
    BY <1>5 DEF Requests, Produce, At
  <2>1. PICK taken \in BOOLEAN, repeat \in BOOLEAN : Attempt(o, taken, repeat)
    BY <1>5 DEF Produce
  <2>2. \A r \in Requests : r # o => op'[r] = op[r]
    BY <1>0, <2>1 DEF Attempt
  <2>3. \A q \in Patches : op'[q] = op[q]
    BY <1>0, <2>2, MonitoringAssumption
  <2> QED BY <1>0, <2>0, <2>3 DEF Quiet
<1>6. ASSUME NEW p \in Patches, FlushPatch(p)
      PROVE  Quiet
  <2>1. PICK pc \in {"locked", "error"} : GoTo(p, pc)
    BY <1>6 DEF FlushPatch
  <2>2. op[p].pc = "read" /\ UNCHANGED row
    BY <1>6 DEF FlushPatch, At
  <2> QED BY <1>0, <1>1, <2>1, <2>2 DEF PostOnly
<1>7. CASE Start \/ Stop \/ Consume \/ AutoCommit \/ Move \/ UNCHANGED vars
  BY <1>2, <1>7 DEF Start, Stop, Consume, AutoCommit, Move, vars, requestVars
<1>8. CASE \E c \in Clients : Connect(c) \/ Subscribe(c) \/ GoAway(c) \/ Sent(c) \/ End(c)
  BY <1>2, <1>8 DEF Connect, Subscribe, GoAway, Sent, End, requestVars
<1>9. ASSUME NEW o \in Posts, Settle(o) PROVE Quiet
  <2>1. o \notin Patches /\ o \in Requests /\ GoTo(o, "lost") /\ UNCHANGED row
    BY <1>9, MonitoringAssumption DEF Settle, Requests
  <2>2. \A q \in Patches : op'[q] = op[q]
    BY <1>0, <2>1, GoToType
  <2> QED BY <1>0, <2>1, <2>2 DEF Quiet
<1>10. CASE \E o \in Requests : Settle(o)
  BY <1>9, <1>10 DEF Requests
<1> QED BY <1>3, <1>4, <1>5, <1>6, <1>7, <1>8, <1>10 DEF Next

LEMMA QuietKeepsPatches ==
  ASSUME PatchesInv, TypeOK', Quiet
  PROVE  PatchesInv'
<1>1. ASSUME NEW e \in Events, NEW f \in Fields
      PROVE  /\ Assigned(e, f, {"updated", "error", "lost"}) \subseteq Assigned(e, f, {"updated", "error", "lost"})'
             /\ Assigned(e, f, {"updated"})' = Assigned(e, f, {"updated"})
  <2>1. \A q \in Patches : op[q].pc \in {"updated", "error", "lost"} => op'[q].pc \in {"updated", "error", "lost"}
    BY DEF Quiet
  <2>2. \A q \in Patches : op[q].pc \in {"updated"} <=> op'[q].pc \in {"updated"}
    BY DEF Quiet
  <2> QED BY <2>1, <2>2, AssignedKept, AssignedSame
<1>2. UNCHANGED row
  BY DEF Quiet
<1>3. PatchesSurvive'
  BY <1>1, <1>2 DEF PatchesInv, PatchesSurvive
<1>4. ReadsExplained'
  BY <1>1, <1>2, TargetType DEF PatchesInv, ReadsExplained, Quiet
<1>5. \A q \in Patches : op'[q].pc \notin PostOnly
  BY DEF Quiet
<1> QED BY <1>3, <1>4, <1>5 DEF PatchesInv

LEMMA ReadKeepsPatches ==
  ASSUME PatchesInv, TypeOK', NEW p \in Patches, Read(p)
  PROVE  PatchesInv'
<1>0. p \in Requests /\ Target[p] \in Events /\ op[p].pc = "idle" /\ UNCHANGED row
  BY TargetType DEF Read, At
<1>1. /\ \A r \in Requests : r # p => op'[r] = op[r]
      /\ \/ op'[p].pc = "read" /\ op'[p].read = row[Target[p]]
         \/ op'[p].pc = "missing"
  <2>1. row[Target[p]] \in [Fields -> Values]
    BY <1>0 DEF PatchesInv, TypeOK
  <2>2. CASE op' = [op EXCEPT ![p].pc = "read", ![p].read = row[Target[p]]]
    BY <1>0, <2>1, <2>2, ReadType DEF PatchesInv
  <2>3. CASE GoTo(p, "missing")
    BY <1>0, <2>3, GoToType DEF PatchesInv
  <2> QED BY <2>2, <2>3 DEF Read, GoTo
<1>2. \A q \in Patches, ends \in {{"updated", "error", "lost"}, {"updated"}} :
        op[q].pc \in ends <=> op'[q].pc \in ends
  BY <1>0, <1>1, TargetType
<1>3. ASSUME NEW e \in Events, NEW f \in Fields
      PROVE  /\ Assigned(e, f, {"updated", "error", "lost"})' = Assigned(e, f, {"updated", "error", "lost"})
             /\ Assigned(e, f, {"updated"})' = Assigned(e, f, {"updated"})
  BY <1>2, AssignedSame
<1>4. PatchesSurvive'
  BY <1>0, <1>3 DEF PatchesInv, PatchesSurvive
<1>5. ReadsExplained'
  <2> SUFFICES ASSUME NEW q \in Patches, NEW f \in Fields,
                      op'[q].pc \in {"read", "locked", "orphaned"}, op'[q].read[f] # "posted"
               PROVE  row[Target[q]][f] \in Assigned(Target[q], f, {"updated", "error", "lost"})
    BY <1>0, <1>3, TargetType DEF ReadsExplained
  <2>1. CASE q = p
    BY <1>0, <1>1, <2>1 DEF PatchesInv, PatchesSurvive
  <2>2. CASE q # p
    BY <1>1, <2>2, TargetType DEF PatchesInv, ReadsExplained
  <2> QED BY <2>1, <2>2
<1>6. \A q \in Patches : op'[q].pc \notin PostOnly
  BY <1>1, TargetType DEF PatchesInv, PostOnly
<1> QED BY <1>4, <1>5, <1>6 DEF PatchesInv

LEMMA CommitKeepsPatches ==
  ASSUME PatchesInv, TypeOK', NEW p \in Patches, CommitPatch(p) \/ Settle(p)
  PROVE  PatchesInv'
<1> DEFINE t == Target[p]
           ue == {"updated", "error", "lost"}
<1>0. p \in Requests /\ t \in Events /\ op[p].pc \in {"locked", "orphaned"}
      /\ row \in [Events -> [Fields -> Values]] /\ \A q \in Patches : q \in Requests
  BY TargetType DEF CommitPatch, Settle, At, PatchesInv, TypeOK
<1>1. PICK landed \in BOOLEAN :
        /\ row' = IF landed THEN [row EXCEPT ![t] = Written(p)] ELSE row
        /\ Ends(p, "updated", landed) \/ GoTo(p, "lost")
  BY DEF CommitPatch, Settle
<1>2. PICK pc \in {"error", "updated", "lost"} : GoTo(p, pc) /\ (pc = "updated" => landed)
  BY <1>1 DEF Ends
<1>3. /\ op'[p].pc = pc /\ \A r \in Requests : r # p => op'[r] = op[r]
  BY <1>0, <1>2, GoToType DEF PatchesInv
<1>4. \A q \in Patches : op[q].pc \in ue => op'[q].pc \in ue
  BY <1>0, <1>3
<1>5. ASSUME NEW e \in Events, NEW f \in Fields
      PROVE  Assigned(e, f, ue) \subseteq Assigned(e, f, ue)'
  BY <1>4, AssignedKept
<1>6. ASSUME NEW f \in Fields, f \in DOMAIN Sets[p]
      PROVE  Sets[p][f] \in Assigned(t, f, ue)'
  BY <1>3, <1>6 DEF Assigned
\* The columns that the commit leaves alone, and the one that it writes.
<1>7. ASSUME NEW e \in Events, NEW f \in Fields
      PROVE  \/ row'[e][f] = row[e][f]
             \/ /\ landed /\ e = t /\ f \in DOMAIN Sets[p]
                /\ row'[e][f] = Sets[p][f]
  <2>1. CASE landed /\ e = t
    <3>1. row'[e] = Written(p)
      BY <1>0, <1>1, <2>1
    <3> QED BY <2>1, <3>1 DEF Written
  <2>2. CASE ~(landed /\ e = t)
    BY <1>0, <1>1, <2>2
  <2> QED BY <2>1, <2>2
<1>8. PatchesSurvive'
  <2> SUFFICES ASSUME NEW e \in Events, NEW f \in Fields, row'[e][f] \notin Assigned(e, f, ue)'
               PROVE  row'[e][f] = "posted" /\ Assigned(e, f, {"updated"})' = {}
    BY DEF PatchesSurvive
  <2>1. row'[e][f] = row[e][f]
    BY <1>6, <1>7
  <2>2. row[e][f] = "posted" /\ Assigned(e, f, {"updated"}) = {}
    BY <1>5, <2>1 DEF PatchesInv, PatchesSurvive
  <2>3. ~(op'[p].pc = "updated" /\ e = t /\ f \in DOMAIN Sets[p])
    <3> SUFFICES ASSUME op'[p].pc = "updated", e = t, f \in DOMAIN Sets[p] PROVE FALSE
      OBVIOUS
    <3>1. landed /\ row'[t] = Written(p)
      BY <1>0, <1>1, <1>2, <1>3
    <3>2. Sets[p][f] = op[p].read[f]
      BY <1>6, <3>1 DEF Written
    <3>3. op[p].read[f] = "posted"
      BY <1>0, <1>5, <2>1 DEF PatchesInv, ReadsExplained
    <3> QED BY <1>6, <2>1, <2>2, <3>2, <3>3
  <2>4. \A q \in Patches : Target[q] = e /\ f \in DOMAIN Sets[q] =>
          (op[q].pc \in {"updated"} <=> op'[q].pc \in {"updated"})
    BY <1>0, <1>3, <2>3
  <2>5. Assigned(e, f, {"updated"})' = Assigned(e, f, {"updated"})
    BY <2>4, AssignedSame
  <2> QED BY <2>1, <2>2, <2>5
<1>9. ReadsExplained'
  <2> SUFFICES ASSUME NEW q \in Patches, NEW f \in Fields,
                      op'[q].pc \in {"read", "locked", "orphaned"}, op'[q].read[f] # "posted"
               PROVE  row'[Target[q]][f] \in Assigned(Target[q], f, ue)'
    BY DEF ReadsExplained
  <2>1. q # p /\ op'[q] = op[q] /\ Target[q] \in Events
    BY <1>0, <1>3, TargetType
  <2>2. row[Target[q]][f] \in Assigned(Target[q], f, ue)
    BY <2>1 DEF PatchesInv, ReadsExplained
  <2> QED BY <1>5, <1>6, <1>7, <2>1, <2>2
<1>10. \A q \in Patches : op'[q].pc \notin PostOnly
  BY <1>0, <1>3 DEF PatchesInv, PostOnly
<1> QED BY <1>8, <1>9, <1>10 DEF PatchesInv

\* Updates of different columns do not undo each other, however their reads,
\* flushes and commits interleave, whichever commits fail unnoticed, and whatever
\* Postgres makes of those that a crash left in flight.
THEOREM UpdatesSurvive == Spec => []PatchesSurvive
<1>1. Init => PatchesInv
  <2> SUFFICES ASSUME Init PROVE PatchesInv
    OBVIOUS
  <2>1. TypeOK
    BY InitProcess DEF ProcessInv
  <2>2. \A p \in Patches : op[p].pc = "idle"
    BY TargetType DEF Init
  <2>3. \A e \in Events, f \in Fields : row[e][f] = "posted"
    BY DEF Init, Posted
  <2> QED BY <2>1, <2>2, <2>3 DEF PatchesInv, PatchesSurvive, ReadsExplained, Assigned, PostOnly
<1>2. PatchesInv /\ TypeOK' /\ [Next]_vars => PatchesInv'
  BY QuietSteps, QuietKeepsPatches, ReadKeepsPatches, CommitKeepsPatches DEF PatchesInv
<1>3. Spec => Init /\ [][Next]_vars
  BY DEF Spec
<1>4. ProcessInv => TypeOK
  BY DEF ProcessInv
<1>5. PatchesInv => PatchesSurvive
  BY DEF PatchesInv
<1> QED BY <1>1, <1>2, <1>3, <1>4, <1>5, ProcessIsSound, PTL
-----------------------------------------------------------------------------
(* Announcements: how often a message is in a sequence.                    *)

Places(s, o) == {i \in 1..Len(s) : s[i] = o}

LEMMA PlacesFinite ==
  ASSUME NEW S, NEW s \in Seq(S), NEW o
  PROVE  IsFiniteSet(Places(s, o)) /\ Cardinality(Places(s, o)) \in Nat
<1>1. Len(s) \in Nat /\ Len(s) \in Int /\ 1 \in Int
  OBVIOUS
<1>2. IsFiniteSet(1..Len(s))
  BY <1>1, FS_Interval
<1>3. Places(s, o) \in SUBSET (1..Len(s))
  BY DEF Places
<1> QED BY <1>2, <1>3, FS_Subset, FS_CardinalityType

LEMMA PlacesAppend ==
  ASSUME NEW S, NEW s \in Seq(S), NEW x \in S, NEW o
  PROVE  Cardinality(Places(Append(s, x), o))
           = IF x = o THEN Cardinality(Places(s, o)) + 1 ELSE Cardinality(Places(s, o))
<1>1. /\ Len(s) \in Nat /\ Len(Append(s, x)) = Len(s) + 1
      /\ \A i \in 1..Len(s) : Append(s, x)[i] = s[i]
      /\ Append(s, x)[Len(s) + 1] = x
  OBVIOUS
<1>2. \A i : i \in 1..Len(s) + 1 <=> (i \in 1..Len(s) \/ i = Len(s) + 1)
  BY <1>1
<1>3. Len(s) + 1 \notin Places(s, o)
  BY <1>1 DEF Places
<1>4. CASE x = o
  <2>1. Places(Append(s, x), o) = Places(s, o) \cup {Len(s) + 1}
    BY <1>1, <1>2, <1>4 DEF Places
  <2> QED BY <1>3, <1>4, <2>1, PlacesFinite, FS_AddElement
<1>5. CASE x # o
  <2>1. Places(Append(s, x), o) = Places(s, o)
    BY <1>1, <1>2, <1>5 DEF Places
  <2> QED BY <1>5, <2>1
<1> QED BY <1>4, <1>5

\* Each place in the tail was the next one before.
LEMMA PlacesTail ==
  ASSUME NEW S, NEW s \in Seq(S), s # <<>>, NEW o
  PROVE  Cardinality(Places(Tail(s), o)) <= Cardinality(Places(s, o))
<1>1. /\ Len(s) \in Nat /\ Len(Tail(s)) = Len(s) - 1 /\ Len(s) > 0
      /\ \A i \in 1..Len(s) - 1 : Tail(s)[i] = s[i + 1]
  OBVIOUS
<1> DEFINE next == [i \in Places(Tail(s), o) |-> i + 1]
<1>2. \A i \in Places(Tail(s), o) : i \in Nat /\ i + 1 \in Places(s, o)
  BY <1>1 DEF Places
<1>3. next \in [Places(Tail(s), o) -> Places(s, o)]
  BY <1>2
<1>4. \A i, j \in Places(Tail(s), o) : next[i] = next[j] => i = j
  BY <1>2
<1>5. next \in Injection(Places(Tail(s), o), Places(s, o))
  <2> HIDE DEF next
  <2> QED BY <1>3, <1>4 DEF Injection, IsInjective
<1> HIDE DEF next
<1> QED BY <1>5, PlacesFinite, FS_Injection

\* Copies of one message add places of that message only.
LEMMA ConcatElements ==
  ASSUME NEW S, NEW s \in Seq(S), NEW more \in Seq(S), NEW x,
         \A i \in 1..Len(more) : more[i] = x
  PROVE  /\ Len(s) \in Nat /\ Len(more) \in Nat /\ Len(s \o more) = Len(s) + Len(more)
         /\ \A i \in 1..Len(s) : (s \o more)[i] = s[i]
         /\ \A i \in Len(s) + 1 .. Len(s) + Len(more) : (s \o more)[i] = x
         /\ \A i : i \in 1..Len(s) + Len(more)
                   <=> (i \in 1..Len(s) \/ i \in Len(s) + 1 .. Len(s) + Len(more))
<1>1. /\ Len(s) \in Nat /\ Len(more) \in Nat /\ Len(s \o more) = Len(s) + Len(more)
      /\ \A i \in 1..Len(s) : (s \o more)[i] = s[i]
      /\ \A i \in Len(s) + 1 .. Len(s) + Len(more) : (s \o more)[i] = more[i - Len(s)]
  OBVIOUS
<1>2. \A i \in Len(s) + 1 .. Len(s) + Len(more) : (s \o more)[i] = x
  <2>1. ASSUME NEW i \in Len(s) + 1 .. Len(s) + Len(more) PROVE i - Len(s) \in 1..Len(more)
    BY <1>1
  <2> QED BY <1>1, <2>1
<1>3. \A i : i \in 1..Len(s) + Len(more)
             <=> (i \in 1..Len(s) \/ i \in Len(s) + 1 .. Len(s) + Len(more))
  BY <1>1
<1> QED BY <1>1, <1>2, <1>3

LEMMA PlacesOfOthers ==
  ASSUME NEW S, NEW s \in Seq(S), NEW more \in Seq(S), NEW x, NEW o, o # x,
         \A i \in 1..Len(more) : more[i] = x
  PROVE  Places(s \o more, o) = Places(s, o)
<1> DEFINE all == s \o more
           m == Len(s) + Len(more)
<1>1. /\ Len(all) = m
      /\ \A i \in 1..Len(s) : all[i] = s[i]
      /\ \A i \in Len(s) + 1 .. m : all[i] = x
      /\ \A i : i \in 1..m <=> (i \in 1..Len(s) \/ i \in Len(s) + 1 .. m)
  BY ConcatElements
<1> HIDE DEF all, m
<1>2. Places(all, o) = Places(s, o)
  BY <1>1 DEF Places
<1> QED BY <1>2 DEF all

LEMMA PlacesAdded ==
  ASSUME NEW S, NEW s \in Seq(S), NEW more \in Seq(S), NEW x, Places(s, x) = {},
         \A i \in 1..Len(more) : more[i] = x
  PROVE  Cardinality(Places(s \o more, x)) <= Len(more)
<1> DEFINE all == s \o more
           n == Len(s)
           k == Len(more)
           new == n + 1 .. n + k
<1>1. /\ n \in Nat /\ k \in Nat /\ Len(all) = n + k
      /\ \A i \in 1..n : all[i] = s[i]
      /\ \A i : i \in 1..n + k <=> (i \in 1..n \/ i \in new)
  BY ConcatElements
<1>2. \A i \in 1..n : s[i] # x
  BY DEF Places
<1> HIDE DEF all, n, k
<1>3. Places(all, x) \in SUBSET new
  <2> HIDE DEF new
  <2> QED BY <1>1, <1>2 DEF Places
<1>4. n + 1 \in Int /\ n + k \in Int /\ (n + k) - (n + 1) + 1 = k /\ (n + 1 > n + k => k = 0)
  BY <1>1
<1>5. IsFiniteSet(new) /\ Cardinality(new) = k
  BY <1>1, <1>4, FS_Interval
<1> HIDE DEF new
<1>6. Cardinality(Places(all, x)) <= k
  BY <1>3, <1>5, FS_Subset
<1> QED BY <1>6 DEF all, k

LEMMA CountsArePlaces ==
  ASSUME TypeOK
  PROVE  /\ \A o : Copies(o) = Cardinality(Places(topic, o)) /\ Copies(o) \in Nat
         /\ \A c \in Clients : \A o : /\ Waits(c, o) = Cardinality(Places(client[c].inbox, o))
                                  /\ Waits(c, o) \in Nat
<1>1. topic \in Seq(Posts) /\ \A c \in Clients : client[c].inbox \in Seq(Events)
  BY DEF TypeOK
<1>2. \A o : Copies(o) = Cardinality(Places(topic, o)) /\ Copies(o) \in Nat
  BY <1>1, PlacesFinite DEF Copies, Places
<1>3. \A c \in Clients : \A o : /\ Waits(c, o) = Cardinality(Places(client[c].inbox, o))
                            /\ Waits(c, o) \in Nat
  BY <1>1, PlacesFinite DEF Waits, Places
<1> QED BY <1>2, <1>3

Announced == TypeOK /\ AnnouncementsExplained

Before == {"idle", "producing", "publishing"}

\* A request moves on; it may not go back to before the announcement.
LEMMA MoveKeepsAnnounced ==
  ASSUME Announced, TypeOK', NEW o \in Requests, UNCHANGED <<topic, client>>,
         op[o].pc \notin {"created", "error", "lost"},
         op'[o].tries = op[o].tries, \A r \in Requests : r # o => op'[r] = op[r],
         op'[o].pc \in Before => op[o].pc \in Before,
         rows' \in {rows, rows \cup {o}},
         rows' # rows => op'[o].pc \in {"created", "error", "lost"},
         op'[o].pc = "created" => o \in rows'
  PROVE  Announced'
<1>1. /\ \A r : Copies(r)' = Copies(r)
      /\ \A c \in Clients : \A r : Waits(c, r)' = Waits(c, r)
  BY DEF Copies, Waits
<1>2. ASSUME NEW r \in Posts
      PROVE  /\ op'[r].pc = "created" => r \in rows'
             /\ r \in rows' => op'[r].pc \in {"created", "error", "lost"}
             /\ Copies(r)' <= op'[r].tries
             /\ \A c \in Clients : Waits(c, r)' > 0 => op'[r].pc \notin Before
             /\ \A c \in Clients : Waits(c, r)' <= 2
  <2>1. r \in Requests
    BY DEF Requests
  <2> QED BY <1>1, <2>1 DEF Announced, AnnouncementsExplained, Before
<1> QED BY <1>2 DEF Announced, AnnouncementsExplained, Before

\* Messages leave the inboxes, or nothing happens.
LEMMA ClientsKeepAnnounced ==
  ASSUME Announced, TypeOK', UNCHANGED <<op, rows, topic>>,
         \A c \in Clients : \/ client'[c].inbox = client[c].inbox
                            \/ client'[c].inbox = <<>>
                            \/ client[c].inbox # <<>> /\ client'[c].inbox = Tail(client[c].inbox)
  PROVE  Announced'
<1>1. \A r : Copies(r)' = Copies(r)
  BY DEF Copies
<1>2. ASSUME NEW c \in Clients, NEW r
      PROVE  Waits(c, r)' <= Waits(c, r) /\ Waits(c, r)' \in Nat /\ Waits(c, r) \in Nat
  <2>1. /\ Waits(c, r) = Cardinality(Places(client[c].inbox, r)) /\ Waits(c, r) \in Nat
        /\ client[c].inbox \in Seq(Events)
    BY CountsArePlaces DEF Announced, TypeOK
  <2>2. Waits(c, r)' = Cardinality(Places(client'[c].inbox, r))
    BY DEF Waits, Places
  <2>3. CASE client'[c].inbox = client[c].inbox
    BY <2>1, <2>2, <2>3
  <2>4. CASE client'[c].inbox = <<>>
    <3>1. Places(<<>>, r) = {}
      BY DEF Places
    <3>2. Cardinality(Places(client'[c].inbox, r)) = 0
      BY <2>4, <3>1, FS_EmptySet
    <3> QED BY <2>1, <2>2, <3>2
  <2>5. CASE client[c].inbox # <<>> /\ client'[c].inbox = Tail(client[c].inbox)
    <3>1. Tail(client[c].inbox) \in Seq(Events)
      BY <2>1, <2>5
    <3>2. Cardinality(Places(Tail(client[c].inbox), r)) <= Cardinality(Places(client[c].inbox, r))
      BY <2>1, <2>5, PlacesTail
    <3>3. Cardinality(Places(Tail(client[c].inbox), r)) \in Nat
      BY <3>1, PlacesFinite
    <3> QED BY <2>1, <2>2, <2>5, <3>2, <3>3
  <2> QED BY <2>3, <2>4, <2>5
<1>3. ASSUME NEW r \in Posts
      PROVE  /\ op'[r].pc = "created" => r \in rows'
             /\ r \in rows' => op'[r].pc \in {"created", "error", "lost"}
             /\ Copies(r)' <= op'[r].tries
             /\ \A c \in Clients : Waits(c, r)' > 0 => op'[r].pc \notin Before
             /\ \A c \in Clients : Waits(c, r)' <= 2
  BY <1>1, <1>2 DEF Announced, AnnouncementsExplained, Before
<1> QED BY <1>3 DEF Announced, AnnouncementsExplained, Before

LEMMA CrashKeepsAnnounced ==
  ASSUME Announced, TypeOK', Crash
  PROVE  Announced'
<1>0. /\ TypeOK /\ UNCHANGED <<rows, topic>> /\ \A r \in Posts : r \in Requests
  BY DEF Announced, Crash, kafkaVars, Requests
<1>1. ASSUME NEW r \in Requests
      PROVE  /\ op'[r].tries = op[r].tries
             /\ \/ op'[r] = op[r]
                \/ op[r].pc \in Working /\ op'[r].pc \in {"cut", "orphaned"}
  BY <1>0, CrashMoves
<1>2. \A r : Copies(r)' = Copies(r)
  BY <1>0 DEF Copies
<1>3. ASSUME NEW c \in Clients, NEW r
      PROVE  Waits(c, r)' \in {Waits(c, r), 0}
  <2>1. client'[c] = client[c] \/ client'[c].inbox = <<>>
    BY DEF Crash
  <2>2. Places(<<>>, r) = {}
    BY DEF Places
  <2>3. Waits(c, r)' = Cardinality(Places(client'[c].inbox, r))
    BY DEF Waits, Places
  <2>4. Waits(c, r) = Cardinality(Places(client[c].inbox, r))
    BY DEF Waits, Places
  <2> QED BY <2>1, <2>2, <2>3, <2>4, FS_EmptySet
<1>4. ASSUME NEW r \in Posts
      PROVE  /\ op'[r].pc = "created" => r \in rows'
             /\ r \in rows' => op'[r].pc \in {"created", "error", "lost"}
             /\ Copies(r)' <= op'[r].tries
             /\ \A c \in Clients : Waits(c, r)' > 0 => op'[r].pc \notin Before
             /\ \A c \in Clients : Waits(c, r)' <= 2
  BY <1>0, <1>1, <1>2, <1>3 DEF Announced, AnnouncementsExplained, Before
<1> QED BY <1>4 DEF Announced, AnnouncementsExplained, Before

LEMMA ProduceKeepsAnnounced ==
  ASSUME Announced, TypeOK', NEW o \in Posts, Produce(o)
  PROVE  Announced'
<1>0. /\ op \in [Requests -> [pc : {"idle"} \cup Working \cup Answered \cup Left, tries : 0..Attempts,
                              read : [Fields -> Values]]]
      /\ topic \in Seq(Posts) /\ \A r \in Posts : r \in Requests
      /\ op[o].pc = "producing" /\ UNCHANGED <<rows, client>>
  BY DEF Announced, TypeOK, Produce, At, socketVars, Requests
<1>1. PICK taken \in BOOLEAN, repeat \in BOOLEAN : Attempt(o, taken, repeat)
  BY DEF Produce
<1> DEFINE next == IF repeat /\ op[o].tries + 1 < Attempts THEN "producing"
                   ELSE IF o \in Events THEN "publishing" ELSE "committing"
<1>2. op'[o].tries = op[o].tries + 1 /\ op'[o].pc = next
      /\ \A r \in Requests : r # o => op'[r] = op[r]
  <2>1. op' = [op EXCEPT ![o] = [op[o] EXCEPT !.tries = @ + 1, !.pc = next]]
    BY <1>0, <1>1 DEF Attempt
  <2> HIDE DEF next
  <2> QED BY <1>0, <2>1
<1>3. ASSUME NEW r \in Posts
      PROVE  /\ r # o => Copies(r)' = Copies(r)
             /\ Copies(o)' <= Copies(o) + 1
  <2>1. /\ Copies(r) = Cardinality(Places(topic, r)) /\ Copies(o) = Cardinality(Places(topic, o))
        /\ Copies(o) \in Nat
    BY CountsArePlaces DEF Announced
  <2>2. Copies(r)' = Cardinality(Places(topic', r)) /\ Copies(o)' = Cardinality(Places(topic', o))
    BY DEF Copies, Places
  <2>3. CASE topic' = topic
    BY <2>1, <2>2, <2>3
  <2>4. CASE topic' = Append(topic, o)
    BY <1>0, <2>1, <2>2, <2>4, PlacesAppend
  <2> QED BY <1>1, <2>3, <2>4 DEF Attempt
<1>4. \A c \in Clients : \A r : Waits(c, r)' = Waits(c, r) /\ Waits(c, r) \in Nat
  <2>1. client' = client
    BY <1>0
  <2>2. \A c \in Clients : \A r : Waits(c, r) \in Nat
    BY CountsArePlaces DEF Announced
  <2>3. \A c \in Clients : \A r : Waits(c, r)' = Waits(c, r)
    BY <2>1 DEF Waits
  <2> QED BY <2>2, <2>3
<1>5. ASSUME NEW r \in Posts
      PROVE  /\ op'[r].pc = "created" => r \in rows'
             /\ r \in rows' => op'[r].pc \in {"created", "error", "lost"}
             /\ \A c \in Clients : Waits(c, r)' > 0 => op'[r].pc \notin Before
             /\ \A c \in Clients : Waits(c, r)' <= 2
  BY <1>0, <1>2, <1>4 DEF Announced, AnnouncementsExplained, Before
<1>6. ASSUME NEW r \in Posts PROVE Copies(r)' <= op'[r].tries
  <2>1. Copies(r) \in Nat /\ op[r].tries \in Nat /\ Copies(r) <= op[r].tries
    BY <1>0, CountsArePlaces DEF Announced, AnnouncementsExplained
  <2>2. Copies(r)' \in Nat
    <3>1. topic' \in Seq(Posts)
      BY DEF TypeOK
    <3>2. Copies(r)' = Cardinality(Places(topic', r))
      BY DEF Copies, Places
    <3> QED BY <3>1, <3>2, PlacesFinite
  <2>3. CASE r = o
    BY <1>2, <1>3, <2>1, <2>2, <2>3
  <2>4. CASE r # o
    BY <1>0, <1>2, <1>3, <2>1, <2>4
  <2> QED BY <2>3, <2>4
<1> QED BY <1>5, <1>6 DEF Announced, AnnouncementsExplained, Before

\* Nothing of the message waits before it is published, and once only.
LEMMA PublishKeepsAnnounced ==
  ASSUME Announced, TypeOK', NEW o \in Events, Publish(o)
  PROVE  Announced'
<1>0. /\ o \in Posts /\ o \in Requests /\ \A r \in Posts : r \in Requests
      /\ op[o].pc = "publishing" /\ UNCHANGED <<rows, topic>>
      /\ \A c \in Clients : client[c].inbox \in Seq(Events)
  BY DEF Announced, TypeOK, Publish, At, kafkaVars, Requests, Posts
<1>1. PICK copies \in 0..2 :
        client' = [c \in Clients |-> IF client[c].pc = "subscribed"
                     THEN [client[c] EXCEPT !.inbox = @ \o [i \in 1..copies |-> o]] ELSE client[c]]
  BY DEF Publish
<1>2. /\ op'[o].pc = "committing" /\ op'[o].tries = op[o].tries
      /\ \A r \in Requests : r # o => op'[r] = op[r]
  BY <1>0, GoToType DEF Announced, Publish
<1>3. \A r : Copies(r)' = Copies(r)
  BY <1>0 DEF Copies
<1>4. ASSUME NEW c \in Clients
      PROVE  /\ \A r : r # o => Waits(c, r)' = Waits(c, r)
             /\ Waits(c, o)' <= 2
  <2>1. \A r : /\ Waits(c, r) = Cardinality(Places(client[c].inbox, r))
               /\ Waits(c, r)' = Cardinality(Places(client'[c].inbox, r))
    BY DEF Waits, Places
  <2>2. Waits(c, o) = 0
    <3>1. Waits(c, o) \in Nat /\ ~(Waits(c, o) > 0)
      BY <1>0, CountsArePlaces DEF Announced, AnnouncementsExplained
    <3> QED BY <3>1
  <2>3. Places(client[c].inbox, o) = {}
    BY <1>0, <2>1, <2>2, PlacesFinite, FS_EmptySet
  <2>4. CASE client'[c].inbox = client[c].inbox \o [i \in 1..copies |-> o]
    <3>1. copies \in Nat /\ copies <= 2
      OBVIOUS
    <3> DEFINE more == [i \in 1..copies |-> o]
               inbox == client[c].inbox
               after == client'[c].inbox
    <3>m. /\ more \in Seq(Events) /\ Len(more) = copies
          /\ \A i \in 1..Len(more) : more[i] = o
      BY <3>1
    <3>a. inbox \in Seq(Events) /\ after = inbox \o more
      BY <1>0, <2>4
    <3> HIDE DEF more, inbox, after
    <3>2. ASSUME NEW r, r # o
          PROVE  Places(client'[c].inbox, r) = Places(client[c].inbox, r)
      <4>1. Places(inbox \o more, r) = Places(inbox, r)
        BY <3>2, <3>a, <3>m, PlacesOfOthers
      <4>2. Places(after, r) = Places(inbox, r)
        BY <3>a, <4>1
      <4> QED BY <4>2 DEF inbox, after
    <3>3. Cardinality(Places(client'[c].inbox, o)) <= copies
      <4>1. Places(inbox, o) = {}
        BY <2>3 DEF inbox
      <4>2. Cardinality(Places(inbox \o more, o)) <= Len(more)
        BY <3>a, <3>m, <4>1, PlacesAdded
      <4> QED BY <3>a, <3>m, <4>2 DEF after
    <3>4. Cardinality(Places(client'[c].inbox, o)) \in Nat
      <4>1. client'[c].inbox \in Seq(Events)
        BY DEF TypeOK
      <4> QED BY <4>1, PlacesFinite
    <3> QED BY <2>1, <3>1, <3>2, <3>3, <3>4
  <2>5. CASE client'[c] = client[c]
    BY <2>1, <2>2, <2>5
  <2>6. client'[c] = client[c] \/ client'[c].inbox = client[c].inbox \o [i \in 1..copies |-> o]
    <3>1. client[c] = [pc |-> client[c].pc, there |-> client[c].there, inbox |-> client[c].inbox]
      BY DEF Announced, TypeOK
    <3> QED BY <1>1, <3>1
  <2> QED BY <2>4, <2>5, <2>6
<1>5. ASSUME NEW r \in Posts
      PROVE  /\ op'[r].pc = "created" => r \in rows'
             /\ r \in rows' => op'[r].pc \in {"created", "error", "lost"}
             /\ Copies(r)' <= op'[r].tries
             /\ \A c \in Clients : Waits(c, r)' > 0 => op'[r].pc \notin Before
             /\ \A c \in Clients : Waits(c, r)' <= 2
  BY <1>0, <1>2, <1>3, <1>4 DEF Announced, AnnouncementsExplained, Before
<1> QED BY <1>5 DEF Announced, AnnouncementsExplained, Before
LEMMA NextAnnounced ==
  ASSUME Announced, TypeOK', [Next]_vars
  PROVE  Announced'
<1>0. /\ \A p \in Patches : p \in Requests /\ Target[p] \in Events
      /\ \A o \in Posts : o \in Requests
      /\ TypeOK
  BY TargetType DEF Requests, Announced
<1>1. ASSUME NEW o \in Requests, NEW pc \in {"idle"} \cup Working \cup Answered \cup Left, GoTo(o, pc),
             UNCHANGED <<topic, client>>, op[o].pc \notin {"created", "error", "lost"},
             pc \in Before => op[o].pc \in Before,
             rows' \in {rows, rows \cup {o}}, rows' # rows => pc \in {"created", "error", "lost"},
             pc = "created" => o \in rows'
      PROVE  Announced'
  <2>1. /\ op'[o].pc = pc /\ op'[o].tries = op[o].tries
        /\ \A r \in Requests : r # o => op'[r] = op[r]
    BY <1>0, <1>1, GoToType
  <2> QED BY <1>1, <2>1, MoveKeepsAnnounced
<1>2. ASSUME NEW o \in Posts, Flush(o) \/ Commit(o) PROVE Announced'
  <2>1. CASE Flush(o)
    <3>1. PICK pc \in {"producing", "error"} : GoTo(o, pc)
      BY <2>1 DEF Flush
    <3> QED BY <1>0, <1>1, <2>1, <3>1 DEF Flush, At, kafkaVars, socketVars, Before
  <2>2. CASE Commit(o)
    <3>1. PICK landed \in BOOLEAN : /\ rows' = IF landed THEN rows \cup {o} ELSE rows
                                    /\ Ends(o, "created", landed)
      BY <2>2 DEF Commit
    <3>2. PICK pc \in {"error", "created"} : GoTo(o, pc) /\ (pc = "created" => landed)
      BY <3>1 DEF Ends
    <3> QED BY <1>0, <1>1, <2>2, <3>1, <3>2 DEF Commit, At, kafkaVars, socketVars, Before
  <2> QED BY <1>2, <2>1, <2>2
<1>3. ASSUME NEW p \in Patches, Read(p) \/ FlushPatch(p) \/ CommitPatch(p) PROVE Announced'
  <2>0. UNCHANGED <<rows, topic, client>>
    BY <1>3 DEF Read, FlushPatch, CommitPatch, kafkaVars, socketVars
  <2>1. CASE FlushPatch(p)
    <3>1. PICK pc \in {"locked", "error"} : GoTo(p, pc)
      BY <2>1 DEF FlushPatch
    <3> QED BY <1>0, <1>1, <2>0, <2>1, <3>1 DEF FlushPatch, At, Before
  <2>2. CASE CommitPatch(p)
    <3>1. PICK landed \in BOOLEAN : Ends(p, "updated", landed)
      BY <2>2 DEF CommitPatch
    <3>2. PICK pc \in {"error", "updated"} : GoTo(p, pc)
      BY <3>1 DEF Ends
    <3> QED BY <1>0, <1>1, <2>0, <2>2, <3>2 DEF CommitPatch, At, Before
  <2>3. CASE Read(p)
    <3>0. op[p].pc = "idle"
      BY <2>3 DEF Read, At
    <3>1. CASE GoTo(p, "missing")
      BY <1>0, <1>1, <2>0, <3>0, <3>1 DEF Before
    <3>2. CASE op' = [op EXCEPT ![p].pc = "read", ![p].read = row[Target[p]]]
      <4>1. row[Target[p]] \in [Fields -> Values]
        BY <1>0 DEF TypeOK
      <4>2. op'[p].pc = "read" /\ \A r \in Requests : r # p => op'[r] = op[r]
        BY <1>0, <3>2, <4>1, ReadType
      <4>3. op'[p].tries = op[p].tries
        BY <1>0, <3>2 DEF TypeOK
      <4> QED BY <1>0, <2>0, <3>0, <4>2, <4>3, MoveKeepsAnnounced DEF Before
    <3> QED BY <2>3, <3>1, <3>2 DEF Read, GoTo
  <2> QED BY <1>3, <2>1, <2>2, <2>3
<1>4. ASSUME NEW c \in Clients, Connect(c) \/ Subscribe(c) \/ GoAway(c) \/ Sent(c) \/ End(c)
      PROVE  Announced'
  <2>1. UNCHANGED <<op, rows, topic>>
    BY <1>4 DEF Connect, Subscribe, GoAway, Sent, End, requestVars, kafkaVars
  <2>2. client \in [Clients -> [pc : {"away", "left"} \cup Connected, there : BOOLEAN,
                                inbox : Seq(Events)]]
    BY <1>0 DEF TypeOK
  <2>3. ASSUME NEW d \in Clients
        PROVE  \/ client'[d].inbox = client[d].inbox
               \/ client'[d].inbox = <<>>
               \/ client[d].inbox # <<>> /\ client'[d].inbox = Tail(client[d].inbox)
    <3>1. CASE Connect(c)
      BY <2>2, <3>1 DEF Connect
    <3>2. CASE Subscribe(c) \/ GoAway(c)
      <4>1. PICK new : client' = [client EXCEPT ![c] = new] /\ new.inbox = client[c].inbox
        BY <2>2, <3>2 DEF Subscribe, GoAway
      <4> QED BY <2>2, <4>1
    <3>3. CASE Sent(c)
      BY <2>2, <3>3 DEF Sent
    <3>4. CASE End(c)
      <4>1. client' = [client EXCEPT ![c] = [pc |-> "left", there |-> FALSE, inbox |-> <<>>]]
        BY <3>4 DEF End
      <4>2. client'[d] = client[d] \/ client'[d] = [pc |-> "left", there |-> FALSE, inbox |-> <<>>]
        BY <2>2, <4>1
      <4> QED BY <4>2
    <3> QED BY <1>4, <3>1, <3>2, <3>3, <3>4
  <2> QED BY <2>1, <2>3, ClientsKeepAnnounced
<1>5. CASE UNCHANGED <<op, rows, topic, client>>
  BY <1>5, ClientsKeepAnnounced
<1>6. CASE Start \/ Stop \/ Consume \/ AutoCommit \/ Move \/ UNCHANGED vars
  BY <1>5, <1>6 DEF Start, Stop, Consume, AutoCommit, Move, vars, requestVars, kafkaVars, socketVars
<1>7. ASSUME NEW o \in Requests, Settle(o) PROVE Announced'
  <2>1. /\ GoTo(o, "lost") /\ op[o].pc = "orphaned" /\ UNCHANGED <<topic, client>>
        /\ rows' \in {rows, rows \cup {o}}
    BY <1>7 DEF Settle, kafkaVars, socketVars
  <2> QED BY <1>1, <2>1 DEF Before
<1> QED BY <1>2, <1>3, <1>4, <1>6, <1>7, ProduceKeepsAnnounced, PublishKeepsAnnounced, CrashKeepsAnnounced
        DEF Next, Publish

\* Announcements run ahead of commits, but never of a flush: what a listener
\* hears of was produced, whoever got a 201 finds the row, a row is of a request
\* that was answered or that died in its commit, and no message is there more
\* often than it was attempted, for any requests, failures and crashes.
THEOREM AnnouncementsAreExplained == Spec => []AnnouncementsExplained
<1>1. Init => Announced
  <2> SUFFICES ASSUME Init PROVE Announced
    OBVIOUS
  <2>1. TypeOK
    BY InitProcess DEF ProcessInv
  <2>2. /\ \A o \in Posts : op[o].pc = "idle" /\ op[o].tries = 0
        /\ rows = {} /\ topic = <<>> /\ \A c \in Clients : client[c].inbox = <<>>
    BY DEF Init, Requests
  <2>3. \A o : Places(<<>>, o) = {}
    BY DEF Places
  <2>4. \A o : Copies(o) = 0 /\ \A c \in Clients : Waits(c, o) = 0
    BY <2>1, <2>2, <2>3, CountsArePlaces, FS_EmptySet
  <2> QED BY <2>1, <2>2, <2>4 DEF Announced, AnnouncementsExplained
<1>2. Announced /\ TypeOK' /\ [Next]_vars => Announced'
  BY NextAnnounced
<1>3. Spec => Init /\ [][Next]_vars
  BY DEF Spec
<1>4. ProcessInv => TypeOK
  BY DEF ProcessInv
<1>5. Announced => AnnouncementsExplained
  BY DEF Announced
<1> QED BY <1>1, <1>2, <1>3, <1>4, <1>5, ProcessIsSound, PTL
=============================================================================
