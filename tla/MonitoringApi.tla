--------------------------- MODULE MonitoringApi ---------------------------
(***************************************************************************)
(* The monitoring service under app/: requests that write to Postgres and  *)
(* announce on Kafka and Redis, the Kafka consumer of the same process and *)
(* the WebSocket clients, through stops, crashes and restarts.             *)
(*                                                                         *)
(* One worker process.  A workflow event or log entry goes by the request  *)
(* that posts it.  Of its columns only those that PATCH can set are here.  *)
(* The topics are one partition.  Reading requests change nothing.         *)
(***************************************************************************)
EXTENDS Naturals, Sequences, FiniteSets

CONSTANTS Events, Logs,  \* requests POST /events and POST /logs
          Patches,       \* requests PATCH /events/{event_id}
          Target,        \* the event of each of them
          Sets,          \* the columns it sets, with their values
          Fields,        \* the columns of an event
          Feeds,         \* clients of /ws/events
          Gauges,        \* clients of /ws/system
          Workloads,     \* sets of requests and clients that come together
          MaxLives,      \* bound: starts of the process
          MaxMoves       \* bound: moves of the partition away and back

Posts == Events \cup Logs
Requests == Posts \cup Patches
Clients == Feeds \cup Gauges

\* stop_after_attempt(3)
Attempts == 3

Values == {"posted"} \cup UNION {{Sets[p][f] : f \in DOMAIN Sets[p]} : p \in Patches}

ASSUME MonitoringAssumption ==
  /\ Posts \cap Patches = {}
  /\ Target \in [Patches -> Events]
  /\ \A p \in Patches : DOMAIN Sets[p] \subseteq Fields
  /\ MaxLives \in Nat \ {0} /\ MaxMoves \in Nat

VARIABLES active,   \* the requests and clients that come in this behaviour
          server,   \* the process: up, its Kafka clients, starts and moves so far
          op,       \* per request: where it stands, attempts to produce, row it read
          rows,     \* posts whose row is committed
          row,      \* the committed columns
          topic,    \* what Kafka has taken
          offset,   \* of the consumer: its position, what the group committed
          handled,  \* history: offsets that a handler has run for
          client,   \* per client: its handler, whether it is there, what waits for it
          manager   \* ConnectionManager, and active_websocket_connections

requestVars == <<op, rows, row>>
kafkaVars == <<topic, offset, handled>>
socketVars == <<client, manager>>
vars == <<active, server, requestVars, kafkaVars, socketVars>>

Working == {"producing", "publishing", "committing", "read", "locked"}
Answered == {"created", "updated", "missing", "error"}
\* Left behind by a dead process: without effect, in the hands of Postgres, and
\* decided by it.
Left == {"cut", "orphaned", "lost"}
Connected == {"open", "subscribed"}

TypeOK ==
  /\ active \in Workloads
  /\ server \in [up : BOOLEAN, producer : {"working", "broken"}, consuming : BOOLEAN,
                 lives : 0..MaxLives, moves : 0..MaxMoves]
  /\ op \in [Requests -> [pc : {"idle"} \cup Working \cup Answered \cup Left, tries : 0..Attempts,
                          read : [Fields -> Values]]]
  /\ rows \subseteq Posts
  /\ row \in [Events -> [Fields -> Values]]
  /\ topic \in Seq(Posts)
  /\ offset \in [position : Nat, committed : Nat]
  /\ offset.committed <= offset.position /\ offset.position <= Len(topic)
  /\ handled \subseteq 1..Len(topic)
  /\ client \in [Clients -> [pc : {"away", "left"} \cup Connected, there : BOOLEAN,
                             inbox : Seq(Events)]]
  /\ manager \in [connections : SUBSET Clients, gauge : Nat]

Posted == [f \in Fields |-> "posted"]

Init ==
  /\ active \in Workloads
  /\ server = [up |-> FALSE, producer |-> "broken", consuming |-> FALSE, lives |-> 0, moves |-> 0]
  /\ op = [o \in Requests |-> [pc |-> "idle", tries |-> 0, read |-> Posted]]
  /\ rows = {}
  /\ row = [e \in Events |-> Posted]
  /\ topic = <<>>
  /\ offset = [position |-> 0, committed |-> 0]
  /\ handled = {}
  /\ client = [c \in Clients |-> [pc |-> "away", there |-> FALSE, inbox |-> <<>>]]
  /\ manager = [connections |-> {}, gauge |-> 0]

-----------------------------------------------------------------------------
\* The process.

\* lifespan up to its yield: without Redis it raises and the process ends.  A
\* Kafka client that cannot start is logged, and the service runs without it.
Start ==
  /\ ~server.up /\ server.lives < MaxLives
  /\ \E p \in {"working", "broken"}, c \in BOOLEAN :
       server' = [server EXCEPT !.up = TRUE, !.producer = p, !.consuming = c, !.lives = @ + 1]
  /\ offset' = [offset EXCEPT !.position = offset.committed]
  /\ UNCHANGED <<active, requestVars, topic, handled, socketVars>>

\* lifespan after its yield, when no request is left: stopping the consumer
\* commits its position.
Stop ==
  /\ server.up
  /\ \A o \in Requests : op[o].pc \notin Working
  /\ manager.connections = {}
  /\ server' = [server EXCEPT !.up = FALSE, !.producer = "broken", !.consuming = FALSE]
  /\ offset' = [offset EXCEPT !.committed = IF server.consuming THEN offset.position ELSE @]
  /\ UNCHANGED <<active, requestVars, topic, handled, socketVars>>

\* The clients get no answer.  Requests that may have sent their COMMIT are left
\* to Postgres, which rolls the others back.
Crash ==
  /\ server.up
  /\ server' = [server EXCEPT !.up = FALSE, !.producer = "broken", !.consuming = FALSE]
  /\ op' = [o \in Requests |->
              IF op[o].pc \notin Working THEN op[o]
              ELSE [op[o] EXCEPT !.pc = IF @ \in {"committing", "locked"} THEN "orphaned" ELSE "cut"]]
  /\ client' = [c \in Clients |-> IF client[c].pc \in Connected
                  THEN [pc |-> "left", there |-> FALSE, inbox |-> <<>>] ELSE client[c]]
  /\ manager' = [connections |-> {}, gauge |-> 0]
  /\ UNCHANGED <<active, rows, row, kafkaVars>>

-----------------------------------------------------------------------------
\* POST /events and POST /logs.

At(o, pc) == server.up /\ op[o].pc = pc

GoTo(o, pc) == op' = [op EXCEPT ![o].pc = pc]

\* create_event, create_log: add and flush.
Flush(o) ==
  /\ o \in Posts \cap active /\ At(o, "idle")
  /\ \E pc \in {"producing", "error"} : GoTo(o, pc)
  /\ UNCHANGED <<active, server, rows, row, kafkaVars, socketVars>>

\* One attempt of produce_message.  It is repeated only after a lost connection
\* or a timeout, and Kafka may have taken the message then.  Whatever the last
\* one raises is logged.
Attempt(o, taken, repeat) ==
  /\ topic' = IF taken THEN Append(topic, o) ELSE topic
  /\ op' = [op EXCEPT ![o].tries = @ + 1,
                      ![o].pc = IF repeat /\ op[o].tries + 1 < Attempts THEN "producing"
                                ELSE IF o \in Events THEN "publishing" ELSE "committing"]

\* Mutant of Produce: there is no stop_after_attempt.
ProduceWithoutStop(o) ==
  /\ o \in Posts /\ At(o, "producing")
  /\ \/ server.producer = "working" /\ Attempt(o, TRUE, FALSE)
     \/ op' = [op EXCEPT ![o].tries = (@ + 1) % Attempts] /\ UNCHANGED topic
  /\ UNCHANGED <<active, server, rows, row, offset, handled, socketVars>>

\* A producer whose start failed takes nothing.
Produce(o) ==
  /\ o \in Posts /\ At(o, "producing")
  /\ \E taken \in (IF server.producer = "working" THEN BOOLEAN ELSE {FALSE}), repeat \in BOOLEAN :
       Attempt(o, taken, repeat)
  /\ UNCHANGED <<active, server, rows, row, offset, handled, socketVars>>

\* publish: it may fail, which is logged, and retry_on_timeout may repeat it.
Publish(o) ==
  /\ o \in Events /\ At(o, "publishing")
  /\ GoTo(o, "committing")
  /\ \E copies \in 0..2 :
       client' = [c \in Clients |-> IF client[c].pc = "subscribed"
                    THEN [client[c] EXCEPT !.inbox = @ \o [i \in 1..copies |-> o]] ELSE client[c]]
  /\ UNCHANGED <<active, server, rows, row, kafkaVars, manager>>

\* A commit that raises may have reached Postgres all the same.
Ends(o, answer, landed) ==
  \E pc \in {"error"} \cup (IF landed THEN {answer} ELSE {}) : GoTo(o, pc)

\* Mutant of Commit: the answer does not wait for the commit.
CommitAfterAnswer(o) ==
  /\ o \in Posts /\ At(o, "committing")
  /\ GoTo(o, "created")
  /\ \E landed \in BOOLEAN : rows' = IF landed THEN rows \cup {o} ELSE rows
  /\ UNCHANGED <<active, server, row, kafkaVars, socketVars>>

\* get_db commits after the handler and before the answer is sent.
Commit(o) ==
  /\ o \in Posts /\ At(o, "committing")
  /\ \E landed \in BOOLEAN :
       /\ rows' = IF landed THEN rows \cup {o} ELSE rows
       /\ Ends(o, "created", landed)
  /\ UNCHANGED <<active, server, row, kafkaVars, socketVars>>

-----------------------------------------------------------------------------
\* PATCH /events/{event_id}.

\* update_event selects the row; the identifier has been given out before.
Read(p) ==
  /\ p \in Patches \cap active /\ At(p, "idle")
  /\ op[Target[p]].pc # "idle"
  /\ op' = IF Target[p] \in rows THEN [op EXCEPT ![p].pc = "read", ![p].read = row[Target[p]]]
           ELSE [op EXCEPT ![p].pc = "missing"]
  /\ UNCHANGED <<active, server, rows, row, kafkaVars, socketVars>>

\* flush: the UPDATE waits while another transaction has changed the row.
FlushPatch(p) ==
  /\ p \in Patches /\ At(p, "read")
  /\ \A q \in Patches : Target[q] = Target[p] => op[q].pc \notin {"locked", "orphaned"}
  /\ \E pc \in {"locked", "error"} : GoTo(p, pc)
  /\ UNCHANGED <<active, server, rows, row, kafkaVars, socketVars>>

\* Mutant of Written: every column is written back.
WholeRow(p) ==
  [f \in Fields |-> IF f \in DOMAIN Sets[p] THEN Sets[p][f] ELSE op[p].read[f]]

\* The UPDATE names only the columns whose value differs from the one read.
Written(p) ==
  [f \in Fields |-> IF f \in DOMAIN Sets[p] /\ Sets[p][f] # op[p].read[f]
                    THEN Sets[p][f] ELSE row[Target[p]][f]]

CommitPatch(p) ==
  /\ p \in Patches /\ At(p, "locked")
  /\ \E landed \in BOOLEAN :
       /\ row' = IF landed THEN [row EXCEPT ![Target[p]] = Written(p)] ELSE row
       /\ Ends(p, "updated", landed)
  /\ UNCHANGED <<active, server, rows, kafkaVars, socketVars>>

-----------------------------------------------------------------------------
\* What a crash left of a request: its COMMIT arrived, or it is rolled back.
Settle(o) ==
  /\ o \in Requests /\ op[o].pc = "orphaned"
  /\ GoTo(o, "lost")
  /\ \E landed \in BOOLEAN :
       /\ rows' = IF landed /\ o \in Posts THEN rows \cup {o} ELSE rows
       /\ row' = IF landed /\ o \in Patches THEN [row EXCEPT ![Target[o]] = Written(o)] ELSE row
  /\ UNCHANGED <<active, server, kafkaVars, socketVars>>

-----------------------------------------------------------------------------
\* KafkaConsumerManager.

\* Mutant of Consume: the handler awaits, and may be cut off there.
ConsumeAndAwait ==
  /\ server.consuming /\ offset.position < Len(topic)
  /\ offset' = [offset EXCEPT !.position = @ + 1]
  /\ \E done \in BOOLEAN : handled' = IF done THEN handled \cup {offset'.position} ELSE handled
  /\ UNCHANGED <<active, server, requestVars, topic, socketVars>>

\* One turn of _consume_loop: the handlers of main.py never await, so that
\* position and handling move together.
Consume ==
  /\ server.consuming /\ offset.position < Len(topic)
  /\ offset' = [offset EXCEPT !.position = @ + 1]
  /\ handled' = handled \cup {offset'.position}
  /\ UNCHANGED <<active, server, requestVars, topic, socketVars>>

\* enable_auto_commit
AutoCommit ==
  /\ server.consuming
  /\ offset' = [offset EXCEPT !.committed = offset.position]
  /\ UNCHANGED <<active, server, requestVars, topic, handled, socketVars>>

\* The partition goes to the other worker and comes back, and the commit on
\* leaving failed.
Move ==
  /\ server.consuming /\ server.moves < MaxMoves
  /\ server' = [server EXCEPT !.moves = @ + 1]
  /\ offset' = [offset EXCEPT !.position = offset.committed]
  /\ UNCHANGED <<active, requestVars, topic, handled, socketVars>>

-----------------------------------------------------------------------------
\* The WebSockets.

Connect(c) ==
  /\ c \in active /\ server.up
  /\ client[c].pc = "away"
  /\ client' = [client EXCEPT ![c].pc = "open", ![c].there = TRUE]
  /\ manager' = [connections |-> manager.connections \cup {c}, gauge |-> manager.gauge + 1]
  /\ UNCHANGED <<active, server, requestVars, kafkaVars>>

Subscribe(c) ==
  /\ c \in Feeds /\ client[c].pc = "open"
  /\ client' = [client EXCEPT ![c].pc = "subscribed"]
  /\ UNCHANGED <<active, server, requestVars, kafkaVars, manager>>

GoAway(c) ==
  /\ client[c].there
  /\ client' = [client EXCEPT ![c].there = FALSE]
  /\ UNCHANGED <<active, server, requestVars, kafkaVars, manager>>

Sent(c) ==
  /\ client[c].inbox # <<>> /\ client[c].there
  /\ client' = [client EXCEPT ![c].inbox = Tail(@)]
  /\ UNCHANGED <<active, server, requestVars, kafkaVars, manager>>

\* A send to a client that is gone raises, and the subscription of a feed may
\* break or time out at any time; the finally disconnects.
End(c) ==
  /\ client[c].pc \in Connected
  /\ c \in Gauges => ~client[c].there
  /\ client' = [client EXCEPT ![c] = [pc |-> "left", there |-> FALSE, inbox |-> <<>>]]
  /\ manager' = [connections |-> manager.connections \ {c}, gauge |-> manager.gauge - 1]
  /\ UNCHANGED <<active, server, requestVars, kafkaVars>>

\* A client that is gone is noticed at the next send.
Notice(c) == /\ client[c].inbox # <<>> \/ c \in Gauges
             /\ ~client[c].there
             /\ End(c)

-----------------------------------------------------------------------------
Next ==
  \/ Start \/ Stop \/ Crash
  \/ \E o \in Posts : Flush(o) \/ Produce(o) \/ Publish(o) \/ Commit(o)
  \/ \E p \in Patches : Read(p) \/ FlushPatch(p) \/ CommitPatch(p)
  \/ \E o \in Requests : Settle(o)
  \/ Consume \/ AutoCommit \/ Move
  \/ \E c \in Clients : Connect(c) \/ Subscribe(c) \/ GoAway(c) \/ Sent(c) \/ End(c)

\* Tasks run; attempts and Redis have timeouts, and only a producer whose start
\* failed may keep its caller waiting.  That Postgres answers, drops the
\* connection or settles an orphan is assumed of it: the engine sets no timeout.
\* Nobody has to send a request, come, leave, start or stop.
Fairness ==
  /\ \A o \in Posts : /\ WF_vars(server.producer = "working" /\ Produce(o))
                      /\ WF_vars(Publish(o))
                      /\ WF_vars(Commit(o))
  /\ \A p \in Patches : WF_vars(FlushPatch(p)) /\ WF_vars(CommitPatch(p))
  /\ \A o \in Requests : WF_vars(Settle(o))
  /\ WF_vars(Consume)
  /\ \A c \in Clients : WF_vars(Notice(c))

Spec == Init /\ [][Next]_vars /\ Fairness

-----------------------------------------------------------------------------
\* The group never commits past a message that no handler has seen, whatever
\* crashes, restarts and moves there are.
CommittedMeansHandled == 1..offset.committed \subseteq handled

\* The set of connections and the gauge agree with the handlers that run.
ConnectionsExact ==
  /\ manager.connections = {c \in Clients : client[c].pc \in Connected}
  /\ manager.gauge = Cardinality(manager.connections)

\* The service is well typed, knows its connections, and consumes every message
\* at least once.
MonitorInv == TypeOK /\ ConnectionsExact /\ CommittedMeansHandled

Copies(o) == Cardinality({i \in 1..Len(topic) : topic[i] = o})

Waits(c, o) == Cardinality({i \in 1..Len(client[c].inbox) : client[c].inbox[i] = o})

\* Whoever got a 201 finds the row, and a row is of a request that was answered
\* so, answered with an error, or left by a crash in its commit: never of one
\* that is at work.  The announcement comes before the commit: what listeners
\* hear of was flushed and produced.  No message is there more often than it
\* was attempted, and nobody hears of one more than twice.
AnnouncementsExplained ==
  \A o \in Posts :
    /\ op[o].pc = "created" => o \in rows
    /\ o \in rows => op[o].pc \in {"created", "error", "lost"}
    /\ Copies(o) <= op[o].tries
    /\ \A c \in Clients : Waits(c, o) > 0 => op[o].pc \notin {"idle", "producing", "publishing"}
    /\ \A c \in Clients : Waits(c, o) <= 2

\* What updates that ended so wrote into a column.
Assigned(e, f, ends) ==
  {Sets[p][f] : p \in {q \in Patches : Target[q] = e /\ op[q].pc \in ends /\ f \in DOMAIN Sets[q]}}

\* Updates of different columns do not undo each other: a column that some
\* answered update names has the value of one that names it, and a column that
\* none does is as it was posted, whatever was read before and rolled back since.
\* (Whether an update took place that was answered with an error, or whose
\* process died in its commit, is open.)
PatchesSurvive ==
  \A e \in Events, f \in Fields :
    \/ row[e][f] \in Assigned(e, f, {"updated", "error", "lost"})
    \/ row[e][f] = "posted" /\ Assigned(e, f, {"updated"}) = {}

-----------------------------------------------------------------------------
\* Why they hold: the inductive invariants of the proofs.

\* The position never passes a message that no handler has seen.
ProcessInv ==
  /\ TypeOK /\ ConnectionsExact
  /\ IsFiniteSet(manager.connections)
  /\ 1..offset.position \subseteq handled
  /\ \A o \in Requests : op[o].pc \in {"idle", "producing"} => op[o].tries < Attempts

\* An update that has read a column nobody wrote has read what was posted.
ReadsExplained ==
  \A p \in Patches, f \in Fields :
    (/\ op[p].pc \in {"read", "locked", "orphaned"}
     /\ op[p].read[f] # "posted")
    => row[Target[p]][f] \in Assigned(Target[p], f, {"updated", "error", "lost"})

-----------------------------------------------------------------------------
\* A request that is at work ends, if the producer has started; a message that
\* Kafka took is handled, as long as there is a consumer to do so; and a client
\* that went away is disconnected once there is something to send.
Progress ==
  /\ \A o \in Requests :
       (op[o].pc \in Working /\ server.producer = "working") ~> op[o].pc \in Answered \cup Left
  /\ \A i \in 1..(Attempts * Cardinality(Posts)) :
       (i <= Len(topic) /\ server.consuming) ~> (i \in handled \/ ~server.consuming)
  /\ \A c \in Clients :
       (client[c].pc \in Connected /\ ~client[c].there /\ (c \in Gauges \/ client[c].inbox # <<>>))
         ~> client[c].pc = "left"
=============================================================================
