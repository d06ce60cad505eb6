--------------------------- MODULE PlatformProofs ---------------------------
(***************************************************************************)
(* Theorems about module Platform, for any updates, requests and chats,    *)
(* any limit, and on either bus.                                           *)
(***************************************************************************)
EXTENDS Platform, FiniteSetTheorems, TLAPS

-----------------------------------------------------------------------------
(* The events and the steps of the bus.                                    *)

Busy == ({"message"} \cup Verdicts) \X Deliveries

LEMMA EventNames ==
  /\ \A d : \A e : Message(d) = Message(e) => d = e
  /\ \A d : \A e : \A v \in Verdicts : Message(d) # Verdict(e, v) /\ Notice(d) # Verdict(e, v)
  /\ \A d : \A e : Notice(d) = Notice(e) => d = e
  /\ \A d : \A e : \A v : \A w : Verdict(d, v) = Verdict(e, w) => d = e /\ v = w
  /\ \A a : \A b : ToHandler(a) = ToHandler(b) => a = b
BY DEF Message, Verdict, Notice, ToHandler, Verdicts

LEMMA EventsTyped ==
  ASSUME NEW d \in Deliveries
  PROVE  /\ Message(d) \in Busy
         /\ Notice(d) \in Posts
         /\ \A v \in Verdicts : /\ Verdict(d, v) \in Busy /\ Verdict(d, v) \in Posts
                                /\ Told(Verdict(d, v)) = <<UpdateOf[d], v>>
                                /\ Verdict(d, v)[1] = v
         /\ Notice(d)[1] = "notice"
BY DEF Message, Verdict, Notice, Busy, Posts, Told

LEMMA PostNames ==
  ASSUME NEW post \in Posts
  PROVE  \/ \E d \in Deliveries : post = Notice(d) /\ post[1] = "notice"
         \/ \E d \in Deliveries, v \in Verdicts : post = Verdict(d, v) /\ post[1] # "notice"
BY DEF Posts, Notice, Verdict, Verdicts

\* What the bus does when it takes an event, and when it is through with one:
\* handled, buried or left where it is.
Takes(event) == /\ ~Taken(event)
                /\ owed' = owed \cup {ToHandler(event)}
                /\ UNCHANGED <<handled, dead>>

Leaves(event) == /\ owed' = owed \/ owed' = owed \ {ToHandler(event)}
                 /\ owed' \cup handled' \cup dead' = owed \cup handled \cup dead

LEMMA BusTakes ==
  ASSUME NEW event \in Busy, Bus!Accept(event)
  PROVE  Takes(event)
<1>1. PICK hs \in SUBSET {"handler"} :
        /\ hs # {}
        /\ ({event} \X hs) \cap (owed \cup handled \cup dead) = {}
        /\ owed' = owed \cup ({event} \X hs)
        /\ UNCHANGED <<handled, dead>>
  BY DEF Bus!Accept
<1>2. hs = {"handler"}
  BY <1>1
<1>3. {event} \X hs = {ToHandler(event)}
  BY <1>2 DEF ToHandler
<1> QED BY <1>1, <1>3 DEF Takes, Taken

LEMMA BusLeaves ==
  ASSUME NEW event
  PROVE  /\ Bus!Handle(ToHandler(event)) => Leaves(event)
         /\ UNCHANGED busVars => Leaves(event)
BY DEF Bus!Handle, Leaves, busVars

LEMMA BusTyped ==
  ASSUME Bus!TypeOK, NEW event \in Busy, Takes(event) \/ Leaves(event)
  PROVE  Bus!TypeOK'
<1>1. ToHandler(event) \in Busy \X {"handler"}
  BY DEF ToHandler
<1>2. Bus!TypeOK <=> owed \cup handled \cup dead \subseteq Busy \X {"handler"}
  BY DEF Bus!TypeOK, Bus!Duties, Busy
<1>3. Bus!TypeOK' <=> owed' \cup handled' \cup dead' \subseteq Busy \X {"handler"}
  BY DEF Bus!TypeOK, Bus!Duties, Busy
<1> QED BY <1>1, <1>2, <1>3 DEF Takes, Leaves

\* What a step leaves taken, and owed.
LEMMA TakenNext ==
  ASSUME NEW event, NEW x
  PROVE  /\ Takes(event) => (Taken(x)' <=> Taken(x) \/ x = event)
         /\ Leaves(event) => (Taken(x)' <=> Taken(x))
         /\ UNCHANGED busVars => (Taken(x)' <=> Taken(x))
<1>1. Taken(x)' <=> ToHandler(x) \in owed' \cup handled' \cup dead'
  BY DEF Taken, ToHandler
<1>2. Taken(x) <=> ToHandler(x) \in owed \cup handled \cup dead
  BY DEF Taken
<1>3. ToHandler(x) = ToHandler(event) => x = event
  BY EventNames
<1> QED BY <1>1, <1>2, <1>3 DEF Takes, Leaves, busVars

LEMMA OwedNext ==
  ASSUME NEW event, NEW x, ToHandler(x) \in owed
  PROVE  /\ Takes(event) => ToHandler(x) \in owed'
         /\ Leaves(event) /\ x # event => ToHandler(x) \in owed'
         /\ UNCHANGED busVars => ToHandler(x) \in owed'
<1>1. ToHandler(x) = ToHandler(event) => x = event
  BY EventNames
<1> QED BY <1>1 DEF Takes, Leaves, busVars

-----------------------------------------------------------------------------
(* The answers of the orchestrator.                                        *)

\* An event with a verdict goes to the bus: the first on its update, or the
\* failure that follows a success on Redis.
Answers(d, v) ==
  LET u == UpdateOf[d]
  IN  /\ handler[d] = "settled" /\ Running
      /\ answers[u] = {} \/ (durable /\ answers[u] = {<<d, "completed">>} /\ v = "failed")
      /\ answers' = [answers EXCEPT ![u] = @ \cup {<<d, v>>}]
      /\ Takes(Verdict(d, v))

LEMMA QuietService ==
  ASSUME Service!TypeOK, AnswersInOrder, NEW u \in Updates, durable' = durable,
         Service!Accept(u) \/ Service!Settle(u) \/ UNCHANGED serviceVars
  PROVE  Service!TypeOK' /\ AnswersInOrder' /\ answers' = answers
<1>1. phase \in [Updates -> Service!Phase] /\ answers \in [Updates -> SUBSET (Deliveries \X Service!Verdict)]
  BY DEF Service!TypeOK
<1>2. CASE Service!Accept(u)
  <2>1. phase' = [phase EXCEPT ![u] = "working"] /\ answers' = answers /\ answers[u] = {}
    BY <1>2 DEF Service!Accept, AnswersInOrder
  <2>2. Service!TypeOK'
    BY <1>1, <2>1 DEF Service!TypeOK, Service!Phase
  <2> QED BY <1>1, <2>1, <2>2 DEF AnswersInOrder
<1>3. CASE Service!Settle(u)
  <2>1. PICK v \in Service!Verdict : phase' = [phase EXCEPT ![u] = v]
    BY <1>3 DEF Service!Settle
  <2>2. answers' = answers /\ answers[u] = {}
    BY <1>3 DEF Service!Settle, AnswersInOrder
  <2>3. Service!TypeOK'
    BY <1>1, <2>1, <2>2 DEF Service!TypeOK, Service!Phase
  <2> QED BY <1>1, <2>1, <2>2, <2>3 DEF AnswersInOrder, Service!Verdict
<1>4. CASE UNCHANGED serviceVars
  BY <1>1, <1>4 DEF Service!TypeOK, serviceVars, AnswersInOrder
<1> QED BY <1>2, <1>3, <1>4

LEMMA PublishAnswers ==
  ASSUME Service!TypeOK, AnswersInOrder, durable' = durable,
         NEW d \in Deliveries, handler[d] = "settled", Running, Publish(d)
  PROVE  Service!TypeOK' /\ AnswersInOrder' /\ \E v \in Verdicts : Answers(d, v)
<1> DEFINE u == UpdateOf[d]
           v == phase[u]
<1>1. /\ phase \in [Updates -> Service!Phase] /\ answers \in [Updates -> SUBSET (Deliveries \X Service!Verdict)]
      /\ u \in Updates
  BY PlatformAssumption DEF Service!TypeOK
<1>2. PICK h \in Deliveries : /\ answers[u] \subseteq {h} \X (Service!Verdict \ {v})
                              /\ answers' = [answers EXCEPT ![u] = @ \cup {<<h, v>>}]
  BY DEF Publish, Service!Answer
<1>3. /\ v \in Service!Verdict /\ phase' = phase
      /\ answers'[u] = answers[u] \cup {<<d, v>>} /\ Bus!Accept(Verdict(d, v))
  BY DEF Publish, Service!Answer
<1>4. Service!Verdict = Verdicts /\ Verdicts = {"completed", "failed"}
  BY DEF Service!Verdict, Verdicts
<1> HIDE DEF u, v
<1>5. h = d
  <2>1. <<h, v>> \in answers[u] \cup {<<d, v>>}
    BY <1>1, <1>2, <1>3
  <2>2. <<h, v>> \notin answers[u]
    BY <1>2
  <2> QED BY <2>1, <2>2
<1>6. answers[u] = {} \/ (durable /\ answers[u] = {<<d, "completed">>} /\ v = "failed")
  <2>1. CASE v = "completed"
    <3>1. \A p \in answers[u] : p[2] = "completed"
      BY <1>1, <2>1 DEF AnswersInOrder, v
    <3>2. \A p \in answers[u] : p[2] # "completed"
      BY <1>2, <2>1
    <3> QED BY <3>1, <3>2
  <2>2. CASE v = "failed"
    <3>1. answers[u] \subseteq {<<d, "completed">>}
      BY <1>2, <1>4, <1>5, <2>2
    <3>2. CASE answers[u] # {}
      <4>1. <<d, "completed">> \in answers[u]
        BY <3>1, <3>2
      <4>2. \E p \in answers[u] : p[2] = "completed"
        BY <4>1
      <4>3. durable
        BY <1>1, <2>2, <4>2 DEF AnswersInOrder, v
      <4> QED BY <2>2, <3>1, <4>1, <4>3
    <3> QED BY <3>2
  <2> QED BY <1>3, <1>4, <2>1, <2>2
<1>7. answers' = [answers EXCEPT ![u] = @ \cup {<<d, v>>}]
  BY <1>2, <1>5
<1>8. Takes(Verdict(d, v))
  BY <1>3, <1>4, EventsTyped, BusTakes
<1>9. Answers(d, v)
  BY <1>6, <1>7, <1>8 DEF Answers, u
<1>10. Service!TypeOK'
  <2>1. <<d, v>> \in Deliveries \X Service!Verdict
    BY <1>3
  <2> QED BY <1>1, <1>3, <1>7, <2>1 DEF Service!TypeOK
<1>11. AnswersInOrder'
  <2> SUFFICES ASSUME NEW x \in Updates
               PROVE  /\ \A p, q \in answers'[x] : p[1] = q[1]
                      /\ phase[x] \in {"unseen", "working"} => answers'[x] = {}
                      /\ phase[x] = "completed" => \A p \in answers'[x] : p[2] = "completed"
                      /\ phase[x] = "failed" /\ (\E p \in answers'[x] : p[2] = "completed") => durable
    BY <1>3 DEF AnswersInOrder
  <2>1. CASE x # u
    <3>1. answers'[x] = answers[x]
      BY <1>1, <1>7, <2>1
    <3> QED BY <3>1 DEF AnswersInOrder
  <2>2. CASE x = u
    <3>1. phase[x] = v
      BY <2>2 DEF v
    <3> QED BY <1>3, <1>4, <1>6, <2>2, <3>1
  <2> QED BY <2>1, <2>2
<1> QED BY <1>3, <1>4, <1>9, <1>10, <1>11

LEMMA RetractAnswers ==
  ASSUME Service!TypeOK, AnswersInOrder, durable' = durable,
         NEW d \in Deliveries, CompletedRaises(d)
  PROVE  /\ Service!TypeOK' /\ AnswersInOrder'
         /\ (answers' = answers /\ UNCHANGED busVars) \/ Answers(d, "completed")
<1> DEFINE u == UpdateOf[d]
<1>1. /\ phase \in [Updates -> Service!Phase] /\ answers \in [Updates -> SUBSET (Deliveries \X Service!Verdict)]
      /\ u \in Updates
  BY PlatformAssumption DEF Service!TypeOK
<1>2. /\ durable /\ handler[d] = "settled" /\ answers[u] = {}
      /\ phase' = [phase EXCEPT ![u] = "failed"]
      /\ (\E h \in Deliveries : answers' = [answers EXCEPT ![u] = {<<h, "completed">>}]) \/ answers' = answers
      /\ \/ answers' = answers /\ UNCHANGED busVars
         \/ /\ answers'[u] = {<<d, "completed">>}
            /\ Bus!Accept(Verdict(d, "completed"))
  BY DEF CompletedRaises, Service!Retract
<1>3. "completed" \in Service!Verdict /\ "completed" \in Verdicts /\ "failed" \in Service!Phase
  BY DEF Service!Verdict, Service!Phase, Verdicts
<1>4. CASE answers' = answers /\ UNCHANGED busVars
  <2>1. Service!TypeOK'
    BY <1>1, <1>2, <1>3, <1>4 DEF Service!TypeOK
  <2>2. \A x \in Updates : phase'[x] = IF x = u THEN "failed" ELSE phase[x]
    BY <1>1, <1>2
  <2> HIDE DEF u
  <2>3. AnswersInOrder'
    BY <1>2, <1>4, <2>2 DEF AnswersInOrder
  <2> QED BY <1>4, <2>1, <2>3
<1>5. CASE answers'[u] = {<<d, "completed">>} /\ Bus!Accept(Verdict(d, "completed"))
  <2>1. answers' = [answers EXCEPT ![u] = @ \cup {<<d, "completed">>}]
    <3>1. answers' # answers
      BY <1>2, <1>5
    <3>2. PICK h \in Deliveries : answers' = [answers EXCEPT ![u] = {<<h, "completed">>}]
      BY <1>2, <3>1
    <3>3. {<<h, "completed">>} = {<<d, "completed">>}
      BY <1>1, <1>5, <3>2
    <3>4. answers[u] \cup {<<d, "completed">>} = {<<d, "completed">>}
      BY <1>2
    <3> QED BY <3>2, <3>3, <3>4
  <2>2. Takes(Verdict(d, "completed"))
    BY <1>3, <1>5, EventsTyped, BusTakes
  <2>3. Answers(d, "completed")
    BY <1>2, <2>1, <2>2 DEF Answers, Running
  <2>4. Service!TypeOK'
    <3>1. <<d, "completed">> \in Deliveries \X Service!Verdict
      BY <1>3
    <3> QED BY <1>1, <1>2, <1>3, <2>1, <3>1 DEF Service!TypeOK
  <2>5. \A x \in Updates : phase'[x] = IF x = u THEN "failed" ELSE phase[x]
    BY <1>1, <1>2
  <2>6. \A x \in Updates : answers'[x] = IF x = u THEN {<<d, "completed">>} ELSE answers[x]
    BY <1>1, <1>2, <2>1
  <2> HIDE DEF u
  <2>7. AnswersInOrder'
    BY <1>2, <2>5, <2>6 DEF AnswersInOrder
  <2> QED BY <2>3, <2>4, <2>7
<1> QED BY <1>2, <1>4, <1>5

-----------------------------------------------------------------------------
(* The kinds of step.                                                      *)

Requests == {"new", "empty", "ignored", "notice", "limited", "accepted", "error"}
Handlings == Resting \cup {"working", "settled", "returning", "raising", "cut"}
Sendings == Sending \cup {"none", "delivered", "lost", "over", "skipped", "cut"}
Ended == {"delivered", "lost", "over", "cut"}

\* process_update of one delivery.
RequestKind(d) ==
  /\ UNCHANGED <<stage, handler, chatVars, serviceVars>>
  /\ \E r \in Requests \ {"new"} :
       /\ request' = [request EXCEPT ![d] = r]
       /\ \/ /\ r # "notice" /\ UNCHANGED <<send, busVars>>
             /\ request[d] = "notice" => send[Notice(d)] \notin Sending
          \/ /\ request[d] = "new" /\ stage = "up"
             /\ r # "notice" /\ send' = send /\ Takes(Message(d))
          \/ /\ request[d] = "new" /\ stage = "up"
             /\ r = "notice" /\ UNCHANGED busVars /\ send' = [send EXCEPT ![Notice(d)] = "markdown"]

\* _handle_message of one delivery.
HandlerKind(d) ==
  /\ UNCHANGED <<stage, request, send, chatVars>>
  /\ Subscribed({"consuming"}) \/ handler[d] \notin Resting \cup {"cut"}
  /\ \E h \in Handlings :
       /\ handler' = [handler EXCEPT ![d] = h]
       /\ \/ UNCHANGED <<answers, busVars>> /\ ToHandler(Message(d)) \in owed
          \/ answers' = answers /\ Leaves(Message(d)) /\ h \in Resting
          \/ \E v \in Verdicts : Answers(d, v)

\* _on_completed, _on_failed and send_message for one post.
PostKind(post) ==
  /\ UNCHANGED <<stage, request, handler, serviceVars>>
  /\ \E s \in Sendings :
       /\ send' = [send EXCEPT ![post] = s]
       /\ \/ /\ post[1] # "notice" /\ ToHandler(post) \in owed /\ Subscribed({})
             /\ send[post] = "none" /\ s = "markdown"
             /\ UNCHANGED <<chatVars, busVars>>
          \/ /\ post[1] # "notice"
             /\ \/ send[post] = "none" /\ s = "skipped"
                \/ send[post] \in {"delivered", "lost"} /\ s = "over"
             /\ Leaves(post)
             /\ UNCHANGED chatVars
          \/ /\ send[post] \in Sending /\ UNCHANGED busVars
             /\ s \in {"delivered", "lost"} \/ (s = "plain" /\ send[post] = "markdown")
             /\ \/ UNCHANGED chatVars
                \/ /\ post[1] # "notice"
                   /\ replied' = [replied EXCEPT ![Told(post)] = @ + 1]
                   /\ \/ denied' = denied /\ s \in {"delivered", "lost"}
                      \/ denied' = denied \cup {Told(post)}

\* start and stop.
StageKind ==
  /\ UNCHANGED <<request, handler, send, chatVars, serviceVars, busVars>>
  /\ \/ stage' = stage
     \/ stage \in {"starting", "consuming", "answering"} /\ stage' \in {"consuming", "answering", "up"}
     \/ stage = "up" /\ stage' = "closing"
     \/ ~durable /\ stage = "closing" /\ stage' = "draining" /\ NoRequests
     \/ stage = "draining" /\ stage' = "stopped" /\ (durable \/ owed = {})

\* All handlers and replies are cancelled.
CutKind ==
  /\ NoRequests /\ CancelHandlers /\ CancelSends
  /\ UNCHANGED <<request, serviceVars, busVars>>
  /\ stage \in {"answering", "closing"}
  /\ stage' = "aborted" \/ (durable /\ stage' = "draining")

LEMMA RequestKinds ==
  ASSUME TypeOK, NEW d \in Deliveries, RequestStep(d) \/ EndNotice(d)
  PROVE  RequestKind(d)
<1>0. Message(d) \in Busy /\ {"ignored", "accepted", "error", "notice", "limited"} \subseteq Requests \ {"new"}
  BY EventsTyped DEF Requests
<1>1. CASE Ignore(d)
  BY <1>0, <1>1 DEF Ignore, Requested, RequestKind
<1>2. CASE Ingest(d)
  <2>1. Takes(Message(d))
    BY <1>0, <1>2, BusTakes DEF Ingest
  <2> QED BY <1>0, <1>2, <2>1 DEF Ingest, Requested, RequestKind
<1>3. CASE IngestFails(d)
  <2>1. Takes(Message(d)) \/ UNCHANGED busVars
    BY <1>0, <1>3, BusTakes DEF IngestFails
  <2> QED BY <1>0, <1>3, <2>1 DEF IngestFails, Requested, RequestKind
<1>4. CASE Limit(d)
  BY <1>0, <1>4 DEF Limit, Requested, RequestKind
<1>5. CASE EndNotice(d)
  BY <1>0, <1>5 DEF EndNotice, Requested, RequestKind, Sending
<1> QED BY <1>1, <1>2, <1>3, <1>4, <1>5 DEF RequestStep

LEMMA HandlerKinds ==
  ASSUME TypeOK, AnswersInOrder, durable' = durable, NEW d \in Deliveries, HandlerStep(d)
  PROVE  HandlerKind(d) /\ Service!TypeOK' /\ AnswersInOrder'
<1>0. UpdateOf[d] \in Updates /\ Service!TypeOK /\ handler \in [Deliveries -> Handlings]
  BY PlatformAssumption DEF TypeOK, Handlings
<1>1. CASE TakeMessage(d)
  <2>1. Service!TypeOK' /\ AnswersInOrder' /\ answers' = answers
    BY <1>0, <1>1, QuietService DEF TakeMessage
  <2> QED BY <1>1, <2>1 DEF TakeMessage, Delivered, Handler, HandlerKind, Handlings
<1>2. CASE SkipDuplicate(d)
  <2>1. Service!TypeOK' /\ AnswersInOrder' /\ answers' = answers
    BY <1>0, <1>2, QuietService DEF SkipDuplicate
  <2>2. Leaves(Message(d))
    BY <1>2, BusLeaves DEF SkipDuplicate
  <2> QED BY <1>2, <2>1, <2>2 DEF SkipDuplicate, Delivered, Handler, HandlerKind, Handlings, Resting
<1>3. CASE Work(d)
  <2>1. Service!TypeOK' /\ AnswersInOrder' /\ answers' = answers
    BY <1>0, <1>3, QuietService DEF Work
  <2>2. ToHandler(Message(d)) \in owed /\ handler[d] \notin Resting \cup {"cut"}
    BY <1>3 DEF Work, TypeOK, Resting
  <2> QED BY <1>3, <2>1, <2>2 DEF Work, Handler, HandlerKind, Handlings
<1>4. CASE PublishVerdict(d) \/ FailedRaises(d)
  <2>1. /\ handler[d] = "settled"
        /\ handler' = [handler EXCEPT ![d] = "returning"] \/ handler' = [handler EXCEPT ![d] = "raising"]
        /\ UNCHANGED <<stage, request, send, chatVars>>
        /\ (Running /\ Publish(d)) \/ UNCHANGED <<serviceVars, busVars>>
    BY <1>4 DEF PublishVerdict, FailedRaises, Handler, Running
  <2>2. ToHandler(Message(d)) \in owed /\ handler[d] \notin Resting \cup {"cut"}
    BY <2>1 DEF TypeOK, Resting
  <2>3. PICK h \in {"returning", "raising"} : handler' = [handler EXCEPT ![d] = h]
    BY <2>1
  <2>4. h \in Handlings
    BY DEF Handlings
  <2>5. CASE Running /\ Publish(d)
    <3>1. Service!TypeOK' /\ AnswersInOrder' /\ \E v \in Verdicts : Answers(d, v)
      BY <1>0, <2>1, <2>5, PublishAnswers
    <3> QED BY <2>1, <2>2, <2>3, <2>4, <3>1 DEF HandlerKind
  <2>6. CASE UNCHANGED <<serviceVars, busVars>>
    <3>1. Service!TypeOK' /\ AnswersInOrder' /\ answers' = answers
      BY <1>0, <2>6, QuietService
    <3> QED BY <2>1, <2>2, <2>3, <2>4, <2>6, <3>1 DEF HandlerKind
  <2> QED BY <2>1, <2>5, <2>6
<1>5. CASE CompletedRaises(d)
  <2>1. /\ Service!TypeOK' /\ AnswersInOrder'
        /\ (answers' = answers /\ UNCHANGED busVars) \/ Answers(d, "completed")
    BY <1>0, <1>5, RetractAnswers
  <2>2. handler[d] = "settled" /\ UNCHANGED <<stage, request, handler, send, chatVars>>
    BY <1>5 DEF CompletedRaises
  <2>3. /\ ToHandler(Message(d)) \in owed /\ handler[d] \notin Resting \cup {"cut"}
        /\ handler' = [handler EXCEPT ![d] = "settled"]
        /\ "settled" \in Handlings /\ "completed" \in Verdicts
    BY <1>0, <2>2 DEF TypeOK, Resting, Handlings, Verdicts
  <2> QED BY <2>1, <2>2, <2>3 DEF HandlerKind
<1>6. CASE HandlerReturns(d) \/ HandlerRaises(d)
  <2>1. /\ handler[d] \in {"returning", "raising"} /\ UNCHANGED <<stage, request, send, chatVars, serviceVars>>
        /\ handler' = [handler EXCEPT ![d] = "done"] \/ handler' = [handler EXCEPT ![d] = "raised"]
    BY <1>6 DEF HandlerReturns, HandlerRaises, Handler
  <2>2. Service!TypeOK' /\ AnswersInOrder' /\ answers' = answers
    BY <1>0, <2>1, QuietService
  <2>3. Leaves(Message(d))
    <3>1. ToHandler(Message(d)) \in owed
      BY <2>1 DEF TypeOK, Resting
    <3> QED BY <1>6, <3>1, BusLeaves DEF HandlerReturns, HandlerRaises, Leaves
  <2>4. "done" \in Handlings \cap Resting /\ "raised" \in Handlings \cap Resting /\ handler[d] \notin Resting \cup {"cut"}
    BY <2>1 DEF Handlings, Resting
  <2> QED BY <2>1, <2>2, <2>3, <2>4 DEF HandlerKind
<1> QED BY <1>1, <1>2, <1>3, <1>4, <1>5, <1>6 DEF HandlerStep

LEMMA ReplyKinds ==
  ASSUME TypeOK, NEW d \in Deliveries, NEW v \in Verdicts,
         BeginReply(d, v) \/ NoReply(d, v) \/ EndReply(d, v)
  PROVE  PostKind(Verdict(d, v))
<1>0. Verdict(d, v)[1] # "notice" /\ {"markdown", "skipped", "over"} \subseteq Sendings
  BY EventNames, EventsTyped DEF Verdicts, Sendings, Sending
<1>1. CASE BeginReply(d, v)
  BY <1>0, <1>1 DEF BeginReply, Called, PostKind
<1>2. CASE NoReply(d, v)
  <2>1. Leaves(Verdict(d, v))
    BY <1>2, BusLeaves DEF NoReply
  <2> QED BY <1>0, <1>2, <2>1 DEF NoReply, Called, PostKind
<1>3. CASE EndReply(d, v)
  <2>1. Leaves(Verdict(d, v))
    BY <1>3, BusLeaves DEF EndReply
  <2> QED BY <1>0, <1>3, <2>1 DEF EndReply, PostKind
<1> QED BY <1>1, <1>2, <1>3

LEMMA SendKinds ==
  ASSUME TypeOK, NEW post \in Posts, SendStep(post)
  PROVE  PostKind(post)
<1>0. {"delivered", "lost", "plain"} \subseteq Sendings
  BY DEF Sendings, Sending
<1>1. Reached(post) => \/ replied' = replied
                       \/ post[1] # "notice" /\ replied' = [replied EXCEPT ![Told(post)] = @ + 1]
  BY DEF Reached
<1>2. CASE SendSucceeds(post)
  BY <1>0, <1>1, <1>2 DEF SendSucceeds, PostKind, chatVars
<1>3. CASE SendFails(post)
  BY <1>0, <1>1, <1>3 DEF SendFails, PostKind, chatVars
<1>4. CASE SendRejected(post)
  <2>1. PICK s \in {"plain", "lost"} : /\ send' = [send EXCEPT ![post] = s]
                                       /\ s = "plain" => send[post] = "markdown"
    BY <1>4 DEF SendRejected
  <2>2. \/ UNCHANGED chatVars
        \/ /\ post[1] # "notice"
           /\ replied' = [replied EXCEPT ![Told(post)] = @ + 1]
           /\ denied' = denied \cup {Told(post)}
    BY <1>4 DEF SendRejected, Reached, chatVars
  <2> QED BY <1>0, <1>4, <2>1, <2>2 DEF SendRejected, PostKind
<1> QED BY <1>2, <1>3, <1>4 DEF SendStep

LEMMA NextKinds ==
  ASSUME TypeOK, AnswersInOrder, [Next]_vars
  PROVE  /\ UNCHANGED bootVars
         /\ Service!TypeOK' /\ AnswersInOrder'
         /\ \/ \E d \in Deliveries : RequestKind(d) \/ HandlerKind(d)
            \/ \E post \in Posts : PostKind(post)
            \/ StageKind
            \/ CutKind
<1>1. UNCHANGED bootVars
  BY DEF Next, vars
<1>2. ASSUME UNCHANGED serviceVars
      PROVE  Service!TypeOK' /\ AnswersInOrder'
  BY <1>1, <1>2 DEF TypeOK, Service!TypeOK, AnswersInOrder, serviceVars, bootVars
<1>3. ASSUME NEW d \in Deliveries, RequestStep(d) \/ EndNotice(d)
      PROVE  RequestKind(d) /\ UNCHANGED serviceVars
  BY <1>3, RequestKinds DEF RequestKind
<1>4. ASSUME NEW d \in Deliveries, HandlerStep(d)
      PROVE  HandlerKind(d) /\ Service!TypeOK' /\ AnswersInOrder'
  BY <1>1, <1>4, HandlerKinds DEF bootVars
<1>5. ASSUME NEW d \in Deliveries, NEW v \in Verdicts, BeginReply(d, v) \/ NoReply(d, v) \/ EndReply(d, v)
      PROVE  Verdict(d, v) \in Posts /\ PostKind(Verdict(d, v)) /\ UNCHANGED serviceVars
  BY <1>5, ReplyKinds, EventsTyped DEF PostKind
<1>6. ASSUME NEW post \in Posts, SendStep(post)
      PROVE  PostKind(post) /\ UNCHANGED serviceVars
  BY <1>6, SendKinds DEF PostKind
<1>7. CASE UNCHANGED vars \/ Starts \/ Signal \/ StopBus \/ Stopped \/ Clock
  <2>1. StageKind
    BY <1>7 DEF vars, Starts, Signal, StopBus, Stopped, Clock, Stage, StageKind
  <2> QED BY <1>1, <1>2, <2>1 DEF StageKind
<1>8. CASE CancelLoops \/ Abort
  <2>1. CutKind
    BY <1>8 DEF CancelLoops, Abort, CutKind
  <2> QED BY <1>1, <1>2, <2>1 DEF CutKind
<1>9. CASE DeliveryStep
  BY <1>1, <1>2, <1>3, <1>4, <1>5, <1>6, <1>9 DEF DeliveryStep
<1>10. CASE \E d \in Deliveries : RequestStep(d)
  BY <1>1, <1>2, <1>3, <1>10
<1> QED BY <1>7, <1>8, <1>9, <1>10 DEF Next, Step

-----------------------------------------------------------------------------
(* The type invariant.                                                     *)

\* What is being sent answers a request, or a verdict that the bus still owes,
\* and a handler at work has its message from the bus.
Linked(d) ==
  /\ send[Notice(d)] \in Sending => request[d] = "notice"
  /\ \A v \in Verdicts : send[Verdict(d, v)] \in Sending => ToHandler(Verdict(d, v)) \in owed
  /\ handler[d] \notin Resting \cup {"cut"} => ToHandler(Message(d)) \in owed

ChatTyped == /\ replied = [pair \in Updates \X Verdicts |-> replied[pair]]
             /\ denied \subseteq Updates \X Verdicts

LEMMA Types ==
  TypeOK <=> /\ durable \in BOOLEAN
             /\ backlog \subseteq Busy /\ backlog \subseteq ({"message"} \cup Verdicts) \X Unread
             /\ chatless \subseteq Odd
             /\ stage \in {"starting", "consuming", "answering", "up", "closing", "draining", "stopped", "aborted"}
             /\ request \in [Deliveries -> Requests]
             /\ handler \in [Deliveries -> Handlings]
             /\ send \in [Posts -> Sendings]
             /\ ChatTyped /\ Service!TypeOK /\ Bus!TypeOK
             /\ \A d \in Deliveries : Linked(d)
BY PlatformAssumption DEF TypeOK, Requests, Handlings, Sendings, ChatTyped, Linked, Busy

LEMMA TypesNext ==
  ASSUME TypeOK, UNCHANGED bootVars, Service!TypeOK', Bus!TypeOK', ChatTyped',
         stage' \in {"starting", "consuming", "answering", "up", "closing", "draining", "stopped", "aborted"},
         request' \in [Deliveries -> Requests],
         handler' \in [Deliveries -> Handlings],
         send' \in [Posts -> Sendings],
         \A d \in Deliveries :
           /\ send'[Notice(d)] \in Sending => request'[d] = "notice"
           /\ \A v \in Verdicts : send'[Verdict(d, v)] \in Sending => ToHandler(Verdict(d, v)) \in owed'
           /\ handler'[d] \notin Resting \cup {"cut"} => ToHandler(Message(d)) \in owed'
  PROVE  TypeOK'
<1>1. UNCHANGED <<durable, backlog, chatless>>
  BY DEF bootVars
<1> QED BY <1>1 DEF TypeOK, Requests, Handlings, Sendings, ChatTyped, Notice, Verdict, Message, ToHandler

LEMMA RequestType ==
  ASSUME TypeOK, UNCHANGED bootVars, NEW d \in Deliveries, RequestKind(d)
  PROVE  TypeOK'
<1>0. /\ request \in [Deliveries -> Requests] /\ handler \in [Deliveries -> Handlings]
      /\ send \in [Posts -> Sendings] /\ ChatTyped /\ Service!TypeOK /\ Bus!TypeOK
      /\ \A e \in Deliveries : Linked(e)
  BY Types
<1>1. /\ UNCHANGED <<stage, handler, replied, denied>> /\ ChatTyped' /\ Service!TypeOK'
  BY <1>0 DEF RequestKind, ChatTyped, chatVars, serviceVars, Service!TypeOK
<1>2. PICK r \in Requests \ {"new"} :
        /\ request' = [request EXCEPT ![d] = r]
        /\ \/ /\ r # "notice" /\ UNCHANGED <<send, busVars>>
              /\ request[d] = "notice" => send[Notice(d)] \notin Sending
           \/ request[d] = "new" /\ r # "notice" /\ send' = send /\ Takes(Message(d))
           \/ r = "notice" /\ UNCHANGED busVars /\ send' = [send EXCEPT ![Notice(d)] = "markdown"]
  BY DEF RequestKind
<1>3. request' \in [Deliveries -> Requests] /\ \A e \in Deliveries : request'[e] = IF e = d THEN r ELSE request[e]
  BY <1>0, <1>2
<1>4. Takes(Message(d)) \/ UNCHANGED busVars
  BY <1>2
<1>5. Bus!TypeOK'
  BY <1>0, <1>4, EventsTyped, BusTyped, BusLeaves
<1>6. \A x : ToHandler(x) \in owed => ToHandler(x) \in owed'
  BY <1>4, OwedNext
<1>7. /\ send' \in [Posts -> Sendings]
      /\ \A e \in Deliveries, v \in Verdicts : send'[Verdict(e, v)] = send[Verdict(e, v)]
      /\ \A e \in Deliveries : send'[Notice(e)] = send[Notice(e)] \/ (e = d /\ r = "notice")
  <2>1. CASE send' = send
    BY <1>0, <2>1
  <2>2. CASE r = "notice" /\ send' = [send EXCEPT ![Notice(d)] = "markdown"]
    <3>1. "markdown" \in Sendings
      BY DEF Sendings, Sending
    <3>2. \A e \in Deliveries, v \in Verdicts : Verdict(e, v) \in Posts /\ Verdict(e, v) # Notice(d)
      BY EventNames, EventsTyped
    <3>3. \A e \in Deliveries : Notice(e) \in Posts /\ (Notice(e) = Notice(d) => e = d)
      BY EventNames, EventsTyped
    <3> QED BY <1>0, <2>2, <3>1, <3>2, <3>3
  <2> QED BY <1>2, <2>1, <2>2
<1>8. request[d] \in {"notice"} /\ r # "notice" => send[Notice(d)] \notin Sending
  BY <1>2
<1>9. ASSUME NEW e \in Deliveries
      PROVE  /\ send'[Notice(e)] \in Sending => request'[e] = "notice"
             /\ \A v \in Verdicts : send'[Verdict(e, v)] \in Sending => ToHandler(Verdict(e, v)) \in owed'
             /\ handler'[e] \notin Resting \cup {"cut"} => ToHandler(Message(e)) \in owed'
  BY <1>0, <1>1, <1>3, <1>6, <1>7, <1>8 DEF Linked
<1>10. stage' \in {"starting", "consuming", "answering", "up", "closing", "draining", "stopped", "aborted"}
  BY <1>1, Types
<1> QED BY <1>0, <1>1, <1>3, <1>5, <1>7, <1>9, <1>10, TypesNext

LEMMA HandlerType ==
  ASSUME TypeOK, UNCHANGED bootVars, Service!TypeOK', NEW d \in Deliveries, HandlerKind(d)
  PROVE  TypeOK'
<1>0. /\ request \in [Deliveries -> Requests] /\ handler \in [Deliveries -> Handlings]
      /\ send \in [Posts -> Sendings] /\ ChatTyped /\ Bus!TypeOK
      /\ \A e \in Deliveries : Linked(e)
  BY Types
<1>1. UNCHANGED <<stage, request, send, replied, denied>> /\ ChatTyped'
  BY <1>0 DEF HandlerKind, ChatTyped, chatVars
<1>2. PICK h \in Handlings :
        /\ handler' = [handler EXCEPT ![d] = h]
        /\ \/ UNCHANGED <<answers, busVars>> /\ ToHandler(Message(d)) \in owed
           \/ answers' = answers /\ Leaves(Message(d)) /\ h \in Resting
           \/ \E v \in Verdicts : Answers(d, v)
  BY DEF HandlerKind
<1>3. handler' \in [Deliveries -> Handlings] /\ \A e \in Deliveries : handler'[e] = IF e = d THEN h ELSE handler[e]
  BY <1>0, <1>2
<1>4. (\E v \in Verdicts : Answers(d, v)) => /\ ToHandler(Message(d)) \in owed
                                             /\ \E v \in Verdicts : Takes(Verdict(d, v))
  BY <1>0 DEF Answers, Linked, Resting
<1>5. Bus!TypeOK'
  BY <1>0, <1>2, <1>4, EventsTyped, BusTyped, BusLeaves
<1>6. \A e \in Deliveries, v \in Verdicts : ToHandler(Verdict(e, v)) \in owed => ToHandler(Verdict(e, v)) \in owed'
  <2>1. \A e \in Deliveries, v \in Verdicts : Verdict(e, v) # Message(d)
    BY EventNames
  <2> QED BY <1>2, <1>4, <2>1, OwedNext
<1>7. \A e \in Deliveries \ {d} : ToHandler(Message(e)) \in owed => ToHandler(Message(e)) \in owed'
  <2>1. \A e \in Deliveries \ {d} : Message(e) # Message(d)
    BY EventNames
  <2> QED BY <1>2, <1>4, <2>1, OwedNext
<1>8. h \notin Resting => ToHandler(Message(d)) \in owed'
  BY <1>2, <1>4, OwedNext
<1>9. ASSUME NEW e \in Deliveries
      PROVE  /\ send'[Notice(e)] \in Sending => request'[e] = "notice"
             /\ \A v \in Verdicts : send'[Verdict(e, v)] \in Sending => ToHandler(Verdict(e, v)) \in owed'
             /\ handler'[e] \notin Resting \cup {"cut"} => ToHandler(Message(e)) \in owed'
  BY <1>0, <1>1, <1>3, <1>6, <1>7, <1>8 DEF Linked
<1>10. stage' \in {"starting", "consuming", "answering", "up", "closing", "draining", "stopped", "aborted"}
  BY <1>1, Types
<1> QED BY <1>0, <1>1, <1>3, <1>5, <1>9, <1>10, TypesNext

LEMMA PostType ==
  ASSUME TypeOK, UNCHANGED bootVars, NEW post \in Posts, PostKind(post)
  PROVE  TypeOK'
<1>0. /\ request \in [Deliveries -> Requests] /\ handler \in [Deliveries -> Handlings]
      /\ send \in [Posts -> Sendings] /\ ChatTyped /\ Service!TypeOK /\ Bus!TypeOK
      /\ \A e \in Deliveries : Linked(e)
  BY Types
<1>1. UNCHANGED <<stage, request, handler>> /\ Service!TypeOK'
  BY <1>0 DEF PostKind, serviceVars, Service!TypeOK
<1>2. PICK s \in Sendings :
        /\ send' = [send EXCEPT ![post] = s]
        /\ \/ UNCHANGED <<chatVars, busVars>> /\ post[1] # "notice" /\ ToHandler(post) \in owed
           \/ UNCHANGED chatVars /\ s \in {"skipped", "over"} /\ Leaves(post)
              /\ send[post] \in {"none", "delivered", "lost"}
           \/ /\ UNCHANGED busVars /\ send[post] \in Sending
              /\ \/ UNCHANGED chatVars
                 \/ /\ post[1] # "notice"
                    /\ replied' = [replied EXCEPT ![Told(post)] = @ + 1]
                    /\ denied' = denied \/ denied' = denied \cup {Told(post)}
  BY DEF PostKind
<1>3. send' \in [Posts -> Sendings] /\ \A p \in Posts : send'[p] = IF p = post THEN s ELSE send[p]
  BY <1>0, <1>2
<1>4. ChatTyped'
  <2>1. CASE UNCHANGED chatVars
    BY <1>0, <2>1 DEF chatVars, ChatTyped
  <2>2. CASE /\ post[1] # "notice"
             /\ replied' = [replied EXCEPT ![Told(post)] = @ + 1]
             /\ denied' = denied \/ denied' = denied \cup {Told(post)}
    <3>1. PICK d \in Deliveries, v \in Verdicts : post = Verdict(d, v)
      BY <2>2, PostNames
    <3>2. Told(post) \in Updates \X Verdicts
      BY <3>1, PlatformAssumption, EventsTyped
    <3> QED BY <1>0, <2>2, <3>2 DEF ChatTyped
  <2> QED BY <1>2, <2>1, <2>2
<1>5. Leaves(post)
  BY <1>2, BusLeaves DEF busVars, chatVars
<1>6. Bus!TypeOK'
  <2>1. CASE UNCHANGED busVars
    BY <1>0, <2>1 DEF busVars, Bus!TypeOK
  <2>2. CASE ~UNCHANGED busVars
    <3>1. Bus!TypeOK <=> owed \cup handled \cup dead \subseteq Busy \X {"handler"}
      BY DEF Bus!TypeOK, Bus!Duties, Busy
    <3>2. Bus!TypeOK' <=> owed' \cup handled' \cup dead' \subseteq Busy \X {"handler"}
      BY DEF Bus!TypeOK, Bus!Duties, Busy
    <3> QED BY <1>0, <1>5, <3>1, <3>2 DEF Leaves
  <2> QED BY <2>1, <2>2
<1>7. \A x : ToHandler(x) \in owed => ToHandler(x) \in owed' \/ (x = post /\ s \in {"skipped", "over"})
  BY <1>2, OwedNext
<1>8. ASSUME NEW e \in Deliveries
      PROVE  /\ send'[Notice(e)] \in Sending => request'[e] = "notice"
             /\ \A v \in Verdicts : send'[Verdict(e, v)] \in Sending => ToHandler(Verdict(e, v)) \in owed'
             /\ handler'[e] \notin Resting \cup {"cut"} => ToHandler(Message(e)) \in owed'
  <2>0. /\ Notice(e) \in Posts /\ Notice(e)[1] = "notice"
        /\ \A v \in Verdicts : Verdict(e, v) \in Posts
        /\ s \in {"skipped", "over"} => s \notin Sending
    BY EventsTyped DEF Sending
  <2>1. send'[Notice(e)] \in Sending => request'[e] = "notice"
    <3>1. CASE Notice(e) = post
      BY <1>0, <1>1, <1>2, <1>3, <2>0, <3>1 DEF Linked
    <3>2. CASE Notice(e) # post
      BY <1>0, <1>1, <1>3, <2>0, <3>2 DEF Linked
    <3> QED BY <3>1, <3>2
  <2>2. ASSUME NEW v \in Verdicts, send'[Verdict(e, v)] \in Sending
        PROVE  ToHandler(Verdict(e, v)) \in owed'
    <3>1. CASE Verdict(e, v) = post
      <4>1. s \in Sending
        BY <1>3, <2>0, <2>2, <3>1
      <4>2. ToHandler(post) \in owed
        BY <1>0, <1>2, <2>0, <3>1, <4>1 DEF Linked
      <4> QED BY <1>7, <2>0, <3>1, <4>1, <4>2
    <3>2. CASE Verdict(e, v) # post
      BY <1>0, <1>3, <1>7, <2>0, <2>2, <3>2 DEF Linked
    <3> QED BY <3>1, <3>2
  <2>3. handler'[e] \notin Resting \cup {"cut"} => ToHandler(Message(e)) \in owed'
    <3>1. Message(e) # post
      BY EventNames, PostNames DEF Message, Notice
    <3> QED BY <1>0, <1>1, <1>7, <3>1 DEF Linked
  <2> QED BY <2>1, <2>2, <2>3
<1>9. stage' \in {"starting", "consuming", "answering", "up", "closing", "draining", "stopped", "aborted"}
  BY <1>1, Types
<1> QED BY <1>0, <1>1, <1>3, <1>4, <1>6, <1>8, <1>9, TypesNext

\* What the cancelling of all handlers and replies leaves.
LEMMA CutChanges ==
  ASSUME TypeOK, CutKind
  PROVE  /\ handler' \in [Deliveries -> Resting \cup {"cut"}]
         /\ send' \in [Posts -> Sendings \ Sending]
         /\ \A post \in Posts : send'[post] = IF send[post] \in Sending THEN "cut" ELSE send[post]
         /\ ChatTyped' /\ denied' = denied
         /\ \E arrived \in SUBSET {post \in Posts : send[post] \in Sending} :
              \A pair \in Updates \X Verdicts :
                replied'[pair] = replied[pair] + Cardinality({post \in arrived : Told(post) = pair})
<1>0. /\ send \in [Posts -> Sendings] /\ ChatTyped /\ \A e \in Deliveries : Linked(e)
  BY Types
<1>1. /\ handler' = [d \in Deliveries |-> IF handler[d] \in Resting THEN handler[d] ELSE "cut"]
      /\ send' = [post \in Posts |-> IF send[post] \in Sending THEN "cut" ELSE send[post]]
      /\ denied' = denied
  BY DEF CutKind, CancelHandlers, CancelSends
<1>2. PICK arrived \in SUBSET {post \in Posts : send[post] \in Sending} :
        replied' = [pair \in Updates \X Verdicts |->
                      replied[pair] + Cardinality({post \in arrived : Told(post) = pair})]
  BY DEF CutKind, CancelSends
<1>3. handler' \in [Deliveries -> Resting \cup {"cut"}]
  BY <1>1
<1>4. send' \in [Posts -> Sendings \ Sending]
  <2>1. "cut" \in Sendings \ Sending
    BY DEF Sendings, Sending
  <2> QED BY <1>0, <1>1, <2>1
<1>5. \A post \in Posts : send'[post] = IF send[post] \in Sending THEN "cut" ELSE send[post]
  BY <1>1
<1>6. ChatTyped'
  BY <1>0, <1>1, <1>2 DEF ChatTyped
<1>7. \A pair \in Updates \X Verdicts :
        replied'[pair] = replied[pair] + Cardinality({post \in arrived : Told(post) = pair})
  BY <1>2
<1> QED BY <1>1, <1>3, <1>4, <1>5, <1>6, <1>7

LEMMA NextType ==
  ASSUME TypeOK, AnswersInOrder, [Next]_vars
  PROVE  TypeOK'
<1>0. /\ UNCHANGED bootVars /\ Service!TypeOK'
      /\ \/ \E d \in Deliveries : RequestKind(d) \/ HandlerKind(d)
         \/ \E post \in Posts : PostKind(post)
         \/ StageKind
         \/ CutKind
  BY NextKinds
<1>1. ASSUME NEW d \in Deliveries, RequestKind(d) \/ HandlerKind(d)
      PROVE  TypeOK'
  BY <1>0, <1>1, RequestType, HandlerType
<1>2. ASSUME NEW post \in Posts, PostKind(post)
      PROVE  TypeOK'
  BY <1>0, <1>2, PostType
<1>3. CASE StageKind \/ CutKind
  <2>0. /\ request \in [Deliveries -> Requests] /\ handler \in [Deliveries -> Handlings]
        /\ send \in [Posts -> Sendings] /\ ChatTyped /\ Bus!TypeOK
        /\ stage \in {"starting", "consuming", "answering", "up", "closing", "draining", "stopped", "aborted"}
        /\ \A e \in Deliveries : Linked(e)
    BY Types
  <2>1. UNCHANGED <<request, owed, handled, dead>> /\ Bus!TypeOK'
    BY <1>3, <2>0 DEF StageKind, CutKind, busVars, Bus!TypeOK
  <2>2. stage' \in {"starting", "consuming", "answering", "up", "closing", "draining", "stopped", "aborted"}
    BY <1>3, <2>0 DEF StageKind, CutKind
  <2>3. CASE StageKind
    <3>1. UNCHANGED <<handler, send, replied, denied>> /\ ChatTyped'
      BY <2>0, <2>3 DEF StageKind, chatVars, ChatTyped
    <3> QED BY <1>0, <2>0, <2>1, <2>2, <3>1, TypesNext DEF Linked
  <2>4. CASE CutKind
    <3>1. /\ handler' \in [Deliveries -> Resting \cup {"cut"}] /\ ChatTyped'
          /\ send' \in [Posts -> Sendings \ Sending]
      BY <2>4, CutChanges
    <3>2. handler' \in [Deliveries -> Handlings] /\ send' \in [Posts -> Sendings]
      BY <3>1 DEF Handlings
    <3>3. \A d \in Deliveries : Notice(d) \in Posts /\ \A v \in Verdicts : Verdict(d, v) \in Posts
      BY EventsTyped
    <3>4. \A d \in Deliveries : /\ send'[Notice(d)] \notin Sending
                                /\ \A v \in Verdicts : send'[Verdict(d, v)] \notin Sending
                                /\ handler'[d] \in Resting \cup {"cut"}
      BY <3>1, <3>3
    <3> QED BY <1>0, <2>0, <2>1, <2>2, <3>1, <3>2, <3>4, TypesNext
  <2> QED BY <1>3, <2>3, <2>4
<1> QED BY <1>0, <1>1, <1>2, <1>3

-----------------------------------------------------------------------------
(* What the steps preserve.                                                *)

Parts == /\ TypeOK /\ AnswersInOrder
         /\ NewUntouched /\ VerdictsExact /\ RepliedExact /\ EndedStaysEnded

LEMMA PartsInitially ==
  ASSUME Init
  PROVE  Parts
<1>1. PICK messages \in SUBSET Unread, verdicts \in SUBSET (Verdicts \X Unread) :
        LET left == messages \cup {event[2] : event \in verdicts}
        IN  /\ \A event \in verdicts : event[2] \notin messages
            /\ ~durable => left = {}
            /\ backlog = {Message(d) : d \in messages} \cup verdicts
            /\ owed = {ToHandler(event) : event \in backlog}
            /\ handler = [d \in Deliveries |-> IF d \in left \ messages THEN "done" ELSE "none"]
            /\ \E silent \in SUBSET (Odd \ {UpdateOf[d] : d \in left}) :
                 /\ chatless \in SUBSET (Odd \ silent)
                 /\ request = [d \in Deliveries |-> IF UpdateOf[d] \in silent THEN "empty"
                                                    ELSE IF d \in left THEN "accepted" ELSE "new"]
  BY DEF Init
<1> DEFINE left == messages \cup {event[2] : event \in verdicts}
<1>2. PICK silent \in SUBSET (Odd \ {UpdateOf[d] : d \in left}) :
        /\ chatless \in SUBSET (Odd \ silent)
        /\ request = [d \in Deliveries |-> IF UpdateOf[d] \in silent THEN "empty"
                                           ELSE IF d \in left THEN "accepted" ELSE "new"]
  BY <1>1
<1>3. /\ durable \in BOOLEAN /\ Service!Init /\ handled = {} /\ dead = {} /\ stage = "starting"
      /\ send = [post \in Posts |-> "none"] /\ denied = {}
      /\ replied = [pair \in Updates \X Verdicts |-> 0]
  BY PlatformAssumption DEF Init
<1>4. /\ backlog = {Message(d) : d \in messages} \cup verdicts
      /\ owed = {ToHandler(event) : event \in backlog}
      /\ handler = [d \in Deliveries |-> IF d \in left \ messages THEN "done" ELSE "none"]
  BY <1>1
<1>5. backlog \subseteq ({"message"} \cup Verdicts) \X Unread /\ Unread \subseteq Deliveries
  BY <1>4, PlatformAssumption DEF Message
<1>6. Bus!TypeOK
  <2>1. \A event \in backlog : ToHandler(event) \in (({"message"} \cup Verdicts) \X Deliveries) \X {"handler"}
    BY <1>5 DEF ToHandler
  <2>2. owed \subseteq (({"message"} \cup Verdicts) \X Deliveries) \X {"handler"}
    BY <1>4, <2>1
  <2> QED BY <1>3, <2>2 DEF Bus!TypeOK, Bus!Duties
<1>7. Service!TypeOK
  BY <1>3 DEF Service!TypeOK, Service!Init, Service!Phase
<1>8. \A post \in Posts : send[post] = "none"
  BY <1>3
<1> HIDE DEF left
<1>9. TypeOK
  <2>1. handler \in [Deliveries -> Handlings] /\ \A d \in Deliveries : handler[d] \in Resting
    BY <1>4 DEF Handlings, Resting
  <2>2. request \in [Deliveries -> Requests]
    BY <1>2 DEF Requests
  <2>3. send \in [Posts -> Sendings]
    BY <1>3 DEF Sendings
  <2>4. ChatTyped
    BY <1>3 DEF ChatTyped
  <2>5. \A d \in Deliveries : Linked(d)
    BY <1>8, <2>1, EventsTyped DEF Linked, Sending
  <2>6. backlog \subseteq Busy
    BY <1>5 DEF Busy
  <2> QED BY <1>2, <1>3, <1>5, <1>6, <1>7, <2>1, <2>2, <2>3, <2>4, <2>5, <2>6, Types
<1>10. AnswersInOrder
  BY <1>3 DEF AnswersInOrder, Service!Init
<1>11. \A event : Taken(event) => event \in backlog
  BY <1>3, <1>4 DEF Taken, ToHandler
<1>12. NewUntouched
  <2> SUFFICES ASSUME NEW d \in Deliveries, request[d] = "new"
               PROVE  send[Notice(d)] = "none" /\ ~Taken(Message(d))
    BY DEF NewUntouched
  <2>1. d \notin messages
    BY <1>2 DEF left
  <2>2. Message(d) \notin backlog
    <3>1. \A m \in messages : Message(m) = Message(d) => m = d
      BY EventNames
    <3>2. Message(d) \notin verdicts
      BY DEF Message, Verdicts
    <3> QED BY <1>4, <2>1, <3>1, <3>2
  <2> QED BY <1>8, <1>11, <2>2, EventsTyped
<1>13. VerdictsExact
  BY <1>11 DEF VerdictsExact
<1>14. RepliedExact
  BY <1>3 DEF RepliedExact
<1>15. EndedStaysEnded
  <2>1. \A d \in Deliveries : request[d] # "notice"
    BY <1>2
  <2> QED BY <1>3, <2>1 DEF EndedStaysEnded
<1> QED BY <1>9, <1>10, <1>12, <1>13, <1>14, <1>15 DEF Parts

\* Only process_update takes up a new request, and publishes its message.
LEMMA NewStaysUntouched ==
  ASSUME TypeOK, AnswersInOrder, NewUntouched, [Next]_vars
  PROVE  NewUntouched'
<1> SUFFICES ASSUME NEW d \in Deliveries, request'[d] = "new"
             PROVE  send'[Notice(d)] = "none" /\ ~Taken(Message(d))'
  BY DEF NewUntouched, Notice, Message, Taken, ToHandler
<1>0. /\ request \in [Deliveries -> Requests] /\ send \in [Posts -> Sendings]
      /\ Notice(d) \in Posts /\ Notice(d)[1] = "notice" /\ "new" # "notice"
      /\ \A e \in Deliveries : Linked(e)
  BY Types, EventsTyped
<1>1. ASSUME request[d] = "new" PROVE send[Notice(d)] = "none" /\ ~Taken(Message(d))
  BY <1>1 DEF NewUntouched
<1>2. ASSUME NEW e \in Deliveries, RequestKind(e)
      PROVE  send'[Notice(d)] = "none" /\ ~Taken(Message(d))'
  <2>1. PICK r \in Requests \ {"new"} :
          /\ request' = [request EXCEPT ![e] = r]
          /\ \/ UNCHANGED <<send, busVars>>
             \/ send' = send /\ Takes(Message(e))
             \/ UNCHANGED busVars /\ send' = [send EXCEPT ![Notice(e)] = "markdown"]
    BY <1>2 DEF RequestKind
  <2>2. d # e /\ request[d] = "new"
    BY <1>0, <2>1
  <2>3. Notice(e) # Notice(d) /\ Message(e) # Message(d)
    BY <2>2, EventNames
  <2> QED BY <1>0, <1>1, <2>1, <2>2, <2>3, TakenNext
<1>3. ASSUME NEW e \in Deliveries, HandlerKind(e)
      PROVE  send'[Notice(d)] = "none" /\ ~Taken(Message(d))'
  <2>1. request[d] = "new" /\ send' = send
    BY <1>3 DEF HandlerKind
  <2>2. UNCHANGED busVars \/ Leaves(Message(e)) \/ \E v \in Verdicts : Takes(Verdict(e, v))
    BY <1>3 DEF HandlerKind, Answers
  <2>3. \A v \in Verdicts : Message(d) # Verdict(e, v)
    BY EventNames
  <2> QED BY <1>1, <2>1, <2>2, <2>3, TakenNext
<1>4. ASSUME NEW post \in Posts, PostKind(post)
      PROVE  send'[Notice(d)] = "none" /\ ~Taken(Message(d))'
  <2>1. request[d] = "new"
    BY <1>4 DEF PostKind
  <2>2. UNCHANGED busVars \/ Leaves(post)
    BY <1>4 DEF PostKind
  <2>3. send'[Notice(d)] = send[Notice(d)]
    <3>1. /\ \E s : send' = [send EXCEPT ![post] = s]
          /\ post[1] # "notice" \/ send[post] \in Sending
      BY <1>4 DEF PostKind
    <3>2. post # Notice(d)
      BY <1>0, <1>1, <2>1, <3>1 DEF Sending
    <3> QED BY <1>0, <3>1, <3>2
  <2> QED BY <1>1, <2>1, <2>2, <2>3, TakenNext
<1>5. CASE StageKind \/ CutKind
  <2>1. request[d] = "new" /\ UNCHANGED busVars
    BY <1>5 DEF StageKind, CutKind
  <2>2. send'[Notice(d)] = IF send[Notice(d)] \in Sending THEN "cut" ELSE send[Notice(d)]
    <3>1. CASE StageKind
      BY <1>1, <2>1, <3>1 DEF StageKind, Sending
    <3>2. CASE CutKind
      BY <1>0, <3>2, CutChanges
    <3> QED BY <1>5, <3>1, <3>2
  <2> QED BY <1>1, <2>1, <2>2, TakenNext DEF Sending
<1> QED BY <1>2, <1>3, <1>4, <1>5, NextKinds


\* Only an answer of the orchestrator puts a verdict on the bus.
LEMMA VerdictsTaken ==
  ASSUME TypeOK, AnswersInOrder, [Next]_vars
  PROVE  /\ \A x : Taken(x) => Taken(x)'
         /\ \/ /\ answers' = answers
               /\ \A d \in Deliveries, v \in Verdicts : Taken(Verdict(d, v))' => Taken(Verdict(d, v))
            \/ \E e \in Deliveries, w \in Verdicts : HandlerKind(e) /\ Answers(e, w)
<1> DEFINE Same(x) == Taken(x)' <=> Taken(x)
<1>1. ASSUME UNCHANGED busVars \/ \E event : Leaves(event), NEW x
      PROVE  Same(x)
  BY <1>1, TakenNext
<1>2. ASSUME NEW event, Takes(event), NEW x
      PROVE  Taken(x)' <=> Taken(x) \/ x = event
  BY <1>2, TakenNext
<1> HIDE DEF Same
<1>3. ASSUME UNCHANGED answers, UNCHANGED busVars \/ (\E event : Leaves(event)) \/ \E d \in Deliveries : Takes(Message(d))
      PROVE  /\ \A x : Taken(x) => Taken(x)'
             /\ answers' = answers
             /\ \A d \in Deliveries, v \in Verdicts : Taken(Verdict(d, v))' => Taken(Verdict(d, v))
  <2>1. CASE UNCHANGED busVars \/ \E event : Leaves(event)
    <3>1. \A x : Same(x)
      BY <1>1, <2>1
    <3> QED BY <1>3, <3>1 DEF Same
  <2>2. CASE \E d \in Deliveries : Takes(Message(d))
    <3>1. PICK e \in Deliveries : Takes(Message(e))
      BY <2>2
    <3>2. \A x : Taken(x)' <=> Taken(x) \/ x = Message(e)
      BY <1>2, <3>1
    <3>3. \A d \in Deliveries, v \in Verdicts : Verdict(d, v) # Message(e)
      BY EventNames
    <3> QED BY <1>3, <3>2, <3>3
  <2> QED BY <1>3, <2>1, <2>2
<1>4. ASSUME NEW d \in Deliveries, RequestKind(d)
      PROVE  UNCHANGED answers /\ (UNCHANGED busVars \/ Takes(Message(d)))
  BY <1>4 DEF RequestKind, serviceVars
<1>5. ASSUME NEW d \in Deliveries, HandlerKind(d)
      PROVE  \/ UNCHANGED answers /\ (UNCHANGED busVars \/ Leaves(Message(d)))
             \/ \E v \in Verdicts : Answers(d, v)
  BY <1>5 DEF HandlerKind
<1>6. ASSUME NEW post \in Posts, PostKind(post)
      PROVE  UNCHANGED answers /\ (UNCHANGED busVars \/ Leaves(post))
  BY <1>6 DEF PostKind, serviceVars
<1>7. CASE StageKind \/ CutKind
  <2>1. UNCHANGED answers /\ UNCHANGED busVars
    BY <1>7 DEF StageKind, CutKind, serviceVars
  <2> QED BY <1>3, <2>1
<1>8. CASE \E d \in Deliveries : RequestKind(d)
  BY <1>3, <1>4, <1>8
<1>9. CASE \E d \in Deliveries : HandlerKind(d)
  <2>1. PICK d \in Deliveries : HandlerKind(d)
    BY <1>9
  <2>2. CASE UNCHANGED answers /\ (UNCHANGED busVars \/ Leaves(Message(d)))
    BY <1>3, <2>2
  <2>3. CASE \E v \in Verdicts : Answers(d, v)
    <3>1. PICK v \in Verdicts : Answers(d, v)
      BY <2>3
    <3>2. \A x : Taken(x) => Taken(x)'
      BY <1>2, <3>1 DEF Answers
    <3> QED BY <2>1, <3>1, <3>2
  <2> QED BY <1>5, <2>1, <2>2, <2>3
<1>10. CASE \E post \in Posts : PostKind(post)
  BY <1>3, <1>6, <1>10
<1> QED BY <1>7, <1>8, <1>9, <1>10, NextKinds

LEMMA VerdictsStayExact ==
  ASSUME TypeOK, AnswersInOrder, VerdictsExact, [Next]_vars
  PROVE  VerdictsExact'
<1> SUFFICES ASSUME NEW d \in Deliveries, NEW v \in Verdicts, Taken(Verdict(d, v))', Verdict(d, v) \notin backlog'
             PROVE  <<d, v>> \in answers'[UpdateOf[d]]
  BY DEF VerdictsExact, Verdict, Taken, ToHandler
<1>0. /\ backlog' = backlog /\ UpdateOf \in [Deliveries -> Updates]
      /\ answers \in [Updates -> SUBSET (Deliveries \X Service!Verdict)]
  BY NextKinds, PlatformAssumption DEF bootVars, TypeOK, Service!TypeOK
<1>1. Taken(Verdict(d, v)) => <<d, v>> \in answers[UpdateOf[d]]
  BY <1>0 DEF VerdictsExact
<1>2. CASE answers' = answers /\ \A e \in Deliveries, w \in Verdicts : Taken(Verdict(e, w))' => Taken(Verdict(e, w))
  BY <1>1, <1>2
<1>3. CASE \E e \in Deliveries, w \in Verdicts : HandlerKind(e) /\ Answers(e, w)
  <2>1. PICK e \in Deliveries, w \in Verdicts : Answers(e, w)
    BY <1>3
  <2>2. /\ answers' = [answers EXCEPT ![UpdateOf[e]] = @ \cup {<<e, w>>}]
        /\ Takes(Verdict(e, w))
    BY <2>1 DEF Answers
  <2>3. Taken(Verdict(d, v)) \/ Verdict(d, v) = Verdict(e, w)
    BY <2>2, TakenNext
  <2>4. CASE Taken(Verdict(d, v))
    BY <1>0, <1>1, <2>2, <2>4
  <2>5. CASE Verdict(d, v) = Verdict(e, w)
    <3>1. d = e /\ v = w
      BY <2>5, EventNames
    <3> QED BY <1>0, <2>2, <3>1
  <2> QED BY <2>3, <2>4, <2>5
<1> QED BY <1>2, <1>3, VerdictsTaken

\* The verdicts on an update are of one request.
LEMMA OneVerdict ==
  ASSUME AnswersInOrder, VerdictsExact, NEW u \in Updates, NoOldVerdict(u),
         NEW d \in Deliveries, NEW v \in Verdicts, UpdateOf[d] = u, Taken(Verdict(d, v)),
         NEW e \in Deliveries, NEW w \in Verdicts, UpdateOf[e] = u, Taken(Verdict(e, w))
  PROVE  d = e
<1>1. <<d, v>> \in answers[u] /\ <<e, w>> \in answers[u]
  BY DEF VerdictsExact, NoOldVerdict
<1>2. \A p, q \in answers[u] : p[1] = q[1]
  BY DEF AnswersInOrder
<1>3. <<d, v>>[1] = <<e, w>>[1]
  BY <1>1, <1>2
<1> QED BY <1>3

ReplyOf(u, v) ==
  \/ replied[<<u, v>>] = 0 /\ <<u, v>> \notin denied
  \/ \E d \in Deliveries : /\ UpdateOf[d] = u
                           /\ Taken(Verdict(d, v))
                           /\ SentFor(d, v, replied[<<u, v>>])

\* Nothing reaches the chat: the sending goes on or ends.
LEMMA ReplyPersists ==
  ASSUME NEW u, NEW v, ReplyOf(u, v),
         replied'[<<u, v>>] = replied[<<u, v>>], <<u, v>> \in denied' <=> <<u, v>> \in denied,
         \A d \in Deliveries :
           UpdateOf[d] = u /\ Taken(Verdict(d, v)) =>
             /\ Taken(Verdict(d, v))'
             /\ \/ send'[Verdict(d, v)] = send[Verdict(d, v)]
                \/ send[Verdict(d, v)] \in {"none", "markdown"}
                \/ send'[Verdict(d, v)] \in Ended
  PROVE  ReplyOf(u, v)'
<1>1. CASE replied[<<u, v>>] = 0 /\ <<u, v>> \notin denied
  BY <1>1 DEF ReplyOf
<1>2. CASE \E d \in Deliveries : /\ UpdateOf[d] = u /\ Taken(Verdict(d, v))
                                 /\ SentFor(d, v, replied[<<u, v>>])
  <2>1. PICK d \in Deliveries : /\ UpdateOf[d] = u /\ Taken(Verdict(d, v))
                                /\ SentFor(d, v, replied[<<u, v>>])
    BY <1>2
  <2>2. /\ send[Verdict(d, v)] \notin {"none", "markdown"}
        /\ Taken(Verdict(d, v))'
        /\ send'[Verdict(d, v)] = send[Verdict(d, v)] \/ send'[Verdict(d, v)] \in Ended
    BY <2>1 DEF SentFor
  <2>3. SentFor(d, v, replied[<<u, v>>])'
    BY <2>1, <2>2 DEF SentFor, Ended, Verdict
  <2> QED BY <2>1, <2>2, <2>3 DEF ReplyOf, Verdict
<1> QED BY <1>1, <1>2 DEF ReplyOf

\* What one post that arrives adds.
LEMMA ReplyArrives ==
  ASSUME NEW u, NEW v, ReplyOf(u, v), NEW d \in Deliveries, UpdateOf[d] = u,
         \A e \in Deliveries : UpdateOf[e] = u /\ Taken(Verdict(e, v)) => e = d,
         Taken(Verdict(d, v))', send[Verdict(d, v)] \in Sending,
         replied'[<<u, v>>] = replied[<<u, v>>] + 1,
         <<u, v>> \in denied => <<u, v>> \in denied',
         \/ send'[Verdict(d, v)] \in Ended
         \/ send[Verdict(d, v)] = "markdown" /\ send'[Verdict(d, v)] = "plain" /\ <<u, v>> \in denied'
  PROVE  ReplyOf(u, v)'
<1>1. CASE replied[<<u, v>>] = 0 /\ <<u, v>> \notin denied
  <2>1. SentFor(d, v, replied[<<u, v>>])'
    BY <1>1 DEF SentFor, Ended, Verdict
  <2> QED BY <2>1 DEF ReplyOf, Verdict
<1>2. CASE \E e \in Deliveries : /\ UpdateOf[e] = u /\ Taken(Verdict(e, v))
                                 /\ SentFor(e, v, replied[<<u, v>>])
  <2>1. SentFor(d, v, replied[<<u, v>>])
    BY <1>2
  <2>2. replied[<<u, v>>] = 1 /\ send[Verdict(d, v)] = "plain" /\ <<u, v>> \in denied
    BY <2>1 DEF SentFor, Sending
  <2>3. SentFor(d, v, replied[<<u, v>>])'
    BY <2>2 DEF SentFor, Ended, Verdict
  <2> QED BY <2>3 DEF ReplyOf, Verdict
<1> QED BY <1>1, <1>2 DEF ReplyOf

LEMMA ReplyExact == RepliedExact <=> \A u \in Updates : NoOldVerdict(u) => \A v \in Verdicts : ReplyOf(u, v)
BY DEF RepliedExact, ReplyOf

LEMMA PostReplies ==
  ASSUME TypeOK, AnswersInOrder, VerdictsExact, NEW post \in Posts, PostKind(post),
         \A x : Taken(x) => Taken(x)',
         NEW u \in Updates, NoOldVerdict(u), NEW v \in Verdicts, ReplyOf(u, v)
  PROVE  ReplyOf(u, v)'
<1>0. /\ send \in [Posts -> Sendings] /\ ChatTyped /\ \A e \in Deliveries : Linked(e)
      /\ \A e \in Deliveries, w \in Verdicts : Verdict(e, w) \in Posts
  BY Types, EventsTyped
<1>1. PICK s \in Sendings :
       /\ send' = [send EXCEPT ![post] = s]
       /\ \/ send[post] = "none" /\ UNCHANGED chatVars
          \/ send[post] \in {"delivered", "lost"} /\ s = "over" /\ UNCHANGED chatVars
          \/ /\ send[post] \in Sending
             /\ s \in {"delivered", "lost"} \/ (s = "plain" /\ send[post] = "markdown")
             /\ \/ UNCHANGED chatVars
                \/ /\ post[1] # "notice"
                   /\ replied' = [replied EXCEPT ![Told(post)] = @ + 1]
                   /\ \/ denied' = denied /\ s \in {"delivered", "lost"}
                      \/ denied' = denied \cup {Told(post)}
  BY DEF PostKind
<1>2. \A p \in Posts : send'[p] = IF p = post THEN s ELSE send[p]
  BY <1>0, <1>1
<1>3. \/ send[post] = "none"
      \/ s \in Ended
      \/ s = "plain" /\ send[post] = "markdown"
  BY <1>1 DEF Ended
<1>4. \A d \in Deliveries : \/ send'[Verdict(d, v)] = send[Verdict(d, v)]
                            \/ send[Verdict(d, v)] \in {"none", "markdown"}
                            \/ send'[Verdict(d, v)] \in Ended
  BY <1>0, <1>2, <1>3
<1>5. CASE UNCHANGED chatVars
  BY <1>4, <1>5, ReplyPersists DEF chatVars
<1>6. CASE /\ post[1] # "notice" /\ send[post] \in Sending
           /\ s \in {"delivered", "lost"} \/ (s = "plain" /\ send[post] = "markdown")
           /\ replied' = [replied EXCEPT ![Told(post)] = @ + 1]
           /\ \/ denied' = denied /\ s \in {"delivered", "lost"}
              \/ denied' = denied \cup {Told(post)}
  <2>1. PICK d \in Deliveries, w \in Verdicts : post = Verdict(d, w)
    BY <1>6, PostNames
  <2>2. Told(post) = <<UpdateOf[d], w>> /\ UpdateOf[d] \in Updates
    BY <2>1, EventsTyped, PlatformAssumption
  <2>3. \A pair \in Updates \X Verdicts : replied'[pair] = IF pair = Told(post) THEN replied[pair] + 1 ELSE replied[pair]
    BY <1>0, <1>6, <2>2 DEF ChatTyped
  <2>4. CASE <<u, v>> # <<UpdateOf[d], w>>
    <3>1. replied'[<<u, v>>] = replied[<<u, v>>]
      BY <2>2, <2>3, <2>4
    <3>2. <<u, v>> \in denied' <=> <<u, v>> \in denied
      BY <1>6, <2>2, <2>4
    <3> QED BY <1>4, <3>1, <3>2, ReplyPersists
  <2>5. CASE u = UpdateOf[d] /\ v = w
    <3>1. Taken(Verdict(d, v))
      BY <1>0, <1>6, <2>1, <2>5 DEF Linked, Taken
    <3>2. \A e \in Deliveries : UpdateOf[e] = u /\ Taken(Verdict(e, v)) => e = d
      BY <2>5, <3>1, OneVerdict
    <3>3. replied'[<<u, v>>] = replied[<<u, v>>] + 1
      BY <2>2, <2>3, <2>5
    <3>4. send[Verdict(d, v)] \in Sending /\ send'[Verdict(d, v)] = s
      BY <1>0, <1>2, <1>6, <2>1, <2>5
    <3>5. /\ <<u, v>> \in denied => <<u, v>> \in denied'
          /\ \/ s \in Ended
             \/ send[Verdict(d, v)] = "markdown" /\ s = "plain" /\ <<u, v>> \in denied'
      BY <1>6, <2>1, <2>2, <2>5 DEF Ended
    <3> QED BY <2>5, <3>1, <3>2, <3>3, <3>4, <3>5, ReplyArrives
  <2> QED BY <2>4, <2>5
<1> QED BY <1>1, <1>5, <1>6

\* At most one reply per verdict is on its way when all are cancelled.
LEMMA CutArrives ==
  ASSUME TypeOK, AnswersInOrder, VerdictsExact, CutKind,
         NEW u \in Updates, NoOldVerdict(u), NEW v \in Verdicts, ReplyOf(u, v)
  PROVE  \/ replied'[<<u, v>>] = replied[<<u, v>>]
         \/ /\ replied'[<<u, v>>] = replied[<<u, v>>] + 1
            /\ \E d \in Deliveries : UpdateOf[d] = u /\ send[Verdict(d, v)] \in Sending
<1>0. /\ \A e \in Deliveries : Linked(e)
      /\ \A e \in Deliveries, w \in Verdicts : Verdict(e, w) \in Posts /\ Told(Verdict(e, w)) = <<UpdateOf[e], w>>
  BY Types, EventsTyped
<1>1. PICK arrived \in SUBSET {post \in Posts : send[post] \in Sending} :
        \A pair \in Updates \X Verdicts :
          replied'[pair] = replied[pair] + Cardinality({post \in arrived : Told(post) = pair})
  BY CutChanges
<1> DEFINE Mine == {post \in arrived : Told(post) = <<u, v>>}
<1>2. ASSUME NEW post \in Mine
      PROVE  /\ post[2] \in Deliveries /\ UpdateOf[post[2]] = u /\ post = Verdict(post[2], v)
             /\ Taken(Verdict(post[2], v)) /\ send[post] \in Sending
  <2>1. post \in Posts /\ send[post] \in Sending /\ Told(post) = <<u, v>>
    OBVIOUS
  <2>2. post[2] \in Deliveries /\ UpdateOf[post[2]] = u /\ post = Verdict(post[2], v)
    BY <2>1 DEF Posts, Told, Verdict
  <2> QED BY <1>0, <2>1, <2>2 DEF Linked, Taken
<1>3. replied'[<<u, v>>] = replied[<<u, v>>] + Cardinality(Mine)
  BY <1>1
<1> HIDE DEF Mine
<1>4. CASE Mine = {}
  <2>1. Cardinality(Mine) = 0
    BY <1>4, FS_EmptySet
  <2>2. replied[<<u, v>>] \in {0, 1, 2}
    BY DEF ReplyOf, SentFor
  <2> QED BY <1>3, <2>1, <2>2
<1>5. CASE Mine # {}
  <2>1. PICK post \in Mine : TRUE
    BY <1>5
  <2> DEFINE d == post[2]
  <2>2. d \in Deliveries /\ UpdateOf[d] = u /\ post = Verdict(d, v) /\ Taken(Verdict(d, v)) /\ send[post] \in Sending
    BY <1>2
  <2> HIDE DEF d
  <2>3. Mine = {post}
    <3>1. \A other \in Mine : other = Verdict(d, v)
      BY <1>2, <2>2, OneVerdict
    <3> QED BY <2>1, <2>2, <3>1
  <2>4. Cardinality(Mine) = 1
    BY <2>3, FS_Singleton
  <2> QED BY <1>3, <2>2, <2>4
<1> QED BY <1>4, <1>5

LEMMA CutReplies ==
  ASSUME TypeOK, AnswersInOrder, VerdictsExact, CutKind,
         \A x : Taken(x) => Taken(x)',
         NEW u \in Updates, NoOldVerdict(u), NEW v \in Verdicts, ReplyOf(u, v)
  PROVE  ReplyOf(u, v)'
<1>1. /\ denied' = denied
      /\ \A post \in Posts : send'[post] = IF send[post] \in Sending THEN "cut" ELSE send[post]
  BY CutChanges
<1>2. \A d \in Deliveries : /\ send'[Verdict(d, v)] = send[Verdict(d, v)] \/ send'[Verdict(d, v)] \in Ended
                            /\ send[Verdict(d, v)] \in Sending => send'[Verdict(d, v)] \in Ended
  BY <1>1, EventsTyped DEF Ended
<1>3. CASE replied'[<<u, v>>] = replied[<<u, v>>]
  BY <1>1, <1>2, <1>3, ReplyPersists
<1>4. CASE /\ replied'[<<u, v>>] = replied[<<u, v>>] + 1
           /\ \E d \in Deliveries : UpdateOf[d] = u /\ send[Verdict(d, v)] \in Sending
  <2>1. PICK d \in Deliveries : UpdateOf[d] = u /\ send[Verdict(d, v)] \in Sending
    BY <1>4
  <2>2. Taken(Verdict(d, v))
    BY <2>1, Types DEF Linked, Taken
  <2>3. \A e \in Deliveries : UpdateOf[e] = u /\ Taken(Verdict(e, v)) => e = d
    BY <2>1, <2>2, OneVerdict
  <2> QED BY <1>1, <1>2, <1>4, <2>1, <2>2, <2>3, ReplyArrives
<1> QED BY <1>3, <1>4, CutArrives

LEMMA RepliedStaysExact ==
  ASSUME TypeOK, AnswersInOrder, VerdictsExact, RepliedExact, [Next]_vars
  PROVE  RepliedExact'
<1>1. /\ backlog' = backlog /\ \A x : Taken(x) => Taken(x)'
  BY NextKinds, VerdictsTaken DEF bootVars
<1>2. RepliedExact' <=> \A u \in Updates : NoOldVerdict(u) => \A v \in Verdicts : ReplyOf(u, v)'
  BY <1>1 DEF RepliedExact, ReplyOf, NoOldVerdict, Verdict
<1> SUFFICES ASSUME NEW u \in Updates, NoOldVerdict(u), NEW v \in Verdicts
             PROVE  ReplyOf(u, v)'
  BY <1>2
<1>3. ReplyOf(u, v)
  BY ReplyExact
<1>4. ASSUME UNCHANGED chatVars, \A d \in Deliveries : send'[Verdict(d, v)] = send[Verdict(d, v)]
      PROVE  ReplyOf(u, v)'
  BY <1>1, <1>3, <1>4, ReplyPersists DEF chatVars
<1>5. ASSUME NEW d \in Deliveries, RequestKind(d)
      PROVE  ReplyOf(u, v)'
  <2>1. UNCHANGED chatVars /\ (send' = send \/ send' = [send EXCEPT ![Notice(d)] = "markdown"])
    BY <1>5 DEF RequestKind, chatVars
  <2>2. \A e \in Deliveries : Verdict(e, v) # Notice(d) /\ Verdict(e, v) \in Posts
    BY EventNames, EventsTyped
  <2>3. send \in [Posts -> Sendings]
    BY Types
  <2> QED BY <1>4, <2>1, <2>2, <2>3
<1>6. ASSUME NEW d \in Deliveries, HandlerKind(d)
      PROVE  ReplyOf(u, v)'
  BY <1>4, <1>6 DEF HandlerKind, chatVars
<1>7. CASE StageKind
  BY <1>4, <1>7 DEF StageKind, chatVars
<1> QED BY <1>1, <1>3, <1>5, <1>6, <1>7, NextKinds, PostReplies, CutReplies

LEMMA EndedStays ==
  ASSUME TypeOK, AnswersInOrder, EndedStaysEnded, [Next]_vars
  PROVE  EndedStaysEnded'
<1> DEFINE Over == stage = "aborted" \/ (durable /\ stage \in {"draining", "stopped"})
           Quiet == /\ \A d \in Deliveries : handler[d] \in Resting \cup {"cut"}
                    /\ \A post \in Posts : send[post] \notin Sending
<1>0. /\ durable' = durable /\ durable \in BOOLEAN
      /\ request \in [Deliveries -> Requests] /\ handler \in [Deliveries -> Handlings]
      /\ send \in [Posts -> Sendings] /\ \A e \in Deliveries : Linked(e)
      /\ \A d \in Deliveries : Notice(d) \in Posts
  BY NextKinds, Types, EventsTyped DEF bootVars
<1>1. /\ \A d \in Deliveries : request[d] = "notice" => stage \in {"up", "closing"}
      /\ Over => Quiet
      /\ ~durable /\ stage = "stopped" => owed = {}
  BY DEF EndedStaysEnded
<1>2. SUFFICES /\ \A d \in Deliveries : request'[d] = "notice" => stage' \in {"up", "closing"}
               /\ Over' => Quiet'
               /\ ~durable /\ stage' = "stopped" => owed' = {}
  BY <1>0 DEF EndedStaysEnded
<1>3. ASSUME NEW d \in Deliveries, RequestKind(d)
      PROVE  /\ \A e \in Deliveries : request'[e] = "notice" => stage' \in {"up", "closing"}
             /\ Over' => Quiet'
             /\ ~durable /\ stage' = "stopped" => owed' = {}
  <2>1. UNCHANGED <<stage, handler>>
    BY <1>3 DEF RequestKind
  <2>2. PICK r \in Requests \ {"new"} :
          /\ request' = [request EXCEPT ![d] = r]
          /\ \/ r # "notice" /\ UNCHANGED <<send, busVars>>
             \/ stage = "up"
    BY <1>3 DEF RequestKind
  <2>3. \A e \in Deliveries : request'[e] = IF e = d THEN r ELSE request[e]
    BY <1>0, <2>2
  <2>4. Over' <=> Over
    BY <1>0, <2>1
  <2>5. CASE r # "notice" /\ UNCHANGED <<send, busVars>>
    BY <1>1, <2>1, <2>3, <2>4, <2>5 DEF busVars
  <2>6. CASE stage = "up"
    BY <1>1, <2>1, <2>4, <2>6
  <2> QED BY <2>2, <2>5, <2>6
<1>4. ASSUME NEW d \in Deliveries, HandlerKind(d)
      PROVE  /\ \A e \in Deliveries : request'[e] = "notice" => stage' \in {"up", "closing"}
             /\ Over' => Quiet'
             /\ ~durable /\ stage' = "stopped" => owed' = {}
  <2>1. UNCHANGED <<stage, request, send>> /\ (Subscribed({"consuming"}) \/ handler[d] \notin Resting \cup {"cut"})
    BY <1>4 DEF HandlerKind
  <2>2. ~Over
    BY <1>1, <2>1 DEF Subscribed
  <2>3. ~(~durable /\ stage = "stopped")
    BY <1>0, <1>1, <2>1 DEF Subscribed, Linked
  <2> QED BY <1>0, <1>1, <2>1, <2>2, <2>3
<1>5. ASSUME NEW post \in Posts, PostKind(post)
      PROVE  /\ \A e \in Deliveries : request'[e] = "notice" => stage' \in {"up", "closing"}
             /\ Over' => Quiet'
             /\ ~durable /\ stage' = "stopped" => owed' = {}
  <2>1. UNCHANGED <<stage, request, handler>>
    BY <1>5 DEF PostKind
  <2>2. PICK s \in Sendings :
          /\ send' = [send EXCEPT ![post] = s]
          /\ \/ Subscribed({}) /\ UNCHANGED busVars
             \/ s \in {"skipped", "over"} /\ Leaves(post)
             \/ send[post] \in Sending /\ UNCHANGED busVars
    BY <1>5 DEF PostKind
  <2>3. Over' => Quiet'
    <3> SUFFICES ASSUME Over PROVE Quiet'
      BY <1>0, <2>1
    <3>1. Quiet /\ ~Subscribed({})
      BY <1>1 DEF Subscribed
    <3>2. s \notin Sending
      BY <2>2, <3>1 DEF Sending
    <3>3. \A p \in Posts : send'[p] = IF p = post THEN s ELSE send[p]
      BY <1>0, <2>2
    <3> QED BY <2>1, <3>1, <3>2, <3>3
  <2>4. ~durable /\ stage = "stopped" => owed' = {}
    BY <1>1, <2>2 DEF Subscribed, Leaves, busVars
  <2> QED BY <1>1, <2>1, <2>3, <2>4
<1>6. CASE StageKind
  <2>1. UNCHANGED <<request, handler, send, owed>>
    BY <1>6 DEF StageKind, busVars
  <2>2. /\ stage' \notin {"up", "closing"} => (stage' = stage \/ stage \notin {"up", "closing"} \/ NoRequests)
        /\ Over' => Over
        /\ ~durable /\ stage' = "stopped" => stage = "stopped" \/ owed = {}
    BY <1>0, <1>6 DEF StageKind
  <2> QED BY <1>1, <2>1, <2>2 DEF NoRequests
<1>7. CASE CutKind
  <2>1. /\ NoRequests /\ request' = request /\ (stage' = "aborted" \/ durable)
        /\ stage' # "stopped" \/ durable
    BY <1>7 DEF CutKind
  <2>2. Quiet'
    <3>1. handler' \in [Deliveries -> Resting \cup {"cut"}] /\ send' \in [Posts -> Sendings \ Sending]
      BY <1>7, CutChanges
    <3> QED BY <3>1
  <2> QED BY <2>1, <2>2 DEF NoRequests
<1> QED BY <1>3, <1>4, <1>5, <1>6, <1>7, NextKinds

LEMMA PartsAlways == Spec => []Parts
<1>1. Init => Parts
  BY PartsInitially
<1>2. Parts /\ [Next]_vars => Parts'
  <2> SUFFICES ASSUME Parts, [Next]_vars PROVE Parts'
    OBVIOUS
  <2>1. TypeOK /\ AnswersInOrder /\ NewUntouched /\ VerdictsExact /\ RepliedExact /\ EndedStaysEnded
    BY DEF Parts
  <2>2. TypeOK' /\ AnswersInOrder'
    BY <2>1, NextType, NextKinds
  <2>3. NewUntouched'
    BY <2>1, NewStaysUntouched
  <2>4. VerdictsExact'
    BY <2>1, VerdictsStayExact
  <2>5. RepliedExact'
    BY <2>1, RepliedStaysExact
  <2>6. EndedStaysEnded'
    BY <2>1, EndedStays
  <2> QED BY <2>2, <2>3, <2>4, <2>5, <2>6 DEF Parts
<1> QED BY <1>1, <1>2, PTL DEF Spec

-----------------------------------------------------------------------------
(* The theorems about the replies and the shutdown.                        *)

\* Whatever becomes of the requests to Telegram and Redis, each verdict of this
\* process reaches the chat at most once, or twice after a wrong error status;
\* and both only when Redis raised over an event that it took.
THEOREM AtMostOneReply == Spec => []OneReply
<1>1. Parts => OneReply
  <2> SUFFICES ASSUME Parts, NEW u \in Updates, NoOldVerdict(u)
               PROVE  /\ \A v \in Verdicts : replied[<<u, v>>] <= IF <<u, v>> \in denied THEN 2 ELSE 1
                      /\ (\A v \in Verdicts : replied[<<u, v>>] > 0) =>
                           durable /\ \E d \in Deliveries : {d} \X Verdicts \subseteq answers[u]
    BY DEF OneReply
  <2>0. TypeOK /\ AnswersInOrder /\ VerdictsExact /\ RepliedExact
    BY DEF Parts
  <2>1. \A v \in Verdicts : ReplyOf(u, v)
    BY <2>0, ReplyExact
  <2>2. ASSUME NEW v \in Verdicts
        PROVE  /\ replied[<<u, v>>] <= IF <<u, v>> \in denied THEN 2 ELSE 1
               /\ replied[<<u, v>>] > 0 => \E d \in Deliveries : UpdateOf[d] = u /\ Taken(Verdict(d, v))
    <3>1. CASE replied[<<u, v>>] = 0 /\ <<u, v>> \notin denied
      BY <3>1
    <3>2. CASE \E d \in Deliveries : /\ UpdateOf[d] = u /\ Taken(Verdict(d, v))
                                     /\ SentFor(d, v, replied[<<u, v>>])
      <4>1. PICK d \in Deliveries : /\ UpdateOf[d] = u /\ Taken(Verdict(d, v))
                                    /\ SentFor(d, v, replied[<<u, v>>])
        BY <3>2
      <4>2. replied[<<u, v>>] = 1 \/ (replied[<<u, v>>] = 2 /\ <<u, v>> \in denied)
        BY <4>1 DEF SentFor
      <4> QED BY <4>1, <4>2
    <3> QED BY <2>1, <3>1, <3>2 DEF ReplyOf
  <2>3. ASSUME \A v \in Verdicts : replied[<<u, v>>] > 0
        PROVE  durable /\ \E d \in Deliveries : {d} \X Verdicts \subseteq answers[u]
    <3>1. \A v \in Verdicts : \E d \in Deliveries : UpdateOf[d] = u /\ Taken(Verdict(d, v))
      BY <2>2, <2>3
    <3>2. PICK d \in Deliveries : UpdateOf[d] = u /\ Taken(Verdict(d, "completed"))
      BY <3>1 DEF Verdicts
    <3>3. PICK e \in Deliveries : UpdateOf[e] = u /\ Taken(Verdict(e, "failed"))
      BY <3>1 DEF Verdicts
    <3>4. d = e
      BY <2>0, <3>2, <3>3, OneVerdict DEF Verdicts
    <3>5. <<d, "completed">> \in answers[u] /\ <<d, "failed">> \in answers[u]
      BY <2>0, <3>2, <3>3, <3>4 DEF VerdictsExact, NoOldVerdict, Verdicts
    <3>6. {d} \X Verdicts \subseteq answers[u]
      BY <3>5 DEF Verdicts
    <3>7. durable
      <4>1. phase[u] \in {"unseen", "working", "completed", "failed"}
        BY <2>0 DEF TypeOK, Service!TypeOK, Service!Phase, Service!Verdict
      <4>2. /\ answers[u] # {} /\ (\E p \in answers[u] : p[2] = "completed")
            /\ \E p \in answers[u] : p[2] # "completed"
        BY <3>5
      <4>3. phase[u] = "failed"
        BY <2>0, <4>1, <4>2 DEF AnswersInOrder
      <4> QED BY <2>0, <4>2, <4>3 DEF AnswersInOrder
    <3> QED BY <3>6, <3>7
  <2> QED BY <2>2, <2>3
<1> QED BY <1>1, PartsAlways, PTL

\* The platform is well typed, and neither its stop nor its failure leaves a
\* request, a handler or a reply behind.
THEOREM StopLeavesNothing == Spec => []PlatformInv
<1>1. Parts => PlatformInv
  <2> SUFFICES ASSUME Parts PROVE TypeOK /\ StopIsClean
    BY DEF PlatformInv
  <2>0. TypeOK /\ EndedStaysEnded
    BY DEF Parts
  <2>1. ASSUME stage \in {"stopped", "aborted"}
        PROVE  /\ \A d \in Deliveries : request[d] # "notice" /\ handler[d] \in Resting \cup {"cut"}
               /\ \A post \in Posts : send[post] \notin Sending
    <3>1. \A d \in Deliveries : request[d] # "notice"
      BY <2>0, <2>1 DEF EndedStaysEnded
    <3>2. CASE durable \/ stage = "aborted"
      BY <2>0, <2>1, <3>1, <3>2 DEF EndedStaysEnded
    <3>3. CASE ~durable /\ stage = "stopped"
      <4>1. owed = {} /\ \A d \in Deliveries : Linked(d)
        BY <2>0, <3>3, Types DEF EndedStaysEnded
      <4>2. \A d \in Deliveries : handler[d] \in Resting \cup {"cut"}
        BY <4>1 DEF Linked
      <4>3. \A post \in Posts : send[post] \notin Sending
        BY <3>1, <4>1, PostNames DEF Linked
      <4> QED BY <3>1, <4>2, <4>3
    <3> QED BY <2>1, <3>2, <3>3
  <2> QED BY <2>0, <2>1 DEF StopIsClean
<1> QED BY <1>1, PartsAlways, PTL

-----------------------------------------------------------------------------
(* Implementation of ReplyService.                                         *)

\* What the mapped state depends on.
LEMMA MappedUnchanged ==
  /\ (\A d \in Deliveries : Taken(Message(d))' <=> Taken(Message(d))) => TakenUpdates' = TakenUpdates
  /\ answers' = answers => VerdictsOn' = VerdictsOn
  /\ UNCHANGED bootVars => \A u \in Updates : NoOldVerdict(u)' <=> NoOldVerdict(u)
  /\ UNCHANGED <<chatVars, bootVars>> => RepliesTo' = RepliesTo /\ DeniedTo' = DeniedTo
<1>1. ASSUME \A d \in Deliveries : Taken(Message(d))' <=> Taken(Message(d))
      PROVE  TakenUpdates' = TakenUpdates
  BY <1>1, Zenon DEF TakenUpdates
<1>2. answers' = answers => VerdictsOn' = VerdictsOn
  BY DEF VerdictsOn
<1>3. ASSUME UNCHANGED bootVars
      PROVE  \A u \in Updates : NoOldVerdict(u)' <=> NoOldVerdict(u)
  BY <1>3 DEF NoOldVerdict, bootVars, Verdict
<1>4. ASSUME UNCHANGED <<chatVars, bootVars>>
      PROVE  RepliesTo' = RepliesTo /\ DeniedTo' = DeniedTo
  <2>1. backlog' = backlog /\ UNCHANGED <<replied, denied>>
    BY <1>4 DEF chatVars, bootVars
  <2> QED BY <2>1 DEF RepliesTo, DeniedTo, NoOldVerdict, Verdict
<1> QED BY <1>1, <1>2, <1>3, <1>4

LEMMA TakenMessages ==
  ASSUME UNCHANGED busVars \/ (\E event : Leaves(event)) \/ \E e \in Deliveries, v \in Verdicts : Takes(Verdict(e, v))
  PROVE  TakenUpdates' = TakenUpdates
<1>1. \A d \in Deliveries, e \in Deliveries, v \in Verdicts : Message(d) # Verdict(e, v)
  BY EventNames
<1>2. \A d \in Deliveries : Taken(Message(d))' <=> Taken(Message(d))
  BY <1>1, TakenNext
<1> QED BY <1>2, MappedUnchanged

LEMMA RequestImplements ==
  ASSUME UNCHANGED bootVars, NEW e \in Deliveries, RequestKind(e)
  PROVE  Replies!Next \/ UNCHANGED Replies!vars
<1>1. /\ UNCHANGED <<stage, durable, answers, chatVars>>
      /\ UNCHANGED busVars \/ (Takes(Message(e)) /\ stage = "up")
  BY DEF RequestKind, serviceVars, bootVars
<1>2. VerdictsOn' = VerdictsOn /\ RepliesTo' = RepliesTo /\ DeniedTo' = DeniedTo
  BY <1>1, MappedUnchanged
<1>3. CASE UNCHANGED busVars
  <2>1. TakenUpdates' = TakenUpdates
    BY <1>3, TakenMessages
  <2> QED BY <1>1, <1>2, <2>1 DEF Replies!vars
<1>4. CASE Takes(Message(e)) /\ stage = "up"
  <2>1. \A d \in Deliveries : Taken(Message(d))' <=> Taken(Message(d)) \/ d = e
    BY <1>4, TakenNext, EventNames
  <2>2. UpdateOf[e] \in Updates
    BY PlatformAssumption
  <2>3. TakenUpdates' = TakenUpdates \cup {UpdateOf[e]}
    BY <2>1, <2>2 DEF TakenUpdates
  <2>4. Replies!Take(UpdateOf[e])
    BY <1>1, <1>2, <1>4, <2>3 DEF Replies!Take
  <2> QED BY <2>2, <2>4 DEF Replies!Next
<1> QED BY <1>1, <1>3, <1>4

\* No handler and no reply is at work after the end.
LEMMA Serving ==
  ASSUME TypeOK, EndedStaysEnded
  PROVE  /\ \A d \in Deliveries : handler[d] = "settled" => stage \notin {"stopped", "aborted"}
         /\ \A d \in Deliveries, v \in Verdicts :
              send[Verdict(d, v)] \in Sending => stage \notin {"stopped", "aborted"}
<1>0. /\ durable \in BOOLEAN /\ \A d \in Deliveries : Linked(d)
      /\ \A d \in Deliveries, v \in Verdicts : Verdict(d, v) \in Posts
  BY Types, EventsTyped
<1>1. ASSUME NEW d \in Deliveries, handler[d] = "settled"
      PROVE  stage \notin {"stopped", "aborted"}
  BY <1>0, <1>1 DEF EndedStaysEnded, Linked, Resting
<1>2. ASSUME NEW d \in Deliveries, NEW v \in Verdicts, send[Verdict(d, v)] \in Sending
      PROVE  stage \notin {"stopped", "aborted"}
  BY <1>0, <1>2 DEF EndedStaysEnded, Linked
<1> QED BY <1>1, <1>2

LEMMA HandlerImplements ==
  ASSUME Parts, UNCHANGED bootVars, NEW e \in Deliveries, HandlerKind(e)
  PROVE  Replies!Next \/ UNCHANGED Replies!vars
<1> DEFINE u == UpdateOf[e]
<1>0. /\ UNCHANGED <<stage, durable, chatVars>> /\ u \in Updates /\ TypeOK /\ EndedStaysEnded
      /\ answers \in [Updates -> SUBSET (Deliveries \X Service!Verdict)]
  BY PlatformAssumption DEF HandlerKind, Parts, bootVars, TypeOK, Service!TypeOK
<1>1. RepliesTo' = RepliesTo /\ DeniedTo' = DeniedTo
  BY <1>0, MappedUnchanged
<1>2. CASE answers' = answers /\ (UNCHANGED busVars \/ Leaves(Message(e)))
  <2>1. TakenUpdates' = TakenUpdates /\ VerdictsOn' = VerdictsOn
    BY <1>2, TakenMessages, MappedUnchanged
  <2> QED BY <1>0, <1>1, <2>1 DEF Replies!vars
<1>3. CASE \E v \in Verdicts : Answers(e, v)
  <2>1. PICK v \in Verdicts : Answers(e, v)
    BY <1>3
  <2>2. /\ handler[e] = "settled" /\ Takes(Verdict(e, v))
        /\ answers[u] = {} \/ (durable /\ answers[u] = {<<e, "completed">>} /\ v = "failed")
        /\ answers' = [answers EXCEPT ![u] = @ \cup {<<e, v>>}]
    BY <2>1 DEF Answers
  <2>3. TakenUpdates' = TakenUpdates
    BY <2>2, TakenMessages
  <2>4. stage \notin {"stopped", "aborted"}
    BY <1>0, <2>2, Serving
  <2>5. u \in TakenUpdates
    <3>1. Taken(Message(e))
      BY <1>0, <2>2, Types DEF Linked, Resting, Taken
    <3> QED BY <1>0, <3>1 DEF TakenUpdates
  <2> HIDE DEF u
  <2>6. VerdictsOn' = [VerdictsOn EXCEPT ![u] = @ \cup {v}]
    <3>1. \A x \in Updates : {p[2] : p \in answers'[x]} =
            IF x = u THEN {p[2] : p \in answers[x]} \cup {v} ELSE {p[2] : p \in answers[x]}
      <4> SUFFICES ASSUME NEW x \in Updates
                   PROVE  {p[2] : p \in answers'[x]} =
                            IF x = u THEN {p[2] : p \in answers[x]} \cup {v} ELSE {p[2] : p \in answers[x]}
        OBVIOUS
      <4>1. CASE x # u
        <5>1. answers'[x] = answers[x]
          BY <1>0, <2>2, <4>1
        <5> QED BY <4>1, <5>1
      <4>2. CASE x = u
        <5>1. answers'[x] = answers[x] \cup {<<e, v>>}
          BY <1>0, <2>2, <4>2
        <5>2. <<e, v>>[2] = v
          OBVIOUS
        <5>3. \A S, T : T = S \cup {<<e, v>>} => {p[2] : p \in T} = {p[2] : p \in S} \cup {<<e, v>>[2]}
          OBVIOUS
        <5> QED BY <4>2, <5>1, <5>2, <5>3
      <4> QED BY <4>1, <4>2
    <3>2. VerdictsOn' = [x \in Updates |-> {p[2] : p \in answers'[x]}]
      BY DEF VerdictsOn
    <3>3. \A x \in Updates : VerdictsOn[x] = {p[2] : p \in answers[x]}
      BY DEF VerdictsOn
    <3>4. VerdictsOn' = [x \in Updates |-> IF x = u THEN VerdictsOn[x] \cup {v} ELSE VerdictsOn[x]]
      BY <3>1, <3>2, <3>3
    <3>5. VerdictsOn = [x \in Updates |-> VerdictsOn[x]]
      BY DEF VerdictsOn
    <3> QED BY <3>4, <3>5
  <2>7. VerdictsOn[u] = {} \/ (durable /\ VerdictsOn[u] = {"completed"} /\ v = "failed")
    <3>1. VerdictsOn[u] = {p[2] : p \in answers[u]}
      BY <1>0 DEF VerdictsOn
    <3> QED BY <2>2, <3>1
  <2>8. Replies!Decide(u, v)
    BY <1>0, <1>1, <2>3, <2>4, <2>5, <2>6, <2>7 DEF Replies!Decide
  <2> QED BY <1>0, <2>8 DEF Replies!Next, Verdicts
<1> QED BY <1>2, <1>3 DEF HandlerKind

\* A reply on its way is that of a verdict that was given, and has not reached
\* the chat, or did so under an error status.
LEMMA MayArrive ==
  ASSUME Parts, NEW d \in Deliveries, NEW v \in Verdicts, NoOldVerdict(UpdateOf[d]),
         send[Verdict(d, v)] \in Sending
  PROVE  LET pair == <<UpdateOf[d], v>>
         IN  /\ pair \in Updates \X Verdicts /\ v \in VerdictsOn[UpdateOf[d]]
             /\ replied[pair] = 0 \/ (replied[pair] = 1 /\ pair \in denied)
<1> DEFINE u == UpdateOf[d]
<1>0. /\ u \in Updates /\ TypeOK /\ AnswersInOrder /\ VerdictsExact /\ RepliedExact
  BY PlatformAssumption DEF Parts
<1>1. Taken(Verdict(d, v))
  BY <1>0, Types DEF Linked, Taken
<1>2. v \in VerdictsOn[u]
  <2>1. <<d, v>> \in answers[u]
    BY <1>0, <1>1 DEF VerdictsExact, NoOldVerdict
  <2>2. <<d, v>>[2] = v
    OBVIOUS
  <2> QED BY <1>0, <2>1, <2>2 DEF VerdictsOn
<1>3. ReplyOf(u, v)
  BY <1>0, ReplyExact
<1>4. \A e \in Deliveries : UpdateOf[e] = u /\ Taken(Verdict(e, v)) => e = d
  BY <1>0, <1>1, OneVerdict
<1>5. replied[<<u, v>>] = 0 \/ SentFor(d, v, replied[<<u, v>>])
  BY <1>3, <1>4 DEF ReplyOf
<1>6. replied[<<u, v>>] = 0 \/ (replied[<<u, v>>] = 1 /\ <<u, v>> \in denied)
  BY <1>5 DEF SentFor, Sending
<1> QED BY <1>0, <1>2, <1>6

LEMMA PostImplements ==
  ASSUME Parts, UNCHANGED bootVars, NEW post \in Posts, PostKind(post)
  PROVE  Replies!Next \/ UNCHANGED Replies!vars
<1>0. /\ UNCHANGED <<stage, durable, answers>> /\ TypeOK /\ EndedStaysEnded /\ ChatTyped
  BY Types DEF PostKind, Parts, serviceVars, bootVars
<1>1. UNCHANGED busVars \/ Leaves(post)
  BY DEF PostKind
<1>2. TakenUpdates' = TakenUpdates /\ VerdictsOn' = VerdictsOn
  BY <1>0, <1>1, TakenMessages, MappedUnchanged
<1>3. CASE UNCHANGED chatVars
  <2>1. RepliesTo' = RepliesTo /\ DeniedTo' = DeniedTo
    BY <1>3, MappedUnchanged
  <2> QED BY <1>0, <1>2, <2>1 DEF Replies!vars
<1>4. CASE /\ send[post] \in Sending /\ post[1] # "notice"
           /\ replied' = [replied EXCEPT ![Told(post)] = @ + 1]
           /\ denied' = denied \/ denied' = denied \cup {Told(post)}
  <2>1. PICK d \in Deliveries, v \in Verdicts : post = Verdict(d, v)
    BY <1>4, PostNames
  <2> DEFINE u == UpdateOf[d]
             pair == <<u, v>>
  <2>2. Told(post) = pair /\ u \in Updates /\ pair \in Updates \X Verdicts
    BY <2>1, EventsTyped, PlatformAssumption
  <2>3. /\ \A q \in Updates \X Verdicts : replied'[q] = IF q = pair THEN replied[q] + 1 ELSE replied[q]
        /\ denied' = denied \/ denied' = denied \cup {pair}
    BY <1>0, <1>4, <2>2 DEF ChatTyped
  <2>4. \A x \in Updates : NoOldVerdict(x)' <=> NoOldVerdict(x)
    BY MappedUnchanged
  <2>5. denied \subseteq Updates \X Verdicts
    BY <1>0 DEF ChatTyped
  <2>6. stage \notin {"stopped", "aborted"}
    BY <1>0, <1>4, <2>1, Serving
  <2>7. CASE ~NoOldVerdict(u)
    <3>1. RepliesTo' = RepliesTo
      BY <2>2, <2>3, <2>4, <2>7 DEF RepliesTo
    <3>2. DeniedTo' = DeniedTo
      BY <2>2, <2>3, <2>4, <2>5, <2>7 DEF DeniedTo
    <3> QED BY <1>0, <1>2, <3>1, <3>2 DEF Replies!vars
  <2>8. CASE NoOldVerdict(u)
    <3>1. v \in VerdictsOn[u] /\ (replied[pair] = 0 \/ (replied[pair] = 1 /\ pair \in denied))
      BY <1>4, <2>1, <2>8, MayArrive
    <3>2. RepliesTo[pair] = replied[pair] /\ (pair \in denied => pair \in DeniedTo)
      BY <2>2, <2>8 DEF RepliesTo, DeniedTo
    <3>3. RepliesTo' = [q \in Updates \X Verdicts |-> IF q \in {pair} THEN RepliesTo[q] + 1 ELSE RepliesTo[q]]
      BY <2>2, <2>3, <2>4, <2>8 DEF RepliesTo
    <3>4. DeniedTo' = DeniedTo \cup {} \/ DeniedTo' = DeniedTo \cup {pair}
      BY <2>2, <2>3, <2>4, <2>5, <2>8 DEF DeniedTo
    <3>5. \E errors \in SUBSET {pair} : DeniedTo' = DeniedTo \cup errors
      BY <3>4
    <3>6. PICK errors \in SUBSET {pair} : DeniedTo' = DeniedTo \cup errors
      BY <3>5
    <3>7. pair \in Replies!Reply /\ Replies!Reply = Updates \X Verdicts
      BY <2>2 DEF Replies!Reply, Verdicts
    <3>8. Replies!Tell({pair}, errors)
      BY <1>0, <1>2, <2>6, <3>1, <3>2, <3>3, <3>6, <3>7 DEF Replies!Tell
    <3> QED BY <3>7, <3>8 DEF Replies!Next
  <2> QED BY <2>7, <2>8
<1> QED BY <1>3, <1>4 DEF PostKind

LEMMA CutImplements ==
  ASSUME Parts, UNCHANGED bootVars, CutKind
  PROVE  Replies!Next \/ UNCHANGED Replies!vars
<1>0. /\ UNCHANGED <<durable, answers, busVars>> /\ denied' = denied
      /\ stage \in {"answering", "closing"}
      /\ TypeOK /\ AnswersInOrder /\ VerdictsExact /\ RepliedExact
  BY CutChanges DEF CutKind, Parts, serviceVars, bootVars
<1>1. TakenUpdates' = TakenUpdates /\ VerdictsOn' = VerdictsOn
  BY <1>0, TakenMessages, MappedUnchanged
<1>2. /\ \A x \in Updates : NoOldVerdict(x)' <=> NoOldVerdict(x)
      /\ backlog' = backlog
  BY MappedUnchanged DEF bootVars
<1>3. DeniedTo' = DeniedTo
  BY <1>0, <1>2 DEF DeniedTo, NoOldVerdict, Verdict
<1> DEFINE rs == {q \in Updates \X Verdicts : NoOldVerdict(q[1]) /\ replied'[q] # replied[q]}
<1>4. ASSUME NEW q \in rs
      PROVE  /\ replied'[q] = replied[q] + 1 /\ q[2] \in VerdictsOn[q[1]]
             /\ RepliesTo[q] = replied[q]
             /\ RepliesTo[q] = 0 \/ (RepliesTo[q] = 1 /\ q \in DeniedTo)
  <2>1. PICK u \in Updates, v \in Verdicts : q = <<u, v>>
    OBVIOUS
  <2>2. NoOldVerdict(u) /\ replied'[<<u, v>>] # replied[<<u, v>>] /\ q[1] = u /\ q[2] = v
    BY <2>1
  <2>3. ReplyOf(u, v)
    BY <1>0, <2>2, ReplyExact
  <2>4. /\ replied'[<<u, v>>] = replied[<<u, v>>] + 1
        /\ \E d \in Deliveries : UpdateOf[d] = u /\ send[Verdict(d, v)] \in Sending
    BY <1>0, <2>2, <2>3, CutArrives
  <2>5. v \in VerdictsOn[u] /\ (replied[<<u, v>>] = 0 \/ (replied[<<u, v>>] = 1 /\ <<u, v>> \in denied))
    BY <2>2, <2>4, MayArrive
  <2>6. RepliesTo[q] = replied[q] /\ (q \in denied => q \in DeniedTo)
    BY <2>1, <2>2 DEF RepliesTo, DeniedTo
  <2> QED BY <2>1, <2>2, <2>4, <2>5, <2>6
<1>5. RepliesTo' = [q \in Updates \X Verdicts |-> IF q \in rs THEN RepliesTo[q] + 1 ELSE RepliesTo[q]]
  <2>1. RepliesTo' = [q \in Updates \X Verdicts |-> IF NoOldVerdict(q[1]) THEN replied'[q] ELSE 0]
    BY <1>2 DEF RepliesTo, NoOldVerdict, Verdict
  <2>2. ASSUME NEW q \in Updates \X Verdicts
        PROVE  (IF NoOldVerdict(q[1]) THEN replied'[q] ELSE 0) = IF q \in rs THEN RepliesTo[q] + 1 ELSE RepliesTo[q]
    <3>1. RepliesTo[q] = IF NoOldVerdict(q[1]) THEN replied[q] ELSE 0
      BY DEF RepliesTo
    <3>2. CASE q \in rs
      BY <1>4, <3>1, <3>2
    <3>3. CASE q \notin rs
      BY <3>1, <3>3
    <3> QED BY <3>2, <3>3
  <2> HIDE DEF rs
  <2> QED BY <2>1, <2>2
<1>6. rs \in SUBSET Replies!Reply /\ Replies!Reply = Updates \X Verdicts /\ {} \in SUBSET rs
  BY DEF Replies!Reply, Verdicts
<1> HIDE DEF rs
<1>7. DeniedTo' = DeniedTo \cup {}
  BY <1>3
<1>8. Replies!Tell(rs, {})
  BY <1>0, <1>1, <1>4, <1>5, <1>6, <1>7 DEF Replies!Tell
<1> QED BY <1>6, <1>8 DEF Replies!Next

LEMMA StageImplements ==
  ASSUME UNCHANGED bootVars, StageKind
  PROVE  Replies!Next \/ UNCHANGED Replies!vars
<1>1. UNCHANGED <<durable, answers, busVars, chatVars>>
  BY DEF StageKind, serviceVars, bootVars
<1>2. /\ TakenUpdates' = TakenUpdates /\ VerdictsOn' = VerdictsOn
      /\ RepliesTo' = RepliesTo /\ DeniedTo' = DeniedTo
  BY <1>1, TakenMessages, MappedUnchanged
<1>3. CASE stage' = "stopped"
  <2>1. Replies!Close
    BY <1>1, <1>2, <1>3 DEF Replies!Close
  <2> QED BY <2>1 DEF Replies!Next
<1>4. CASE stage' # "stopped"
  <2>1. stage' = stage \/ (stage \notin {"stopped", "aborted"} /\ stage' \notin {"stopped", "aborted"})
    BY <1>4 DEF StageKind
  <2>2. (stage' \notin {"stopped", "aborted"}) = (stage \notin {"stopped", "aborted"})
    BY <2>1
  <2> QED BY <1>1, <1>2, <2>2 DEF Replies!vars
<1> QED BY <1>3, <1>4

\* From the webhook to the chat, on either bus, with requests to Redis and to
\* Telegram that fail with or without effect, and through start and stop, each
\* step of the platform is a step of the promise or leaves it alone (app.py
\* 37-179, gateway.py 101-177, orchestrator.py 123-156, response_handler.py 33-62).
THEOREM PlatformImplementsReplies == Spec => ImplementsReplies
<1>1. Init => Replies!Init
  <2> SUFFICES ASSUME Init PROVE Replies!Init
    OBVIOUS
  <2>1. /\ stage = "starting" /\ replied = [pair \in Updates \X Verdicts |-> 0] /\ denied = {}
        /\ answers = [u \in Updates |-> {}] /\ durable \in BOOLEAN
    BY PlatformAssumption DEF Init, Service!Init
  <2>2. TakenUpdates \in SUBSET Updates
    BY DEF TakenUpdates
  <2>3. VerdictsOn = [u \in Updates |-> {}]
    BY <2>1 DEF VerdictsOn
  <2>4. RepliesTo = [r \in Replies!Reply |-> 0] /\ DeniedTo = {}
    <3>1. Replies!Reply = Updates \X Verdicts
      BY DEF Replies!Reply, Verdicts
    <3> QED BY <2>1, <3>1 DEF RepliesTo, DeniedTo
  <2> QED BY <2>1, <2>2, <2>3, <2>4 DEF Replies!Init
<1>2. ASSUME Parts, [Next]_vars PROVE [Replies!Next]_(Replies!vars)
  <2>1. /\ UNCHANGED bootVars
        /\ \/ \E d \in Deliveries : RequestKind(d) \/ HandlerKind(d)
           \/ \E post \in Posts : PostKind(post)
           \/ StageKind
           \/ CutKind
    BY <1>2, NextKinds DEF Parts
  <2> QED BY <1>2, <2>1, RequestImplements, HandlerImplements, PostImplements, CutImplements, StageImplements
<1> QED BY <1>1, <1>2, PartsAlways, PTL DEF Spec, ImplementsReplies, Replies!Spec

-----------------------------------------------------------------------------
(* The rate limiter.                                                       *)

\* A set of positions that has with each position those before it is an interval.
LEMMA Beginnings ==
  ASSUME NEW n \in Nat, NEW T \in SUBSET (1..n),
         \A i, j \in 1..n : i <= j /\ j \in T => i \in T
  PROVE  \E m \in 0..n : T = 1..m
<1> DEFINE m == Cardinality(T)
<1>1. \A a, b \in Int : IsFiniteSet(a..b) /\ Cardinality(a..b) = IF a > b THEN 0 ELSE b - a + 1
  BY FS_Interval
<1>2. IsFiniteSet(1..n) /\ Cardinality(1..n) = n
  BY <1>1
<1>3. IsFiniteSet(T) /\ m \in Nat /\ m <= n
  BY <1>2, FS_Subset, FS_CardinalityType
<1>4. ASSUME NEW i \in T PROVE i <= m
  <2>1. 1..i \subseteq T
    OBVIOUS
  <2>2. Cardinality(1..i) = i
    BY <1>1
  <2>3. Cardinality(1..i) <= Cardinality(T)
    BY <1>3, <2>1, FS_Subset
  <2> QED BY <2>2, <2>3
<1>5. ASSUME NEW i \in 1..m PROVE i \in T
  <2> SUFFICES ASSUME i \notin T PROVE FALSE
    OBVIOUS
  <2>1. T \subseteq 1..(i - 1)
    BY <1>3
  <2>2. IsFiniteSet(1..(i - 1)) /\ Cardinality(1..(i - 1)) = i - 1
    <3>1. i - 1 \in Int /\ 1 \in Int /\ (1 > i - 1 => i - 1 = 0)
      BY <1>3
    <3>2. IsFiniteSet(1..(i - 1)) /\ Cardinality(1..(i - 1)) = IF 1 > i - 1 THEN 0 ELSE (i - 1) - 1 + 1
      BY <1>1, <3>1
    <3> QED BY <3>1, <3>2
  <2>3. Cardinality(T) <= Cardinality(1..(i - 1))
    BY <2>1, <2>2, FS_Subset
  <2> QED BY <1>3, <2>2, <2>3
<1>6. T = 1..m
  <2>1. \A x \in T : x \in 1..n /\ x <= m
    BY <1>4
  <2> HIDE DEF m
  <2>2. \A x \in T : x \in 1..m
    BY <1>3, <2>1
  <2>3. \A x \in 1..m : x \in T
    BY <1>5
  <2> QED BY <2>2, <2>3
<1> QED BY <1>3, <1>6

\* What the filter keeps is the end of the history, and what it has dropped by
\* now is expired.
LEMMA FreshSound ==
  ASSUME WindowsSound, NEW k \in Chats
  PROVE  /\ Fresh(k) \in Seq(Nat) /\ Len(Fresh(k)) <= Len(admitted[k])
         /\ \A i \in 1..Len(Fresh(k)) :
              /\ Fresh(k)[i] = admitted[k][Len(admitted[k]) - Len(Fresh(k)) + i]
              /\ Fresh(k)[i] > now - Window
         /\ \A i \in 1..(Len(admitted[k]) - Len(Fresh(k))) : admitted[k][i] <= now - Window
<1> DEFINE w == windows[k]
           a == admitted[k]
           cutoff == now - Window
           n == Expired(k, cutoff)
           d == Dropped(k)
<1>1. /\ w \in Seq(Nat) /\ a \in Seq(Nat) /\ cutoff \in Int
      /\ Len(w) \in Nat /\ Len(a) \in Nat
      /\ d \in Nat /\ d = Len(a) - Len(w)
      /\ \A i, j \in 1..Len(a) : i <= j => a[i] <= a[j]
      /\ \A i \in 1..Len(w) : w[i] = a[d + i]
      /\ \A i \in 1..d : a[i] <= cutoff
  BY LimiterAssumption DEF WindowsSound, Dropped
<1> DEFINE T == {i \in 1..Len(w) : ~(w[i] > cutoff)}
<1>2. \E m \in 0..Len(w) : T = 1..m
  <2>1. \A i, j \in 1..Len(w) : i <= j => w[i] <= w[j]
    <3> SUFFICES ASSUME NEW i \in 1..Len(w), NEW j \in 1..Len(w), i <= j
                 PROVE  w[i] <= w[j]
      OBVIOUS
    <3> HIDE DEF w, a, cutoff, n, d
    <3>1. d + i \in 1..Len(a) /\ d + j \in 1..Len(a) /\ d + i <= d + j
      BY <1>1
    <3>2. w[i] = a[d + i] /\ w[j] = a[d + j] /\ a[d + i] <= a[d + j]
      BY <1>1, <3>1
    <3> QED BY <3>2
  <2>2. \A i \in 1..Len(w) : w[i] \in Nat
    BY <1>1
  <2>3. ASSUME NEW i \in 1..Len(w), NEW j \in 1..Len(w), i <= j, j \in T
        PROVE  i \in T
    <3>1. w[i] <= w[j] /\ w[i] \in Nat /\ w[j] \in Nat
      BY <2>1, <2>2, <2>3
    <3>2. ~(w[j] > cutoff) /\ cutoff \in Int
      BY <1>1, <2>3
    <3> HIDE DEF w, cutoff
    <3>3. ~(w[i] > cutoff)
      BY <3>1, <3>2
    <3> QED BY <3>3
  <2>4. T \in SUBSET (1..Len(w))
    OBVIOUS
  <2> HIDE DEF T, w
  <2> QED BY <1>1, <2>3, <2>4, Beginnings
<1>3. \E m \in 0..Len(w) : \A i \in 1..Len(w) : w[i] > cutoff <=> i > m
  <2>1. PICK m \in 0..Len(w) : T = 1..m
    BY <1>2
  <2>2. ASSUME NEW i \in 1..Len(w) PROVE w[i] > cutoff <=> i > m
    <3>1. i \in T <=> i \in 1..m
      BY <2>1
    <3>2. i \in T <=> ~(w[i] > cutoff)
      OBVIOUS
    <3>3. i \in 1..m <=> ~(i > m)
      BY <1>1
    <3> QED BY <3>1, <3>2, <3>3
  <2> QED BY <2>2
<1>4. n \in 0..Len(w) /\ \A i \in 1..Len(w) : w[i] > cutoff <=> i > n
  BY <1>3 DEF Expired
<1>5. Fresh(k) = SubSeq(w, n + 1, Len(w))
  BY DEF Fresh, LastFrom
<1> DEFINE f == Fresh(k)
<1> HIDE DEF n, w, a, cutoff, d, f
<1>6. /\ SubSeq(w, n + 1, Len(w)) \in Seq(Nat) /\ Len(SubSeq(w, n + 1, Len(w))) = Len(w) - n
      /\ \A i \in 1..(Len(w) - n) : SubSeq(w, n + 1, Len(w))[i] = w[n + i]
  BY <1>1, <1>4
<1>7. /\ f \in Seq(Nat) /\ Len(f) = Len(w) - n /\ Len(f) \in Nat
      /\ \A i \in 1..Len(f) : f[i] = w[n + i]
  <2>1. f = SubSeq(w, n + 1, Len(w))
    BY <1>5 DEF f
  <2>2. f \in Seq(Nat) /\ Len(f) = Len(w) - n /\ \A i \in 1..(Len(w) - n) : f[i] = w[n + i]
    BY <1>6, <2>1
  <2>3. Len(f) \in Nat
    BY <2>2
  <2> QED BY <2>2, <2>3
<1>8. ASSUME NEW i \in 1..Len(f)
      PROVE  f[i] = a[Len(a) - Len(f) + i] /\ f[i] > cutoff
  <2>1. n + i \in 1..Len(w) /\ n + i > n
    BY <1>1, <1>4, <1>7
  <2>2. f[i] = w[n + i] /\ w[n + i] > cutoff /\ w[n + i] = a[d + (n + i)]
    BY <1>1, <1>4, <1>7, <2>1
  <2>3. d + (n + i) = Len(a) - Len(f) + i
    BY <1>1, <1>4, <1>7
  <2> QED BY <2>2, <2>3
<1>9. ASSUME NEW i \in 1..(Len(a) - Len(f))
      PROVE  a[i] <= cutoff
  <2>1. CASE i <= d
    BY <1>1, <2>1
  <2>2. CASE i > d
    <3>1. i - d \in 1..Len(w) /\ ~(i - d > n) /\ d + (i - d) = i
      BY <1>1, <1>4, <1>7, <2>2
    <3>2. ~(w[i - d] > cutoff) /\ w[i - d] = a[i]
      BY <1>1, <1>4, <3>1
    <3>3. w[i - d] \in Nat
      BY <1>1, <3>1
    <3> QED BY <1>1, <3>2, <3>3
  <2> QED BY <1>1, <2>1, <2>2
<1>10. Len(f) <= Len(a)
  BY <1>1, <1>4, <1>7
<1> QED BY <1>7, <1>8, <1>9, <1>10 DEF f, a, cutoff

\* One call of allow appends at most one time, and only to a window with room.
LEMMA LimiterStep ==
  ASSUME WindowsSound, NEW c \in Chats, Admit(c) \/ Reject(c)
  PROVE  WindowsSound'
<1>0. /\ now' = now /\ now \in Nat /\ MaxRequests \in Nat /\ Window \in Nat
      /\ windows \in [Chats -> Seq(Nat)] /\ admitted \in [Chats -> Seq(Nat)]
  BY LimiterAssumption DEF WindowsSound, Admit, Reject
<1> DEFINE f == Fresh(c)
<1>1. /\ f \in Seq(Nat) /\ Len(f) <= Len(admitted[c])
      /\ \A i \in 1..Len(f) : f[i] = admitted[c][Len(admitted[c]) - Len(f) + i]
      /\ \A i \in 1..(Len(admitted[c]) - Len(f)) : admitted[c][i] <= now - Window
  BY FreshSound
<1>2. \/ windows' = [windows EXCEPT ![c] = f] /\ admitted' = admitted
      \/ /\ windows' = [windows EXCEPT ![c] = Append(f, now)] /\ Len(f) < MaxRequests
         /\ admitted' = [admitted EXCEPT ![c] = Append(admitted[c], now)]
  BY <1>0 DEF Admit, Reject
<1> HIDE DEF f
<1>3. windows' \in [Chats -> Seq(Nat)] /\ admitted' \in [Chats -> Seq(Nat)]
  <2>1. f \in Seq(Nat) /\ Append(f, now) \in Seq(Nat) /\ Append(admitted[c], now) \in Seq(Nat)
    BY <1>0, <1>1
  <2> HIDE DEF f
  <2> QED BY <1>0, <1>2, <2>1
<1> DEFINE Sound(w, a) ==
             /\ \A i, j \in 1..Len(a) : i <= j => a[i] <= a[j]
             /\ \A i \in 1..Len(a) : a[i] <= now
             /\ Len(a) - Len(w) \in Nat
             /\ \A i \in 1..Len(w) : w[i] = a[Len(a) - Len(w) + i]
             /\ \A i \in 1..(Len(a) - Len(w)) : a[i] <= now - Window
             /\ \A i \in 1..Len(a) - MaxRequests : a[i + MaxRequests] - a[i] >= Window
<1>4. \A k \in Chats : Sound(windows[k], admitted[k])
  BY DEF WindowsSound, Dropped
<1>5. Sound(f, admitted[c])
  BY <1>0, <1>1, <1>4
<1>6. ASSUME Len(f) < MaxRequests
      PROVE  Sound(Append(f, now), Append(admitted[c], now))
  <2> DEFINE a == admitted[c]
             b == Append(a, now)
             g == Append(f, now)
  <2>1. /\ a \in Seq(Nat) /\ Len(a) \in Nat /\ Len(f) \in Nat
        /\ Len(b) = Len(a) + 1 /\ b[Len(a) + 1] = now /\ \A i \in 1..Len(a) : b[i] = a[i]
        /\ Len(g) = Len(f) + 1 /\ g[Len(f) + 1] = now /\ \A i \in 1..Len(f) : g[i] = f[i]
    BY <1>0, <1>1
  <2>2. Sound(f, a) /\ \A i \in 1..Len(a) : a[i] \in Nat
    BY <1>5, <2>1
  <2> HIDE DEF a, b, g
  <2>3. (\A i, j \in 1..Len(b) : i <= j => b[i] <= b[j]) /\ (\A i \in 1..Len(b) : b[i] <= now)
    <3>1. \A i \in 1..Len(a) : a[i] <= now
      BY <2>2
    <3>2. \A i, j \in 1..Len(a) : i <= j => a[i] <= a[j]
      BY <2>2
    <3> HIDE DEF Sound
    <3>3. ASSUME NEW i \in 1..Len(b) PROVE b[i] <= now
      <4>1. i = Len(a) + 1 \/ i \in 1..Len(a)
        BY <2>1
      <4>2. CASE i = Len(a) + 1
        <5>1. b[i] = now
          BY <2>1, <4>2
        <5> QED BY <1>0, <5>1
      <4>3. CASE i \in 1..Len(a)
        BY <2>1, <3>1, <4>3
      <4> QED BY <4>1, <4>2, <4>3
    <3>4. ASSUME NEW i \in 1..Len(b), NEW j \in 1..Len(b), i <= j PROVE b[i] <= b[j]
      <4>1. CASE j = Len(a) + 1
        BY <2>1, <3>3, <4>1
      <4>2. CASE j # Len(a) + 1
        <5>1. i \in 1..Len(a) /\ j \in 1..Len(a)
          BY <2>1, <3>4, <4>2
        <5> QED BY <2>1, <3>2, <3>4, <5>1
      <4> QED BY <4>1, <4>2
    <3> QED BY <3>3, <3>4
  <2>4. Len(b) - Len(g) = Len(a) - Len(f) /\ Len(b) - Len(g) \in Nat
    BY <2>1, <2>2
  <2>5. ASSUME NEW i \in 1..Len(g) PROVE g[i] = b[Len(b) - Len(g) + i]
    <3>1. CASE i = Len(f) + 1
      BY <2>1, <2>4, <3>1
    <3>2. CASE i \in 1..Len(f)
      <4>1. g[i] = f[i] /\ f[i] = a[Len(a) - Len(f) + i] /\ Len(a) - Len(f) + i \in 1..Len(a)
        BY <2>1, <2>2, <2>4, <3>2
      <4> QED BY <2>1, <2>4, <4>1
    <3> QED BY <2>1, <3>1, <3>2
  <2>6. ASSUME NEW i \in 1..(Len(b) - Len(g)) PROVE b[i] <= now - Window
    <3>1. i \in 1..(Len(a) - Len(f)) /\ i \in 1..Len(a)
      BY <2>1, <2>4
    <3>2. a[i] <= now - Window
      BY <2>2, <3>1
    <3> QED BY <2>1, <3>1, <3>2
  <2>7. ASSUME NEW i \in 1..Len(b) - MaxRequests PROVE b[i + MaxRequests] - b[i] >= Window
    <3>1. CASE i + MaxRequests = Len(a) + 1
      <4>1. i \in 1..(Len(a) - Len(f)) /\ i \in 1..Len(a)
        BY <1>0, <1>6, <2>1, <3>1
      <4>2. a[i] <= now - Window /\ a[i] \in Nat
        BY <2>2, <4>1
      <4>3. b[i] = a[i] /\ b[i + MaxRequests] = now
        BY <2>1, <3>1, <4>1
      <4> QED BY <1>0, <4>2, <4>3
    <3>2. CASE i + MaxRequests # Len(a) + 1
      <4>1. i \in 1..Len(a) - MaxRequests /\ i \in 1..Len(a) /\ i + MaxRequests \in 1..Len(a)
        BY <1>0, <2>1, <3>2
      <4>2. b[i] = a[i] /\ b[i + MaxRequests] = a[i + MaxRequests]
        BY <2>1, <4>1
      <4> QED BY <2>2, <4>1, <4>2
    <3> QED BY <3>1, <3>2
  <2> QED BY <2>3, <2>4, <2>5, <2>6, <2>7 DEF a, b, g
<1>7. ASSUME NEW k \in Chats PROVE Sound(windows'[k], admitted'[k])
  <2>1. CASE k # c
    <3>1. windows'[k] = windows[k] /\ admitted'[k] = admitted[k]
      BY <1>0, <1>2, <2>1
    <3> HIDE DEF Sound
    <3> QED BY <1>4, <3>1
  <2>2. CASE k = c
    <3>1. \/ windows'[k] = f /\ admitted'[k] = admitted[c]
          \/ windows'[k] = Append(f, now) /\ admitted'[k] = Append(admitted[c], now) /\ Len(f) < MaxRequests
      BY <1>0, <1>2, <2>2
    <3> HIDE DEF Sound
    <3> QED BY <1>5, <1>6, <3>1
  <2> QED BY <2>1, <2>2
<1> QED BY <1>0, <1>3, <1>7 DEF WindowsSound, Dropped

LEMMA ClockStep ==
  ASSUME WindowsSound, Tick \/ UNCHANGED limiterVars
  PROVE  WindowsSound'
<1>1. CASE UNCHANGED limiterVars
  BY <1>1 DEF WindowsSound, Dropped, limiterVars
<1>2. CASE Tick
  <2>1. /\ now' = now + 1 /\ windows' = windows /\ admitted' = admitted /\ now \in Nat
        /\ windows \in [Chats -> Seq(Nat)] /\ admitted \in [Chats -> Seq(Nat)] /\ Window \in Nat
    BY <1>2, LimiterAssumption DEF Tick, WindowsSound
  <2>2. ASSUME NEW k \in Chats
        PROVE  /\ \A i \in 1..Len(admitted[k]) : admitted[k][i] <= now + 1
               /\ \A i \in 1..Dropped(k) : admitted[k][i] <= now + 1 - Window
    <3>1. /\ \A i \in 1..Len(admitted[k]) : admitted[k][i] \in Nat
          /\ Len(admitted[k]) \in Nat /\ Len(windows[k]) \in Nat /\ Dropped(k) \in Nat
          /\ Dropped(k) = Len(admitted[k]) - Len(windows[k])
      BY <2>1 DEF WindowsSound, Dropped
    <3>2. \A i \in 1..Dropped(k) : i \in 1..Len(admitted[k])
      BY <3>1
    <3>3. /\ \A i \in 1..Len(admitted[k]) : admitted[k][i] <= now
          /\ \A i \in 1..Dropped(k) : admitted[k][i] <= now - Window
      BY DEF WindowsSound
    <3>4. ASSUME NEW i \in 1..Len(admitted[k])
          PROVE  admitted[k][i] <= now + 1
      <4> DEFINE t == admitted[k][i]
      <4>1. t \in Nat /\ t <= now
        BY <3>1, <3>3
      <4> HIDE DEF t
      <4>2. t <= now + 1
        BY <2>1, <4>1
      <4> QED BY <4>2 DEF t
    <3>5. ASSUME NEW i \in 1..Dropped(k)
          PROVE  admitted[k][i] <= now + 1 - Window
      <4> DEFINE t == admitted[k][i]
      <4>1. t \in Nat /\ t <= now - Window
        BY <3>1, <3>2, <3>3
      <4> HIDE DEF t
      <4>2. t <= now + 1 - Window
        BY <2>1, <4>1
      <4> QED BY <4>2 DEF t
    <3> QED BY <3>4, <3>5
  <2> QED BY <2>1, <2>2 DEF WindowsSound, Dropped
<1> QED BY <1>1, <1>2

LEMMA LimiterAlways == Spec => []WindowsSound
<1>1. Init => WindowsSound
  BY LimiterAssumption DEF Init, LimiterInit, WindowsSound, Dropped
<1>2. ASSUME WindowsSound, [Next]_vars PROVE WindowsSound'
  <2>1. ASSUME NEW d \in Deliveries PROVE Chat(d) \in Chats
    BY PlatformAssumption DEF Chat
  <2>2. CASE UNCHANGED vars
    BY <1>2, <2>2, ClockStep DEF vars, limiterVars
  <2>3. ASSUME NEW d \in Deliveries, RequestStep(d)
        PROVE  WindowsSound'
    BY <1>2, <2>1, <2>3, LimiterStep, ClockStep DEF RequestStep, Ignore, Ingest, IngestFails, Limit
  <2>4. ASSUME NEW d \in Deliveries, EndNotice(d) \/ HandlerStep(d)
        PROVE  UNCHANGED limiterVars
    BY <2>4 DEF EndNotice, HandlerStep, TakeMessage, SkipDuplicate, Work, PublishVerdict, CompletedRaises,
                FailedRaises, HandlerReturns, HandlerRaises
  <2>5. ASSUME NEW d \in Deliveries, NEW v \in Verdicts, BeginReply(d, v) \/ NoReply(d, v) \/ EndReply(d, v)
        PROVE  UNCHANGED limiterVars
    BY <2>5 DEF BeginReply, NoReply, EndReply
  <2>6. ASSUME NEW post \in Posts, SendStep(post)
        PROVE  UNCHANGED limiterVars
    BY <2>6 DEF SendStep, SendSucceeds, SendRejected, SendFails
  <2>7. CASE DeliveryStep
    BY <1>2, <2>4, <2>5, <2>6, <2>7, ClockStep DEF DeliveryStep
  <2>8. CASE Starts \/ Signal \/ StopBus \/ CancelLoops \/ Stopped \/ Abort
    <3>1. UNCHANGED limiterVars
      BY <2>8 DEF Starts, Signal, StopBus, CancelLoops, Stopped, Abort, Stage
    <3> QED BY <1>2, <3>1, ClockStep
  <2>9. CASE Clock
    BY <1>2, <2>9, ClockStep DEF Clock
  <2> QED BY <1>2, <2>2, <2>3, <2>7, <2>8, <2>9 DEF Next, Step
<1> QED BY <1>1, <1>2, PTL DEF Spec

\* rate_limiter.py 21-33, for any limit, any window and any number of requests:
\* no stretch of the window's length sees more of a chat let through than the
\* limit, and a request is refused only when the window is really full.
THEOREM LimiterIsExact == Spec => []LimiterExact
<1>1. ASSUME WindowsSound PROVE LimiterExact
  <2> SUFFICES ASSUME NEW k \in Chats, Len(Fresh(k)) >= MaxRequests
               PROVE  /\ Len(admitted[k]) >= MaxRequests
                      /\ MaxRequests > 0 =>
                           now - admitted[k][Len(admitted[k]) - MaxRequests + 1] < Window
    BY <1>1 DEF LimiterExact, WindowsSound
  <2>1. /\ MaxRequests \in Nat /\ Window \in Nat /\ now \in Nat
        /\ Len(Fresh(k)) \in Nat /\ Len(admitted[k]) \in Nat /\ Len(Fresh(k)) <= Len(admitted[k])
        /\ \A i \in 1..Len(Fresh(k)) :
              /\ Fresh(k)[i] = admitted[k][Len(admitted[k]) - Len(Fresh(k)) + i]
              /\ Fresh(k)[i] > now - Window
        /\ \A i \in 1..Len(Fresh(k)) : Fresh(k)[i] \in Nat
    BY <1>1, FreshSound, LimiterAssumption DEF WindowsSound
  <2>2. Len(admitted[k]) >= MaxRequests
    BY <2>1
  <2>3. ASSUME MaxRequests > 0
        PROVE  now - admitted[k][Len(admitted[k]) - MaxRequests + 1] < Window
    <3> DEFINE i == Len(Fresh(k)) - MaxRequests + 1
    <3>1. i \in 1..Len(Fresh(k)) /\ Len(admitted[k]) - Len(Fresh(k)) + i = Len(admitted[k]) - MaxRequests + 1
      <4>1. /\ MaxRequests \in Nat /\ Len(Fresh(k)) \in Nat /\ Len(admitted[k]) \in Nat
            /\ MaxRequests > 0 /\ Len(Fresh(k)) >= MaxRequests
        BY <2>1, <2>3
      <4>2. \A x, y, z \in Nat : x > 0 /\ y >= x =>
              y - x + 1 \in 1..y /\ z - y + (y - x + 1) = z - x + 1
        OBVIOUS
      <4> QED BY <4>1, <4>2
    <3>2. Fresh(k)[i] = admitted[k][Len(admitted[k]) - MaxRequests + 1] /\ Fresh(k)[i] > now - Window
      BY <2>1, <3>1
    <3>3. Fresh(k)[i] \in Nat
      BY <2>1, <3>1
    <3> QED BY <2>1, <3>2, <3>3
  <2> QED BY <2>2, <2>3
<1> QED BY <1>1, LimiterAlways, PTL
=============================================================================
