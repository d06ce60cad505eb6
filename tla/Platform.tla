------------------------------ MODULE Platform ------------------------------
(***************************************************************************)
(* src/vclaw/app.py and the path of a message through it: the webhook      *)
(* (api/webhook.py), the gateway (telegram/gateway.py) with its rate       *)
(* limiter, the bus, the orchestrator, the response handler                *)
(* (api/response_handler.py) and back to the gateway, with start and stop. *)
(*                                                                         *)
(* The bus appears as its contract EventBus, which InMemoryBus and         *)
(* RedisBus implement, and the orchestrator as MessageService, which       *)
(* Orchestrator implements: their steps are taken from those modules.  On  *)
(* Redis a former process may have left events; the state store is new.    *)
(* A publish on Redis may raise, whether or not the event was taken; on    *)
(* the in-memory bus it never does.                                        *)
(***************************************************************************)
EXTENDS RateLimiter, FiniteSets

CONSTANTS Updates,    \* Telegram updates; update_id is the idempotency key
          Deliveries, \* webhook requests: Telegram may repeat an update
          UpdateOf, ChatOf,
          NoChat,     \* the empty chat id
          Unread,     \* bound: those whose event a former process may have left
          Odd,        \* bound: updates that may be no message, or without a chat
          Backends    \* bound: is the bus Redis, or in memory, or either?

ASSUME PlatformAssumption ==
  /\ UpdateOf \in [Deliveries -> Updates]
  /\ ChatOf \in [Updates -> Chats]
  /\ NoChat \in Chats
  /\ Unread \subseteq Deliveries
  /\ Odd \subseteq Updates
  /\ Backends \subseteq BOOLEAN

VARIABLES
  durable,  \* event_bus_backend is REDIS
  backlog,  \* the unread events of a former process
  chatless, \* updates whose chat id is empty: a callback without its message
  stage,    \* of the platform: start, run and stop of app.py
  request,  \* process_update of each delivery
  handler,  \* _handle_message of each delivery
  send,     \* send_message: the notices, and the replies to the verdicts
  replied,  \* history: replies that reached the chat, per update and verdict
  denied,   \* history: replies that reached it under an error status
  phase, answers,       \* of MessageService
  owed, handled, dead   \* of EventBus

serviceVars == <<phase, answers>>
busVars == <<owed, handled, dead>>
bootVars == <<durable, backlog, chatless>>
chatVars == <<replied, denied>>
vars == <<limiterVars, bootVars, stage, request, handler, send, chatVars, serviceVars, busVars>>

Verdicts == {"completed", "failed"}

\* The events of a delivery, and what is sent to a chat: the notice that it is
\* over the limit, or the reply to a verdict.
Message(d) == <<"message", d>>
Verdict(d, v) == <<v, d>>
Notice(d) == <<"notice", d>>
Posts == ({"notice"} \cup Verdicts) \X Deliveries
Told(post) == <<UpdateOf[post[2]], post[1]>>

\* On the in-memory bus Retract is never taken.
Service == INSTANCE MessageService WITH Keys <- Updates, Handlers <- Deliveries, Raises <- TRUE

Bus == INSTANCE EventBus WITH Events <- ({"message"} \cup Verdicts) \X Deliveries,
                              Handlers <- {"handler"}

ToHandler(event) == <<event, "handler">>

\* publish of the in-memory bus looks at its flag, that of the Redis bus does not.
Running == durable \/ stage \in {"starting", "consuming", "answering", "up", "closing"}

Sending == {"markdown", "plain"}

Resting == {"none", "done", "raised"}

TypeOK ==
  /\ durable \in BOOLEAN
  /\ backlog \subseteq ({"message"} \cup Verdicts) \X Unread
  /\ chatless \subseteq Odd
  /\ stage \in {"starting", "consuming", "answering", "up", "closing", "draining", "stopped", "aborted"}
  /\ request \in [Deliveries -> {"new", "empty", "ignored", "notice", "limited", "accepted", "error"}]
  /\ handler \in [Deliveries -> Resting \cup {"working", "settled", "returning", "raising", "cut"}]
  /\ send \in [Posts -> Sending \cup {"none", "delivered", "lost", "over", "skipped", "cut"}]
  /\ replied = [pair \in Updates \X Verdicts |-> replied[pair]]
  /\ denied \subseteq Updates \X Verdicts
  /\ Service!TypeOK
  /\ Bus!TypeOK
  /\ \A d \in Deliveries :
       /\ send[Notice(d)] \in Sending => request[d] = "notice"
       /\ \A v \in Verdicts : send[Verdict(d, v)] \in Sending => ToHandler(Verdict(d, v)) \in owed
       /\ handler[d] \notin Resting \cup {"cut"} => ToHandler(Message(d)) \in owed

Init ==
  /\ LimiterInit /\ Service!Init
  /\ durable \in Backends
  /\ \E messages \in SUBSET Unread, verdicts \in SUBSET (Verdicts \X Unread) :
       LET left == messages \cup {event[2] : event \in verdicts}
       IN  /\ \A event \in verdicts : event[2] \notin messages
           /\ ~durable => left = {}
           /\ backlog = {Message(d) : d \in messages} \cup verdicts
           /\ owed = {ToHandler(event) : event \in backlog}
           /\ handler = [d \in Deliveries |-> IF d \in left \ messages THEN "done" ELSE "none"]
           /\ \E silent \in SUBSET (Odd \ {UpdateOf[d] : d \in left}) :
                /\ chatless \in SUBSET (Odd \ silent)
                /\ request = [d \in Deliveries |-> IF UpdateOf[d] \in silent THEN "empty"
                                                   ELSE IF d \in left THEN "accepted" ELSE "new"]
  /\ handled = {} /\ dead = {}
  /\ stage = "starting"
  /\ send = [post \in Posts |-> "none"]
  /\ replied = [pair \in Updates \X Verdicts |-> 0]
  /\ denied = {}

-----------------------------------------------------------------------------
\* The webhook and process_update.

Chat(d) == IF UpdateOf[d] \in chatless THEN NoChat ELSE ChatOf[UpdateOf[d]]

Requested(d, outcome) == request' = [request EXCEPT ![d] = outcome]

Ignore(d) == /\ stage = "up"
             /\ request[d] = "empty"
             /\ Requested(d, "ignored")
             /\ UNCHANGED <<limiterVars, stage, handler, send, chatVars, serviceVars, busVars>>

\* MESSAGE_RECEIVED has no subscriber and is dropped; MESSAGE_NORMALIZED goes
\* to the orchestrator.
Ingest(d) == /\ stage = "up"
             /\ request[d] = "new"
             /\ Admit(Chat(d))
             /\ Requested(d, "accepted")
             /\ Bus!Accept(Message(d))
             /\ UNCHANGED <<stage, handler, send, chatVars, serviceVars>>

\* XADD raises in one of the two publishes: the request ends with a 500 and the
\* update may have been taken all the same.
IngestFails(d) == /\ durable /\ stage = "up"
                  /\ request[d] = "new"
                  /\ Admit(Chat(d))
                  /\ Requested(d, "error")
                  /\ Bus!Accept(Message(d)) \/ UNCHANGED busVars
                  /\ UNCHANGED <<stage, handler, send, chatVars, serviceVars>>

\* Over the limit: the update is dropped and the request waits for the notice.
Limit(d) == /\ stage = "up"
            /\ request[d] = "new"
            /\ Reject(Chat(d))
            /\ Requested(d, "notice")
            /\ send' = [send EXCEPT ![Notice(d)] = "markdown"]
            /\ UNCHANGED <<stage, handler, chatVars, serviceVars, busVars>>

\* The request returns when its notice is out, or lost.
EndNotice(d) == /\ request[d] = "notice"
                /\ send[Notice(d)] \in {"delivered", "lost"}
                /\ Requested(d, "limited")
                /\ UNCHANGED <<limiterVars, stage, handler, send, chatVars, serviceVars, busVars>>

-----------------------------------------------------------------------------
\* The orchestrator's handler, seen from the bus.

Handler(d, label) == handler' = [handler EXCEPT ![d] = label]

\* The tasks of the in-memory bus run from publish to the end of its stop; the
\* loops of the Redis bus run from subscribe to the beginning of its stop, one
\* for each kind of event, and one entry at a time.
Subscribed(stages) == \/ stage \in stages \cup {"answering", "up", "closing"}
                      \/ ~durable /\ stage = "draining"

Delivered(d) == /\ ToHandler(Message(d)) \in owed
                /\ handler[d] = "none"
                /\ Subscribed({"consuming"})
                /\ durable => \A e \in Deliveries : handler[e] \in Resting

TakeMessage(d) == /\ Delivered(d)
                  /\ Service!Accept(UpdateOf[d])
                  /\ Handler(d, "working")
                  /\ UNCHANGED <<limiterVars, stage, request, send, chatVars, busVars>>

SkipDuplicate(d) == /\ Delivered(d)
                    /\ phase[UpdateOf[d]] # "unseen"
                    /\ Handler(d, "done")
                    /\ Bus!Handle(ToHandler(Message(d)))
                    /\ UNCHANGED <<limiterVars, stage, request, send, chatVars, serviceVars>>

Work(d) == /\ handler[d] = "working"
           /\ Service!Settle(UpdateOf[d])
           /\ Handler(d, "settled")
           /\ UNCHANGED <<limiterVars, stage, request, send, chatVars, busVars>>

\* The bus takes WORKFLOW_COMPLETED or WORKFLOW_FAILED.
Publish(d) == LET u == UpdateOf[d]
              IN  /\ Service!Answer(u)
                  /\ answers'[u] = answers[u] \cup {<<d, phase[u]>>}
                  /\ Bus!Accept(Verdict(d, phase[u]))

\* Mutant of PublishVerdict: a failure is not told to anyone.
PublishCompletedOnly(d) ==
  /\ handler[d] = "settled"
  /\ Handler(d, "returning")
  /\ IF Running /\ phase[UpdateOf[d]] = "completed" THEN Publish(d) ELSE UNCHANGED <<serviceVars, busVars>>
  /\ UNCHANGED <<limiterVars, stage, request, send, chatVars>>

\* The publish of the verdict; it is dropped once the in-memory bus stops.
PublishVerdict(d) ==
  /\ handler[d] = "settled"
  /\ Handler(d, "returning")
  /\ IF Running THEN Publish(d) ELSE UNCHANGED <<serviceVars, busVars>>
  /\ UNCHANGED <<limiterVars, stage, request, send, chatVars>>

\* WORKFLOW_COMPLETED raised: the except branch makes it a failure and goes on
\* to publish that, even when Redis has the first event.
CompletedRaises(d) ==
  /\ durable
  /\ handler[d] = "settled"
  /\ Service!Retract(UpdateOf[d])
  /\ \/ answers' = answers /\ UNCHANGED busVars
     \/ /\ answers'[UpdateOf[d]] = {<<d, "completed">>}
        /\ Bus!Accept(Verdict(d, "completed"))
  /\ UNCHANGED <<limiterVars, stage, request, handler, send, chatVars>>

\* WORKFLOW_FAILED raised, and the handler with it.
FailedRaises(d) ==
  /\ durable
  /\ handler[d] = "settled" /\ phase[UpdateOf[d]] = "failed"
  /\ Handler(d, "raising")
  /\ Publish(d) \/ UNCHANGED <<serviceVars, busVars>>
  /\ UNCHANGED <<limiterVars, stage, request, send, chatVars>>

\* The entry is acknowledged.  One whose XACK raises is buried or left pending,
\* where nobody reads it again: RedisBus.
HandlerReturns(d) == /\ handler[d] = "returning"
                     /\ Handler(d, "done")
                     /\ Bus!Handle(ToHandler(Message(d)))
                     /\ UNCHANGED <<limiterVars, stage, request, send, chatVars, serviceVars>>

\* It goes to the dead-letter stream, or stays pending when that raises as well.
HandlerRaises(d) == /\ handler[d] = "raising"
                    /\ Handler(d, "raised")
                    /\ \/ /\ owed' = owed \ {ToHandler(Message(d))}
                          /\ dead' = dead \cup {ToHandler(Message(d))}
                          /\ UNCHANGED handled
                       \/ UNCHANGED busVars
                    /\ UNCHANGED <<limiterVars, stage, request, send, chatVars, serviceVars>>

-----------------------------------------------------------------------------
\* The response handler and send_message.

\* _on_completed or _on_failed is called for a verdict.
Called(d, v) == /\ ToHandler(Verdict(d, v)) \in owed
                /\ Subscribed({})
                /\ send[Verdict(d, v)] = "none"
                /\ durable => \A e \in Deliveries :
                     send[Verdict(e, v)] \notin Sending \cup {"delivered", "lost"}

BeginReply(d, v) == /\ Called(d, v)
                    /\ UpdateOf[d] \notin chatless
                    /\ send' = [send EXCEPT ![Verdict(d, v)] = "markdown"]
                    /\ UNCHANGED <<limiterVars, stage, request, handler, chatVars, serviceVars, busVars>>

\* There is no chat to reply to: the event is handled all the same.
NoReply(d, v) == /\ Called(d, v)
                 /\ UpdateOf[d] \in chatless
                 /\ send' = [send EXCEPT ![Verdict(d, v)] = "skipped"]
                 /\ Bus!Handle(ToHandler(Verdict(d, v)))
                 /\ UNCHANGED <<limiterVars, stage, request, handler, chatVars, serviceVars>>

Reached(post) == replied' = IF post[1] = "notice" THEN replied
                            ELSE [replied EXCEPT ![Told(post)] = @ + 1]

\* Mutant of SendFails: every failure is tried again without Markdown.
SendFailsAndRetries(post) ==
  /\ send[post] \in Sending
  /\ send' = [send EXCEPT ![post] = IF @ = "markdown" THEN "plain" ELSE "lost"]
  /\ Reached(post) \/ UNCHANGED replied
  /\ UNCHANGED <<limiterVars, stage, request, handler, denied, serviceVars, busVars>>

\* Another error, a timeout for instance: no retry, although the message may
\* have reached the chat.
SendFails(post) ==
  /\ send[post] \in Sending
  /\ send' = [send EXCEPT ![post] = "lost"]
  /\ Reached(post) \/ UNCHANGED replied
  /\ UNCHANGED <<limiterVars, stage, request, handler, denied, serviceVars, busVars>>

\* Telegram has no chat with an empty id.
SendSucceeds(post) ==
  /\ send[post] \in Sending
  /\ UpdateOf[post[2]] \notin chatless
  /\ send' = [send EXCEPT ![post] = "delivered"]
  /\ Reached(post)
  /\ UNCHANGED <<limiterVars, stage, request, handler, denied, serviceVars, busVars>>

\* Telegram answers with an error status: once more as plain text, once only.
\* Behind a 5xx the message may have reached the chat.
SendRejected(post) ==
  /\ send[post] \in Sending
  /\ send' = [send EXCEPT ![post] = IF @ = "markdown" THEN "plain" ELSE "lost"]
  /\ \/ UNCHANGED chatVars
     \/ /\ Reached(post)
        /\ denied' = IF post[1] = "notice" THEN denied ELSE denied \cup {Told(post)}
  /\ UNCHANGED <<limiterVars, stage, request, handler, serviceVars, busVars>>

\* Mutant of EndReply: the handler never gives up a reply that was lost.
EndReplyIfDelivered(d, v) ==
  /\ Subscribed({})
  /\ send[Verdict(d, v)] = "delivered"
  /\ send' = [send EXCEPT ![Verdict(d, v)] = "over"]
  /\ Bus!Handle(ToHandler(Verdict(d, v)))
  /\ UNCHANGED <<limiterVars, stage, request, handler, chatVars, serviceVars>>

EndReply(d, v) ==
  /\ Subscribed({})
  /\ send[Verdict(d, v)] \in {"delivered", "lost"}
  /\ send' = [send EXCEPT ![Verdict(d, v)] = "over"]
  /\ Bus!Handle(ToHandler(Verdict(d, v)))
  /\ UNCHANGED <<limiterVars, stage, request, handler, chatVars, serviceVars>>

-----------------------------------------------------------------------------
\* start and stop of the platform.

Stage(from, to) == /\ stage = from
                   /\ stage' = to
                   /\ UNCHANGED <<limiterVars, request, handler, send, chatVars, serviceVars, busVars>>

\* start: the orchestrator subscribes, then the response handler; the agents
\* are registered after that, and the server begins when setup_webhook is
\* over, which never raises.
Starts == \/ Stage("starting", "consuming")
          \/ Stage("consuming", "answering")
          \/ Stage("answering", "up")

\* The signal: uvicorn takes no new request and ends those it has.
Signal == Stage("up", "closing")

NoRequests == \A d \in Deliveries : request[d] # "notice"

\* serve_task has returned: the registry is shut down, then the bus stops.
StopBus == /\ ~durable
           /\ NoRequests
           /\ Stage("closing", "draining")

CancelHandlers ==
  handler' = [d \in Deliveries |-> IF handler[d] \in Resting THEN handler[d] ELSE "cut"]

\* A reply on its way may still reach the chat.
CancelSends ==
  /\ send' = [post \in Posts |-> IF send[post] \in Sending THEN "cut" ELSE send[post]]
  /\ \E arrived \in SUBSET {post \in Posts : send[post] \in Sending} :
       replied' = [pair \in Updates \X Verdicts |->
                     replied[pair] + Cardinality({post \in arrived : Told(post) = pair})]
  /\ UNCHANGED denied

\* Mutant of CancelLoops: the loops of the replies are forgotten.
CancelMessageLoop ==
  /\ durable
  /\ NoRequests
  /\ stage = "closing" /\ stage' = "draining"
  /\ CancelHandlers
  /\ UNCHANGED <<limiterVars, request, send, chatVars, serviceVars, busVars>>

\* The Redis bus cancels its loops, and the handlers in them.
CancelLoops ==
  /\ durable
  /\ NoRequests
  /\ stage = "closing" /\ stage' = "draining"
  /\ CancelHandlers /\ CancelSends
  /\ UNCHANGED <<limiterVars, request, serviceVars, busVars>>

\* Mutant of Stopped: the bus is stopped without waiting for its tasks.
StoppedAtOnce == Stage("draining", "stopped")

\* The bus has drained, or left its entries where they are; router and gateway
\* close their clients.
Stopped == /\ durable \/ owed = {}
           /\ Stage("draining", "stopped")

\* start or stop raises: the server cannot bind its port, on Redis the publish
\* of AGENT_REGISTERED or AGENT_DEREGISTERED fails, the teardown of an agent
\* does.  run ends with it, and asyncio.run cancels every task; bus, router and
\* gateway are never stopped.
Abort ==
  /\ stage \in {"answering", "closing"} /\ stage' = "aborted"
  /\ NoRequests
  /\ CancelHandlers /\ CancelSends
  /\ UNCHANGED <<limiterVars, request, serviceVars, busVars>>

\* allow reads the clock only while requests are taken; bound: it moves only then.
Clock == /\ stage = "up"
         /\ \E d \in Deliveries : request[d] = "new"
         /\ Tick
         /\ UNCHANGED <<stage, request, handler, send, chatVars, serviceVars, busVars>>

RequestStep(d) == Ignore(d) \/ Ingest(d) \/ IngestFails(d) \/ Limit(d)

HandlerStep(d) == \/ TakeMessage(d) \/ SkipDuplicate(d) \/ Work(d)
                  \/ PublishVerdict(d) \/ CompletedRaises(d) \/ FailedRaises(d)
                  \/ HandlerReturns(d) \/ HandlerRaises(d)

SendStep(post) == SendSucceeds(post) \/ SendRejected(post) \/ SendFails(post)

DeliveryStep == \/ \E d \in Deliveries : EndNotice(d) \/ HandlerStep(d)
                \/ \E d \in Deliveries, v \in Verdicts : BeginReply(d, v) \/ NoReply(d, v) \/ EndReply(d, v)
                \/ \E post \in Posts : SendStep(post)

Step == \/ \E d \in Deliveries : RequestStep(d)
        \/ DeliveryStep
        \/ Starts \/ Signal \/ StopBus \/ CancelLoops \/ Stopped \/ Abort \/ Clock

Next == Step /\ UNCHANGED bootVars

Spec == Init /\ [][Next]_vars

\* The event loop runs what is ready, HTTP calls end by their timeouts, the
\* loops of the Redis bus read what is in their streams (a read whose answer
\* Redis loses is RedisBus's subject), and the orchestrator's handler ends
\* (AcceptedIsAnswered of Orchestrator).  A delivery takes finitely many steps,
\* so that some delivery moves is enough.
FairSpec == /\ Spec
            /\ WF_vars(DeliveryStep /\ UNCHANGED bootVars)
            /\ WF_vars((Starts \/ StopBus \/ CancelLoops \/ Stopped) /\ UNCHANGED bootVars)

-----------------------------------------------------------------------------
\* No former process has published a verdict on the update.
NoOldVerdict(u) ==
  \A d \in Deliveries : UpdateOf[d] = u => \A v \in Verdicts : Verdict(d, v) \notin backlog

\* What a chat sees of an update, however often Telegram delivers it and
\* whichever requests to Telegram fail (gateway.py 117-177): each verdict on it
\* at most once, but for the retry after an error status that was wrong; and
\* both verdicts only on Redis, when one handler had both published
\* (orchestrator.py 126-156).  What a former process has worked on may be
\* answered again.
OneReply ==
  \A u \in Updates : NoOldVerdict(u) =>
    /\ \A v \in Verdicts : replied[<<u, v>>] <= IF <<u, v>> \in denied THEN 2 ELSE 1
    /\ (\A v \in Verdicts : replied[<<u, v>>] > 0) =>
         durable /\ \E d \in Deliveries : {d} \X Verdicts \subseteq answers[u]

\* When the platform has stopped, or its start or stop has raised, no handler
\* runs and nothing is being sent (app.py 140-179).
StopIsClean ==
  stage \in {"stopped", "aborted"} =>
    /\ \A d \in Deliveries : request[d] # "notice" /\ handler[d] \in Resting \cup {"cut"}
    /\ \A post \in Posts : send[post] \notin Sending

\* The requests are well typed and none is cut off.
PlatformInv == TypeOK /\ StopIsClean

-----------------------------------------------------------------------------
\* Why they hold: the parts of the inductive invariant of the proofs.

\* The bus has taken the event.
Taken(event) == ToHandler(event) \in owed \cup handled \cup dead

\* Nothing has been done for a request that is new.
NewUntouched ==
  \A d \in Deliveries : request[d] = "new" =>
    /\ send[Notice(d)] = "none"
    /\ ~Taken(Message(d))

\* One handler answers an update: first that it completed, then, on Redis only,
\* that it failed.
AnswersInOrder ==
  \A u \in Updates :
    /\ \A p, q \in answers[u] : p[1] = q[1]
    /\ phase[u] \in {"unseen", "working"} => answers[u] = {}
    /\ phase[u] = "completed" => \A p \in answers[u] : p[2] = "completed"
    /\ phase[u] = "failed" /\ (\E p \in answers[u] : p[2] = "completed") => durable

\* A verdict of this process on the bus is an answer to its update.
VerdictsExact ==
  \A d \in Deliveries, v \in Verdicts :
    Taken(Verdict(d, v)) /\ Verdict(d, v) \notin backlog => <<d, v>> \in answers[UpdateOf[d]]

\* The reply that reached the chat is that of a verdict whose sending is over,
\* or was refused and begins anew.
SentFor(d, v, times) ==
  LET pair == <<UpdateOf[d], v>>
      ended == send[Verdict(d, v)] \in {"delivered", "lost", "over", "cut"}
  IN  \/ times = 1 /\ ended
      \/ times = 1 /\ send[Verdict(d, v)] = "plain" /\ pair \in denied
      \/ times = 2 /\ ended /\ pair \in denied

RepliedExact ==
  \A u \in Updates : NoOldVerdict(u) => \A v \in Verdicts :
    \/ replied[<<u, v>>] = 0 /\ <<u, v>> \notin denied
    \/ \E d \in Deliveries : /\ UpdateOf[d] = u
                             /\ Taken(Verdict(d, v))
                             /\ SentFor(d, v, replied[<<u, v>>])

\* What the shutdown has ended does not begin again.
EndedStaysEnded ==
  /\ \A d \in Deliveries : request[d] = "notice" => stage \in {"up", "closing"}
  /\ (stage = "aborted" \/ (durable /\ stage \in {"draining", "stopped"})) =>
       /\ \A d \in Deliveries : handler[d] \in Resting \cup {"cut"}
       /\ \A post \in Posts : send[post] \notin Sending
  /\ ~durable /\ stage = "stopped" => owed = {}

-----------------------------------------------------------------------------
\* Implementation of ReplyService.
TakenUpdates == {u \in Updates : \E d \in Deliveries : UpdateOf[d] = u /\ Taken(Message(d))}

VerdictsOn == [u \in Updates |-> {p[2] : p \in answers[u]}]

\* A reply counts unless a former process has published a verdict on its update.
RepliesTo == [pair \in Updates \X Verdicts |-> IF NoOldVerdict(pair[1]) THEN replied[pair] ELSE 0]

DeniedTo == {pair \in denied : NoOldVerdict(pair[1])}

Replies == INSTANCE ReplyService WITH
             doubtful <- durable, taken <- TakenUpdates, verdicts <- VerdictsOn,
             replies <- RepliesTo, denied <- DeniedTo,
             serving <- stage \notin {"stopped", "aborted"}

\* From the webhook to the chat: only what the bus took is decided, once, or on
\* Redis first as completed and then as failed; only what is decided is told, and
\* each verdict once, but for the retry after an error status; nothing happens
\* after the end (app.py 37-179, gateway.py 101-177, orchestrator.py 123-156,
\* response_handler.py 33-62).
ImplementsReplies == Replies!Spec

-----------------------------------------------------------------------------
\* Without a shutdown every accepted update ends with a reply, or with one that
\* Telegram did not take, those that a former process accepted included.  The
\* exceptions are an update without a chat, and on Redis one of which neither
\* verdict could be published.
AcceptedIsReplied ==
  \A u \in Updates :
    LET same == {e \in Deliveries : UpdateOf[e] = u}
    IN  (\E e \in same : request[e] = "accepted") ~>
          \/ \E e \in same, v \in Verdicts : send[Verdict(e, v)] \in {"delivered", "lost", "over"}
          \/ /\ u \in chatless
             /\ \E e \in same, v \in Verdicts : send[Verdict(e, v)] = "skipped"
          \/ /\ durable /\ answers[u] = {}
             /\ \E e \in same : handler[e] = "raised"
          \/ stage \in {"draining", "stopped", "aborted"}

\* The shutdown ends, whatever is in flight, if only by its own failure.
ShutdownEnds == stage = "closing" ~> stage \in {"stopped", "aborted"}
=============================================================================
