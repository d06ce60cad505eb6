----------------------------- MODULE ToolAgents -----------------------------
(***************************************************************************)
(* The agents that carry out the tool calls of one answer of the LLM one   *)
(* after the other: task_management with its TaskStore, public_service     *)
(* with its PublicServiceDirectory, and browser.  The Orchestrator calls   *)
(* and retries them in _execute_single_subtask.                            *)
(*                                                                         *)
(* The calls to the two stores never suspend, so all of them are one step  *)
(* of the event loop.  The calls of the browser agent await HTTP, the LLM  *)
(* or Playwright, and a timeout may cut the attempt at each of these.      *)
(*                                                                         *)
(* A record is its identifier and a status; titles, fees, pages and the    *)
(* like are left out.  Each agent is one object for the whole behaviour.   *)
(***************************************************************************)
EXTENDS Naturals, Sequences, FiniteSets, SequencesExt

CONSTANTS ToolRequests,  \* subtasks routed to the three agents
          PlansOf,       \* tool calls that the LLM may answer with, per agent
          ToolRetries    \* max_retries of the retry policy of each agent

StoreAgents == {"task_management", "public_service"}
AgentNames == StoreAgents \cup {"browser"}

\* The browser's tools by what they do: load a page with httpx (fetch_page,
\* search_web), load it and ask the LLM (extract_data), load it in a browser
\* (take_screenshot, fetch_page with a selector, fill_form without submit),
\* and change the site (click_element, fill_form).  submit_application wastes a
\* number when its service_key cannot be the key of a dictionary.
Tools == [task_management |-> {"create", "change", "delete", "look"},
          public_service |-> {"create", "waste", "look"},
          browser |-> {"fetch", "extract", "render", "click"}]

NeedsPlaywright == {"render", "click"}

Calls == [tool : UNION {Tools[a] : a \in AgentNames} \cup {"unknown", "malformed"}, id : Nat]

ASSUME ToolAgentsAssumption == /\ ToolRetries \in [AgentNames -> Nat]
                               /\ PlansOf \in [AgentNames -> SUBSET Seq(Calls)]

VARIABLES store,      \* per store agent: its records and its counter
          request,    \* per subtask: agent, text, attempt, where it stands
          visit,      \* per subtask of the browser: calls left, where the first stands
          open,       \* subtasks with a browser process
          client,     \* the browser agent's HTTP client
          stray,      \* subtasks that made a client of their own
          playwright, \* _PLAYWRIGHT_AVAILABLE
          changed,    \* history: attempts of each subtask that changed something
          cut,        \* history: attempts of each subtask that timed out among calls
          given,      \* history: identifiers each store has given out
          garbled     \* history: subtasks that got a malformed call

webVars == <<visit, open, client, stray, playwright, cut>>
storeVars == <<store, given>>
toolVars == <<store, request, visit, open, client, stray, playwright, changed, cut, given, garbled>>

TextsOf == [task_management |-> {"", "create", "list", "other"},
            public_service |-> {"", "other"},
            browser |-> {"", "url", "other"}]

Waiting == {"asking", "calling", "fetching"}

Browsing == {"loading", "clicking", "settling"}

AtRest == [todo |-> <<>>, step |-> "none", touched |-> FALSE]

Texts == UNION {TextsOf[a] : a \in AgentNames}

\* A record has a number up to the counter.
IsStore(s) == /\ s = [records |-> s.records, counter |-> s.counter]
              /\ s.counter \in Nat
              /\ s.records \in [DOMAIN s.records -> {"new", "changed"}]
              /\ DOMAIN s.records \subseteq 1..s.counter

ToolTypeOK ==
  /\ DOMAIN store = StoreAgents /\ \A a \in StoreAgents : IsStore(store[a])
  /\ request \in [ToolRequests -> [agent : AgentNames, text : Texts, attempt : Nat,
                                   pc : Waiting \cup {"ready", "completed", "failed"}]]
  /\ visit \in [ToolRequests -> [todo : Seq(Calls), touched : BOOLEAN,
                                 step : {"none", "getting", "extracting"} \cup Browsing]]
  /\ \A r \in ToolRequests : /\ request[r].text \in TextsOf[request[r].agent]
                             /\ request[r].attempt <= ToolRetries[request[r].agent]
                             /\ visit[r].step # "none" <=> request[r].pc \in {"calling", "fetching"}
                             /\ visit[r].todo # <<>> <=> request[r].pc = "calling"
  /\ open \cup stray \cup garbled \subseteq ToolRequests
  /\ client \in {"open", "closing", "none"} /\ playwright \in BOOLEAN
  /\ changed \in [ToolRequests -> Nat]
  /\ cut \in [ToolRequests -> Nat]
  /\ DOMAIN given = StoreAgents

ToolInit ==
  /\ store = [a \in StoreAgents |-> [records |-> [i \in {} |-> "new"], counter |-> 0]]
  /\ request \in [ToolRequests -> {q \in [agent : AgentNames, text : Texts, attempt : {0}, pc : {"ready"}] :
                                     q.text \in TextsOf[q.agent]}]
  /\ visit = [r \in ToolRequests |-> AtRest]
  /\ open = {} /\ stray = {} /\ garbled = {}
  /\ client = "open"
  /\ playwright \in BOOLEAN
  /\ changed = [r \in ToolRequests |-> 0]
  /\ cut = [r \in ToolRequests |-> 0]
  /\ given = [a \in StoreAgents |-> {}]

-----------------------------------------------------------------------------
\* The two stores.

\* Mutant of Create: the number of records is taken for the counter.
CreateByCount(s) ==
  LET id == Cardinality(DOMAIN s.records) + 1
  IN [records |-> [i \in DOMAIN s.records \cup {id} |-> IF i = id THEN "new" ELSE s.records[i]],
      counter |-> id]

\* create_task, submit_application
Create(s) ==
  LET id == s.counter + 1
  IN [records |-> [i \in DOMAIN s.records \cup {id} |-> IF i = id THEN "new" ELSE s.records[i]],
      counter |-> id]

\* submit_application raises after it has counted.
Waste(s) == [s EXCEPT !.counter = @ + 1]

\* update_task, move_task
Change(s, id) ==
  IF id \in DOMAIN s.records THEN [s EXCEPT !.records[id] = "changed"] ELSE s

\* delete_task
Delete(s, id) ==
  [s EXCEPT !.records = [i \in DOMAIN s.records \ {id} |-> s.records[i]]]

\* _execute_tool: a tool of another agent is unknown, and an error is a result.
ExecuteTool(agent, s, call) ==
  CASE call.tool \notin Tools[agent] -> s
    [] call.tool = "create" -> Create(s)
    [] call.tool = "waste" -> Waste(s)
    [] call.tool = "change" -> Change(s, call.id)
    [] call.tool = "delete" -> Delete(s, call.id)
    [] call.tool = "look" -> s

\* The calls in front of the first one whose arguments are not a string:
\* json.loads raises a TypeError there, which nothing in execute catches.
Valid(plan) ==
  LET i == SelectInSeq(plan, LAMBDA c : c.tool = "malformed")
  IN IF i = 0 THEN plan ELSE SubSeq(plan, 1, i - 1)

\* What the store is after each of the calls.
Replay(agent, s, plan) ==
  LET run[k \in 0..Len(plan)] == IF k = 0 THEN s ELSE ExecuteTool(agent, run[k - 1], plan[k])
  IN run

After(agent, plan) == Replay(agent, store[agent], Valid(plan))[Len(Valid(plan))]

-----------------------------------------------------------------------------
\* The loop around execute in _execute_single_subtask.

\* An attempt that reports no success is repeated until the retries are used up.
EndAttempt(r, success) ==
  LET q == request[r]
  IN request' = [request EXCEPT ![r] =
       IF success THEN [q EXCEPT !.pc = "completed"]
       ELSE IF q.attempt < ToolRetries[q.agent]
            THEN [q EXCEPT !.pc = "ready", !.attempt = q.attempt + 1]
            ELSE [q EXCEPT !.pc = "failed"]]

BeginAttempt(r) ==
  /\ request[r].pc = "ready"
  /\ IF request[r].text = ""
     THEN EndAttempt(r, FALSE)
     ELSE request' = [request EXCEPT ![r].pc = "asking"]
  /\ UNCHANGED <<storeVars, webVars, changed, garbled>>

-----------------------------------------------------------------------------
\* The agents with a store.

Record(r, new) ==
  LET a == request[r].agent
  IN /\ store' = [store EXCEPT ![a] = new]
     /\ changed' = [changed EXCEPT ![r] = @ + (IF new = store[a] THEN 0 ELSE 1)]
     /\ given' = [given EXCEPT ![a] = @ \cup (1..new.counter)]

\* Whatever the calls did, the attempt is a success; no call at all is one too.
HandleToolCalls(r, plan) ==
  /\ Record(r, After(request[r].agent, plan))
  /\ EndAttempt(r, Valid(plan) = plan)
  /\ garbled' = IF Valid(plan) = plan THEN garbled ELSE garbled \cup {r}
  /\ UNCHANGED webVars

LlmAnswers(r) ==
  /\ request[r].pc = "asking"
  /\ request[r].agent \in StoreAgents
  /\ \E plan \in PlansOf[request[r].agent] : HandleToolCalls(r, plan)

\* _fallback_execution: keywords of the text instead of the LLM.
LlmFails(r) ==
  LET a == request[r].agent
  IN /\ request[r].pc = "asking"
     /\ a \in StoreAgents
     /\ Record(r, IF a = "task_management" /\ request[r].text = "create"
                  THEN Create(store[a]) ELSE store[a])
     /\ EndAttempt(r, a = "public_service" \/ request[r].text \in {"create", "list"})
     /\ UNCHANGED <<webVars, garbled>>

-----------------------------------------------------------------------------
\* The browser agent.

\* A call that answers without an await: an unknown tool, or one that needs
\* Playwright when it is not installed.
AtOnce(call) ==
  \/ call.tool \notin Tools["browser"] \cup {"malformed"}
  \/ call.tool \in NeedsPlaywright /\ ~playwright

\* The calls from the first one that awaits or raises.
Skip(plan) ==
  LET i == SelectInSeq(plan, LAMBDA c : ~AtOnce(c))
  IN IF i = 0 THEN <<>> ELSE SubSeq(plan, i, Len(plan))

\* _httpx_fetch takes the agent's client, or makes one that nobody closes.
UseClient(r) == stray' = IF client = "none" THEN stray \cup {r} ELSE stray

\* The attempt is over: nothing of its calls is left.
EndVisit(r) == /\ visit' = [visit EXCEPT ![r] = AtRest]
               /\ open' = open \ {r}
               /\ UNCHANGED stray

\* _handle_tool_calls goes on with the calls of plan: to the end, which is a
\* success, to a malformed call, which raises, or to the first one that awaits.
Proceed(r, plan, touched) ==
  LET rest == Skip(plan)
  IN /\ IF rest = <<>>
        THEN EndVisit(r) /\ EndAttempt(r, TRUE) /\ UNCHANGED garbled
        ELSE IF rest[1].tool = "malformed"
        THEN EndVisit(r) /\ EndAttempt(r, FALSE) /\ garbled' = garbled \cup {r}
        ELSE /\ visit' = [visit EXCEPT ![r] =
                  [todo |-> rest, touched |-> touched,
                   step |-> IF rest[1].tool \in NeedsPlaywright THEN "loading" ELSE "getting"]]
             /\ open' = IF rest[1].tool \in NeedsPlaywright THEN open \cup {r} ELSE open \ {r}
             /\ IF rest[1].tool \in NeedsPlaywright THEN UNCHANGED stray ELSE UseClient(r)
             /\ request' = [request EXCEPT ![r].pc = "calling"]
             /\ UNCHANGED garbled
     /\ UNCHANGED <<client, playwright, cut, storeVars>>

\* The result of the first call, good or bad, is kept and the next one begins.
CallReturns(r, touched) == Proceed(r, Tail(visit[r].todo), touched)

StepTo(r, step) == /\ visit' = [visit EXCEPT ![r].step = step]
                   /\ UNCHANGED <<request, open, client, stray, playwright, cut, storeVars, garbled>>

LlmNamesCalls(r) ==
  /\ request[r].pc = "asking"
  /\ request[r].agent = "browser"
  /\ \E plan \in PlansOf["browser"] : Proceed(r, plan, FALSE)
  /\ UNCHANGED changed

\* The fallback: the URL in the text is fetched without the LLM.
LlmUnavailable(r) ==
  /\ request[r].pc = "asking"
  /\ request[r].agent = "browser"
  /\ IF request[r].text = "url"
     THEN /\ request' = [request EXCEPT ![r].pc = "fetching"]
          /\ visit' = [visit EXCEPT ![r].step = "getting"]
          /\ UseClient(r)
     ELSE EndAttempt(r, FALSE) /\ UNCHANGED <<visit, stray>>
  /\ UNCHANGED <<open, client, playwright, cut, storeVars, changed, garbled>>

\* Outside of _execute_tool nothing catches what the request raises.
FallbackReturns(r) ==
  /\ request[r].pc = "fetching"
  /\ EndVisit(r)
  /\ \E success \in BOOLEAN : EndAttempt(r, success)
  /\ UNCHANGED <<client, playwright, cut, storeVars, changed, garbled>>

\* The page is there or not; extract_data goes on to the LLM with it.
GetReturns(r) ==
  /\ request[r].pc = "calling"
  /\ visit[r].step = "getting"
  /\ \/ CallReturns(r, visit[r].touched)
     \/ visit[r].todo[1].tool = "extract" /\ StepTo(r, "extracting")
  /\ UNCHANGED changed

ExtractReturns(r) ==
  /\ visit[r].step = "extracting"
  /\ CallReturns(r, visit[r].touched)
  /\ UNCHANGED changed

\* launch, goto, fill; the context manager ends the browser if one raises.
PageLoads(r) ==
  /\ visit[r].step = "loading"
  /\ \/ CallReturns(r, visit[r].touched)
     \/ visit[r].todo[1].tool = "click" /\ StepTo(r, "clicking")
  /\ UNCHANGED changed

\* The site takes the click: the first of its attempt counts as its effect.
Takes(r) == changed' = [changed EXCEPT ![r] = @ + (IF visit[r].touched THEN 0 ELSE 1)]

ClickLands(r) ==
  /\ visit[r].step = "clicking"
  /\ Takes(r)
  /\ visit' = [visit EXCEPT ![r].step = "settling", ![r].touched = TRUE]
  /\ UNCHANGED <<request, open, client, stray, playwright, cut, storeVars, garbled>>

\* The click raises: the site may have taken it all the same.
ClickRaises(r) ==
  /\ visit[r].step = "clicking"
  /\ \/ CallReturns(r, visit[r].touched) /\ UNCHANGED changed
     \/ CallReturns(r, TRUE) /\ Takes(r)

\* wait_for_load_state, title and close: they may raise, it is a result too.
Settles(r) ==
  /\ visit[r].step = "settling"
  /\ CallReturns(r, TRUE)
  /\ UNCHANGED changed

\* teardown: calls that come while aclose is awaited still get the client.
BeginTeardown == /\ client = "open"
                 /\ client' = "closing"
                 /\ UNCHANGED <<store, request, visit, open, stray, playwright, changed, cut, given, garbled>>

EndTeardown == /\ client = "closing"
               /\ client' = "none"
               /\ UNCHANGED <<store, request, visit, open, stray, playwright, changed, cut, given, garbled>>

-----------------------------------------------------------------------------
\* AgentBase.run

\* Mutant of AttemptTimesOut: the calls of a store are made although it timed out.
TimeOutAfterTheCalls(r) ==
  /\ request[r].pc \in Waiting
  /\ EndAttempt(r, FALSE)
  /\ EndVisit(r)
  /\ cut' = [cut EXCEPT ![r] = @ + (IF request[r].pc = "calling" THEN 1 ELSE 0)]
  /\ IF request[r].agent \in StoreAgents
     THEN \E plan \in PlansOf[request[r].agent] : Record(r, After(request[r].agent, plan))
     ELSE UNCHANGED <<storeVars, changed>>
  /\ UNCHANGED <<client, playwright, garbled>>

\* Mutant of AttemptTimesOut: the browser process of the attempt is left behind.
TimeOutLeavingBrowser(r) ==
  /\ request[r].pc \in Waiting
  /\ EndAttempt(r, FALSE)
  /\ visit' = [visit EXCEPT ![r] = AtRest]
  /\ cut' = [cut EXCEPT ![r] = @ + (IF request[r].pc = "calling" THEN 1 ELSE 0)]
  /\ UNCHANGED <<open, stray, changed, client, playwright, storeVars, garbled>>

\* wait_for cancels execute where it awaits: at the LLM, or in a call of the
\* browser, whose context manager ends the process.  A click on its way may
\* still reach the site.
AttemptTimesOut(r) ==
  /\ request[r].pc \in Waiting
  /\ EndAttempt(r, FALSE)
  /\ EndVisit(r)
  /\ cut' = [cut EXCEPT ![r] = @ + (IF request[r].pc = "calling" THEN 1 ELSE 0)]
  /\ \/ UNCHANGED changed
     \/ visit[r].step = "clicking" /\ Takes(r)
  /\ UNCHANGED <<client, playwright, storeVars, garbled>>

ToolNext ==
  \/ BeginTeardown \/ EndTeardown
  \/ \E r \in ToolRequests :
       \/ BeginAttempt(r) \/ AttemptTimesOut(r) \/ LlmAnswers(r) \/ LlmFails(r)
       \/ LlmNamesCalls(r) \/ LlmUnavailable(r) \/ FallbackReturns(r)
       \/ GetReturns(r) \/ ExtractReturns(r) \/ PageLoads(r)
       \/ ClickLands(r) \/ ClickRaises(r) \/ Settles(r)

ToolSpec == ToolInit /\ [][ToolNext]_toolVars

-----------------------------------------------------------------------------
\* Retries never repeat an effect: at most one attempt of a subtask changes a
\* store or a site, and none does when the subtask is reported as failed,
\* whatever LLM errors and failing calls there are.  What a timeout cuts off
\* in the middle of the browser's calls is the exception, since the attempt
\* after it begins anew, and so are malformed arguments.
EffectsOnce ==
  \A r \in ToolRequests \ garbled :
    changed[r] <= cut[r] + (IF request[r].pc = "completed" \/ visit[r].touched THEN 1 ELSE 0)

\* Whichever way a call ends, it leaves no browser process behind; a client
\* that nobody closes is made only by a call after the teardown.
NothingLeftOpen ==
  /\ \A r \in open : visit[r].step \in Browsing
  /\ stray # {} => client = "none"

\* The agents are well typed, leave nothing open, and only calls of the browser
\* are ever cut.
ToolsInv ==
  /\ ToolTypeOK
  /\ NothingLeftOpen
  /\ \A r \in ToolRequests : cut[r] > 0 => request[r].agent = "browser"

\* What keeps the identifiers fresh: those given out are those up to the counter.
GivenExact == \A a \in StoreAgents : given[a] = 1..store[a].counter

\* Where the browser's effects come from: only a visit under way has touched a
\* site, and what goes beyond loading a page belongs to a call.
VisitOK(r) ==
  /\ visit[r].touched => request[r].pc = "calling"
  /\ request[r].pc \in {"calling", "fetching"} => request[r].agent = "browser"
  /\ visit[r].step \notin {"none", "getting"} => request[r].pc = "calling"

VisitsExact == \A r \in ToolRequests : VisitOK(r)

\* An identifier that was given out is never given out again, nor does a
\* record that was deleted come back: what is new in a store has a new number.
IdsFresh ==
  [][\A a \in StoreAgents :
       \A i \in DOMAIN store'[a].records \ DOMAIN store[a].records : i \notin given[a]]_toolVars
=============================================================================
