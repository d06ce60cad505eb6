----------------------------- MODULE LlmRouter ------------------------------
(***************************************************************************)
(* src/vclaw/infrastructure/llm/router.py: a call walks the providers in   *)
(* order of priority, skips those marked unhealthy and marks those that    *)
(* fail.  The lock of the router guards single assignments and never       *)
(* suspends, so a step runs from one provider call to the next.            *)
(***************************************************************************)
EXTENDS Integers, Sequences, FiniteSets, SequencesExt

CONSTANTS Services,   \* provider objects and the remote service behind each
          Names, NameOf,
          Configs,    \* LLMProviderConfig in the order of the settings
          Calls,      \* invocations of complete
          Rejected    \* the calls whose request every service refuses

ASSUME ConstantsAssumption ==
  /\ NameOf \in [Services -> Names]
  /\ Configs \in Seq([service : Services, priority : Nat, enabled : BOOLEAN])
  /\ Rejected \subseteq Calls

VARIABLES providers,  \* _providers
          health,     \* _health, True where there is no entry
          call,       \* each call: where it stands, index of the provider asked
          check,      \* health_check_all: providers to probe, results so far
          up,         \* is the service up?
          reachable   \* history: services up and healthy since the call began

vars == <<providers, health, call, check, up, reachable>>

TypeOK ==
  /\ providers \in Seq(Services)
  /\ health \in [Names -> BOOLEAN]
  /\ call \in [Calls -> [pc : {"new", "asking", "answered", "raised"}, i : Nat]]
  /\ \A c \in Calls : call[c].pc = "asking" => call[c].i \in 1..Len(providers)
  /\ check \in [pc : {"idle", "probing"}, snapshot : Seq(Services),
                results : UNION {[D -> BOOLEAN] : D \in SUBSET Services}]
  /\ DOMAIN check.results \subseteq ToSet(check.snapshot)
  /\ up \in [Services -> BOOLEAN]
  /\ reachable \in [Calls \ Rejected -> SUBSET Services]

\* from_configs: the enabled ones, sorted by priority; sorted() is stable.
Enabled == {i \in 1..Len(Configs) : Configs[i].enabled}

Before(i, j) == \/ Configs[i].priority < Configs[j].priority
                \/ Configs[i].priority = Configs[j].priority /\ i < j

Order == CHOOSE f \in Bijection(1..Cardinality(Enabled), Enabled) :
           \A j, k \in 1..Cardinality(Enabled) : j < k => Before(f[j], f[k])

FromConfigs == [k \in 1..Cardinality(Enabled) |-> Configs[Order[k]].service]

NoResults == [s \in {} |-> TRUE]

Init ==
  /\ providers = FromConfigs
  /\ health = [n \in Names |-> TRUE]
  /\ call = [c \in Calls |-> [pc |-> "new", i |-> 0]]
  /\ check = [pc |-> "idle", snapshot |-> <<>>, results |-> NoResults]
  /\ up = [s \in Services |-> TRUE]
  /\ reachable = [c \in Calls \ Rejected |-> {}]

Healthy(i, h) == h[NameOf[providers[i]]]

\* Every step ends with this: which services stayed up and healthy.
Observe == reachable' = [c \in Calls \ Rejected |->
  IF call[c].pc = "new" /\ call'[c].pc # "new"
  THEN {s \in ToSet(providers) : up[s] /\ health[NameOf[s]]}
  ELSE {s \in reachable[c] : call'[c].pc # "answered" /\ up'[s] /\ health'[NameOf[s]]}]

-----------------------------------------------------------------------------
\* complete.

\* Mutant of Advance: the last of the healthy providers is asked.
AdvanceLast(c, i, h) ==
  LET left == {j \in i..Len(providers) : Healthy(j, h)}
  IN call' = [call EXCEPT ![c] =
       IF left = {} THEN [pc |-> "raised", i |-> 0]
       ELSE [pc |-> "asking", i |-> CHOOSE j \in left : \A k \in left : k <= j]]

\* The next healthy provider from index i on, with health h, is asked.
Advance(c, i, h) ==
  LET left == {j \in i..Len(providers) : Healthy(j, h)}
  IN call' = [call EXCEPT ![c] =
       IF left = {} THEN [pc |-> "raised", i |-> 0]
       ELSE [pc |-> "asking", i |-> CHOOSE j \in left : \A k \in left : j <= k]]

Begin(c) == /\ call[c].pc = "new"
            /\ Advance(c, 1, health)
            /\ UNCHANGED <<providers, health, check, up>>
            /\ Observe

Answer(c) == /\ call[c].pc = "asking"
             /\ c \notin Rejected
             /\ up[providers[call[c].i]]
             /\ call' = [call EXCEPT ![c] = [pc |-> "answered", i |-> 0]]
             /\ UNCHANGED <<providers, health, check, up>>
             /\ Observe

\* Mutant of Fail: the error of the first provider is the error of the call.
FailFirst(c) ==
  LET p == providers[call[c].i]
  IN /\ call[c].pc = "asking"
     /\ c \in Rejected \/ ~up[p]
     /\ health' = [health EXCEPT ![NameOf[p]] = FALSE]
     /\ call' = [call EXCEPT ![c] = [pc |-> "raised", i |-> 0]]
     /\ UNCHANGED <<providers, check, up>>
     /\ Observe

\* Mutant of Fail: the same provider is asked again.
FailAndRetry(c) ==
  LET p == providers[call[c].i]
  IN /\ call[c].pc = "asking"
     /\ c \in Rejected \/ ~up[p]
     /\ health' = [health EXCEPT ![NameOf[p]] = FALSE]
     /\ UNCHANGED <<providers, call, check, up>>
     /\ Observe

\* Any exception marks the provider and the cascade goes on, also when it was
\* the request that was refused.
Fail(c) ==
  LET p == providers[call[c].i]
  IN /\ call[c].pc = "asking"
     /\ c \in Rejected \/ ~up[p]
     /\ health' = [health EXCEPT ![NameOf[p]] = FALSE]
     /\ Advance(c, call[c].i + 1, health')
     /\ UNCHANGED <<providers, check, up>>
     /\ Observe

-----------------------------------------------------------------------------
\* health_check_all, reset_provider, add_provider.  Nothing in the program
\* calls them so far; they are the router's interface to an operator.

BeginCheck == /\ check.pc = "idle"
              /\ check' = [pc |-> "probing", snapshot |-> providers, results |-> NoResults]
              /\ UNCHANGED call
              /\ UNCHANGED <<providers, health, up>>
              /\ Observe

\* The probes run under one gather and return in any order.
ProbeReturns(s) ==
  /\ check.pc = "probing"
  /\ s \in ToSet(check.snapshot) \ DOMAIN check.results
  /\ check' = [check EXCEPT !.results = [t \in DOMAIN @ \cup {s} |->
                                            IF t = s THEN up[s] ELSE @[t]]]
  /\ UNCHANGED call
  /\ UNCHANGED <<providers, health, up>>
  /\ Observe

\* _health.update: what was probed overwrites what was learned meanwhile; of
\* two providers of one name the later in the list counts.
EndCheck ==
  LET last(n) == SelectLastInSeq(check.snapshot, LAMBDA s : NameOf[s] = n)
  IN /\ check.pc = "probing"
     /\ DOMAIN check.results = ToSet(check.snapshot)
     /\ health' = [n \in Names |-> IF last(n) = 0 THEN health[n]
                                   ELSE check.results[check.snapshot[last(n)]]]
     /\ check' = [check EXCEPT !.pc = "idle", !.snapshot = <<>>, !.results = NoResults]
     /\ UNCHANGED call
     /\ UNCHANGED <<providers, up>>
     /\ Observe

ResetProvider(n) == /\ health' = [health EXCEPT ![n] = TRUE]
                    /\ UNCHANGED call
                    /\ UNCHANGED <<providers, check, up>>
                    /\ Observe

\* The new provider goes to the end whatever its priority; its name counts as
\* healthy again.
AddProvider(s) == /\ s \notin ToSet(providers)
                  /\ providers' = Append(providers, s)
                  /\ health' = [health EXCEPT ![NameOf[s]] = TRUE]
                  /\ UNCHANGED call
                  /\ UNCHANGED <<check, up>>
                  /\ Observe

\* The outside world; only services in use matter.
Flap(s) == /\ s \in ToSet(providers)
           /\ up' = [up EXCEPT ![s] = ~@]
           /\ UNCHANGED call
           /\ UNCHANGED <<providers, health, check>>
           /\ Observe

-----------------------------------------------------------------------------
CallStep(c) == Begin(c) \/ Answer(c) \/ Fail(c)

Next == \/ \E c \in Calls : CallStep(c)
        \/ BeginCheck \/ EndCheck
        \/ \E s \in Services : ProbeReturns(s) \/ AddProvider(s) \/ Flap(s)
        \/ \E n \in Names : ResetProvider(n)

Spec == Init /\ [][Next]_vars

\* Every request to a service ends, by the httpx timeout if need be.
FairSpec == Spec /\ \A c \in Calls : WF_vars(Answer(c) \/ Fail(c))

-----------------------------------------------------------------------------
\* "Raises if all providers fail": no call fails while a provider was up and
\* marked healthy from its beginning to its end, whatever other calls, checks
\* and resets do to the marks (lines 64-89).
CascadeReaches ==
  \A c \in Calls \ Rejected : call[c].pc = "raised" => reachable[c] = {}

\* The router is well typed and its cascade complete.
CascadeInv == TypeOK /\ CascadeReaches

\* Why they hold: what is still reachable for a call is used, up and healthy,
\* and never in front of the provider that is being asked.
AheadReachable ==
  \A c \in Calls \ Rejected :
    /\ \A s \in reachable[c] : s \in ToSet(providers) /\ up[s] /\ health[NameOf[s]]
    /\ call[c].pc = "asking" =>
         \A j \in 1..call[c].i - 1 : providers[j] \notin reachable[c]

\* "Tries each provider in priority order": an answer never comes from behind
\* a provider that was up and healthy from the beginning of the call.
PriorityRespected ==
  [][\A c \in Calls \ Rejected :
       call[c].pc = "asking" /\ call'[c].pc = "answered" =>
         \A j \in 1..call[c].i - 1 : providers[j] \notin reachable[c]]_vars

\* Every call ends, and no request is passed round for ever.
CallsEnd == \A c \in Calls : call[c].pc = "asking" ~> call[c].pc \in {"answered", "raised"}

=============================================================================
