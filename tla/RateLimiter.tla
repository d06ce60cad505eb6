---------------------------- MODULE RateLimiter -----------------------------
(***************************************************************************)
(* src/vclaw/infrastructure/telegram/rate_limiter.py: per key the times of *)
(* the requests let through in the sliding window.  Nothing in it awaits,  *)
(* so each call is one step; time.monotonic is a clock of whole ticks.     *)
(* Nothing calls reset or remaining.                                       *)
(***************************************************************************)
EXTENDS Integers, Sequences

CONSTANTS Chats,
          MaxRequests,  \* _max_requests
          Window,       \* _window_seconds
          MaxTime       \* bound: the clock stops there

ASSUME LimiterAssumption == /\ MaxRequests \in Nat
                            /\ Window \in Nat
                            /\ MaxTime \in Nat

VARIABLES now,      \* the monotonic clock
          windows,  \* _windows
          admitted  \* history: times of all requests let through

limiterVars == <<now, windows, admitted>>

LimiterInit == /\ now = 0
               /\ windows = [k \in Chats |-> <<>>]
               /\ admitted = [k \in Chats |-> <<>>]

Tick == /\ now < MaxTime
        /\ now' = now + 1
        /\ UNCHANGED <<windows, admitted>>

\* The entries of the window that are not expired are the last ones, for the
\* times are in order: the first n do not pass the filter, all others do.
Expired(k, cutoff) == CHOOSE n \in 0..Len(windows[k]) :
                        \A i \in 1..Len(windows[k]) : windows[k][i] > cutoff <=> i > n

LastFrom(k, n) == SubSeq(windows[k], n + 1, Len(windows[k]))

\* Mutant of Fresh: the cutoff is taken a tick too late.
FreshTooLate(k) == LastFrom(k, Expired(k, now - Window + 1))

Fresh(k) == LastFrom(k, Expired(k, now - Window))

\* allow returns True ...
Admit(k) == /\ Len(Fresh(k)) < MaxRequests
            /\ windows' = [windows EXCEPT ![k] = Append(Fresh(k), now)]
            /\ admitted' = [admitted EXCEPT ![k] = Append(@, now)]
            /\ UNCHANGED now

\* ... or False, and drops the expired entries all the same.
Reject(k) == /\ Len(Fresh(k)) >= MaxRequests
             /\ windows' = [windows EXCEPT ![k] = Fresh(k)]
             /\ UNCHANGED <<now, admitted>>

-----------------------------------------------------------------------------
\* The sliding window is exact (lines 21-33): no stretch of Window ticks sees
\* more than MaxRequests of a key let through, wherever the stretch begins,
\* and a request is refused only when the last Window ticks are really full.
LimiterExact ==
  \A k \in Chats :
    /\ \A i \in 1..Len(admitted[k]) - MaxRequests :
         admitted[k][i + MaxRequests] - admitted[k][i] >= Window
    /\ Len(Fresh(k)) >= MaxRequests =>
         /\ Len(admitted[k]) >= MaxRequests
         /\ MaxRequests > 0 =>
              now - admitted[k][Len(admitted[k]) - MaxRequests + 1] < Window
-----------------------------------------------------------------------------
\* Why it holds: the window is the end of the history, and what it has dropped
\* is expired.
Dropped(k) == Len(admitted[k]) - Len(windows[k])

WindowsSound ==
  /\ now \in Nat
  /\ windows \in [Chats -> Seq(Nat)] /\ admitted \in [Chats -> Seq(Nat)]
  /\ \A k \in Chats :
       /\ \A i, j \in 1..Len(admitted[k]) : i <= j => admitted[k][i] <= admitted[k][j]
       /\ \A i \in 1..Len(admitted[k]) : admitted[k][i] <= now
       /\ Dropped(k) \in Nat
       /\ \A i \in 1..Len(windows[k]) : windows[k][i] = admitted[k][Dropped(k) + i]
       /\ \A i \in 1..Dropped(k) : admitted[k][i] <= now - Window
       /\ \A i \in 1..Len(admitted[k]) - MaxRequests :
            admitted[k][i + MaxRequests] - admitted[k][i] >= Window
=============================================================================
