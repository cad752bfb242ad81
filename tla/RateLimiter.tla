------------------------------ MODULE RateLimiter ------------------------------
(***************************************************************************)
(* The relay's per-address request limiter: requestLimiter.allow in        *)
(* go/internal/signal/ratelimit.go.                                        *)
(*                                                                         *)
(* A call reads the wall clock before it takes the limiter's lock, so      *)
(* calls may reach the table in another order than their clock readings.   *)
(* A key is an endpoint and an address; the policy of one endpoint is      *)
(* modelled.                                                               *)
(***************************************************************************)
EXTENDS Naturals, Sequences, FiniteSets

CONSTANTS
    Calls,        \* concurrent calls of allow
    Addresses,
    Limit,        \* ratePolicy.Limit
    Window,       \* ratePolicy.Window
    MaxEntries,   \* requestLimiter.max
    Lag,          \* longest delay between reading the clock and the lock
    Unseen,       \* an address without an entry
    Idle,
    LimiterTime,  \* bound on the wall clock
    LimiterClock  \* bound on the logical clock

ASSUME RateAssumption ==
    /\ Limit \in Nat \ {0}
    /\ Window \in Nat \ {0}
    /\ MaxEntries \in Nat \ {0}
    /\ Lag \in Nat
    /\ LimiterTime \in Nat
    /\ LimiterClock \in Nat
    /\ Unseen \notin [count : Nat, start : Nat, seen : Nat]

VARIABLES
    wall,     \* wall clock
    windows,  \* address -> fixed-window counter (rateEntry), or Unseen
    ticks,    \* logical clock of the table
    pending,  \* call -> address and clock reading, or Idle
    admitted  \* address -> when its requests were admitted, since its entry was made (history)

limiterVars == <<wall, windows, ticks, pending, admitted>>

LimiterTimes == 0..LimiterTime
Counted == {k \in Addresses : windows[k] # Unseen}

LimiterTypeOK ==
    /\ wall \in LimiterTimes
    /\ windows \in [Addresses ->
          [count : 1..Limit, start : LimiterTimes, seen : 0..LimiterClock] \cup {Unseen}]
    /\ ticks \in 0..LimiterClock
    /\ pending \in [Calls -> [key : Addresses, at : LimiterTimes] \cup {Idle}]
    /\ admitted \in [Addresses -> Seq(LimiterTimes)]
    /\ Cardinality(Counted) <= MaxEntries

LimiterInit ==
    /\ wall = 0
    /\ windows = [k \in Addresses |-> Unseen]
    /\ ticks = 0
    /\ pending = [c \in Calls |-> Idle]
    /\ admitted = [k \in Addresses |-> <<>>]

LimiterTick ==
    /\ wall < LimiterTime
    /\ \A c \in Calls : pending[c] # Idle => wall < pending[c].at + Lag
    /\ wall' = wall + 1
    /\ UNCHANGED <<windows, ticks, pending, admitted>>

\* The call starts: now := l.now(), before the lock.
ReadClock(c, k) ==
    /\ pending[c] = Idle
    /\ pending' = [pending EXCEPT ![c] = [key |-> k, at |-> wall]]
    /\ UNCHANGED <<wall, windows, ticks, admitted>>

\* evictLRU.
LeastSeen(v) == v \in Counted /\ \A j \in Counted : windows[v].seen <= windows[j].seen

\* What every locked section does: the call ends and the logical clock moves.
Locked(c) ==
    /\ pending[c] # Idle
    /\ ticks < LimiterClock
    /\ ticks' = ticks + 1
    /\ pending' = [pending EXCEPT ![c] = Idle]
    /\ UNCHANGED wall

Fresh(at) == [count |-> 1, start |-> at, seen |-> ticks + 1]

\* The key is new and the table has room.
AllowNew(c) ==
    LET k == pending[c].key IN
    /\ Locked(c)
    /\ windows[k] = Unseen
    /\ Cardinality(Counted) < MaxEntries
    /\ windows' = [windows EXCEPT ![k] = Fresh(pending[c].at)]
    /\ admitted' = [admitted EXCEPT ![k] = <<wall>>]

\* The key is new and the table is full.
AllowEvicting(c) ==
    LET k == pending[c].key IN
    /\ Locked(c)
    /\ windows[k] = Unseen
    /\ Cardinality(Counted) >= MaxEntries
    /\ \E v \in Addresses :
          /\ LeastSeen(v)
          /\ windows' = [windows EXCEPT ![v] = Unseen, ![k] = Fresh(pending[c].at)]
          /\ admitted' = [admitted EXCEPT ![v] = <<>>, ![k] = <<wall>>]

\* Mutant: the window starts again one tick early.
ExpiredEarly(e, at) == at + 1 >= e.start + Window

\* now.Sub(entry.start) >= policy.Window.
Expired(e, at) == at >= e.start + Window

Admit(k) == admitted' = [admitted EXCEPT ![k] = Append(@, wall)]

\* The window of the entry is over: it starts again with this request.
AllowRestart(c) ==
    LET k == pending[c].key IN
    /\ Locked(c)
    /\ windows[k] # Unseen
    /\ Expired(windows[k], pending[c].at)
    /\ windows' = [windows EXCEPT ![k] = Fresh(pending[c].at)]
    /\ Admit(k)

AllowCounted(c) ==
    LET k == pending[c].key IN
    /\ Locked(c)
    /\ windows[k] # Unseen
    /\ ~Expired(windows[k], pending[c].at)
    /\ windows[k].count < Limit
    /\ windows' = [windows EXCEPT ![k].count = @ + 1, ![k].seen = ticks + 1]
    /\ Admit(k)

\* Mutant: an expired window is not looked at once the limit is reached.
DenyForever(c) ==
    LET k == pending[c].key IN
    /\ Locked(c)
    /\ windows[k] # Unseen
    /\ windows[k].count >= Limit
    /\ windows' = [windows EXCEPT ![k].seen = ticks + 1]
    /\ UNCHANGED admitted

\* The limit is reached: the request is answered 429.
Deny(c) ==
    LET k == pending[c].key IN
    /\ Locked(c)
    /\ windows[k] # Unseen
    /\ ~Expired(windows[k], pending[c].at)
    /\ windows[k].count >= Limit
    /\ windows' = [windows EXCEPT ![k].seen = ticks + 1]
    /\ UNCHANGED admitted

LimiterNext ==
    \/ LimiterTick
    \/ \E c \in Calls :
          \/ \E k \in Addresses : ReadClock(c, k)
          \/ AllowNew(c) \/ AllowEvicting(c) \/ AllowRestart(c) \/ AllowCounted(c) \/ Deny(c)

LimiterSpec == LimiterInit /\ [][LimiterNext]_limiterVars

-----------------------------------------------------------------------------

\* Requests of k admitted from one time to another.
AdmittedIn(k, from, to) == Cardinality({i \in DOMAIN admitted[k] : admitted[k][i] \in from..to})

\* While its entry lives, an address is admitted at most twice the limit within
\* a time of Window less the age a clock reading may have: a fixed window lets
\* one full count end and the next begin in it, but never a third.
AdmittedAtMostTwice ==
    \A k \in Addresses, t \in LimiterTimes :
        Lag <= Window => AdmittedIn(k, t, t + Window - Lag) <= 2 * Limit

\* A request is answered 429 only if its address was admitted Limit times in
\* the window before it, give or take the age of a clock reading: nobody stays
\* locked out, also when calls reach the table out of order.
DeniedOnlyAtLimit ==
    [][\A c \in Calls :
          (pending[c] # Idle /\ pending'[c] = Idle /\ admitted' = admitted) =>
              AdmittedIn(pending[c].key, IF wall > Window + Lag THEN wall - Window - Lag ELSE 0, wall)
                  >= Limit]_limiterVars

\* requestLimiter.allow: within a window less the age of a clock reading an address whose
\* entry lives is admitted at most twice its limit, and a request is denied only when the
\* window is used up.
LimitsExact == []AdmittedAtMostTwice /\ DeniedOnlyAtLimit
=============================================================================
