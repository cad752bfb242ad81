-------------------------------- MODULE Reconnect --------------------------------
(***************************************************************************)
(* The attach that outlives its connection: ReconnectLoopWith of           *)
(* go/internal/client/reconnect.go, around the dial of attach.go and       *)
(* relay_locator.go.                                                       *)
(*                                                                         *)
(* The loop dials, runs the session, and after a drop dials again.  A dial *)
(* error or a session that lived for less than MinHealthy (a flap) burns   *)
(* one of MaxFailures and is followed by a sleep; a healthy session gives  *)
(* the whole budget back.  Time is abstracted to whether the session has   *)
(* reached MinHealthy; delays are counted in units of Base.                *)
(***************************************************************************)
EXTENDS Integers

CONSTANTS
    MaxFailures,   \* consecutive failures before giving up
    Cap            \* longest delay, in units of Base

ASSUME ReconnectAssumption ==
    /\ MaxFailures \in Nat \ {0}
    /\ Cap \in Nat \ {0}

VARIABLES
    loop,       \* where the loop is
    caller,     \* the caller's context: "live" or "done"
    failures,   \* attempts in a row that gave no healthy session
    backoff,    \* the next delay
    attempt,    \* redials in this outage, as told to the user
    dropAt,     \* "never", or "set" once a session has dropped
    age,        \* whether the session has reached MinHealthy: "young" or "healthy"
    conns,      \* connections open: peer connection and signalling socket
    dials,      \* dials since the start or the last healthy session
    result      \* what the loop returned

redialVars == <<loop, caller, failures, backoff, attempt, dropAt, age, conns, dials, result>>

RedialTypeOK ==
    /\ loop \in {"top", "dialing", "authing", "running", "dropped", "sleeping", "ended"}
    /\ caller \in {"live", "done"}
    /\ failures \in 0..MaxFailures
    /\ backoff \in 1..Cap
    /\ attempt \in 0..MaxFailures
    /\ dropAt \in {"never", "set"}
    /\ age \in {"young", "healthy"}
    /\ conns \in 0..1
    /\ dials \in 0..MaxFailures
    /\ result \in {"none", "cancelled", "gave_up", "hard_error"}

RedialInit ==
    /\ loop = "top"
    /\ caller = "live"
    /\ failures = 0
    /\ backoff = 1
    /\ attempt = 0
    /\ dropAt = "never"
    /\ age = "young"
    /\ conns = 0
    /\ dials = 0
    /\ result = "none"

Return(r) == loop' = "ended" /\ result' = r

\* The user closes the client, or detaches to the overview.
CallerCancels ==
    /\ caller = "live"
    /\ loop # "ended"
    /\ caller' = "done"
    /\ UNCHANGED <<loop, failures, backoff, attempt, dropAt, age, conns, dials, result>>

\* Top of the loop: a cancelled context ends it; a redial is announced.
Redial ==
    /\ loop = "top"
    /\ caller = "live"
    /\ loop' = "dialing"
    /\ attempt' = IF dropAt = "set" THEN attempt + 1 ELSE attempt
    /\ dials' = dials + 1
    /\ UNCHANGED <<caller, failures, backoff, dropAt, age, conns, result>>

TopReturns ==
    /\ loop = "top"
    /\ caller = "done"
    /\ Return("cancelled")
    /\ UNCHANGED <<caller, failures, backoff, attempt, dropAt, age, conns, dials>>

-----------------------------------------------------------------------------
(* dial: the locator, then the Noise handshake.                            *)

\* relayLocator.Dial: the data channel is open.
LocatorOpens ==
    /\ loop = "dialing"
    /\ loop' = "authing"
    /\ conns' = 1
    /\ UNCHANGED <<caller, failures, backoff, attempt, dropAt, age, dials, result>>

\* failed: one more failure; give up at the limit, else sleep.
Failed ==
    /\ failures' = failures + 1
    /\ \/ failures + 1 >= MaxFailures /\ Return("gave_up")
       \/ failures + 1 < MaxFailures /\ loop' = "sleeping" /\ UNCHANGED result

\* Mutant: a failed handshake leaves its connection open.
DialFailsLeaks ==
    /\ loop \in {"dialing", "authing"}
    /\ conns' = conns
    /\ \/ caller = "live" /\ Failed
       \/ caller = "done" /\ Return("cancelled") /\ UNCHANGED failures
    /\ UNCHANGED <<caller, backoff, attempt, dropAt, age, dials>>

\* The dial fails in the locator, which closes what it opened, or in the
\* handshake, after which dialLocator does.  After a cancellation the loop returns.
DialFails ==
    /\ loop \in {"dialing", "authing"}
    /\ conns' = 0
    /\ \/ caller = "live" /\ Failed
       \/ caller = "done" /\ Return("cancelled") /\ UNCHANGED failures
    /\ UNCHANGED <<caller, backoff, attempt, dropAt, age, dials>>

\* The handshake is done.  A dial that was cancelled meanwhile is cleaned up.
DialSucceeds ==
    /\ loop = "authing"
    /\ \/ caller = "live" /\ loop' = "running" /\ UNCHANGED <<conns, result>>
       \/ caller = "done" /\ Return("cancelled") /\ conns' = 0
    /\ UNCHANGED <<caller, failures, backoff, attempt, dropAt, age, dials>>

-----------------------------------------------------------------------------
(* run: the session, and what its end means.                               *)

Matures ==
    /\ loop = "running"
    /\ age = "young"
    /\ age' = "healthy"
    /\ UNCHANGED <<loop, caller, failures, backoff, attempt, dropAt, conns, dials, result>>

\* The session ends; its connection is closed before anything is decided.
\* hard: an error other than a closed channel, an end of input or a cancellation.
RunEnds(hard) ==
    /\ loop = "running"
    /\ conns' = 0
    /\ \/ caller = "done" /\ Return("cancelled")
       \/ caller = "live" /\ hard /\ Return("hard_error")
       \/ caller = "live" /\ ~hard /\ loop' = "dropped" /\ UNCHANGED result
    /\ UNCHANGED <<caller, failures, backoff, attempt, dropAt, age, dials>>

\* A healthy session has dropped: the budget is reset and the redial is prompt.
HealthyDrop ==
    /\ loop = "dropped"
    /\ age = "healthy"
    /\ loop' = "top"
    /\ dropAt' = "set"
    /\ failures' = 0
    /\ attempt' = 0
    /\ backoff' = 1
    /\ dials' = 0
    /\ age' = "young"
    /\ UNCHANGED <<caller, conns, result>>

\* Mutant: a flap counts as a healthy session.
FlapAsHealthy ==
    /\ loop = "dropped"
    /\ age = "young"
    /\ loop' = "top"
    /\ dropAt' = "set"
    /\ failures' = 0
    /\ attempt' = 0
    /\ backoff' = 1
    /\ dials' = 0
    /\ UNCHANGED <<caller, age, conns, result>>

\* A flap burns budget like a dial error.
Flap ==
    /\ loop = "dropped"
    /\ age = "young"
    /\ dropAt' = "set"
    /\ Failed
    /\ UNCHANGED <<caller, backoff, attempt, age, conns, dials>>

\* The sleep is over, and only now the delay doubles; a cancellation cuts it short.
Wakes ==
    /\ loop = "sleeping"
    /\ loop' = "top"
    /\ backoff' = IF 2 * backoff > Cap THEN Cap ELSE 2 * backoff
    /\ UNCHANGED <<caller, failures, attempt, dropAt, age, conns, dials, result>>

SleepCut ==
    /\ loop = "sleeping"
    /\ caller = "done"
    /\ Return("cancelled")
    /\ UNCHANGED <<caller, failures, backoff, attempt, dropAt, age, conns, dials>>

RedialNext ==
    \/ CallerCancels \/ Redial \/ TopReturns
    \/ LocatorOpens \/ DialFails \/ DialSucceeds
    \/ Matures \/ (\E hard \in BOOLEAN : RunEnds(hard))
    \/ HealthyDrop \/ Flap \/ Wakes \/ SleepCut

RedialSpec == RedialInit /\ [][RedialNext]_redialVars

\* The loop runs, and a dial returns: its last waits end after 20 s and 2 s, the
\* earlier ones when the relay closes an attach that does not get on.  A session
\* and the user owe nothing.
RedialFairness ==
    /\ WF_redialVars(Redial \/ TopReturns)
    /\ WF_redialVars(LocatorOpens \/ DialFails \/ DialSucceeds)
    /\ WF_redialVars(HealthyDrop \/ Flap)
    /\ WF_redialVars(Wakes \/ SleepCut)
    /\ WF_redialVars(caller = "done" /\ \E hard \in BOOLEAN : RunEnds(hard))

RedialFairSpec == RedialSpec /\ RedialFairness

-----------------------------------------------------------------------------
(* Properties.                                                             *)

\* Between two healthy sessions there are at most MaxFailures dials, and each
\* that is over has been counted: no mix of dial errors, flaps and cancellations
\* becomes a dial storm (reconnect.go:21-24).
DialBudget ==
    /\ dials <= MaxFailures
    /\ loop \in {"top", "sleeping"} => dials = failures

\* One connection at a time, held only while dialing or running: none is left
\* behind by a failed handshake, a late cancellation, or the end of the loop.
NoConnectionLeft == conns = 1 => loop \in {"authing", "running"}

\* The pace slows with every failure in a row until it reaches Cap: the delay
\* after the k-th is at least k units, whatever failed.
BackoffGrows == loop = "sleeping" => backoff = Cap \/ backoff >= failures

\* The user is told attempts 1, 2, ... of an outage, none twice.
AttemptsFollow == loop = "dialing" /\ dropAt = "set" => attempt \in 1..dials

\* The retries keep their budget, their connections and their pace.
RetriesSound == DialBudget /\ NoConnectionLeft /\ BackoffGrows /\ AttemptsFollow

\* The loop ends, or settles in one session, or meets healthy sessions for ever:
\* a gone machine gets an exit (reconnect.go:21-24), a cancellation is obeyed.
GivesUp ==
    /\ <>(loop = "ended") \/ <>[](loop = "running") \/ []<>(age = "healthy")
    /\ (caller = "done") ~> (loop = "ended")
=============================================================================
