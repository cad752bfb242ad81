--------------------------------- MODULE Prewarm ---------------------------------
(***************************************************************************)
(* The warm pre-attach path of the CLI: go/internal/client/prewarm.go, the *)
(* local tombstones it fills (client/revocations.go), and the commands     *)
(* that decide on them (cli/client_cmds.go: attach and machine revoke).    *)
(*                                                                         *)
(* A command is a process.  It asks the relay for revocations, registry    *)
(* and TURN credentials at once, each behind a cache file that all         *)
(* processes share, joins the answers in a fixed order, reads the local    *)
(* tombstones and attaches.  Registry contents are abstracted to whether   *)
(* the wanted name is among them.  Work on local files takes no time;      *)
(* waiting for the relay takes up to Timeout.                              *)
(***************************************************************************)
EXTENDS Integers

CONSTANTS
    Attaches,   \* attach commands run on this client
    Revokes,    \* machine revoke commands run on this client
    Dialers,    \* the attach commands that need TURN credentials
    Machines,
    Elsewhere,  \* those another device of the owner may retire
    None,
    TTL,        \* DirectoryTTL; the stale ceiling is twice that
    Margin,     \* TURNRenewMargin
    Lifetime,   \* life of a minted TURN credential
    Timeout,    \* prewarmTimeout
    MaxTime,    \* bound on the clock
    MaxFaults   \* bound on requests lost and writes failed

ASSUME PrewarmAssumption ==
    /\ {TTL, Lifetime, MaxTime, MaxFaults} \subseteq Nat
    /\ Timeout \in Nat \ {0}
    /\ Margin \in Nat
    /\ 2 * Timeout <= Margin     \* 16 s against 2 min
    /\ 2 * Timeout < Lifetime    \* against 15 min
    /\ Dialers \subseteq Attaches
    /\ Elsewhere \subseteq Machines
    /\ Attaches \cap Revokes = {}
    /\ None \notin Int

VARIABLES
    now,
    relay,    \* machine -> when the relay learned its tombstone, or None
    store,    \* revocations.json
    cache,    \* source -> time of the cached answer, or None
    expiry,   \* end of the cached TURN credential, or None: no TURN here
    proc,     \* the commands
    lost,     \* a tombstone was overwritten by an overlapping record
    faults    \* requests lost and writes failed so far

prewarmVars == <<now, relay, store, cache, expiry, proc, lost, faults>>

Procs == Attaches \cup Revokes
Sources == {"revocations", "registry", "turn"}
Ceiling == 2 * TTL
Times == 0..MaxTime
Expiries == 0..(MaxTime + Lifetime)
Ended == {"attached", "unknown", "revoked", "revoke failed"}

NoPlan == [s \in Sources |-> "fetch"]

Commands ==
    [pc : Ended \cup {"idle", "registry", "turn", "revocations", "resolve", "refreshing",
                      "dialing", "recording", "posting"},
     plan : [Sources -> {"fresh", "stale", "fetch"}],
     fetch : [Sources -> {"none", "asked", "answered", "local", "reading", "done", "failed", "taken"}],
     since : [Sources -> Times],       \* when the fetch under way was started
     registry : {"relay", "cache", "error"},
     revocations : {"relay", "cache", "error"},
     turn : Expiries \cup {None},      \* end of the credentials in hand
     iceErr : BOOLEAN,                 \* Prewarm.ICEErr
     todo : SUBSET Machines,           \* tombstones to record
     read : SUBSET Machines,           \* revocations.json as RecordRevocation read it
     decided : SUBSET Machines]        \* tombstones the attach is decided on

PrewarmTypeOK ==
    /\ now \in Times
    /\ relay \in [Machines -> Times \cup {None, -Timeout}]
    /\ store \subseteq Machines
    /\ cache \in [Sources -> Times \cup {None}]
    /\ expiry \in Expiries \cup {None}
    /\ proc \in [Procs -> Commands]
    /\ lost \in BOOLEAN
    /\ faults \in 0..MaxFaults

\* Nothing is cached, or an earlier command has cached every answer just now: its
\* snapshot of the tombstones is as old as its request, so it misses the ones the
\* relay learned meanwhile.
PrewarmInit ==
    /\ now = 0
    /\ relay \in [Machines -> {None, -Timeout}]
    /\ \A m \in Machines \ Elsewhere : relay[m] = None
    /\ store = {}
    /\ \E at \in {None, 0} : cache = [s \in Sources |-> at]
    /\ expiry \in (IF cache["turn"] = None THEN {None} ELSE {None, Lifetime})
    /\ proc = [p \in Procs |->
          [pc |-> "idle", plan |-> NoPlan, fetch |-> [s \in Sources |-> "none"],
           since |-> [s \in Sources |-> 0], registry |-> "error",
           revocations |-> "error", turn |-> None, iceErr |-> FALSE,
           todo |-> {}, read |-> {}, decided |-> {}]]
    /\ lost = FALSE
    /\ faults = 0

Fault(happens) == faults' = (IF happens THEN faults + 1 ELSE faults) /\ faults' <= MaxFaults

At(p, l) == proc[p].pc = l
Fetch(p, s) == proc[p].fetch[s]
Landed(p, s) == Fetch(p, s) \in {"done", "failed"}
Published == {m \in Machines : relay[m] # None}

-----------------------------------------------------------------------------
(* How old answers may be.                                                 *)

\* Mutant: the ceiling itself still counts as stale.
DirectoryPlanLate(at, t) ==
    IF at = None \/ t < at \/ t - at > Ceiling THEN "fetch"
    ELSE IF t - at < TTL THEN "fresh" ELSE "stale"

\* A timestamp in the future is a miss.
DirectoryPlan(at, t) ==
    IF at = None \/ t < at \/ t - at >= Ceiling THEN "fetch"
    ELSE IF t - at < TTL THEN "fresh" ELSE "stale"

\* Mutant: a credential counts as fresh until it expires.
TurnPlanNoMargin(at, exp, t) ==
    IF at = None \/ t < at \/ (exp = None /\ t - at >= TTL) \/ (exp # None /\ t >= exp) THEN "fetch"
    ELSE "fresh"

TurnPlan(at, exp, t) ==
    IF at = None \/ t < at \/ (exp = None /\ t - at >= TTL) \/ (exp # None /\ t >= exp) THEN "fetch"
    ELSE IF exp # None /\ t >= exp - Margin THEN "stale" ELSE "fresh"

-----------------------------------------------------------------------------
(* Prewarmer.Run: plan, fire, join.                                        *)

\* Plan from the cache files alone and start every fetch that is needed.
\* readable: the cached registry still opens.
Run(p, readable) ==
    LET ice == p \in Dialers
        plan == [s \in Sources |->
            CASE s = "revocations" -> DirectoryPlan(cache[s], now)
              [] s = "registry" -> IF readable THEN DirectoryPlan(cache[s], now) ELSE "fetch"
              [] s = "turn" -> IF ice THEN TurnPlan(cache[s], expiry, now) ELSE "fresh"]
    IN  /\ p \in Attaches
        /\ At(p, "idle")
        /\ proc' = [proc EXCEPT ![p] =
              [@ EXCEPT !.pc = "registry",
                        !.plan = plan,
                        !.fetch = [s \in Sources |-> IF plan[s] = "fresh" THEN "none" ELSE "asked"],
                        !.since = [s \in Sources |-> IF plan[s] = "fresh" THEN 0 ELSE now],
                        !.registry = IF readable /\ cache["registry"] # None THEN "cache" ELSE "error",
                        !.turn = IF ice /\ cache["turn"] # None THEN expiry ELSE None]]
        /\ Fault(~readable)
        /\ UNCHANGED <<now, relay, store, cache, expiry, lost>>

\* The relay answers a request for revocations with the tombstones it has by now.
RelayAnswers(p) ==
    /\ Fetch(p, "revocations") = "asked"
    /\ proc' = [proc EXCEPT ![p].fetch["revocations"] = "answered", ![p].todo = Published]
    /\ UNCHANGED <<now, relay, store, cache, expiry, lost, faults>>

\* The request, or the answer on its way back, is lost or meets its timeout.
FetchFails(p, s) ==
    /\ Fetch(p, s) \in {"asked", "answered"}
    /\ proc' = [proc EXCEPT ![p].fetch[s] = "failed", ![p].since[s] = 0,
                            ![p].todo = IF s = "revocations" THEN {} ELSE @]
    /\ Fault(TRUE)
    /\ UNCHANGED <<now, relay, store, cache, expiry, lost>>

\* fetchRegistry: the answer is cached, if the cache can be written.
RegistryLands(p, written) ==
    /\ Fetch(p, "registry") = "asked"
    /\ proc' = [proc EXCEPT ![p].fetch["registry"] = "done", ![p].since["registry"] = 0]
    /\ cache' = IF written THEN [cache EXCEPT !["registry"] = now] ELSE cache
    /\ Fault(~written)
    /\ UNCHANGED <<now, relay, store, expiry, lost>>

\* fetchICE: freshly minted, or None from a relay that offers no TURN.
TurnLands(p, written, exp) ==
    /\ Fetch(p, "turn") = "asked"
    /\ proc' = [proc EXCEPT ![p].fetch["turn"] = "done", ![p].since["turn"] = 0, ![p].turn = exp]
    /\ cache' = IF written THEN [cache EXCEPT !["turn"] = now] ELSE cache
    /\ expiry' = IF written THEN exp ELSE expiry
    /\ Fault(~written)
    /\ UNCHANGED <<now, relay, store, lost>>

-----------------------------------------------------------------------------
(* fetchRevocations and RecordRevocation.                                  *)

\* RecordRevocation of the next record reads the file.
RecordRead(p) ==
    /\ Fetch(p, "revocations") \in {"answered", "local"}
    /\ proc[p].todo # {}
    /\ proc' = [proc EXCEPT ![p].fetch["revocations"] = "reading",
                            ![p].since["revocations"] = 0, ![p].read = store]
    /\ UNCHANGED <<now, relay, store, cache, expiry, lost, faults>>

\* It replaces the file by what it read and the record.
RecordWrite(p, m) ==
    /\ Fetch(p, "revocations") = "reading"
    /\ m \in proc[p].todo
    /\ store' = proc[p].read \cup {m}
    /\ lost' = (lost \/ ~(store \subseteq store'))
    /\ proc' = [proc EXCEPT ![p].fetch["revocations"] = "local", ![p].todo = @ \ {m}, ![p].read = {}]
    /\ UNCHANGED <<now, relay, cache, expiry, faults>>

\* A tombstone cannot be stored: the timestamp stays where it is.
RecordFails(p) ==
    /\ Fetch(p, "revocations") = "reading"
    /\ proc' = [proc EXCEPT ![p].fetch["revocations"] = "failed", ![p].todo = {}, ![p].read = {}]
    /\ Fault(TRUE)
    /\ UNCHANGED <<now, relay, store, cache, expiry, lost>>

\* Mutant: the timestamp moves although tombstones are still to be stored.
StampEarly(p, written) ==
    /\ Fetch(p, "revocations") \in {"answered", "local"}
    /\ proc' = [proc EXCEPT ![p].fetch["revocations"] = "done", ![p].since["revocations"] = 0]
    /\ cache' = IF written THEN [cache EXCEPT !["revocations"] = now] ELSE cache
    /\ Fault(~written)
    /\ UNCHANGED <<now, relay, store, expiry, lost>>

\* Every tombstone is stored: the cache timestamp moves, if it can be written.
Stamp(p, written) ==
    /\ Fetch(p, "revocations") \in {"answered", "local"}
    /\ proc[p].todo = {}
    /\ proc' = [proc EXCEPT ![p].fetch["revocations"] = "done", ![p].since["revocations"] = 0]
    /\ cache' = IF written THEN [cache EXCEPT !["revocations"] = now] ELSE cache
    /\ Fault(~written)
    /\ UNCHANGED <<now, relay, store, expiry, lost>>

-----------------------------------------------------------------------------
(* The joins, in the order of Run.                                         *)

\* A usable cached registry is served at once, unless its refresh has already
\* landed; without one the fetch is waited for.
JoinRegistry(p) ==
    /\ At(p, "registry")
    /\ proc[p].plan["registry"] = "fetch" => Landed(p, "registry")
    /\ proc' = [proc EXCEPT ![p].pc = "turn",
                            ![p].registry = IF Fetch(p, "registry") = "done" THEN "relay" ELSE @,
                            ![p].fetch["registry"] = IF Landed(p, "registry") THEN "taken" ELSE @]
    /\ UNCHANGED <<now, relay, store, cache, expiry, lost, faults>>

\* Fresh credentials come from the cache.  Else the fetch is waited for; when it
\* fails the cached ones are taken while they live, and the error is kept.
JoinTurn(p) ==
    LET failed == Fetch(p, "turn") = "failed"
        alive == proc[p].turn # None /\ now < proc[p].turn
    IN  /\ At(p, "turn")
        /\ proc[p].plan["turn"] # "fresh" => Landed(p, "turn")
        /\ proc' = [proc EXCEPT ![p].pc = "revocations",
                                ![p].iceErr = failed,
                                ![p].turn = IF failed /\ ~alive THEN None ELSE @]
        /\ UNCHANGED <<now, relay, store, cache, expiry, lost, faults>>

\* Mutant: past the ceiling the attach no longer waits for the relay.
JoinRevocationsUnawaited(p) ==
    /\ At(p, "revocations")
    /\ proc' = [proc EXCEPT ![p].pc = "resolve",
                            ![p].revocations = IF Fetch(p, "revocations") = "done" THEN "relay" ELSE "cache"]
    /\ UNCHANGED <<now, relay, store, cache, expiry, lost, faults>>

\* Stale tombstones do unless their refresh has landed by now; past the ceiling
\* the attach waits, and if the relay fails goes on with what is stored.
JoinRevocations(p) ==
    LET waits == proc[p].plan["revocations"] = "fetch" IN
    /\ At(p, "revocations")
    /\ waits => Landed(p, "revocations")
    /\ proc' = [proc EXCEPT ![p].pc = "resolve",
                            ![p].revocations = IF Fetch(p, "revocations") = "done" THEN "relay"
                                               ELSE IF waits THEN "error" ELSE "cache"]
    /\ UNCHANGED <<now, relay, store, cache, expiry, lost, faults>>

-----------------------------------------------------------------------------
(* resolveMachinesWarm and the attach that follows it.                     *)

\* The plans and sources of a warm-up do not outlive its decision.
Decided(c, l) == [c EXCEPT !.pc = l, !.plan = NoPlan, !.registry = "error", !.revocations = "error",
                           !.decided = {}]

\* The local tombstones are read once.  The name resolves, or is unknown, or a
\* cached registry earns one live question first: RefreshRegistry waits for the
\* refresh still in flight, or starts one.
Resolve(p, hit) ==
    LET again == Fetch(p, "registry") \in {"none", "taken"} IN
    /\ At(p, "resolve")
    /\ proc' = [proc EXCEPT ![p] =
          IF hit \/ proc[p].registry # "cache"
          THEN IF hit THEN [@ EXCEPT !.pc = "dialing", !.decided = store] ELSE Decided(@, "unknown")
          ELSE [@ EXCEPT !.pc = "refreshing", !.decided = store,
                         !.fetch["registry"] = IF again THEN "asked" ELSE Fetch(p, "registry"),
                         !.since["registry"] = IF again THEN now ELSE proc[p].since["registry"]]]
    /\ UNCHANGED <<now, relay, store, cache, expiry, lost, faults>>

Refreshed(p, hit) ==
    /\ At(p, "refreshing")
    /\ Landed(p, "registry")
    /\ proc' = [proc EXCEPT ![p] = IF hit /\ Fetch(p, "registry") = "done"
                                   THEN [@ EXCEPT !.pc = "dialing"] ELSE Decided(@, "unknown")]
    /\ UNCHANGED <<now, relay, store, cache, expiry, lost, faults>>

\* cmdAttach takes the warm credentials unless the warm-up met an error or guessed
\* the wrong relay; then it asks once more (got), and without an answer dials with none.
Dial(p, again, got) ==
    /\ At(p, "dialing")
    /\ proc[p].iceErr => again
    /\ proc' = [proc EXCEPT ![p] =
          [Decided(@, "attached") EXCEPT !.turn = IF again THEN got ELSE proc[p].turn]]
    /\ Fault(again /\ got = None)
    /\ UNCHANGED <<now, relay, store, cache, expiry, lost>>

-----------------------------------------------------------------------------
(* cmdMachineRevoke and retireResolved: stored locally, then published.    *)

Retire(p, m) ==
    /\ p \in Revokes
    /\ At(p, "idle")
    /\ proc' = [proc EXCEPT ![p].pc = "recording", ![p].read = store, ![p].todo = {m}]
    /\ UNCHANGED <<now, relay, store, cache, expiry, lost, faults>>

RetireRecords(p) ==
    /\ At(p, "recording")
    /\ store' = proc[p].read \cup proc[p].todo
    /\ lost' = (lost \/ ~(store \subseteq store'))
    /\ proc' = [proc EXCEPT ![p].pc = "posting"]
    /\ UNCHANGED <<now, relay, cache, expiry, faults>>

\* Nothing is published when the tombstone could not be stored.
RetireNotRecorded(p) ==
    /\ At(p, "recording")
    /\ proc' = [proc EXCEPT ![p].pc = "revoke failed"]
    /\ Fault(TRUE)
    /\ UNCHANGED <<now, relay, store, cache, expiry, lost>>

Post(p, reached) ==
    /\ At(p, "posting")
    /\ relay' = [m \in Machines |->
          IF reached /\ m \in proc[p].todo /\ relay[m] = None THEN now ELSE relay[m]]
    /\ proc' = [proc EXCEPT ![p].pc = IF reached THEN "revoked" ELSE "revoke failed"]
    /\ Fault(~reached)
    /\ UNCHANGED <<now, store, cache, expiry, lost>>

\* Another device of the owner publishes a tombstone (external).
RevokedElsewhere(m) ==
    /\ relay[m] = None
    /\ relay' = [relay EXCEPT ![m] = now]
    /\ UNCHANGED <<now, store, cache, expiry, proc, lost, faults>>

-----------------------------------------------------------------------------

\* The command waits for the relay, or is not running.
AtRest(p) ==
    \/ proc[p].pc \in Ended \cup {"idle"}
    \/ \E s \in Sources :
          At(p, s) /\ ~Landed(p, s) /\ proc[p].plan[s] \in (IF s = "turn" THEN {"stale", "fetch"} ELSE {"fetch"})
    \/ At(p, "refreshing") /\ ~Landed(p, "registry")

\* Time passes while every command waits or is done, and no fetch outlives its
\* timeout.
Tick ==
    /\ now < MaxTime
    /\ \A p \in Procs :
          /\ AtRest(p)
          /\ \A s \in Sources :
                /\ Fetch(p, s) \in {"asked", "answered"} => now < proc[p].since[s] + Timeout
                /\ Fetch(p, s) \notin {"reading", "local"}
    /\ now' = now + 1
    /\ UNCHANGED <<relay, store, cache, expiry, proc, lost, faults>>

PrewarmNext ==
    \/ \E p \in Procs :
          \/ \E readable \in BOOLEAN : Run(p, readable)
          \/ RelayAnswers(p) \/ \E s \in Sources : FetchFails(p, s)
          \/ \E w \in BOOLEAN : RegistryLands(p, w) \/ Stamp(p, w)
          \/ \E w \in BOOLEAN, exp \in {None, now + Lifetime} : TurnLands(p, w, exp)
          \/ RecordRead(p) \/ RecordFails(p)
          \/ \E m \in Machines : RecordWrite(p, m) \/ Retire(p, m)
          \/ JoinRegistry(p) \/ JoinTurn(p) \/ JoinRevocations(p)
          \/ \E hit \in BOOLEAN : Resolve(p, hit) \/ Refreshed(p, hit) \/ Post(p, hit)
          \/ \E again \in BOOLEAN, got \in {None, now + Lifetime} : Dial(p, again, got)
          \/ RetireRecords(p) \/ RetireNotRecorded(p)
    \/ \E m \in Elsewhere : RevokedElsewhere(m)
    \/ Tick

PrewarmSpec == PrewarmInit /\ [][PrewarmNext]_prewarmVars

-----------------------------------------------------------------------------

\* How long the relay has known a tombstone that the attach was decided without.
Overlooked(p) == {now - relay[m] : m \in Published \ proc[p].decided}

\* The snapshot an attach is decided on (prewarm.go:11-13, 36-40).  An attach that
\* did not meet a relay error overlooks a tombstone only for the ceiling and the
\* three waits around it (the cached fetch, the joins, the live registry
\* question), unless an overlapping RecordRevocation overwrote it.
RevocationsFresh ==
    \A p \in Procs : (At(p, "dialing") /\ proc[p].revocations # "error" /\ ~lost)
        => \A age \in Overlooked(p) : age < Ceiling + 3 * Timeout

\* Credentials in hand when the attach dials have not expired: the renew margin
\* outlasts the waits between the plan and the dial.
TurnAlive == \A p \in Procs : (At(p, "dialing") /\ ~proc[p].iceErr /\ proc[p].turn # None) => now < proc[p].turn

\* Prewarmer.Run, resolveMachinesWarm and cmdAttach: an attach overlooks a tombstone
\* only for the stale ceiling and the waits around it, and the TURN credentials in
\* hand at the dial are alive.
DecidedFresh == RevocationsFresh /\ TurnAlive

\* turnPlan's comment (prewarm.go:173-175): a relay that goes down within the
\* margin does not cost the relayed path.  cmdAttach drops the credentials the
\* warm-up fell back to, so it does.
RelayedPathKept ==
    [][\A p \in Procs : (At(p, "dialing") /\ proc'[p].pc = "attached" /\ proc[p].turn # None)
          => proc'[p].turn # None]_prewarmVars
=============================================================================
