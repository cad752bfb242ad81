------------------------------ MODULE AgentRuntime ------------------------------
(***************************************************************************)
(* The agent's runtime: go/internal/agent/runtime.go, with the auto-update *)
(* loop of go/internal/cli/agent_cmds.go that asks it whether it is idle.  *)
(*                                                                         *)
(* One goroutine re-reads the pins from config.json and reconciles them    *)
(* with the serveOwner loops; each loop keeps one owner registered at the  *)
(* relay; each offer is handled in a goroutine that runs under the context *)
(* of the loop that received it.                                           *)
(***************************************************************************)
EXTENDS Naturals, FiniteSets

CONSTANTS
    Owners,
    Offers,
    Guests,      \* offers whose principal is a guest, the others come from the owner
    OwnerOf,     \* offer -> owner it is routed to
    SessionOf,   \* offer -> session id it signs
    MaxSlots,    \* capacity of Runtime.sem
    ReplayTTL,   \* how long acceptAttachSession remembers a session id
    NoReload,
    Never,
    MaxTime,     \* bound on the clock
    MaxChanges,  \* bound on changes of the pins in config.json
    MaxGens,     \* bound on the loops of one owner
    MaxUpdates   \* bound on update checks

ASSUME RuntimeAssumption ==
    /\ Guests \subseteq Offers
    /\ OwnerOf \in [Offers -> Owners]
    /\ MaxSlots \in Nat \ {0}
    /\ ReplayTTL \in Nat
    /\ MaxTime \in Nat /\ MaxChanges \in Nat /\ MaxUpdates \in Nat
    /\ MaxGens \in Nat /\ 2 * MaxGens > MaxChanges + 1
    /\ \A s \in SUBSET Owners : s # NoReload
    /\ Never \notin 0..MaxTime

VARIABLES
    now,
    disk,       \* owners pinned in config.json
    changes,
    pins,       \* cfg.PairedOwners                               (pinMu)
    want,       \* pins read by a reload that is not reconciled yet
    run,        \* owner -> generation of the loop in ownerRun, 0 if none (pinMu)
    gens,       \* owner -> loops started so far
    loop,       \* owner -> generation -> state of that serveOwner loop
    cancelled,  \* loops whose context is cancelled
    gone,       \* owners who revoked this machine at the relay
    seen,       \* seenAttaches: principal and session -> time or Never (seenMu)
    pc, gen,    \* offer -> control state and loop that received it
    accepted,   \* offer -> when its session id was accepted (history)
    sem,        \* slots taken
    active,     \* authenticated sessions
    upd,        \* control state of autoUpdateLoop
    updates

pinVars == <<disk, changes>>
ownerVars == <<pins, want, run, gens, loop, cancelled, gone>>
offerVars == <<seen, pc, gen, accepted, sem, active>>
updVars == <<upd, updates>>
vars == <<now, pinVars, ownerVars, offerVars, updVars>>

Gens == 1..MaxGens
Principal(f) == <<f \in Guests, OwnerOf[f], SessionOf[f]>>
Keys == {Principal(f) : f \in Offers}
InFlight == {"handshake", "established", "serving"}
Done == {"rejected", "ended"}

TypeOK ==
    /\ now \in 0..MaxTime
    /\ disk \subseteq Owners /\ pins \subseteq Owners /\ gone \subseteq Owners
    /\ want = NoReload \/ want \subseteq Owners
    /\ run \in [Owners -> 0..MaxGens] /\ gens \in [Owners -> 0..MaxGens]
    /\ loop \in [Owners -> [Gens -> {"none", "dialing", "connected", "backoff", "returned"}]]
    /\ cancelled \subseteq Owners \X Gens
    /\ seen \in [Keys -> 0..MaxTime \cup {Never}]
    /\ pc \in [Offers -> {"idle", "pin", "grant", "accept", "admit"} \cup InFlight \cup Done]
    /\ gen \in [Offers -> 0..MaxGens]
    /\ accepted \in [Offers -> 0..MaxTime \cup {Never}]
    /\ sem \in 0..MaxSlots
    /\ active \in Nat
    /\ upd \in {"idle", "apply", "recheck", "exec"}
    /\ changes \in 0..MaxChanges /\ updates \in 0..MaxUpdates

\* reconcileOwners on an empty ownerRun.
FirstRun(owners) == [o \in Owners |-> IF o \in owners THEN 1 ELSE 0]
FirstLoops(owners) ==
    [o \in Owners |-> [g \in Gens |-> IF o \in owners /\ g = 1 THEN "dialing" ELSE "none"]]

\* NewRuntime, and Up with the pins that LoadOrInit read.
Init ==
    /\ now = 0
    /\ disk \in SUBSET Owners \ {{}}
    /\ changes = 0 /\ updates = 0
    /\ gone = {}
    /\ pc = [f \in Offers |-> "idle"]
    /\ pins = disk /\ want = NoReload
    /\ run = FirstRun(disk) /\ gens = FirstRun(disk) /\ loop = FirstLoops(disk)
    /\ cancelled = {}
    /\ seen = [k \in Keys |-> Never]
    /\ gen = [f \in Offers |-> 0]
    /\ accepted = [f \in Offers |-> Never]
    /\ sem = 0 /\ active = 0
    /\ upd = "idle"

Tick ==
    /\ now < MaxTime
    /\ now' = now + 1
    /\ UNCHANGED <<pinVars, ownerVars, offerVars, updVars>>

\* Another process pins an owner, or its pin is taken out of config.json.
ChangePin(o) ==
    /\ changes < MaxChanges
    /\ changes' = changes + 1
    /\ disk' = IF o \in disk THEN disk \ {o} ELSE disk \cup {o}
    /\ UNCHANGED <<now, ownerVars, offerVars, updVars>>

-----------------------------------------------------------------------------
(* reconcileOwners, on the ticker of Up.                                   *)

\* ReloadOwners and replacePins.
Reload ==
    /\ want = NoReload
    /\ want' = disk
    /\ pins' = disk
    /\ UNCHANGED <<now, pinVars, run, gens, loop, cancelled, gone, offerVars, updVars>>

Stopped == {o \in Owners : run[o] # 0 /\ o \notin want}

\* Mutant: a loop that is already live is started again.
StartedAll == want

Started == {o \in want : run[o] = 0}

\* Mutant: the loops of removed owners are forgotten, not cancelled.
ReconcileForgets ==
    /\ want # NoReload
    /\ gens' = [o \in Owners |-> IF o \in Started THEN gens[o] + 1 ELSE gens[o]]
    /\ run' = [o \in Owners |-> IF o \in Started THEN gens'[o] ELSE IF o \in Stopped THEN 0 ELSE run[o]]
    /\ loop' = [o \in Owners |-> IF o \in Started THEN [loop[o] EXCEPT ![gens'[o]] = "dialing"] ELSE loop[o]]
    /\ want' = NoReload
    /\ UNCHANGED <<now, pinVars, pins, cancelled, gone, offerVars, updVars>>

\* Mutant: a cancelled loop stays in ownerRun.
ReconcileKeepsEntry ==
    /\ want # NoReload
    /\ gens' = [o \in Owners |-> IF o \in Started THEN gens[o] + 1 ELSE gens[o]]
    /\ run' = [o \in Owners |-> IF o \in Started THEN gens'[o] ELSE run[o]]
    /\ cancelled' = cancelled \cup {<<o, run[o]>> : o \in Stopped}
    /\ loop' = [o \in Owners |-> IF o \in Started THEN [loop[o] EXCEPT ![gens'[o]] = "dialing"] ELSE loop[o]]
    /\ want' = NoReload
    /\ UNCHANGED <<now, pinVars, pins, gone, offerVars, updVars>>

\* Loops of removed owners are cancelled, new owners get a loop.
Reconcile ==
    /\ want # NoReload
    /\ gens' = [o \in Owners |-> IF o \in Started THEN gens[o] + 1 ELSE gens[o]]
    /\ run' = [o \in Owners |-> IF o \in Started THEN gens'[o] ELSE IF o \in Stopped THEN 0 ELSE run[o]]
    /\ cancelled' = cancelled \cup {<<o, run[o]>> : o \in Stopped}
    /\ loop' = [o \in Owners |-> IF o \in Started THEN [loop[o] EXCEPT ![gens'[o]] = "dialing"] ELSE loop[o]]
    /\ want' = NoReload
    /\ UNCHANGED <<now, pinVars, pins, gone, offerVars, updVars>>

-----------------------------------------------------------------------------
(* serveOwner and serveOnce.                                               *)

LoopGoto(o, g, l) ==
    /\ loop' = [loop EXCEPT ![o][g] = l]
    /\ UNCHANGED <<now, pinVars, pins, want, run, gens, cancelled, gone, offerVars, updVars>>

Live(o, g) == <<o, g>> \notin cancelled

Dial(o, g) ==
    /\ loop[o][g] = "dialing"
    /\ Live(o, g)
    /\ o \notin gone
    /\ LoopGoto(o, g, "connected")

DialFails(o, g) ==
    /\ loop[o][g] = "dialing"
    /\ Live(o, g)
    /\ LoopGoto(o, g, "backoff")

\* The relay answers 410: the loop gives up for good.
DialGone(o, g) ==
    /\ loop[o][g] = "dialing"
    /\ Live(o, g)
    /\ o \in gone
    /\ LoopGoto(o, g, "returned")

Disconnect(o, g) ==
    /\ loop[o][g] = "connected"
    /\ Live(o, g)
    /\ LoopGoto(o, g, "backoff")

Redial(o, g) ==
    /\ loop[o][g] = "backoff"
    /\ Live(o, g)
    /\ LoopGoto(o, g, "dialing")

LoopCancelled(o, g) ==
    /\ loop[o][g] \in {"dialing", "connected", "backoff"}
    /\ ~Live(o, g)
    /\ LoopGoto(o, g, "returned")

\* The owner revokes this machine at the relay.
RelayRevokes(o) ==
    /\ o \notin gone
    /\ gone' = gone \cup {o}
    /\ UNCHANGED <<now, pinVars, pins, want, run, gens, loop, cancelled, offerVars, updVars>>

-----------------------------------------------------------------------------
(* handleOffer, authorizeOffer and serveAuthenticated.                     *)

Goto(f, l) == pc' = [pc EXCEPT ![f] = l]
OfferOnly == UNCHANGED <<now, pinVars, ownerVars, updVars>>

Receive(f) ==
    /\ pc[f] = "idle"
    /\ \E g \in Gens : loop[OwnerOf[f]][g] = "connected" /\ gen' = [gen EXCEPT ![f] = g]
    /\ Goto(f, IF f \in Guests THEN "grant" ELSE "pin")
    /\ OfferOnly /\ UNCHANGED <<seen, accepted, sem, active>>

CheckPin(f) ==
    /\ pc[f] = "pin"
    /\ Goto(f, IF OwnerOf[f] \in pins THEN "accept" ELSE "rejected")
    /\ OfferOnly /\ UNCHANGED <<seen, gen, accepted, sem, active>>

\* findValidGuestGrant finds a grant for the principal, or does not.
CheckGrant(f) ==
    /\ pc[f] = "grant"
    /\ Goto(f, "accept") \/ Goto(f, "rejected")
    /\ OfferOnly /\ UNCHANGED <<seen, gen, accepted, sem, active>>

\* Mutant: session ids are forgotten at once when they reach the limit.
PrunedEarly == [k \in Keys |-> IF seen[k] # Never /\ now >= seen[k] + ReplayTTL THEN Never ELSE seen[k]]

\* The entries that acceptAttachSession keeps.
Pruned == [k \in Keys |-> IF seen[k] # Never /\ now > seen[k] + ReplayTTL THEN Never ELSE seen[k]]

AcceptSession(f) ==
    /\ pc[f] = "accept"
    /\ Pruned[Principal(f)] = Never
    /\ seen' = [Pruned EXCEPT ![Principal(f)] = now]
    /\ accepted' = [accepted EXCEPT ![f] = now]
    /\ Goto(f, "admit")
    /\ OfferOnly /\ UNCHANGED <<gen, sem, active>>

Replayed(f) ==
    /\ pc[f] = "accept"
    /\ Pruned[Principal(f)] # Never
    /\ seen' = Pruned
    /\ Goto(f, "rejected")
    /\ OfferOnly /\ UNCHANGED <<gen, accepted, sem, active>>

Admit(f) ==
    /\ pc[f] = "admit"
    /\ sem < MaxSlots
    /\ sem' = sem + 1
    /\ Goto(f, "handshake")
    /\ OfferOnly /\ UNCHANGED <<seen, gen, accepted, active>>

Busy(f) ==
    /\ pc[f] = "admit"
    /\ sem >= MaxSlots
    /\ Goto(f, "rejected")
    /\ OfferOnly /\ UNCHANGED <<seen, gen, accepted, sem, active>>

\* Mutant: an abandoned handshake keeps its slot.
HandshakeFailsKeepsSlot(f) ==
    /\ pc[f] = "handshake"
    /\ Goto(f, "ended")
    /\ OfferOnly /\ UNCHANGED <<seen, gen, accepted, sem, active>>

\* No answer, no data channel within 20 s, a failed Noise handshake, or the
\* context of the loop is cancelled: the deferred releaseHS frees the slot.
HandshakeFails(f) ==
    /\ pc[f] = "handshake"
    /\ sem' = sem - 1
    /\ Goto(f, "ended")
    /\ OfferOnly /\ UNCHANGED <<seen, gen, accepted, active>>

\* RunResponder succeeds: handshakeDone frees the slot.
HandshakeDone(f) ==
    /\ pc[f] = "handshake"
    /\ Live(OwnerOf[f], gen[f])
    /\ sem' = sem - 1
    /\ Goto(f, "established")
    /\ OfferOnly /\ UNCHANGED <<seen, gen, accepted, active>>

\* sessionStarted, for owners and guests.
StartSession(f) ==
    /\ pc[f] = "established"
    /\ active' = active + 1
    /\ Goto(f, "serving")
    /\ OfferOnly /\ UNCHANGED <<seen, gen, accepted, sem>>

\* The session ends, or its context is cancelled; sessionEnded is deferred.
SessionEnds(f) ==
    /\ pc[f] = "serving"
    /\ active' = active - 1
    /\ Goto(f, "ended")
    /\ OfferOnly /\ UNCHANGED <<seen, gen, accepted, sem>>

-----------------------------------------------------------------------------
(* autoUpdateLoop.                                                         *)

UpdGoto(l) == upd' = l /\ UNCHANGED <<now, pinVars, ownerVars, offerVars>>

\* Idle, and a newer release exists.
UpdateCheck ==
    /\ upd = "idle"
    /\ updates < MaxUpdates
    /\ active = 0
    /\ updates' = updates + 1
    /\ UpdGoto("apply")

\* Apply replaces the binary, or fails.
UpdateApply ==
    /\ upd = "apply"
    /\ UpdGoto("recheck") \/ UpdGoto("idle")
    /\ UNCHANGED updates

UpdateRecheck ==
    /\ upd = "recheck"
    /\ UpdGoto(IF active > 0 THEN "idle" ELSE "exec")
    /\ UNCHANGED updates

\* syscall.Exec: everything in memory is gone and Up starts again.  Without a
\* pin the agent first waits to be paired, as a runtime without loops does.
ReExec ==
    /\ upd = "exec"
    /\ pc' = [f \in Offers |-> IF pc[f] = "idle" THEN "idle" ELSE "ended"]
    /\ pins' = disk /\ want' = NoReload
    /\ run' = FirstRun(disk) /\ gens' = FirstRun(disk) /\ loop' = FirstLoops(disk)
    /\ cancelled' = {}
    /\ seen' = [k \in Keys |-> Never]
    /\ gen' = [f \in Offers |-> 0]
    /\ accepted' = [f \in Offers |-> Never]
    /\ sem' = 0 /\ active' = 0
    /\ upd' = "idle"
    /\ UNCHANGED <<now, pinVars, gone, updates>>

-----------------------------------------------------------------------------

OfferStep(f) ==
    \/ CheckPin(f) \/ CheckGrant(f) \/ AcceptSession(f) \/ Replayed(f)
    \/ Admit(f) \/ Busy(f) \/ HandshakeDone(f) \/ HandshakeFails(f)
    \/ StartSession(f)

LoopStep(o, g) ==
    \/ Dial(o, g) \/ DialFails(o, g) \/ DialGone(o, g) \/ Redial(o, g) \/ LoopCancelled(o, g)

Next ==
    \/ Tick \/ Reload \/ Reconcile
    \/ \E o \in Owners :
          \/ ChangePin(o) \/ RelayRevokes(o)
          \/ \E g \in Gens : LoopStep(o, g) \/ Disconnect(o, g)
    \/ \E f \in Offers : Receive(f) \/ OfferStep(f) \/ SessionEnds(f)
    \/ UpdateCheck \/ UpdateApply \/ UpdateRecheck \/ ReExec

\* The ticker of Up, the loops and the offer handlers run; a session whose
\* context is cancelled ends.
Fairness ==
    /\ WF_vars(Reload) /\ WF_vars(Reconcile)
    /\ WF_vars(UpdateApply) /\ WF_vars(UpdateRecheck) /\ WF_vars(ReExec)
    /\ \A o \in Owners, g \in Gens : WF_vars(LoopStep(o, g))
    /\ \A f \in Offers :
          /\ WF_vars(OfferStep(f))
          /\ WF_vars(~Live(OwnerOf[f], gen[f]) /\ SessionEnds(f))

Spec == Init /\ [][Next]_vars
FairSpec == Spec /\ Fairness

-----------------------------------------------------------------------------

\* Slots are held by handshakes and by nothing else, and the count that gates
\* auto-update is the number of sessions being served: neither is leaked or
\* given back twice on any path out of handleOffer.
SlotsAndSessionsCounted ==
    /\ sem = Cardinality({f \in Offers : pc[f] = "handshake"})
    /\ active = Cardinality({f \in Offers : pc[f] = "serving"})

\* A signed session id is accepted once; a second time only when the first is
\* older than the replay window.
NoReplay ==
    \A e, f \in Offers :
        (e # f /\ Principal(e) = Principal(f) /\ accepted[e] # Never /\ accepted[f] # Never) =>
            accepted[e] + ReplayTTL < accepted[f] \/ accepted[f] + ReplayTTL < accepted[e]

\* No owner has two loops that are not cancelled: they would replace each other
\* at the relay for ever.
OneLoopPerOwner ==
    \A o \in Owners, g, h \in Gens :
        (loop[o][g] \notin {"none", "returned"} /\ loop[o][h] \notin {"none", "returned"}
            /\ Live(o, g) /\ Live(o, h)) => g = h

\* Nothing runs under a live context for an owner whose pin is gone, except
\* while a reload is half done.
ServedArePinned ==
    want = NoReload =>
        \A f \in Offers : pc[f] \in InFlight =>
            OwnerOf[f] \in pins \/ ~Live(OwnerOf[f], gen[f])

\* When the pin of an owner is removed for good, every session that runs in its
\* name, of guests too, ends.
UnpinnedDrained ==
    \A o \in Owners :
        <>[](o \notin disk) => <>[](\A f \in Offers : OwnerOf[f] = o => pc[f] \notin InFlight)

\* An owner who stays pinned has a loop that keeps it registered, unless it
\* revoked this machine.
PinnedHasLoop ==
    \A o \in Owners :
        <>[](o \in disk) =>
            <>[](o \in gone \/ \E g \in Gens : Live(o, g) /\ loop[o][g] \notin {"none", "returned"})

\* reconcileOwners: no owner has two loops, and nothing runs for one without a pin.
OwnersSound == OneLoopPerOwner /\ ServedArePinned

\* reconcileOwners and serveOwner: however the pins changed, in the end what runs is
\* what they say.
OwnersSettle == UnpinnedDrained /\ PinnedHasLoop

\* A guest's offer is authorized only while the owner of its grant is pinned.
GrantNeedsPin ==
    [][\A f \in Guests : (pc[f] = "grant" /\ pc'[f] = "accept") => OwnerOf[f] \in pins]_vars

\* The binary is replaced only while no session is active.
UpdatesOnlyWhenIdle == [][(upd = "exec" /\ upd' = "idle") => active = 0]_vars

=============================================================================
