--------------------------- MODULE AgentRuntimeProofs ---------------------------
(***************************************************************************)
(* The agent's runtime for any number of owners, offers and slots, any     *)
(* replay window and any order of reloads, offers and updates.             *)
(***************************************************************************)
EXTENDS AgentRuntime, FiniteSetTheorems, TLAPS

Handshaking == {f \in Offers : pc[f] = "handshake"}
Serving == {f \in Offers : pc[f] = "serving"}

\* The two counts are the sizes of finite sets.
Counted ==
    /\ IsFiniteSet(Handshaking) /\ sem = Cardinality(Handshaking)
    /\ IsFiniteSet(Serving) /\ active = Cardinality(Serving)

\* What acceptAttachSession remembers covers what it accepted: the entry of a principal is
\* not older than the session ids accepted from it, and where the entry was pruned all of
\* them are past the replay window.
Remembered ==
    /\ \A k \in Keys : seen[k] # Never => seen[k] <= now
    /\ \A f \in Offers : accepted[f] # Never =>
          IF seen[Principal(f)] = Never
          THEN accepted[f] + ReplayTTL < now
          ELSE accepted[f] <= seen[Principal(f)]

\* A reload that is not reconciled yet read the pins in force; reconciled, no loop is in
\* ownerRun without a pin.
Reconciled ==
    /\ want # NoReload => want = pins
    /\ want = NoReload => \A o \in Owners : run[o] # 0 => o \in pins

\* Of the loops an owner ever had, only the one in ownerRun may still be live; what was
\* never started is not running, and an offer in hand came from a loop that was.
LoopsKnown ==
    /\ \A o \in Owners : run[o] <= gens[o]
    /\ \A o \in Owners, g \in Gens : (g <= gens[o] /\ Live(o, g)) => run[o] = g
    /\ \A o \in Owners, g \in Gens : loop[o][g] # "none" => g <= gens[o]
    /\ \A f \in Offers : pc[f] \notin {"idle"} \cup Done =>
          gen[f] \in Gens /\ gen[f] <= gens[OwnerOf[f]]

\* Every loop that was started used up two changes of the pins in config.json but for the
\* first one: what the reloads still have to do counts as well.
Spent ==
    \A o \in Owners :
        2 * gens[o] + (IF run[o] # 0 <=> o \in pins THEN 0 ELSE 1)
                    + (IF o \in pins <=> o \in disk THEN 0 ELSE 1)
            <= changes + 1 + (IF run[o] # 0 THEN 1 ELSE 0)

RuntimeInv == TypeOK /\ Counted /\ Remembered /\ Reconciled /\ LoopsKnown /\ Spent

USE DEF pinVars, ownerVars, offerVars, updVars

-----------------------------------------------------------------------------
(* Who changes what.                                                       *)

\* Pins and loops change by reloads, reconciliation, the loops themselves, an edit of
\* config.json, a revocation and a re-exec.
LEMMA OwnerSteps ==
    ASSUME [Next]_vars
    PROVE  \/ UNCHANGED <<disk, changes, pins, want, run, gens, loop, cancelled>>
           \/ Reload \/ Reconcile \/ ReExec
           \/ \E o \in Owners : ChangePin(o)
           \/ \E o \in Owners, g \in Gens :
                 /\ loop[o][g] # "none"
                 /\ \E l \in {"dialing", "connected", "backoff", "returned"} : LoopGoto(o, g, l)
BY DEF Next, vars, Tick, RelayRevokes, LoopStep, Dial, DialFails, DialGone, Disconnect, Redial,
       LoopCancelled, Receive, OfferStep, SessionEnds, CheckPin, CheckGrant, AcceptSession,
       Replayed, Admit, Busy, HandshakeDone, HandshakeFails, StartSession, OfferOnly,
       UpdateCheck, UpdateApply, UpdateRecheck, UpdGoto

\* Offers change by their own handlers and by a re-exec.
LEMMA HandlerSteps ==
    ASSUME [Next]_vars
    PROVE  \/ UNCHANGED <<pc, gen, accepted, seen, sem, active>>
           \/ ReExec
           \/ \E f \in Offers : Receive(f) \/ OfferStep(f) \/ SessionEnds(f)
BY DEF Next, vars, Tick, RelayRevokes, LoopStep, Dial, DialFails, DialGone, Disconnect, Redial,
       LoopCancelled, LoopGoto, Reload, Reconcile, ChangePin,
       UpdateCheck, UpdateApply, UpdateRecheck, UpdGoto

\* Replay state changes by accepting and by refusing an id, by the clock and by a re-exec.
LEMMA ReplaySteps ==
    ASSUME [Next]_vars
    PROVE  \/ UNCHANGED <<now, seen, accepted>>
           \/ Tick \/ ReExec
           \/ \E f \in Offers : AcceptSession(f) \/ Replayed(f)
BY DEF Next, vars, RelayRevokes, LoopStep, Dial, DialFails, DialGone, Disconnect, Redial,
       LoopCancelled, LoopGoto, Reload, Reconcile, ChangePin, Receive, OfferStep, SessionEnds,
       CheckPin, CheckGrant, Admit, Busy, HandshakeDone, HandshakeFails, StartSession, OfferOnly,
       UpdateCheck, UpdateApply, UpdateRecheck, UpdGoto

-----------------------------------------------------------------------------
(* Replay.                                                                 *)

\* The principal of an offer has an entry in seenAttaches, or may have one.
LEMMA PrincipalKey == \A f \in Offers : Principal(f) \in Keys
BY DEF Keys

\* Accepting an id finds every earlier acceptance of it past the window, and remembers
\* this one; pruning forgets only what is past it.
LEMMA ReplayStep ==
    ASSUME TypeOK, Remembered, NoReplay, [Next]_vars
    PROVE  Remembered' /\ NoReplay'
<1>0. /\ now \in Nat /\ ReplayTTL \in Nat
      /\ \A k \in Keys : seen[k] # Never => seen[k] \in Nat
      /\ \A f \in Offers : accepted[f] # Never => accepted[f] \in Nat
      /\ DOMAIN seen = Keys /\ DOMAIN accepted = Offers
      /\ \A f \in Offers : Principal(f) \in Keys
      /\ now # Never
  BY RuntimeAssumption, PrincipalKey DEF TypeOK
<1> HIDE DEF Principal, Keys
<1>1. CASE UNCHANGED <<now, seen, accepted>>
  BY <1>1 DEF Remembered, NoReplay
<1>2. CASE Tick
  <2>1. now' = now + 1 /\ UNCHANGED <<seen, accepted>>
    BY <1>2 DEF Tick
  <2>2. NoReplay'
    BY <2>1 DEF NoReplay
  <2>3. \A k \in Keys : seen'[k] # Never => seen'[k] <= now'
    BY <1>0, <2>1 DEF Remembered
  <2>4. ASSUME NEW f \in Offers, accepted'[f] # Never
        PROVE IF seen'[Principal(f)] = Never
              THEN accepted'[f] + ReplayTTL < now'
              ELSE accepted'[f] <= seen'[Principal(f)]
    BY <1>0, <2>1, <2>4 DEF Remembered
  <2> QED
    BY <2>2, <2>3, <2>4 DEF Remembered
<1>3. CASE ReExec
  <2>1. seen' = [k \in Keys |-> Never] /\ accepted' = [f \in Offers |-> Never]
    BY <1>3 DEF ReExec
  <2> QED
    BY <1>0, <2>1 DEF Remembered, NoReplay
<1>4. /\ \A k \in Keys : Pruned[k] # Never => Pruned[k] = seen[k] /\ seen[k] <= now
      /\ \A k \in Keys : Pruned[k] = Never => seen[k] = Never \/ seen[k] + ReplayTTL < now
      /\ DOMAIN Pruned = Keys
  BY <1>0 DEF Pruned, Remembered
<1>5. ASSUME NEW e \in Offers, accepted[e] # Never, Pruned[Principal(e)] = Never
      PROVE  accepted[e] + ReplayTTL < now
  BY <1>0, <1>4, <1>5 DEF Remembered
<1>6. ASSUME NEW e \in Offers, accepted[e] # Never
      PROVE  IF Pruned[Principal(e)] = Never
             THEN accepted[e] + ReplayTTL < now
             ELSE accepted[e] <= Pruned[Principal(e)] /\ accepted[e] <= now
  BY <1>0, <1>4, <1>5, <1>6 DEF Remembered
<1>7. ASSUME NEW f \in Offers, AcceptSession(f) PROVE Remembered' /\ NoReplay'
  <2>1. /\ Pruned[Principal(f)] = Never
        /\ seen' = [Pruned EXCEPT ![Principal(f)] = now]
        /\ accepted' = [accepted EXCEPT ![f] = now] /\ now' = now
    BY <1>7 DEF AcceptSession, OfferOnly
  <2> HIDE DEF Pruned
  <2>2. \A k \in Keys : seen'[k] = IF k = Principal(f) THEN now ELSE Pruned[k]
    BY <1>0, <1>4, <2>1
  <2>3. \A e \in Offers : accepted'[e] = IF e = f THEN now ELSE accepted[e]
    BY <1>0, <2>1
  <2>4. \A k \in Keys : seen'[k] # Never => seen'[k] <= now'
    BY <1>0, <1>4, <2>1, <2>2
  <2>5. ASSUME NEW e \in Offers, accepted'[e] # Never
        PROVE IF seen'[Principal(e)] = Never
              THEN accepted'[e] + ReplayTTL < now'
              ELSE accepted'[e] <= seen'[Principal(e)]
    <3>1. CASE e = f
      BY <1>0, <2>1, <2>2, <2>3, <3>1
    <3>2. CASE e # f /\ Principal(e) = Principal(f)
      BY <1>0, <1>5, <2>1, <2>2, <2>3, <2>5, <3>2
    <3>3. CASE e # f /\ Principal(e) # Principal(f)
      BY <1>0, <1>6, <2>1, <2>2, <2>3, <2>5, <3>3
    <3> QED
      BY <3>1, <3>2, <3>3
  <2>6. \A e \in Offers : (e # f /\ Principal(e) = Principal(f) /\ accepted[e] # Never) =>
            accepted[e] + ReplayTTL < now
    BY <1>5, <2>1
  <2>7. NoReplay'
    BY <2>3, <2>6 DEF NoReplay
  <2> QED
    BY <2>4, <2>5, <2>7 DEF Remembered
<1>8. ASSUME NEW f \in Offers, Replayed(f) PROVE Remembered' /\ NoReplay'
  <2>1. seen' = Pruned /\ accepted' = accepted /\ now' = now
    BY <1>8 DEF Replayed, OfferOnly
  <2> HIDE DEF Pruned
  <2>2. NoReplay'
    BY <2>1 DEF NoReplay
  <2>3. Remembered'
    BY <1>4, <1>6, <2>1 DEF Remembered
  <2> QED
    BY <2>2, <2>3
<1> QED
  BY <1>1, <1>2, <1>3, <1>7, <1>8, ReplaySteps

-----------------------------------------------------------------------------
(* Slots and sessions.                                                     *)

\* What a handler that is neither a handshake nor a session before and after does to the
\* two sets: nothing.
LEMMA QuietOffer ==
    ASSUME TypeOK, Counted, NEW f \in Offers, NEW l,
           pc' = [pc EXCEPT ![f] = l], UNCHANGED <<sem, active>>,
           pc[f] \notin {"handshake", "serving"}, l \notin {"handshake", "serving"}
    PROVE  Counted'
<1>1. pc = [e \in Offers |-> pc[e]]
  BY DEF TypeOK
<1>2. Handshaking' = Handshaking
  BY <1>1 DEF Handshaking
<1>3. Serving' = Serving
  BY <1>1 DEF Serving
<1> QED
  BY <1>2, <1>3 DEF Counted

\* Every path through handleOffer takes and gives back its slot and its session once, so
\* the counts are those of the handlers, and a slot is given back only where one is taken.
LEMMA CountedStep ==
    ASSUME TypeOK, Counted, [Next]_vars
    PROVE  Counted' /\ sem' \in 0 .. MaxSlots /\ active' \in Nat
<1>0. /\ pc = [e \in Offers |-> pc[e]] /\ sem \in 0 .. MaxSlots /\ MaxSlots \in Nat /\ active \in Nat
  BY RuntimeAssumption DEF TypeOK
<1>1. /\ IsFiniteSet(Handshaking) /\ sem = Cardinality(Handshaking)
      /\ IsFiniteSet(Serving) /\ active = Cardinality(Serving)
  BY DEF Counted
<1> DEFINE Goal == Counted' /\ sem' \in 0 .. MaxSlots /\ active' \in Nat
<1>2. CASE UNCHANGED <<pc, sem, active>>
  <2>1. Handshaking' = Handshaking /\ Serving' = Serving
    BY <1>2 DEF Handshaking, Serving
  <2> QED
    BY <1>0, <1>1, <1>2, <2>1 DEF Counted
<1>3. CASE ReExec
  <2>1. Handshaking' = {} /\ Serving' = {} /\ sem' = 0 /\ active' = 0
    BY <1>3 DEF ReExec, Handshaking, Serving
  <2> QED
    BY <1>0, <2>1, FS_EmptySet DEF Counted
<1>4. ASSUME NEW f \in Offers,
             \/ Receive(f) \/ CheckPin(f) \/ CheckGrant(f) \/ AcceptSession(f) \/ Replayed(f)
             \/ Busy(f)
      PROVE  Goal
  <2>1. /\ pc[f] \in {"idle", "pin", "grant", "accept", "admit"} /\ UNCHANGED <<sem, active>>
        /\ \E l \in {"grant", "pin", "accept", "rejected", "admit"} : pc' = [pc EXCEPT ![f] = l]
    BY <1>4 DEF Receive, CheckPin, CheckGrant, AcceptSession, Replayed, Busy, Goto
  <2> QED
    BY <1>0, <2>1, QuietOffer
<1>5. ASSUME NEW f \in Offers, Admit(f) PROVE Goal
  <2>1. /\ f \notin Handshaking /\ Handshaking' = Handshaking \cup {f} /\ Serving' = Serving
        /\ sem' = sem + 1 /\ sem < MaxSlots /\ active' = active
    BY <1>0, <1>5 DEF Admit, Goto, Handshaking, Serving
  <2>2. IsFiniteSet(Handshaking') /\ Cardinality(Handshaking') = Cardinality(Handshaking) + 1
    BY <1>1, <2>1, FS_AddElement
  <2> QED
    BY <1>0, <1>1, <2>1, <2>2 DEF Counted
<1>6. ASSUME NEW f \in Offers, HandshakeDone(f) \/ HandshakeFails(f) PROVE Goal
  <2>1. /\ f \in Handshaking /\ Handshaking' = Handshaking \ {f} /\ Serving' = Serving
        /\ sem' = sem - 1 /\ active' = active
    <3>1. pc[f] = "handshake" /\ sem' = sem - 1 /\ active' = active
          /\ \E l \in {"established", "ended"} : pc' = [pc EXCEPT ![f] = l]
      BY <1>6 DEF HandshakeDone, HandshakeFails, Goto
    <3> QED
      BY <1>0, <3>1 DEF Handshaking, Serving
  <2>2. IsFiniteSet(Handshaking') /\ Cardinality(Handshaking') = Cardinality(Handshaking) - 1
    BY <1>1, <2>1, FS_RemoveElement
  <2>3. sem # 0
    BY <1>1, <2>1, FS_EmptySet
  <2> QED
    BY <1>0, <1>1, <2>1, <2>2, <2>3 DEF Counted
<1>7. ASSUME NEW f \in Offers, StartSession(f) PROVE Goal
  <2>1. /\ f \notin Serving /\ Serving' = Serving \cup {f} /\ Handshaking' = Handshaking
        /\ active' = active + 1 /\ sem' = sem
    BY <1>0, <1>7 DEF StartSession, Goto, Handshaking, Serving
  <2>2. IsFiniteSet(Serving') /\ Cardinality(Serving') = Cardinality(Serving) + 1
    BY <1>1, <2>1, FS_AddElement
  <2> QED
    BY <1>0, <1>1, <2>1, <2>2 DEF Counted
<1>8. ASSUME NEW f \in Offers, SessionEnds(f) PROVE Goal
  <2>1. /\ f \in Serving /\ Serving' = Serving \ {f} /\ Handshaking' = Handshaking
        /\ active' = active - 1 /\ sem' = sem
    BY <1>0, <1>8 DEF SessionEnds, Goto, Handshaking, Serving
  <2>2. IsFiniteSet(Serving') /\ Cardinality(Serving') = Cardinality(Serving) - 1
    BY <1>1, <2>1, FS_RemoveElement
  <2>3. active # 0
    BY <1>1, <2>1, FS_EmptySet
  <2> QED
    BY <1>0, <1>1, <2>1, <2>2, <2>3 DEF Counted
<1> QED
  BY <1>2, <1>3, <1>4, <1>5, <1>6, <1>7, <1>8, HandlerSteps DEF OfferStep

-----------------------------------------------------------------------------
(* Owners and their loops.                                                 *)

\* A reconciliation that starts a loop finds a generation left for it.
LEMMA StartInBound ==
    ASSUME TypeOK, Reconciled, Spent, want # NoReload, NEW o \in Started
    PROVE  gens[o] + 1 \in Gens
<1>1. /\ gens[o] \in Nat /\ changes \in Nat /\ changes <= MaxChanges /\ MaxChanges \in Nat
      /\ MaxGens \in Nat /\ 2 * MaxGens > MaxChanges + 1 /\ o \in Owners
  BY RuntimeAssumption DEF TypeOK, Started
<1>2. run[o] = 0 /\ o \in pins
  BY DEF Started, Reconciled
<1>3. 2 * gens[o] + 1 + (IF o \in pins <=> o \in disk THEN 0 ELSE 1) <= changes + 1
  BY <1>1, <1>2 DEF Spent
<1>4. 2 * gens[o] + 1 <= MaxChanges + 1
  BY <1>1, <1>3
<1> QED
  BY <1>1, <1>4 DEF Gens

\* What a reload and its reconciliation leave: the pins that were read, and no loop of an
\* owner without one.
LEMMA ReconciledStep ==
    ASSUME TypeOK, Reconciled, [Next]_vars
    PROVE  Reconciled'
<1> USE RuntimeAssumption
<1>1. CASE UNCHANGED <<pins, want, run>>
  BY <1>1 DEF Reconciled
<1>2. CASE Reload
  <2>1. want' = disk /\ pins' = disk /\ disk # NoReload
    BY <1>2 DEF Reload, TypeOK
  <2> QED
    BY <2>1 DEF Reconciled
<1>3. CASE Reconcile
  <2>1. want = pins /\ want' = NoReload /\ pins' = pins
    BY <1>3 DEF Reconcile, Reconciled
  <2>2. ASSUME NEW o \in Owners, run'[o] # 0 PROVE o \in pins
    BY <1>3, <2>1, <2>2 DEF Reconcile, Started, Stopped
  <2> QED
    BY <2>1, <2>2 DEF Reconciled
<1>4. CASE ReExec
  BY <1>4 DEF ReExec, FirstRun, Reconciled
<1> QED
  BY <1>1, <1>2, <1>3, <1>4, OwnerSteps DEF ChangePin, LoopGoto

\* No step starts loops faster than config.json changes.
LEMMA SpentStep ==
    ASSUME TypeOK, Reconciled, Spent, [Next]_vars
    PROVE  Spent'
<1>0. /\ \A o \in Owners : gens[o] \in Nat /\ run[o] \in Nat
      /\ changes \in Nat
      /\ DOMAIN gens = Owners /\ DOMAIN run = Owners
  BY RuntimeAssumption DEF TypeOK
<1>1. CASE UNCHANGED <<disk, changes, pins, run, gens>>
  BY <1>1 DEF Spent
<1>2. CASE Reload
  <2>1. pins' = disk /\ disk' = disk /\ UNCHANGED <<changes, run, gens>>
    BY <1>2 DEF Reload
  <2> QED
    BY <1>0, <2>1 DEF Spent
<1>3. CASE Reconcile
  <2>1. want = pins /\ UNCHANGED <<disk, changes, pins>>
    BY <1>3 DEF Reconcile, Reconciled
  <2>2. ASSUME NEW o \in Owners
        PROVE  \/ run[o] = 0 /\ o \in pins /\ gens'[o] = gens[o] + 1 /\ run'[o] = gens[o] + 1
               \/ run[o] # 0 /\ o \notin pins /\ gens'[o] = gens[o] /\ run'[o] = 0
               \/ gens'[o] = gens[o] /\ run'[o] = run[o]
    BY <1>3, <2>1 DEF Reconcile, Started, Stopped
  <2>3. ASSUME NEW o \in Owners
        PROVE  2 * gens'[o] + (IF run'[o] # 0 <=> o \in pins THEN 0 ELSE 1)
                            + (IF o \in pins <=> o \in disk THEN 0 ELSE 1)
                  <= changes + 1 + (IF run'[o] # 0 THEN 1 ELSE 0)
    <3>1. 2 * gens[o] + (IF run[o] # 0 <=> o \in pins THEN 0 ELSE 1)
                      + (IF o \in pins <=> o \in disk THEN 0 ELSE 1)
             <= changes + 1 + (IF run[o] # 0 THEN 1 ELSE 0)
      BY DEF Spent
    <3>2. gens[o] \in Nat /\ run[o] \in Nat /\ changes \in Nat
      BY <1>0
    <3> QED
      BY <2>2, <3>1, <3>2
  <2> QED
    BY <2>1, <2>3 DEF Spent
<1>4. CASE ReExec
  <2>1. pins' = disk /\ disk' = disk /\ changes' = changes
        /\ \A o \in Owners : gens'[o] = (IF o \in disk THEN 1 ELSE 0)
                             /\ run'[o] = (IF o \in disk THEN 1 ELSE 0)
    BY <1>4 DEF ReExec, FirstRun
  <2> QED
    BY <1>0, <2>1 DEF Spent
<1>5. ASSUME NEW o \in Owners, ChangePin(o) PROVE Spent'
  <2>1. /\ changes' = changes + 1 /\ UNCHANGED <<pins, run, gens>>
        /\ \A p \in Owners : p # o => (p \in disk' <=> p \in disk)
    BY <1>5 DEF ChangePin
  <2> QED
    BY <1>0, <2>1 DEF Spent
<1> QED
  BY <1>1, <1>2, <1>3, <1>4, <1>5, OwnerSteps DEF LoopGoto

\* Every step keeps the types; a loop is started within the bound on generations.
LEMMA TypeStep ==
    ASSUME TypeOK, Counted, Reconciled, Spent, [Next]_vars
    PROVE  TypeOK'
<1> USE RuntimeAssumption
<1> DEFINE
      Clock == now' \in 0 .. MaxTime /\ upd' \in {"idle", "apply", "recheck", "exec"}
               /\ updates' \in 0 .. MaxUpdates
      Pins == /\ disk' \subseteq Owners /\ pins' \subseteq Owners
              /\ want' = NoReload \/ want' \subseteq Owners
              /\ changes' \in 0 .. MaxChanges
      Loops == /\ run' \in [Owners -> 0 .. MaxGens] /\ gens' \in [Owners -> 0 .. MaxGens]
               /\ loop' \in [Owners -> [Gens -> {"none", "dialing", "connected", "backoff", "returned"}]]
               /\ cancelled' \subseteq Owners \X Gens
      Times == /\ seen' \in [Keys -> 0 .. MaxTime \cup {Never}]
               /\ accepted' \in [Offers -> 0 .. MaxTime \cup {Never}]
      Handlers == /\ pc' \in [Offers -> {"idle", "pin", "grant", "accept", "admit"} \cup InFlight \cup Done]
                  /\ gen' \in [Offers -> 0 .. MaxGens]
<1>1. Clock
  <2>0. now \in 0 .. MaxTime /\ upd \in {"idle", "apply", "recheck", "exec"}
        /\ updates \in 0 .. MaxUpdates
    BY DEF TypeOK
  <2>1. \/ UNCHANGED <<now, upd, updates>> \/ Tick \/ UpdateCheck \/ UpdateApply \/ UpdateRecheck
        \/ ReExec
    BY DEF Next, vars, RelayRevokes, LoopStep, Dial, DialFails, DialGone, Disconnect, Redial,
       LoopCancelled, LoopGoto, Reload, Reconcile, ChangePin, Receive, OfferStep, SessionEnds,
       CheckPin, CheckGrant, AcceptSession, Replayed, Admit, Busy, HandshakeDone, HandshakeFails,
       StartSession, OfferOnly
  <2> QED
    BY <2>0, <2>1 DEF Tick, UpdateCheck, UpdateApply, UpdateRecheck, UpdGoto, ReExec
<1>2. gone' \subseteq Owners
  <2>1. UNCHANGED gone \/ \E o \in Owners : RelayRevokes(o)
    BY DEF Next, vars, Tick, LoopStep, Dial, DialFails, DialGone, Disconnect, Redial,
       LoopCancelled, LoopGoto, Reload, Reconcile, ChangePin, Receive, OfferStep, SessionEnds,
       CheckPin, CheckGrant, AcceptSession, Replayed, Admit, Busy, HandshakeDone, HandshakeFails,
       StartSession, OfferOnly, UpdateCheck, UpdateApply, UpdateRecheck, UpdGoto, ReExec
  <2> QED
    BY <2>1 DEF RelayRevokes, TypeOK
<1>3. Pins
  <2>0. /\ disk \subseteq Owners /\ pins \subseteq Owners
        /\ want = NoReload \/ want \subseteq Owners
        /\ changes \in 0 .. MaxChanges /\ MaxChanges \in Nat
    BY DEF TypeOK
  <2>1. ASSUME NEW o \in Owners, ChangePin(o) PROVE Pins
    <3>1. changes' \in 0 .. MaxChanges
      BY <2>0, <2>1 DEF ChangePin
    <3> QED
      BY <2>0, <2>1, <3>1 DEF ChangePin
  <2>2. CASE Reload \/ Reconcile \/ ReExec
    BY <2>0, <2>2 DEF Reload, Reconcile, ReExec
  <2>3. CASE UNCHANGED <<disk, changes, pins, want>>
    BY <2>0, <2>3
  <2> QED
    BY <2>1, <2>2, <2>3, OwnerSteps DEF LoopGoto
<1>4. Loops
  <2>0. /\ run \in [Owners -> 0 .. MaxGens] /\ gens \in [Owners -> 0 .. MaxGens]
        /\ loop \in [Owners -> [Gens -> {"none", "dialing", "connected", "backoff", "returned"}]]
        /\ cancelled \subseteq Owners \X Gens
        /\ MaxGens \in Nat /\ MaxGens >= 1
    BY DEF TypeOK
  <2>1. CASE UNCHANGED <<run, gens, loop, cancelled>>
    BY <2>0, <2>1
  <2>2. CASE Reconcile
    <3>1. \A o \in Started : o \in Owners /\ gens[o] + 1 \in Gens
      BY <2>2, StartInBound DEF Reconcile, Started, TypeOK
    <3>2. gens' \in [Owners -> 0 .. MaxGens] /\ \A o \in Started : gens'[o] = gens[o] + 1
      <4>1. gens' = [o \in Owners |-> IF o \in Started THEN gens[o] + 1 ELSE gens[o]]
        BY <2>2 DEF Reconcile
      <4>2. \A o \in Started : gens[o] + 1 \in 0 .. MaxGens
        BY <2>0, <3>1 DEF Gens
      <4> QED
        BY <2>0, <3>1, <4>1, <4>2
    <3>3. run' \in [Owners -> 0 .. MaxGens]
      <4>1. run' = [o \in Owners |-> IF o \in Started THEN gens'[o] ELSE IF o \in Stopped THEN 0 ELSE run[o]]
        BY <2>2 DEF Reconcile
      <4> HIDE DEF Started, Stopped
      <4> QED
        BY <2>0, <3>2, <4>1
    <3>4. loop' \in [Owners -> [Gens -> {"none", "dialing", "connected", "backoff", "returned"}]]
      <4>1. loop' = [o \in Owners |-> IF o \in Started THEN [loop[o] EXCEPT ![gens'[o]] = "dialing"] ELSE loop[o]]
        BY <2>2 DEF Reconcile
      <4>2. \A o \in Owners : [loop[o] EXCEPT ![gens'[o]] = "dialing"]
               \in [Gens -> {"none", "dialing", "connected", "backoff", "returned"}]
        BY <2>0
      <4> QED
        BY <2>0, <4>1, <4>2
    <3>5. cancelled' \subseteq Owners \X Gens
      <4>1. cancelled' = cancelled \cup {<<o, run[o]>> : o \in Stopped}
        BY <2>2 DEF Reconcile
      <4>2. \A o \in Stopped : o \in Owners /\ run[o] \in Gens
        BY <2>0 DEF Stopped, Gens
      <4> QED
        BY <2>0, <4>1, <4>2
    <3> QED
      BY <3>2, <3>3, <3>4, <3>5
  <2>3. CASE ReExec
    <3>1. FirstRun(disk) \in [Owners -> 0 .. MaxGens]
      BY <2>0 DEF FirstRun
    <3>2. FirstLoops(disk) \in [Owners -> [Gens -> {"none", "dialing", "connected", "backoff", "returned"}]]
      BY DEF FirstLoops
    <3> QED
      BY <2>3, <3>1, <3>2 DEF ReExec
  <2>4. ASSUME NEW o \in Owners, NEW g \in Gens,
               NEW l \in {"dialing", "connected", "backoff", "returned"}, LoopGoto(o, g, l)
        PROVE  Loops
    <3>1. loop' = [loop EXCEPT ![o] = [loop[o] EXCEPT ![g] = l]] /\ UNCHANGED <<run, gens, cancelled>>
      BY <2>4 DEF LoopGoto
    <3>2. [loop[o] EXCEPT ![g] = l] \in [Gens -> {"none", "dialing", "connected", "backoff", "returned"}]
      BY <2>0
    <3> QED
      BY <2>0, <3>1, <3>2
  <2> QED
    BY <2>1, <2>2, <2>3, <2>4, OwnerSteps DEF Reload, ChangePin
<1>5. Times
  <2>0. /\ seen \in [Keys -> 0 .. MaxTime \cup {Never}]
        /\ accepted \in [Offers -> 0 .. MaxTime \cup {Never}]
        /\ now \in 0 .. MaxTime
    BY DEF TypeOK
  <2>1. Pruned \in [Keys -> 0 .. MaxTime \cup {Never}]
    BY <2>0 DEF Pruned
  <2>2. ASSUME NEW f \in Offers, AcceptSession(f) PROVE Times
    BY <2>0, <2>1, <2>2 DEF AcceptSession
  <2>3. ASSUME NEW f \in Offers, Replayed(f) PROVE Times
    BY <2>0, <2>1, <2>3 DEF Replayed
  <2>4. CASE ReExec
    BY <2>4 DEF ReExec
  <2>5. CASE UNCHANGED <<seen, accepted>>
    BY <2>0, <2>5
  <2> QED
    BY <2>2, <2>3, <2>4, <2>5, ReplaySteps DEF Tick
<1>6. Handlers
  <2>0. /\ pc \in [Offers -> {"idle", "pin", "grant", "accept", "admit"} \cup InFlight \cup Done]
        /\ gen \in [Offers -> 0 .. MaxGens] /\ MaxGens \in Nat
    BY DEF TypeOK
  <2>1. CASE UNCHANGED <<pc, gen>>
    BY <2>0, <2>1
  <2>2. CASE ReExec
    <3>1. pc' \in [Offers -> {"idle", "pin", "grant", "accept", "admit"} \cup InFlight \cup Done]
      BY <2>2 DEF ReExec, Done
    <3> QED
      BY <2>0, <2>2, <3>1 DEF ReExec
  <2>3. ASSUME NEW f \in Offers, Receive(f) PROVE Handlers
    <3>1. PICK g \in Gens : gen' = [gen EXCEPT ![f] = g]
      BY <2>3 DEF Receive
    <3>2. g \in 0 .. MaxGens
      BY <2>0 DEF Gens
    <3>3. pc' \in [Offers -> {"idle", "pin", "grant", "accept", "admit"} \cup InFlight \cup Done]
      BY <2>0, <2>3 DEF Receive, Goto
    <3> QED
      BY <2>0, <3>1, <3>2, <3>3
  <2>4. ASSUME NEW f \in Offers, OfferStep(f) \/ SessionEnds(f) PROVE Handlers
    <3>1. gen' = gen /\ \E l \in {"accept", "admit"} \cup InFlight \cup Done : pc' = [pc EXCEPT ![f] = l]
      BY <2>4 DEF OfferStep, CheckPin, CheckGrant, AcceptSession, Replayed, Admit, Busy,
                  HandshakeDone, HandshakeFails, StartSession, SessionEnds, Goto, InFlight, Done
    <3> QED
      BY <2>0, <3>1
  <2> QED
    BY <2>1, <2>2, <2>3, <2>4, HandlerSteps
<1>7. sem' \in 0 .. MaxSlots /\ active' \in Nat
  BY CountedStep
<1> QED
  BY <1>1, <1>2, <1>3, <1>4, <1>5, <1>6, <1>7 DEF TypeOK

\* Starting, stopping and running loops keep at most the one in ownerRun live, and offers
\* are received from loops that were started.
LEMMA LoopsKnownStep ==
    ASSUME TypeOK, Counted, Reconciled, Spent, LoopsKnown, [Next]_vars
    PROVE  LoopsKnown'
<1>0. /\ \A o \in Owners : gens[o] \in Nat /\ run[o] \in Nat
      /\ DOMAIN loop = Owners /\ \A o \in Owners : DOMAIN loop[o] = Gens
      /\ DOMAIN pc = Offers /\ DOMAIN gen = Offers
      /\ Gens \subseteq Nat \ {0}
      /\ \A f \in Offers : OwnerOf[f] \in Owners
  BY RuntimeAssumption DEF TypeOK, Gens
<1> DEFINE
      Runs == \A o \in Owners : run'[o] <= gens'[o]
      Lives == \A o \in Owners, g \in Gens : (g <= gens'[o] /\ Live(o, g)') => run'[o] = g
      Starts == \A o \in Owners, g \in Gens : loop'[o][g] # "none" => g <= gens'[o]
      Comes == \A f \in Offers : pc'[f] \notin {"idle"} \cup Done =>
                  gen'[f] \in Gens /\ gen'[f] <= gens'[OwnerOf[f]]
<1>4. \A o \in Owners : gens'[o] \in Nat
  BY TypeStep, RuntimeAssumption DEF TypeOK
<1>1. CASE ReExec
  <2>1. /\ \A o \in Owners : run'[o] = gens'[o] /\ gens'[o] = (IF o \in disk THEN 1 ELSE 0)
        /\ \A o \in Owners, g \in Gens : loop'[o][g] = IF o \in disk /\ g = 1 THEN "dialing" ELSE "none"
    BY <1>1 DEF ReExec, FirstRun, FirstLoops
  <2>2. \A f \in Offers : pc'[f] \in {"idle"} \cup Done
    BY <1>1 DEF ReExec, Done
  <2>3. Runs /\ Starts
    BY <1>0, <2>1
  <2>4. ASSUME NEW o \in Owners, NEW g \in Gens, g <= gens'[o] PROVE run'[o] = g
    BY <1>0, <2>1, <2>4
  <2> QED
    BY <2>2, <2>3, <2>4 DEF LoopsKnown
<1>2. ReExec \/ (Runs /\ Lives /\ Starts /\ \A o \in Owners : gens[o] <= gens'[o])
  <2>1. CASE UNCHANGED <<run, gens, loop, cancelled>>
    BY <1>0, <2>1 DEF LoopsKnown, Live
  <2>2. ASSUME NEW o \in Owners, NEW g \in Gens, loop[o][g] # "none", NEW l, LoopGoto(o, g, l)
        PROVE  Runs /\ Lives /\ Starts /\ \A p \in Owners : gens[p] <= gens'[p]
    <3>1. UNCHANGED <<run, gens, cancelled>>
          /\ loop' = [loop EXCEPT ![o] = [loop[o] EXCEPT ![g] = l]]
      BY <2>2 DEF LoopGoto
    <3>2. \A p \in Owners, h \in Gens : loop'[p][h] # "none" => loop[p][h] # "none"
      BY <1>0, <2>2, <3>1
    <3>3. Runs /\ Lives
      BY <3>1 DEF LoopsKnown, Live
    <3>4. Starts
      BY <3>1, <3>2 DEF LoopsKnown
    <3>5. \A p \in Owners : gens[p] <= gens'[p]
      BY <1>0, <3>1
    <3> QED
      BY <3>3, <3>4, <3>5
  <2>3. CASE Reconcile
    <3>1. ASSUME NEW o \in Owners
          PROVE  \/ /\ run[o] = 0 /\ o \in Started /\ gens'[o] = gens[o] + 1 /\ run'[o] = gens[o] + 1
                    /\ loop'[o] = [loop[o] EXCEPT ![gens[o] + 1] = "dialing"]
                 \/ /\ run[o] # 0 /\ gens'[o] = gens[o] /\ run'[o] = 0
                    /\ <<o, run[o]>> \in cancelled' /\ loop'[o] = loop[o]
                 \/ gens'[o] = gens[o] /\ run'[o] = run[o] /\ loop'[o] = loop[o]
      <4>1. CASE o \in Started
        BY <2>3, <4>1 DEF Reconcile, Started
      <4>2. CASE o \in Stopped
        BY <2>3, <4>2 DEF Reconcile, Started, Stopped
      <4>3. CASE o \notin Started /\ o \notin Stopped
        BY <2>3, <4>3 DEF Reconcile
      <4> QED
        BY <4>1, <4>2, <4>3
    <3>2. cancelled \subseteq cancelled'
      BY <2>3 DEF Reconcile
    <3>3. ASSUME NEW o \in Owners PROVE run'[o] <= gens'[o] /\ gens[o] <= gens'[o]
      <4>1. run[o] <= gens[o] /\ run[o] \in Nat /\ gens[o] \in Nat
        BY <1>0 DEF LoopsKnown
      <4>2. CASE gens'[o] = gens[o] + 1 /\ run'[o] = gens[o] + 1
        BY <4>1, <4>2
      <4>3. CASE gens'[o] = gens[o] /\ run'[o] = 0
        BY <4>1, <4>3
      <4>4. CASE gens'[o] = gens[o] /\ run'[o] = run[o]
        BY <4>1, <4>4
      <4> QED
        BY <3>1, <4>2, <4>3, <4>4
    <3>4. ASSUME NEW o \in Owners, NEW g \in Gens, g <= gens'[o], Live(o, g)'
          PROVE  run'[o] = g
      <4>1. Live(o, g)
        BY <3>2, <3>4 DEF Live
      <4>2. g <= gens[o] => run[o] = g
        BY <4>1 DEF LoopsKnown
      <4>3. <<o, g>> \notin cancelled'
        BY <3>4 DEF Live
      <4>4. g \in Nat /\ g # 0 /\ gens[o] \in Nat
        BY <1>0
      <4>5. CASE run[o] = 0 /\ gens'[o] = gens[o] + 1 /\ run'[o] = gens[o] + 1
        BY <3>4, <4>2, <4>4, <4>5
      <4>6. CASE gens'[o] = gens[o] /\ <<o, run[o]>> \in cancelled'
        BY <3>4, <4>2, <4>3, <4>6
      <4>7. CASE gens'[o] = gens[o] /\ run'[o] = run[o]
        BY <3>4, <4>2, <4>7
      <4> QED
        BY <3>1, <4>5, <4>6, <4>7
    <3>5. ASSUME NEW o \in Owners, NEW g \in Gens, loop'[o][g] # "none"
          PROVE  g <= gens'[o]
      <4>1. loop[o][g] # "none" => g <= gens[o]
        BY DEF LoopsKnown
      <4>2. g \in Nat /\ gens[o] \in Nat /\ DOMAIN loop[o] = Gens
        BY <1>0
      <4>3. CASE gens'[o] = gens[o] + 1 /\ loop'[o] = [loop[o] EXCEPT ![gens[o] + 1] = "dialing"]
        <5>1. g = gens[o] + 1 \/ loop'[o][g] = loop[o][g]
          BY <4>2, <4>3
        <5> QED
          BY <3>5, <4>1, <4>2, <4>3, <5>1
      <4>4. CASE gens'[o] = gens[o] /\ loop'[o] = loop[o]
        BY <3>5, <4>1, <4>4
      <4> QED
        BY <3>1, <4>3, <4>4
    <3> QED
      BY <3>3, <3>4, <3>5 DEF LoopsKnown
  <2> QED
    BY <2>1, <2>2, <2>3, OwnerSteps DEF Reload, ChangePin, LoopsKnown
<1>3. CASE ~ReExec
  <2>1. Runs /\ Lives /\ Starts /\ \A o \in Owners : gens[o] <= gens'[o]
    BY <1>2, <1>3
  <2>2. ASSUME NEW o \in Owners, NEW g \in Nat, g <= gens[o] PROVE g <= gens'[o]
    <3>1. gens'[o] \in Nat
      BY <1>4
    <3> QED
      BY <1>0, <2>1, <2>2, <3>1
  <2>3. Comes
    <3>1. CASE UNCHANGED <<pc, gen>>
      BY <1>0, <2>2, <3>1 DEF LoopsKnown
    <3>2. ASSUME NEW f \in Offers, Receive(f) PROVE Comes
      <4>1. PICK g \in Gens : loop[OwnerOf[f]][g] = "connected" /\ gen' = [gen EXCEPT ![f] = g]
        BY <3>2 DEF Receive
      <4>2. g <= gens[OwnerOf[f]]
        BY <1>0, <4>1 DEF LoopsKnown
      <4>3. \A e \in Offers : e # f => gen'[e] = gen[e] /\ pc'[e] = pc[e]
        BY <1>0, <3>2, <4>1 DEF Receive, Goto
      <4>4. gen'[f] = g
        BY <1>0, <4>1
      <4> QED
        BY <1>0, <2>2, <4>2, <4>3, <4>4 DEF LoopsKnown
    <3>3. ASSUME NEW f \in Offers, OfferStep(f) \/ SessionEnds(f) PROVE Comes
      <4>1. gen' = gen /\ pc[f] \notin {"idle"} \cup Done
        BY <3>3 DEF OfferStep, CheckPin, CheckGrant, AcceptSession, Replayed, Admit, Busy,
                    HandshakeDone, HandshakeFails, StartSession, SessionEnds, Done
      <4>2. \A e \in Offers : e # f => pc'[e] = pc[e]
        BY <1>0, <3>3 DEF OfferStep, CheckPin, CheckGrant, AcceptSession, Replayed, Admit, Busy,
                    HandshakeDone, HandshakeFails, StartSession, SessionEnds, Goto
      <4> QED
        BY <1>0, <2>2, <4>1, <4>2 DEF LoopsKnown
    <3> QED
      BY <1>3, <3>1, <3>2, <3>3, HandlerSteps
  <2> QED
    BY <2>1, <2>3 DEF LoopsKnown
<1> QED
  BY <1>1, <1>3

\* The inductive invariant of the runtime holds in every reachable state.
THEOREM RuntimeInvariant == Spec => [](RuntimeInv /\ NoReplay)
<1>1. Init => RuntimeInv /\ NoReplay
  <2> SUFFICES ASSUME Init PROVE RuntimeInv /\ NoReplay
    OBVIOUS
  <2> USE RuntimeAssumption
  <2>0. MaxGens \in Nat /\ MaxGens >= 1 /\ Gens \subseteq Nat \ {0}
    BY DEF Gens
  <2>1. TypeOK
    <3>1. FirstRun(disk) \in [Owners -> 0 .. MaxGens]
      BY <2>0 DEF FirstRun
    <3>2. FirstLoops(disk) \in [Owners -> [Gens -> {"none", "dialing", "connected", "backoff", "returned"}]]
      BY DEF FirstLoops
    <3> QED
      BY <2>0, <3>1, <3>2 DEF Init, TypeOK
  <2>2. Counted
    <3>1. Handshaking = {} /\ Serving = {}
      BY DEF Init, Handshaking, Serving
    <3> QED
      BY <3>1, FS_EmptySet DEF Init, Counted
  <2>3. Remembered /\ NoReplay
    BY PrincipalKey DEF Init, Remembered, NoReplay
  <2>4. Reconciled
    BY DEF Init, Reconciled, FirstRun
  <2>5. LoopsKnown
    <3>1. \A o \in Owners : run[o] = gens[o] /\ gens[o] = (IF o \in disk THEN 1 ELSE 0)
      BY DEF Init, FirstRun
    <3>2. \A o \in Owners, g \in Gens : loop[o][g] = IF o \in disk /\ g = 1 THEN "dialing" ELSE "none"
      BY DEF Init, FirstLoops
    <3>3. \A f \in Offers : pc[f] = "idle"
      BY DEF Init
    <3>4. ASSUME NEW o \in Owners, NEW g \in Gens, g <= gens[o] PROVE run[o] = g
      BY <2>0, <3>1, <3>4
    <3> QED
      BY <2>0, <3>1, <3>2, <3>3, <3>4 DEF LoopsKnown
  <2>6. Spent
    <3>1. pins = disk /\ changes = 0
          /\ \A o \in Owners : gens[o] = (IF o \in disk THEN 1 ELSE 0) /\ run[o] = (IF o \in disk THEN 1 ELSE 0)
      BY DEF Init, FirstRun
    <3> QED
      BY <3>1 DEF Spent
  <2> QED
    BY <2>1, <2>2, <2>3, <2>4, <2>5, <2>6 DEF RuntimeInv
<1>2. RuntimeInv /\ NoReplay /\ [Next]_vars => (RuntimeInv /\ NoReplay)'
  BY TypeStep, CountedStep, ReplayStep, ReconciledStep, LoopsKnownStep, SpentStep DEF RuntimeInv
<1> QED
  BY <1>1, <1>2, PTL DEF Spec

\* sem and active are what they count on every path out of handleOffer, a cancelled
\* context and a re-exec included: no slot and no session is leaked or given back twice.
THEOREM SlotsNeverLeak == Spec => []SlotsAndSessionsCounted
<1>1. RuntimeInv => SlotsAndSessionsCounted
  BY DEF RuntimeInv, Counted, Handshaking, Serving, SlotsAndSessionsCounted
<1> QED
  BY <1>1, RuntimeInvariant, PTL

\* acceptAttachSession accepts a signed session id once per replay window, for any window
\* and any number of offers that present it.
THEOREM ReplaysRefused == Spec => []NoReplay
BY RuntimeInvariant, PTL

\* reconcileOwners and serveOwner: no owner has two live loops, and once a reload is
\* reconciled nothing runs under a live context for an owner without a pin.
THEOREM OwnersAreSound == Spec => []OwnersSound
<1>1. RuntimeInv => OwnersSound
  <2> SUFFICES ASSUME RuntimeInv PROVE OwnersSound
    OBVIOUS
  <2>1. OneLoopPerOwner
    BY DEF RuntimeInv, LoopsKnown, OneLoopPerOwner
  <2>2. ServedArePinned
    <3> SUFFICES ASSUME want = NoReload, NEW f \in Offers, pc[f] \in InFlight,
                        Live(OwnerOf[f], gen[f])
                 PROVE  OwnerOf[f] \in pins
      BY DEF ServedArePinned
    <3>1. gen[f] \in Gens /\ gen[f] <= gens[OwnerOf[f]] /\ OwnerOf[f] \in Owners
      BY RuntimeAssumption DEF RuntimeInv, LoopsKnown, InFlight, Done
    <3>2. run[OwnerOf[f]] = gen[f]
      BY <3>1 DEF RuntimeInv, LoopsKnown
    <3>3. gen[f] # 0
      BY <3>1, RuntimeAssumption DEF Gens
    <3> QED
      BY <3>1, <3>2, <3>3 DEF RuntimeInv, Reconciled
  <2> QED
    BY <2>1, <2>2 DEF OwnersSound
<1> QED
  BY <1>1, RuntimeInvariant, PTL
=============================================================================
