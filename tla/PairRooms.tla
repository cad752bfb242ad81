------------------------------- MODULE PairRooms -------------------------------
(***************************************************************************)
(* The relay's blind pairing bridge: go/internal/signal/pair.go.           *)
(*                                                                         *)
(* Each call of handlePair meets a partner in its room.  The first arrival *)
(* waits (at most two minutes) and then drives the bridge; the second      *)
(* hands its socket to the first over a channel and waits on the shared    *)
(* done channel.  Frames are abstracted to their sizes.                    *)
(***************************************************************************)
EXTENDS Naturals, FiniteSets

CONSTANTS
    Handlers,    \* calls of handlePair
    Rooms,
    Nobody,
    MaxRooms,    \* Server.maxPairRooms
    MaxBridges,  \* Server.maxPairBridges
    Budget,      \* pairBridgeMaxBytes
    FrameSizes   \* sizes of frames, up to maxPairFrameBytes

ASSUME PairAssumption ==
    /\ Nobody \notin Handlers
    /\ MaxRooms \in Nat \ {0}
    /\ MaxBridges \in Nat \ {0}
    /\ Budget \in Nat \ {0}
    /\ FrameSizes \subseteq Nat \ {0}

VARIABLES
    at,       \* handler -> control state
    room,     \* handler -> room it asked for
    waiting,  \* room -> handler waiting in it         (p.mu)
    partner,  \* handler -> content of its partner channel
    mate,     \* handler -> the handler it was paired with
    active,   \* bridges running                       (p.mu)
    closes,   \* handler -> times the done channel it made was closed
    used,     \* driver -> bytes counted against the budget
    sent      \* driver -> bytes forwarded

pairVars == <<at, room, waiting, partner, mate, active, closes, used, sent>>

Ended == {"paired out", "no partner", "no room", "no bridge", "bridged"}

PairTypeOK ==
    /\ at \in [Handlers -> Ended \cup {"idle", "claimed", "waiting", "timer", "drive",
                                       "bridging", "closing", "leaving", "blocked"}]
    /\ room \in [Handlers -> Rooms]
    /\ waiting \in [Rooms -> Handlers \cup {Nobody}]
    /\ partner \in [Handlers -> Handlers \cup {Nobody}]
    /\ mate \in [Handlers -> Handlers \cup {Nobody}]
    /\ active \in 0..MaxBridges
    /\ closes \in [Handlers -> 0..2]
    /\ used \in [Handlers -> Nat]
    /\ sent \in [Handlers -> Nat]

PairInit ==
    /\ at = [h \in Handlers |-> "idle"]
    /\ room \in [Handlers -> Rooms]
    /\ waiting = [r \in Rooms |-> Nobody]
    /\ partner = [h \in Handlers |-> Nobody]
    /\ mate = [h \in Handlers |-> Nobody]
    /\ active = 0
    /\ closes = [h \in Handlers |-> 0]
    /\ used = [h \in Handlers |-> 0]
    /\ sent = [h \in Handlers |-> 0]

GoOn(h, l) == at' = [at EXCEPT ![h] = l]

-----------------------------------------------------------------------------
(* rendezvous.                                                             *)

\* Mutant: the waiter is left in the map when it is claimed.
ClaimKeepsRoom(h) ==
    LET w == waiting[room[h]] IN
    /\ at[h] = "idle"
    /\ w # Nobody
    /\ mate' = [mate EXCEPT ![h] = w]
    /\ GoOn(h, "claimed")
    /\ UNCHANGED <<room, waiting, partner, active, closes, used, sent>>

\* Somebody waits in the room: take it out of the map.
Claim(h) ==
    LET w == waiting[room[h]] IN
    /\ at[h] = "idle"
    /\ w # Nobody
    /\ waiting' = [waiting EXCEPT ![room[h]] = Nobody]
    /\ mate' = [mate EXCEPT ![h] = w]
    /\ GoOn(h, "claimed")
    /\ UNCHANGED <<room, partner, active, closes, used, sent>>

\* w.partner <- c, outside the lock; the channel has room for it.
HandOver(h) ==
    /\ at[h] = "claimed"
    /\ partner' = [partner EXCEPT ![mate[h]] = h]
    /\ GoOn(h, "blocked")
    /\ UNCHANGED <<room, waiting, mate, active, closes, used, sent>>

Waiters == {r \in Rooms : waiting[r] # Nobody}

RoomsFull(h) ==
    /\ at[h] = "idle"
    /\ waiting[room[h]] = Nobody
    /\ Cardinality(Waiters) >= MaxRooms
    /\ GoOn(h, "no room")
    /\ UNCHANGED <<room, waiting, partner, mate, active, closes, used, sent>>

Wait(h) ==
    /\ at[h] = "idle"
    /\ waiting[room[h]] = Nobody
    /\ Cardinality(Waiters) < MaxRooms
    /\ waiting' = [waiting EXCEPT ![room[h]] = h]
    /\ GoOn(h, "waiting")
    /\ UNCHANGED <<room, partner, mate, active, closes, used, sent>>

Meet(h) ==
    /\ at[h] = "waiting"
    /\ partner[h] # Nobody
    /\ mate' = [mate EXCEPT ![h] = partner[h]]
    /\ GoOn(h, "drive")
    /\ UNCHANGED <<room, waiting, partner, active, closes, used, sent>>

\* The select takes the two-minute timer, also when a partner is ready.
WaitTimer(h) ==
    /\ at[h] = "waiting"
    /\ GoOn(h, "timer")
    /\ UNCHANGED <<room, waiting, partner, mate, active, closes, used, sent>>

\* Nobody claimed the room: leave it.
TimedOut(h) ==
    /\ at[h] = "timer"
    /\ waiting[room[h]] = h
    /\ waiting' = [waiting EXCEPT ![room[h]] = Nobody]
    /\ GoOn(h, "no partner")
    /\ UNCHANGED <<room, partner, mate, active, closes, used, sent>>

\* Claimed in the same instant: wait for the hand-over and drive the bridge.
ClaimedInTime(h) ==
    /\ at[h] = "timer"
    /\ waiting[room[h]] # h
    /\ partner[h] # Nobody
    /\ mate' = [mate EXCEPT ![h] = partner[h]]
    /\ GoOn(h, "drive")
    /\ UNCHANGED <<room, waiting, partner, active, closes, used, sent>>

-----------------------------------------------------------------------------
(* The driver's part of handlePair.                                        *)

BeginBridge(h) ==
    /\ at[h] = "drive"
    /\ active < MaxBridges
    /\ active' = active + 1
    /\ GoOn(h, "bridging")
    /\ UNCHANGED <<room, waiting, partner, mate, closes, used, sent>>

\* Mutant: the capacity path returns without closing done.
NoBridgeKeepsDone(h) ==
    /\ at[h] = "drive"
    /\ active >= MaxBridges
    /\ GoOn(h, "no bridge")
    /\ UNCHANGED <<room, waiting, partner, mate, active, closes, used, sent>>

NoBridge(h) ==
    /\ at[h] = "drive"
    /\ active >= MaxBridges
    /\ closes' = [closes EXCEPT ![h] = @ + 1]
    /\ GoOn(h, "no bridge")
    /\ UNCHANGED <<room, waiting, partner, mate, active, used, sent>>

\* Mutant: a frame is counted after it was forwarded.
CopyFrameLate(h, n) ==
    /\ at[h] = "bridging"
    /\ used' = [used EXCEPT ![h] = @ + n]
    /\ IF used[h] > Budget
       THEN GoOn(h, "closing") /\ UNCHANGED sent
       ELSE sent' = [sent EXCEPT ![h] = @ + n] /\ UNCHANGED at
    /\ UNCHANGED <<room, waiting, partner, mate, active, closes>>

\* Either copy goroutine reads a frame, counts it and forwards it, or cancels
\* the bridge when the shared budget is exceeded.
CopyFrame(h, n) ==
    /\ at[h] = "bridging"
    /\ used' = [used EXCEPT ![h] = @ + n]
    /\ IF used'[h] > Budget
       THEN GoOn(h, "closing") /\ UNCHANGED sent
       ELSE sent' = [sent EXCEPT ![h] = @ + n] /\ UNCHANGED at
    /\ UNCHANGED <<room, waiting, partner, mate, active, closes>>

\* A side closes, a write fails or the bridge's TTL runs out.
BridgeEnds(h) ==
    /\ at[h] = "bridging"
    /\ GoOn(h, "closing")
    /\ UNCHANGED <<room, waiting, partner, mate, active, closes, used, sent>>

\* The deferred function closes the partner's socket and done.
CloseDone(h) ==
    /\ at[h] = "closing"
    /\ closes' = [closes EXCEPT ![h] = @ + 1]
    /\ GoOn(h, "leaving")
    /\ UNCHANGED <<room, waiting, partner, mate, active, used, sent>>

\* Mutant: the bridge count is not given back.
EndBridgeForgotten(h) ==
    /\ at[h] = "leaving"
    /\ GoOn(h, "bridged")
    /\ UNCHANGED <<room, waiting, partner, mate, active, closes, used, sent>>

EndBridge(h) ==
    /\ at[h] = "leaving"
    /\ active' = IF active > 0 THEN active - 1 ELSE active
    /\ GoOn(h, "bridged")
    /\ UNCHANGED <<room, waiting, partner, mate, closes, used, sent>>

\* The non-driving handler returns once done is closed.
Released(h) ==
    /\ at[h] = "blocked"
    /\ closes[mate[h]] > 0
    /\ GoOn(h, "paired out")
    /\ UNCHANGED <<room, waiting, partner, mate, active, closes, used, sent>>

-----------------------------------------------------------------------------

Step(h) ==
    \/ Claim(h) \/ HandOver(h) \/ RoomsFull(h) \/ Wait(h) \/ Meet(h)
    \/ WaitTimer(h) \/ TimedOut(h) \/ ClaimedInTime(h)
    \/ BeginBridge(h) \/ NoBridge(h) \/ BridgeEnds(h)
    \/ CloseDone(h) \/ EndBridge(h) \/ Released(h)

PairNext == \E h \in Handlers : Step(h) \/ \E n \in FrameSizes : CopyFrame(h, n)

\* Handlers are scheduled; the waiter's timer and the bridge's TTL fire.
PairFairness == \A h \in Handlers : WF_pairVars(Step(h))

PairSpec == PairInit /\ [][PairNext]_pairVars
PairFairSpec == PairSpec /\ PairFairness

-----------------------------------------------------------------------------

Bridging == {h \in Handlers : at[h] \in {"bridging", "closing", "leaving"}}

\* Every handler returns: also the one that handed its socket to a waiter whose
\* timer fired in the same instant, or to a driver that found no bridge free.
EveryHandlerReturns == \A h \in Handlers : at[h] # "idle" ~> at[h] \in Ended

\* The bridge count is the number of running bridges and stays within the cap,
\* so a slot is neither leaked nor given back twice.
BridgesCounted == active = Cardinality(Bridging) /\ active <= MaxBridges

\* Pairing is between two parties of one room, one of them driving; nobody is
\* paired with two others, and done is closed at most once (a second close
\* would panic the relay).
PairedOneToOne ==
    /\ \A h \in Handlers : closes[h] <= 1
    /\ \A h, g \in Handlers : (mate[h] # Nobody /\ mate[g] = mate[h]) => g = h
    /\ \A h \in Bridging :
          /\ room[mate[h]] = room[h]
          /\ mate[mate[h]] = h
          /\ mate[h] \notin Bridging

\* Both directions together never forward more than the byte budget.
WithinBudget == \A h \in Handlers : sent[h] <= Budget

\* handlePair and bridge: parties meet in pairs, and what the rooms limit is counted
\* exactly, the bridges and the bytes they forward.
RoomsSound == PairedOneToOne /\ BridgesCounted /\ WithinBudget
=============================================================================
