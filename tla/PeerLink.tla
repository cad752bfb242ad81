-------------------------------- MODULE PeerLink -------------------------------
(***************************************************************************)
(* One direction of an attach's data channel, and the watch on its link:   *)
(* go/internal/peer/peer.go, with the sender of go/internal/client/sender  *)
(* (safeSend in go/internal/agent/session.go) and the counters of          *)
(* go/internal/noise/noise.go.                                             *)
(*                                                                         *)
(* A frame is the counter it was encrypted under.  Several goroutines      *)
(* send; encrypting and sending are two steps under one lock.  The channel *)
(* keeps frames in order.  A receive queue that is full drops the frame.   *)
(* The grace of LinkWatch is counted in ticks.                             *)
(***************************************************************************)
EXTENDS Integers, Sequences, FiniteSets

CONSTANTS
    Senders,    \* goroutines that send
    QueueSize,  \* slots of the receive queue
    Grace,      \* ticks of LinkGrace
    MaxFrames,  \* bound on frames
    MaxBlips    \* bound on disconnections

ASSUME LinkAssumption == QueueSize \in Nat \ {0} /\ Grace \in Nat \ {0}

VARIABLES
    held,      \* sender -> counter of the frame it has encrypted, 0 for none
    counter,   \* frames encrypted
    wire,      \* frames on their way
    queue,     \* the receive queue
    decrypted, \* frames decrypted
    reader,    \* the receiver: "on", "broken" (does not decrypt), "closed"
    dropped,   \* frames the full queue dropped (history)
    link,      \* "connected", "disconnected", "closed", "killed" by the watch
    timer,     \* w.timer: the ticks it has run, None, or Expired
    firing,    \* whether a callback waits for the lock
    blips,
    since,     \* ticks of the present disconnection
    overdue    \* whether one has lasted for the grace (history)

frames == <<held, counter, wire, queue, decrypted, reader, dropped>>
watching == <<link, timer, firing, blips, since, overdue>>
linkVars == <<frames, watching>>

None == -1
Expired == -2

LinkInit ==
    /\ held = [s \in Senders |-> 0]
    /\ counter = 0
    /\ wire = <<>> /\ queue = <<>>
    /\ decrypted = 0 /\ reader = "on" /\ dropped = {}
    /\ link = "connected" /\ timer = None /\ firing = FALSE
    /\ blips = 0 /\ since = 0 /\ overdue = FALSE

Dead == link \in {"closed", "killed"}

-----------------------------------------------------------------------------
(* Sending and receiving.                                                  *)

\* Mutant: the lock covers the encryption alone.
EncryptUnlocked(s) ==
    /\ held[s] = 0
    /\ counter < MaxFrames
    /\ counter' = counter + 1
    /\ held' = [held EXCEPT ![s] = counter + 1]
    /\ UNCHANGED <<wire, queue, decrypted, reader, dropped, watching>>

\* The lock is taken and the frame encrypted under the next counter ...
Encrypt(s) ==
    /\ \A o \in Senders : held[o] = 0
    /\ counter < MaxFrames
    /\ counter' = counter + 1
    /\ held' = [held EXCEPT ![s] = counter + 1]
    /\ UNCHANGED <<wire, queue, decrypted, reader, dropped, watching>>

\* ... and sent, unless the channel is closed; the lock is released.
SendFrame(s) ==
    /\ held[s] # 0
    /\ wire' = IF Dead THEN wire ELSE Append(wire, held[s])
    /\ held' = [held EXCEPT ![s] = 0]
    /\ UNCHANGED <<counter, queue, decrypted, reader, dropped, watching>>

\* OnMessage, offerRecv: into the queue if there is room, and never block.
OfferRecv ==
    /\ wire # <<>> /\ link = "connected"
    /\ wire' = Tail(wire)
    /\ IF Len(queue) < QueueSize
       THEN queue' = Append(queue, Head(wire)) /\ UNCHANGED dropped
       ELSE dropped' = dropped \cup {Head(wire)} /\ UNCHANGED queue
    /\ UNCHANGED <<held, counter, decrypted, reader, watching>>

\* Mutant: a frame is decrypted under the counter it carries.
RecvAnyCounter ==
    /\ reader = "on"
    /\ queue # <<>>
    /\ queue' = Tail(queue)
    /\ decrypted' = Head(queue)
    /\ UNCHANGED <<held, counter, wire, reader, dropped, watching>>

\* Recv and Decrypt: the frame must be the next one.
Recv ==
    /\ reader = "on"
    /\ queue # <<>>
    /\ queue' = Tail(queue)
    /\ IF Head(queue) = decrypted + 1
       THEN decrypted' = Head(queue) /\ UNCHANGED reader
       ELSE reader' = "broken" /\ UNCHANGED decrypted
    /\ UNCHANGED <<held, counter, wire, dropped, watching>>

\* Recv sees the channel closed, whatever the queue still holds.
RecvClosed ==
    /\ reader = "on"
    /\ Dead
    /\ reader' = "closed"
    /\ UNCHANGED <<held, counter, wire, queue, decrypted, dropped, watching>>

\* The session ends with its reader, and the peer connection is closed.
Teardown ==
    /\ reader # "on" /\ ~Dead
    /\ link' = "closed" /\ timer' = None
    /\ UNCHANGED <<frames, firing, blips, since, overdue>>

-----------------------------------------------------------------------------
(* LinkWatch.                                                              *)

\* Mutant: the watch arms once in its life.
DisconnectedOnce ==
    /\ link = "connected"
    /\ blips < MaxBlips
    /\ blips' = blips + 1
    /\ link' = "disconnected"
    /\ timer' = IF timer = None /\ blips = 0 THEN 0 ELSE timer
    /\ since' = 0
    /\ UNCHANGED <<frames, firing, overdue>>

\* ICE reports that the link is gone: a timer is armed unless there is one.
Disconnected ==
    /\ link = "connected"
    /\ blips < MaxBlips
    /\ blips' = blips + 1
    /\ link' = "disconnected"
    /\ timer' = IF timer = None THEN 0 ELSE timer
    /\ since' = 0
    /\ UNCHANGED <<frames, firing, overdue>>

\* Mutant: the timer is left to run.
ConnectedArmed ==
    /\ link = "disconnected"
    /\ link' = "connected"
    /\ UNCHANGED <<frames, timer, firing, blips, since, overdue>>

\* It is back: the timer is stopped, but not a callback that has begun.
Connected ==
    /\ link = "disconnected"
    /\ link' = "connected"
    /\ timer' = None
    /\ UNCHANGED <<frames, firing, blips, since, overdue>>

\* ICE gives up: the watch disarms and the connection is closed.
Failed ==
    /\ link = "disconnected"
    /\ link' = "closed"
    /\ timer' = None
    /\ UNCHANGED <<frames, firing, blips, since, overdue>>

\* Half a second has its ticks; a timer that has run its grace starts its callback.
LinkTick ==
    /\ timer >= 0
    /\ IF link = "disconnected"
       THEN since' = since + 1 /\ overdue' = (overdue \/ since + 1 >= Grace)
       ELSE UNCHANGED <<since, overdue>>
    /\ IF timer + 1 = Grace
       THEN timer' = Expired /\ firing' = TRUE
       ELSE timer' = timer + 1 /\ UNCHANGED firing
    /\ UNCHANGED <<frames, link, blips>>

\* The callback has the lock: it forgets the timer, then closes the connection.
Fire ==
    /\ firing
    /\ firing' = FALSE
    /\ timer' = None
    /\ link' = IF Dead THEN link ELSE "killed"
    /\ UNCHANGED <<frames, blips, since, overdue>>

LinkNext ==
    \/ \E s \in Senders : Encrypt(s) \/ SendFrame(s)
    \/ OfferRecv \/ Recv \/ RecvClosed \/ Teardown
    \/ Disconnected \/ Connected \/ Failed \/ LinkTick \/ Fire

LinkSpec == LinkInit /\ [][LinkNext]_linkVars

-----------------------------------------------------------------------------
(* Properties.                                                             *)

\* sender.send and offerRecv: however the senders interleave, a session breaks only
\* on a frame the full queue dropped, and nothing sent after that frame is ever
\* delivered as if it had not been.
GapEndsSession ==
    /\ reader = "broken" => dropped # {}
    /\ \A f \in dropped : decrypted < f

\* LinkWatch.State: a blip that heals inside the grace costs nothing: the watch
\* kills only a link that was gone for the whole of it.
BlipIsFree == [][link # "killed" /\ link' = "killed" => overdue]_linkVars

\* LinkWatch and signalClosed: a link that is gone comes back or is given up, only
\* after the whole grace, and the receiver of one that was given up is let go.
LinkSettles ==
    /\ BlipIsFree
    /\ link = "disconnected" ~> (link = "connected" \/ reader # "on")
=============================================================================
