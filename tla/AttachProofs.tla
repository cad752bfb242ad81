------------------------------ MODULE AttachProofs ------------------------------
(***************************************************************************)
(* The goroutines, the tmux hooks and the link of an attach, and what      *)
(* revoking a guest's grant achieves, for any number of attaches, senders, *)
(* grants, guests and concurrent revokes, any queue and any grace.         *)
(***************************************************************************)
EXTENDS GuestGrants, SessionPumps, WindowStrip, PeerLink, FiniteSetTheorems, TLAPS

-----------------------------------------------------------------------------
(* RunAgentSession.                                                        *)

\* Where the results of the two pumps are: in errc, or taken by the call, which took one
\* to close and both to return.
PumpInv ==
    /\ pump \in [Pumps -> {"on", "ended"}]
    /\ errc \in [{"agent", "client"} -> SUBSET Pumps]
    /\ agent \in {"serving", "closing", "returned"}
    /\ errc["agent"] \subseteq AgentPumps
    /\ \A p \in errc["agent"] : pump[p] = "ended"
    /\ agent = "serving" => \A p \in AgentPumps : pump[p] = "ended" => p \in errc["agent"]
    /\ agent = "closing" =>
          \E q \in AgentPumps : pump[q] = "ended" /\ q \notin errc["agent"]
    /\ agent = "returned" => \A p \in AgentPumps : pump[p] = "ended"

\* RunAgentSession waits for the results of both its pumps, whoever ends the attach: none
\* of them outlives the call.
THEOREM NoPumpLeftBehind == PumpSpec => []NoPumpOutlives
<1> USE DEF AgentPumps, ClientPumps, Pumps
<1>1. PumpInit => PumpInv
  BY DEF PumpInit, PumpInv
<1>2. PumpInv /\ [PumpNext]_pumpVars => PumpInv'
  <2> SUFFICES ASSUME PumpInv, [PumpNext]_pumpVars PROVE PumpInv'
    OBVIOUS
  <2>1. CASE UNCHANGED <<pump, errc, agent>>
    BY <2>1 DEF PumpInv
  <2>2. ASSUME NEW p \in Pumps, Ends(p) PROVE PumpInv'
    <3>1. /\ pump[p] = "on" /\ pump' = [pump EXCEPT ![p] = "ended"] /\ agent' = agent
          /\ errc' = [errc EXCEPT ![End(p)] = errc[End(p)] \cup {p}]
      BY <2>2 DEF Ends
    <3>2. CASE p \in AgentPumps
      <4>1. errc'["agent"] = errc["agent"] \cup {p} /\ errc' \in [{"agent", "client"} -> SUBSET Pumps]
        BY <3>1, <3>2 DEF End, PumpInv
      <4> QED
        BY <3>1, <3>2, <4>1 DEF PumpInv
    <3>3. CASE p \notin AgentPumps
      <4>1. errc'["agent"] = errc["agent"] /\ errc' \in [{"agent", "client"} -> SUBSET Pumps]
        BY <3>1, <3>3 DEF End, PumpInv
      <4>2. \A q \in AgentPumps : pump'[q] = pump[q]
        BY <3>1, <3>3 DEF PumpInv
      <4>3. pump' \in [Pumps -> {"on", "ended"}]
        BY <3>1 DEF PumpInv
      <4> QED
        BY <3>1, <4>1, <4>2, <4>3 DEF PumpInv
    <3> QED
      BY <3>2, <3>3
  <2>3. CASE AgentFirst
    <3>1. PICK p \in errc["agent"] : errc' = [errc EXCEPT !["agent"] = @ \ {p}]
      BY <2>3 DEF AgentFirst, TakesOne
    <3> QED
      BY <2>3, <3>1 DEF AgentFirst, PumpInv
  <2>4. CASE AgentSecond
    <3>1. PICK p \in errc["agent"] : errc' = [errc EXCEPT !["agent"] = @ \ {p}]
      BY <2>4 DEF AgentSecond, TakesOne
    <3> QED
      BY <2>4, <3>1 DEF AgentSecond, PumpInv
  <2>5. CASE ClientFirst
    <3>1. PICK p \in errc["client"] : errc' = [errc EXCEPT !["client"] = @ \ {p}]
      BY <2>5 DEF ClientFirst, TakesOne
    <3> QED
      BY <2>5, <3>1 DEF ClientFirst, PumpInv
  <2> QED
    BY <2>1, <2>2, <2>3, <2>4, <2>5
    DEF PumpNext, pumpVars, ChannelCloses, ShellExits, KeysEnd, PumpLetGo, PumpFails, ClientCleanup
<1>3. PumpInv => NoPumpOutlives
  BY DEF PumpInv, NoPumpOutlives
<1> QED
  BY <1>1, <1>2, <1>3, PTL DEF PumpSpec

-----------------------------------------------------------------------------
(* acquireTmuxHooks and releaseTmuxHooks.                                  *)

\* The count of holders is the size of a finite set, and says whether tmux has the hooks.
StripInv ==
    /\ watch = [s \in Sessions |-> watch[s]]
    /\ relaunches \in Nat /\ hooked \in BOOLEAN
    /\ IsFiniteSet(Holders)
    /\ HooksWhileHeld

\* A session that moves without acquiring or releasing holds what it held.
LEMMA HoldersKept ==
    ASSUME StripInv, Holders' = Holders, watch' = [s \in Sessions |-> watch'[s]],
           UNCHANGED <<hooked, relaunches, refs>>
    PROVE  StripInv'
BY DEF StripInv, HooksWhileHeld

\* acquireTmuxHooks and releaseTmuxHooks count who holds the hooks: tmux has them exactly
\* while somebody does, unless its server was replaced meanwhile.
THEOREM HooksFollowHolders == StripSpec => []HooksWhileHeld
<1> USE DEF pusher, tmux
<1>1. StripInit => StripInv
  <2> SUFFICES ASSUME StripInit PROVE StripInv
    OBVIOUS
  <2>1. Holders = {}
    BY DEF StripInit, Holders
  <2> QED
    BY <2>1, FS_EmptySet DEF StripInit, StripInv, HooksWhileHeld
<1>2. StripInv /\ [StripNext]_stripVars => StripInv'
  <2> SUFFICES ASSUME StripInv, [StripNext]_stripVars PROVE StripInv'
    OBVIOUS
  <2>0. watch = [s \in Sessions |-> watch[s]]
    BY DEF StripInv
  <2>1. ASSUME NEW s \in Sessions, NEW l, watch' = [watch EXCEPT ![s] = l],
               UNCHANGED <<hooked, relaunches, refs>>,
               watch[s] \in {"waiting", "parked", "woken", "floor"}
                  <=> l \in {"waiting", "parked", "woken", "floor"}
        PROVE  StripInv'
    <3>1. Holders' = Holders
      BY <2>0, <2>1 DEF Holders
    <3>2. watch' = [t \in Sessions |-> watch'[t]]
      BY <2>0, <2>1
    <3> QED
      BY <2>1, <3>1, <3>2, HoldersKept
  <2>2. CASE UNCHANGED <<watch, hooked, relaunches, refs>>
    <3>1. Holders' = Holders
      BY <2>2 DEF Holders
    <3> QED
      BY <2>0, <2>2, <3>1, HoldersKept
  <2>3. ASSUME NEW s \in Sessions,
               Serve(s) \/ AcquireFails(s) \/ Park(s) \/ Rearm(s) \/ Woken(s) \/ FloorOver(s)
               \/ GiveUp(s)
        PROVE  StripInv'
    BY <2>1, <2>3 DEF Serve, AcquireFails, Park, Rearm, Woken, FloorOver, GiveUp
  <2>4. /\ IsFiniteSet(Holders) /\ refs = Cardinality(Holders) /\ Cardinality(Holders) \in Nat
        /\ refs = 0 <=> Holders = {}
    BY FS_CardinalityType, FS_EmptySet DEF StripInv, HooksWhileHeld
  <2>5. ASSUME NEW s \in Sessions, Acquire(s) PROVE StripInv'
    <3>1. s \notin Holders /\ Holders' = Holders \cup {s}
      BY <2>0, <2>5 DEF Acquire, Holders
    <3>2. IsFiniteSet(Holders') /\ Cardinality(Holders') = Cardinality(Holders) + 1
      BY <2>4, <3>1, FS_AddElement
    <3>3. watch' = [t \in Sessions |-> watch'[t]] /\ refs' = refs + 1 /\ relaunches' = relaunches
      BY <2>0, <2>5 DEF Acquire
    <3>4. hooked' <=> (hooked \/ refs = 0)
      BY <2>5, Zenon DEF Acquire
    <3>5. relaunches = 0 => (hooked <=> Holders # {})
      BY DEF StripInv, HooksWhileHeld
    <3>6. hooked' \in BOOLEAN
      BY <2>5 DEF Acquire
    <3>7. HooksWhileHeld'
      BY <2>4, <3>1, <3>2, <3>3, <3>4, <3>5 DEF HooksWhileHeld
    <3> QED
      BY <3>2, <3>3, <3>6, <3>7 DEF StripInv
  <2>6. ASSUME NEW s \in Sessions, Release(s) PROVE StripInv'
    <3>1. s \in Holders /\ Holders' = Holders \ {s}
      BY <2>0, <2>6 DEF Release, Holders
    <3>2. IsFiniteSet(Holders') /\ Cardinality(Holders') = Cardinality(Holders) - 1
      BY <2>4, <3>1, FS_RemoveElement
    <3>3. watch' = [t \in Sessions |-> watch'[t]] /\ refs' = refs - 1 /\ relaunches' = relaunches
      BY <2>0, <2>6 DEF Release
    <3>4. hooked' <=> (hooked /\ refs > 1)
      BY <2>6, Zenon DEF Release
    <3>5. relaunches = 0 => (hooked <=> Holders # {})
      BY DEF StripInv, HooksWhileHeld
    <3>6. hooked' \in BOOLEAN
      BY <2>6 DEF Release
    <3>8. Cardinality(Holders') = 0 <=> Holders' = {}
      BY <3>2, FS_EmptySet
    <3>7. HooksWhileHeld'
      BY <2>4, <3>1, <3>2, <3>3, <3>4, <3>5, <3>8 DEF HooksWhileHeld
    <3> QED
      BY <3>2, <3>3, <3>6, <3>7 DEF StripInv
  <2>7. CASE Change
    <3>1. CASE UNCHANGED watch
      BY <2>2, <2>7, <3>1 DEF Change
    <3> DEFINE parked == {t \in Sessions : watch[t] = "parked"}
    <3>2. CASE watch' = [t \in Sessions |-> IF t \in parked THEN "woken" ELSE watch[t]]
      <4>1. Holders' = Holders
        BY <3>2 DEF Holders
      <4> QED
        BY <2>7, <3>2, <4>1, HoldersKept DEF Change
    <3>3. UNCHANGED watch \/ watch' = [t \in Sessions |-> IF t \in parked THEN "woken" ELSE watch[t]]
      BY <2>7, Zenon DEF Change
    <3> QED
      BY <3>1, <3>2, <3>3
  <2>8. CASE TmuxRestarts
    <3>1. Holders' = Holders
      BY <2>8 DEF TmuxRestarts, Holders
    <3>2. relaunches' = relaunches + 1 /\ ~hooked' /\ UNCHANGED <<watch, refs>>
      BY <2>8 DEF TmuxRestarts
    <3>3. hooked' \in BOOLEAN
      BY <2>8 DEF TmuxRestarts
    <3>4. relaunches' \in Nat /\ relaunches' # 0
      BY <3>2 DEF StripInv
    <3>5. HooksWhileHeld'
      BY <3>1, <3>2, <3>4 DEF StripInv, HooksWhileHeld
    <3> QED
      BY <3>1, <3>2, <3>3, <3>4, <3>5 DEF StripInv
  <2> QED
    BY <2>2, <2>3, <2>5, <2>6, <2>7, <2>8
    DEF StripNext, stripVars, Leave, Poll, TakeTrigger, Rebuild
<1>3. StripInv => HooksWhileHeld
  BY DEF StripInv
<1> QED
  BY <1>1, <1>2, <1>3, PTL DEF StripSpec

-----------------------------------------------------------------------------
(* The data channel.                                                       *)

\* The frames on their way keep the order of their counters, behind what was decrypted and
\* up to what was encrypted; one sender at most holds the newest.
InOrder ==
    /\ held \in [Senders -> Nat] /\ counter \in Nat /\ decrypted \in Nat
    /\ wire \in Seq(Nat) /\ queue \in Seq(Nat)
    /\ decrypted <= counter
    /\ \A s \in Senders : held[s] # 0 => held[s] = counter
    /\ \A s, t \in Senders : held[s] # 0 /\ held[t] # 0 => s = t
    /\ \A i \in 1 .. Len(queue) : decrypted < queue[i] /\ queue[i] <= counter
    /\ \A j \in 1 .. Len(wire) : decrypted < wire[j] /\ wire[j] <= counter
    /\ \A i, j \in 1 .. Len(queue) : i < j => queue[i] < queue[j]
    /\ \A i, j \in 1 .. Len(wire) : i < j => wire[i] < wire[j]
    /\ \A i \in 1 .. Len(queue), j \in 1 .. Len(wire) : queue[i] < wire[j]
    /\ \A s \in Senders : held[s] # 0 =>
          /\ decrypted < counter
          /\ \A i \in 1 .. Len(queue) : queue[i] < counter
          /\ \A j \in 1 .. Len(wire) : wire[j] < counter

\* A frame that was dropped is not decrypted, nor on its way any more.
DroppedLost ==
    \A f \in dropped :
        /\ f \in Nat /\ decrypted < f /\ f <= counter
        /\ \A i \in 1 .. Len(queue) : queue[i] # f
        /\ \A j \in 1 .. Len(wire) : wire[j] # f
        /\ \A s \in Senders : held[s] # f

\* While none was dropped the frames on their way are the next ones, without a gap, and as
\* long as the link is up they are all that was encrypted since.
NoGap ==
    dropped = {} =>
        /\ reader # "broken"
        /\ \A i \in 1 .. Len(queue) : queue[i] = decrypted + i
        /\ \A j \in 1 .. Len(wire) : wire[j] = decrypted + Len(queue) + j
        /\ ~Dead => counter = decrypted + Len(queue) + Len(wire)
                                + (IF \E s \in Senders : held[s] # 0 THEN 1 ELSE 0)

FrameInv == InOrder /\ DroppedLost /\ NoGap

\* Taking the head of a queue of frames shifts the rest by one.
LEMMA TakeFrame ==
    ASSUME NEW s \in Seq(Nat), s # <<>>
    PROVE  /\ Tail(s) \in Seq(Nat) /\ Len(s) \in Nat /\ Len(s) >= 1 /\ Len(Tail(s)) = Len(s) - 1
           /\ Head(s) = s[1] /\ Head(s) \in Nat
           /\ \A i \in 1 .. Len(Tail(s)) : Tail(s)[i] = s[i + 1] /\ i + 1 \in 1 .. Len(s)
OBVIOUS

\* Putting a frame behind the others leaves those where they are.
LEMMA PutFrame ==
    ASSUME NEW s \in Seq(Nat), NEW f \in Nat
    PROVE  /\ Append(s, f) \in Seq(Nat) /\ Len(s) \in Nat /\ Len(Append(s, f)) = Len(s) + 1
           /\ Append(s, f)[Len(s) + 1] = f
           /\ \A i \in 1 .. Len(s) : Append(s, f)[i] = s[i]
           /\ \A i \in 1 .. Len(s) + 1 : i \in 1 .. Len(s) \/ i = Len(s) + 1
OBVIOUS

\* Once the link is dead it stays dead, and only a live link carries frames.
LEMMA DeadForGood ==
    ASSUME [LinkNext]_linkVars, Dead
    PROVE  Dead'
BY DEF LinkNext, linkVars, frames, watching, Dead, Encrypt, SendFrame, OfferRecv, Recv, RecvClosed,
       Teardown, Disconnected, Connected, Failed, LinkTick, Fire

\* The lock over encrypting and sending keeps the frames in the order of their counters.
LEMMA EncryptStep ==
    ASSUME FrameInv, NEW s \in Senders, Encrypt(s)
    PROVE  FrameInv'
<1>1. /\ \A t \in Senders : held[t] = 0
      /\ counter' = counter + 1 /\ held' = [held EXCEPT ![s] = counter + 1]
      /\ UNCHANGED <<wire, queue, decrypted, reader, dropped, link>>
  BY DEF Encrypt, watching
<1>2. \A t \in Senders : held'[t] = IF t = s THEN counter + 1 ELSE 0
  BY <1>1 DEF FrameInv, InOrder
<1>3. InOrder'
  <2>1. /\ held \in [Senders -> Nat] /\ counter \in Nat /\ decrypted \in Nat
        /\ wire \in Seq(Nat) /\ queue \in Seq(Nat) /\ decrypted <= counter
        /\ \A i \in 1 .. Len(queue) : decrypted < queue[i] /\ queue[i] <= counter /\ queue[i] \in Nat
        /\ \A j \in 1 .. Len(wire) : decrypted < wire[j] /\ wire[j] <= counter /\ wire[j] \in Nat
    BY DEF FrameInv, InOrder
  <2>2. held' \in [Senders -> Nat] /\ counter' \in Nat /\ decrypted' \in Nat
        /\ wire' \in Seq(Nat) /\ queue' \in Seq(Nat) /\ decrypted' <= counter'
    BY <1>1, <2>1
  <2>3. /\ \A i \in 1 .. Len(queue) : queue[i] < counter + 1 /\ queue[i] <= counter + 1
        /\ \A j \in 1 .. Len(wire) : wire[j] < counter + 1 /\ wire[j] <= counter + 1
        /\ decrypted < counter + 1
    BY <2>1
  <2> QED
    BY <1>1, <1>2, <2>1, <2>2, <2>3 DEF FrameInv, InOrder
<1>4. DroppedLost'
  <2>1. counter \in Nat
    BY DEF FrameInv, InOrder
  <2>2. \A f \in dropped : f \in Nat /\ f <= counter /\ decrypted < f /\ decrypted \in Nat
    BY DEF FrameInv, DroppedLost, InOrder
  <2>3. \A f \in dropped : f <= counter + 1 /\ f # counter + 1 /\ f # 0
    BY <2>1, <2>2
  <2> QED
    BY <1>1, <1>2, <2>2, <2>3 DEF FrameInv, DroppedLost
<1>5. NoGap'
  <2>1. (\E t \in Senders : held'[t] # 0) /\ ~(\E t \in Senders : held[t] # 0)
    BY <1>1, <1>2 DEF FrameInv, InOrder
  <2>2. Dead' <=> Dead
    BY <1>1 DEF Dead
  <2>3. /\ counter \in Nat /\ decrypted \in Nat /\ Len(queue) \in Nat /\ Len(wire) \in Nat
    BY DEF FrameInv, InOrder
  <2>4. dropped = {} =>
          /\ reader # "broken"
          /\ ~Dead => counter = decrypted + Len(queue) + Len(wire)
          /\ \A i \in 1 .. Len(queue) : queue[i] = decrypted + i
          /\ \A j \in 1 .. Len(wire) : wire[j] = decrypted + Len(queue) + j
    BY <2>1, <2>3 DEF FrameInv, NoGap
  <2>5. dropped = {} /\ ~Dead => counter + 1 = decrypted + Len(queue) + Len(wire) + 1
    BY <2>3, <2>4
  <2> QED
    BY <1>1, <2>1, <2>2, <2>4, <2>5 DEF NoGap
<1> QED
  BY <1>3, <1>4, <1>5 DEF FrameInv

\* What is sent goes behind everything on its way.
LEMMA SendStep ==
    ASSUME FrameInv, NEW s \in Senders, SendFrame(s)
    PROVE  FrameInv'
<1>1. /\ held[s] # 0 /\ held' = [held EXCEPT ![s] = 0]
      /\ wire' = IF Dead THEN wire ELSE Append(wire, held[s])
      /\ UNCHANGED <<counter, queue, decrypted, reader, dropped, link>>
  BY DEF SendFrame, watching
<1>2. /\ held[s] = counter /\ counter \in Nat /\ decrypted \in Nat /\ decrypted < counter
      /\ wire \in Seq(Nat) /\ queue \in Seq(Nat) /\ held \in [Senders -> Nat]
      /\ \A t \in Senders : held[t] # 0 => t = s
      /\ \A i \in 1 .. Len(queue) : queue[i] < counter
      /\ \A j \in 1 .. Len(wire) : wire[j] < counter
  BY <1>1 DEF FrameInv, InOrder
<1>3. \A t \in Senders : held'[t] = 0
  BY <1>1, <1>2
<1>4. Dead' <=> Dead
  BY <1>1 DEF Dead
<1>5. held' \in [Senders -> Nat]
  BY <1>1, <1>2
<1>6. CASE Dead
  <2>1. wire' = wire
    BY <1>1, <1>6
  <2>2. InOrder'
    BY <1>1, <1>3, <1>5, <2>1 DEF FrameInv, InOrder
  <2>3. DroppedLost'
    <3>1. \A f \in dropped : f # 0
      BY <1>2 DEF FrameInv, DroppedLost
    <3> QED
      BY <1>1, <1>3, <2>1, <3>1 DEF FrameInv, DroppedLost
  <2>4. NoGap'
    BY <1>1, <1>4, <1>6, <2>1 DEF FrameInv, NoGap
  <2> QED
    BY <2>2, <2>3, <2>4 DEF FrameInv
<1>7. CASE ~Dead
  <2>0. wire' = Append(wire, counter)
    BY <1>1, <1>2, <1>7
  <2>1. /\ wire' \in Seq(Nat) /\ Len(wire) \in Nat /\ Len(wire') = Len(wire) + 1
        /\ wire'[Len(wire) + 1] = counter
        /\ \A j \in 1 .. Len(wire) : wire'[j] = wire[j]
        /\ \A j \in 1 .. Len(wire') : j \in 1 .. Len(wire) \/ j = Len(wire) + 1
    BY <1>2, <2>0, PutFrame
  <2>2. InOrder'
    <3>0. \A j \in 1 .. Len(wire) : decrypted < wire[j] /\ wire[j] <= counter
      BY DEF FrameInv, InOrder
    <3>1. \A j \in 1 .. Len(wire') : decrypted < wire'[j] /\ wire'[j] <= counter
      <4> SUFFICES ASSUME NEW j \in 1 .. Len(wire')
                   PROVE  decrypted < wire'[j] /\ wire'[j] <= counter
        OBVIOUS
      <4>1. CASE j \in 1 .. Len(wire)
        BY <2>1, <3>0, <4>1
      <4>2. CASE j = Len(wire) + 1
        BY <1>2, <2>1, <4>2
      <4> QED
        BY <2>1, <4>1, <4>2
    <3>2. \A i, j \in 1 .. Len(wire') : i < j => wire'[i] < wire'[j]
      <4> SUFFICES ASSUME NEW i \in 1 .. Len(wire'), NEW j \in 1 .. Len(wire'), i < j
                   PROVE  wire'[i] < wire'[j]
        OBVIOUS
      <4>1. i \in 1 .. Len(wire)
        BY <2>1
      <4> QED
        BY <1>2, <2>1, <4>1 DEF FrameInv, InOrder
    <3>3. \A i \in 1 .. Len(queue), j \in 1 .. Len(wire') : queue[i] < wire'[j]
      BY <1>2, <2>1 DEF FrameInv, InOrder
    <3>4. /\ decrypted <= counter
          /\ \A i \in 1 .. Len(queue) : decrypted < queue[i] /\ queue[i] <= counter
          /\ \A i, j \in 1 .. Len(queue) : i < j => queue[i] < queue[j]
      BY DEF FrameInv, InOrder
    <3> QED
      BY <1>1, <1>2, <1>3, <1>5, <2>1, <3>1, <3>2, <3>3, <3>4 DEF InOrder
  <2>3. DroppedLost'
    <3>1. \A f \in dropped : f # 0 /\ f # counter
      BY <1>1, <1>2 DEF FrameInv, DroppedLost
    <3> QED
      BY <1>1, <1>3, <2>1, <3>1 DEF FrameInv, DroppedLost
  <2>4. NoGap'
    <3>1. (\E t \in Senders : held[t] # 0) /\ ~(\E t \in Senders : held'[t] # 0)
      BY <1>1, <1>3
    <3>2. Len(queue) \in Nat
      BY <1>2
    <3>3. dropped = {} =>
            /\ reader # "broken" /\ counter = decrypted + Len(queue) + Len(wire) + 1
            /\ \A i \in 1 .. Len(queue) : queue[i] = decrypted + i
            /\ \A j \in 1 .. Len(wire) : wire[j] = decrypted + Len(queue) + j
      BY <1>7, <3>1 DEF FrameInv, NoGap
    <3>4. ASSUME dropped = {}, NEW j \in 1 .. Len(wire') PROVE wire'[j] = decrypted + Len(queue) + j
      <4>1. CASE j \in 1 .. Len(wire)
        BY <2>1, <3>3, <3>4, <4>1
      <4>2. CASE j = Len(wire) + 1
        BY <1>2, <2>1, <3>2, <3>3, <3>4, <4>2
      <4> QED
        BY <2>1, <4>1, <4>2
    <3>5. dropped = {} => counter = decrypted + Len(queue) + Len(wire') + 0
      BY <1>2, <2>1, <3>2, <3>3
    <3> QED
      BY <1>1, <3>1, <3>3, <3>4, <3>5 DEF NoGap
  <2> QED
    BY <2>2, <2>3, <2>4 DEF FrameInv
<1> QED
  BY <1>6, <1>7

\* A frame goes from the wire behind those in the queue; a full queue loses it.
LEMMA OfferRecvStep ==
    ASSUME FrameInv, OfferRecv
    PROVE  FrameInv'
<1> DEFINE f == Head(wire)
<1>1. /\ wire # <<>> /\ wire' = Tail(wire)
      /\ UNCHANGED <<held, counter, decrypted, reader, link>>
      /\ \/ queue' = Append(queue, f) /\ dropped' = dropped
         \/ queue' = queue /\ dropped' = dropped \cup {f}
  BY DEF OfferRecv, watching
<1>2. /\ held \in [Senders -> Nat] /\ counter \in Nat /\ decrypted \in Nat
      /\ wire \in Seq(Nat) /\ queue \in Seq(Nat) /\ decrypted <= counter /\ Len(queue) \in Nat
      /\ \A s \in Senders : held[s] # 0 => held[s] = counter
      /\ \A s, t \in Senders : held[s] # 0 /\ held[t] # 0 => s = t
      /\ \A i \in 1 .. Len(queue) : queue[i] \in Nat /\ decrypted < queue[i] /\ queue[i] <= counter
      /\ \A j \in 1 .. Len(wire) : wire[j] \in Nat /\ decrypted < wire[j] /\ wire[j] <= counter
      /\ \A i, j \in 1 .. Len(queue) : i < j => queue[i] < queue[j]
      /\ \A i, j \in 1 .. Len(wire) : i < j => wire[i] < wire[j]
      /\ \A i \in 1 .. Len(queue), j \in 1 .. Len(wire) : queue[i] < wire[j]
      /\ \A s \in Senders : held[s] # 0 =>
            /\ decrypted < counter
            /\ \A i \in 1 .. Len(queue) : queue[i] < counter
            /\ \A j \in 1 .. Len(wire) : wire[j] < counter
  BY DEF FrameInv, InOrder
<1>3. /\ wire' \in Seq(Nat) /\ Len(wire) \in Nat /\ Len(wire) >= 1 /\ Len(wire') = Len(wire) - 1
      /\ f = wire[1] /\ f \in Nat /\ 1 \in 1 .. Len(wire) /\ Len(wire') \in Nat
      /\ \A j \in 1 .. Len(wire') : wire'[j] = wire[j + 1] /\ j + 1 \in 1 .. Len(wire) /\ 1 < j + 1
  BY <1>1, <1>2, TakeFrame
<1>4. /\ decrypted < f /\ f <= counter
      /\ \A i \in 1 .. Len(queue) : queue[i] < f
      /\ \A j \in 1 .. Len(wire') : f < wire'[j] /\ wire'[j] \in Nat
      /\ \A j \in 1 .. Len(wire') : decrypted < wire'[j] /\ wire'[j] <= counter
      /\ \A i \in 1 .. Len(queue), j \in 1 .. Len(wire') : queue[i] < wire'[j]
      /\ \A s \in Senders : held[s] # 0 =>
            f < counter /\ \A j \in 1 .. Len(wire') : wire'[j] < counter
  BY <1>2, <1>3
<1>5. \A i, j \in 1 .. Len(wire') : i < j => wire'[i] < wire'[j]
  <2> SUFFICES ASSUME NEW i \in 1 .. Len(wire'), NEW j \in 1 .. Len(wire'), i < j
               PROVE  wire'[i] < wire'[j]
    OBVIOUS
  <2>1. i + 1 < j + 1
    OBVIOUS
  <2> QED
    BY <1>2, <1>3, <2>1
<1>6. Dead' <=> Dead
  BY <1>1 DEF Dead
<1>7. CASE queue' = Append(queue, f) /\ dropped' = dropped
  <2>1. /\ queue' \in Seq(Nat) /\ Len(queue') = Len(queue) + 1 /\ queue'[Len(queue) + 1] = f
        /\ \A i \in 1 .. Len(queue) : queue'[i] = queue[i]
        /\ \A i \in 1 .. Len(queue') : i \in 1 .. Len(queue) \/ i = Len(queue) + 1
    BY <1>2, <1>3, <1>7, PutFrame
  <2>2. InOrder'
    <3>1. \A i \in 1 .. Len(queue') : decrypted < queue'[i] /\ queue'[i] <= counter
      <4> SUFFICES ASSUME NEW i \in 1 .. Len(queue')
                   PROVE  decrypted < queue'[i] /\ queue'[i] <= counter
        OBVIOUS
      <4>1. CASE i \in 1 .. Len(queue)
        BY <1>2, <2>1, <4>1
      <4>2. CASE i = Len(queue) + 1
        BY <1>4, <2>1, <4>2
      <4> QED
        BY <2>1, <4>1, <4>2
    <3>2. \A i, j \in 1 .. Len(queue') : i < j => queue'[i] < queue'[j]
      <4> SUFFICES ASSUME NEW i \in 1 .. Len(queue'), NEW j \in 1 .. Len(queue'), i < j
                   PROVE  queue'[i] < queue'[j]
        OBVIOUS
      <4>1. i \in 1 .. Len(queue)
        BY <1>2, <2>1
      <4>2. CASE j \in 1 .. Len(queue)
        BY <1>2, <2>1, <4>1, <4>2
      <4>3. CASE j = Len(queue) + 1
        BY <1>4, <2>1, <4>1, <4>3
      <4> QED
        BY <2>1, <4>2, <4>3
    <3>3. \A i \in 1 .. Len(queue'), j \in 1 .. Len(wire') : queue'[i] < wire'[j]
      <4> SUFFICES ASSUME NEW i \in 1 .. Len(queue'), NEW j \in 1 .. Len(wire')
                   PROVE  queue'[i] < wire'[j]
        OBVIOUS
      <4>1. CASE i \in 1 .. Len(queue)
        BY <1>4, <2>1, <4>1
      <4>2. CASE i = Len(queue) + 1
        BY <1>4, <2>1, <4>2
      <4> QED
        BY <2>1, <4>1, <4>2
    <3>4. \A s \in Senders : held[s] # 0 => \A i \in 1 .. Len(queue') : queue'[i] < counter
      <4> SUFFICES ASSUME NEW s \in Senders, held[s] # 0, NEW i \in 1 .. Len(queue')
                   PROVE  queue'[i] < counter
        OBVIOUS
      <4>1. CASE i \in 1 .. Len(queue)
        BY <1>2, <2>1, <4>1
      <4>2. CASE i = Len(queue) + 1
        BY <1>4, <2>1, <4>2
      <4> QED
        BY <2>1, <4>1, <4>2
    <3> QED
      BY <1>1, <1>2, <1>3, <1>4, <1>5, <2>1, <3>1, <3>2, <3>3, <3>4 DEF InOrder
  <2>3. DroppedLost'
    <3> SUFFICES ASSUME NEW g \in dropped
                 PROVE  /\ g \in Nat /\ decrypted < g /\ g <= counter
                        /\ \A i \in 1 .. Len(queue') : queue'[i] # g
                        /\ \A j \in 1 .. Len(wire') : wire'[j] # g
                        /\ \A s \in Senders : held[s] # g
      BY <1>1, <1>7 DEF DroppedLost
    <3>1. /\ g \in Nat /\ decrypted < g /\ g <= counter
          /\ \A i \in 1 .. Len(queue) : queue[i] # g
          /\ \A j \in 1 .. Len(wire) : wire[j] # g
          /\ \A s \in Senders : held[s] # g
      BY DEF FrameInv, DroppedLost
    <3>2. ASSUME NEW i \in 1 .. Len(queue') PROVE queue'[i] # g
      <4>1. CASE i \in 1 .. Len(queue)
        BY <2>1, <3>1, <4>1
      <4>2. CASE i = Len(queue) + 1
        BY <1>3, <2>1, <3>1, <4>2
      <4> QED
        BY <2>1, <4>1, <4>2
    <3>3. \A j \in 1 .. Len(wire') : wire'[j] # g
      BY <1>3, <3>1
    <3> QED
      BY <3>1, <3>2, <3>3
  <2>4. NoGap'
    <3> DEFINE sending == IF \E s \in Senders : held[s] # 0 THEN 1 ELSE 0
    <3> HIDE DEF sending
    <3>0. sending \in Nat
      BY DEF sending
    <3>1. dropped = {} =>
            /\ reader # "broken"
            /\ \A i \in 1 .. Len(queue) : queue[i] = decrypted + i
            /\ \A j \in 1 .. Len(wire) : wire[j] = decrypted + Len(queue) + j
            /\ ~Dead => counter = decrypted + Len(queue) + Len(wire) + sending
      BY DEF FrameInv, NoGap, sending
    <3>2. ASSUME dropped = {}, NEW i \in 1 .. Len(queue') PROVE queue'[i] = decrypted + i
      <4>1. CASE i \in 1 .. Len(queue)
        BY <2>1, <3>1, <3>2, <4>1
      <4>2. CASE i = Len(queue) + 1
        BY <1>2, <1>3, <2>1, <3>1, <3>2, <4>2
      <4> QED
        BY <2>1, <4>1, <4>2
    <3>3. ASSUME dropped = {}, NEW j \in 1 .. Len(wire')
          PROVE  wire'[j] = decrypted + Len(queue') + j
      <4>1. wire'[j] = decrypted + Len(queue) + (j + 1)
        BY <1>3, <3>1, <3>3
      <4> QED
        BY <1>2, <2>1, <4>1
    <3>4. dropped = {} /\ ~Dead => counter = decrypted + Len(queue') + Len(wire') + sending
      BY <1>2, <1>3, <2>1, <3>0, <3>1
    <3>5. UNCHANGED sending
      BY <1>1 DEF sending
    <3>6. dropped' = {} =>
            /\ reader' # "broken"
            /\ \A i \in 1 .. Len(queue') : queue'[i] = decrypted' + i
            /\ \A j \in 1 .. Len(wire') : wire'[j] = decrypted' + Len(queue') + j
            /\ ~Dead' => counter' = decrypted' + Len(queue') + Len(wire') + sending'
      BY <1>1, <1>6, <1>7, <3>1, <3>2, <3>3, <3>4, <3>5
    <3> QED
      BY <3>6 DEF NoGap, sending
  <2> QED
    BY <2>2, <2>3, <2>4 DEF FrameInv
<1>8. CASE queue' = queue /\ dropped' = dropped \cup {f}
  <2>1. InOrder'
    BY <1>1, <1>2, <1>3, <1>4, <1>5, <1>8 DEF InOrder
  <2>2. DroppedLost'
    <3>1. /\ f \in Nat /\ decrypted < f /\ f <= counter
          /\ \A i \in 1 .. Len(queue) : queue[i] # f
          /\ \A j \in 1 .. Len(wire') : wire'[j] # f
          /\ \A s \in Senders : held[s] # f
      <4>1. f \in Nat /\ decrypted < f /\ f <= counter /\ decrypted \in Nat /\ counter \in Nat
        BY <1>2, <1>3, <1>4
      <4>2. \A i \in 1 .. Len(queue) : queue[i] # f
        BY <1>2, <1>4, <4>1
      <4>3. \A j \in 1 .. Len(wire') : wire'[j] # f
        BY <1>4, <4>1
      <4>4. f # 0
        BY <4>1
      <4>5. \A s \in Senders : held[s] # 0 => held[s] = counter /\ f < counter
        BY <1>2, <1>4
      <4> HIDE DEF f
      <4>6. \A s \in Senders : held[s] # f
        BY <4>1, <4>4, <4>5
      <4> QED
        BY <4>1, <4>2, <4>3, <4>6
    <3>2. \A g \in dropped :
            /\ g \in Nat /\ decrypted < g /\ g <= counter
            /\ \A i \in 1 .. Len(queue) : queue[i] # g
            /\ \A j \in 1 .. Len(wire') : wire'[j] # g
            /\ \A s \in Senders : held[s] # g
      BY <1>3 DEF FrameInv, DroppedLost
    <3> QED
      BY <1>1, <1>8, <3>1, <3>2 DEF DroppedLost
  <2>3. NoGap'
    BY <1>8 DEF NoGap
  <2> QED
    BY <2>1, <2>2, <2>3 DEF FrameInv
<1> QED
  BY <1>1, <1>7, <1>8

\* The frame at the head of the queue is decrypted if it is the next one; if it is not, one was
\* dropped before it, and the reader stops.
LEMMA RecvStep ==
    ASSUME FrameInv, Recv
    PROVE  FrameInv'
<1> DEFINE f == Head(queue)
<1>1. /\ queue # <<>> /\ queue' = Tail(queue)
      /\ UNCHANGED <<held, counter, wire, dropped, link>>
      /\ \/ f = decrypted + 1 /\ decrypted' = f /\ reader' = reader
         \/ f # decrypted + 1 /\ decrypted' = decrypted /\ reader' = "broken"
  BY DEF Recv, watching
<1>2. /\ held \in [Senders -> Nat] /\ counter \in Nat /\ decrypted \in Nat
      /\ wire \in Seq(Nat) /\ queue \in Seq(Nat) /\ decrypted <= counter /\ Len(wire) \in Nat
      /\ \A s \in Senders : held[s] # 0 => held[s] = counter
      /\ \A s, t \in Senders : held[s] # 0 /\ held[t] # 0 => s = t
      /\ \A i \in 1 .. Len(queue) : queue[i] \in Nat /\ decrypted < queue[i] /\ queue[i] <= counter
      /\ \A j \in 1 .. Len(wire) : wire[j] \in Nat /\ decrypted < wire[j] /\ wire[j] <= counter
      /\ \A i, j \in 1 .. Len(queue) : i < j => queue[i] < queue[j]
      /\ \A i, j \in 1 .. Len(wire) : i < j => wire[i] < wire[j]
      /\ \A i \in 1 .. Len(queue), j \in 1 .. Len(wire) : queue[i] < wire[j]
      /\ \A s \in Senders : held[s] # 0 =>
            /\ decrypted < counter
            /\ \A i \in 1 .. Len(queue) : queue[i] < counter
            /\ \A j \in 1 .. Len(wire) : wire[j] < counter
  BY DEF FrameInv, InOrder
<1>3. /\ queue' \in Seq(Nat) /\ Len(queue) \in Nat /\ Len(queue) >= 1 /\ Len(queue') = Len(queue) - 1
      /\ f = queue[1] /\ f \in Nat /\ 1 \in 1 .. Len(queue) /\ Len(queue') \in Nat
      /\ \A i \in 1 .. Len(queue') : queue'[i] = queue[i + 1] /\ i + 1 \in 1 .. Len(queue) /\ 1 < i + 1
  BY <1>1, <1>2, TakeFrame
<1>4. /\ decrypted < f /\ f <= counter
      /\ \A j \in 1 .. Len(wire) : f < wire[j]
      /\ \A i \in 1 .. Len(queue') : f < queue'[i] /\ queue'[i] \in Nat
      /\ \A i \in 1 .. Len(queue') : decrypted < queue'[i] /\ queue'[i] <= counter
      /\ \A i \in 1 .. Len(queue'), j \in 1 .. Len(wire) : queue'[i] < wire[j]
      /\ \A s \in Senders : held[s] # 0 =>
            f < counter /\ \A i \in 1 .. Len(queue') : queue'[i] < counter
  BY <1>2, <1>3
<1>5. \A i, j \in 1 .. Len(queue') : i < j => queue'[i] < queue'[j]
  <2> SUFFICES ASSUME NEW i \in 1 .. Len(queue'), NEW j \in 1 .. Len(queue'), i < j
               PROVE  queue'[i] < queue'[j]
    OBVIOUS
  <2>1. i + 1 < j + 1
    OBVIOUS
  <2> QED
    BY <1>2, <1>3, <2>1
<1>6. Dead' <=> Dead
  BY <1>1 DEF Dead
<1>7. decrypted' \in Nat /\ decrypted' <= f
  BY <1>1, <1>2, <1>3, <1>4
<1>8. InOrder'
  <2>1. /\ decrypted' <= counter
        /\ \A i \in 1 .. Len(queue') : decrypted' < queue'[i]
        /\ \A j \in 1 .. Len(wire) : decrypted' < wire[j]
        /\ \A s \in Senders : held[s] # 0 => decrypted' < counter
    <3>1. /\ f \in Nat /\ counter \in Nat /\ f <= counter
          /\ \A s \in Senders : held[s] # 0 => f < counter
      BY <1>2, <1>3, <1>4
    <3>2. \A n \in Nat : f < n => decrypted' < n
      BY <1>7, <3>1
    <3>3. decrypted' <= counter
      BY <1>7, <3>1
    <3>4. \A j \in 1 .. Len(wire) : wire[j] \in Nat /\ f < wire[j]
      BY <1>2, <1>4
    <3> HIDE DEF f
    <3> QED
      BY <1>4, <3>1, <3>2, <3>3, <3>4
  <2> QED
    BY <1>1, <1>2, <1>3, <1>4, <1>5, <1>7, <2>1 DEF InOrder
<1>9. DroppedLost'
  <2> SUFFICES ASSUME NEW g \in dropped
               PROVE  /\ g \in Nat /\ decrypted' < g /\ g <= counter
                      /\ \A i \in 1 .. Len(queue') : queue'[i] # g
                      /\ \A j \in 1 .. Len(wire) : wire[j] # g
                      /\ \A s \in Senders : held[s] # g
    BY <1>1 DEF DroppedLost
  <2>1. /\ g \in Nat /\ decrypted < g /\ g <= counter
        /\ \A i \in 1 .. Len(queue) : queue[i] # g
        /\ \A j \in 1 .. Len(wire) : wire[j] # g
        /\ \A s \in Senders : held[s] # g
    BY DEF FrameInv, DroppedLost
  <2>2. decrypted' < g
    BY <1>1, <1>2, <1>3, <2>1
  <2>3. \A i \in 1 .. Len(queue') : queue'[i] # g
    BY <1>3, <2>1
  <2> QED
    BY <2>1, <2>2, <2>3
<1>10. NoGap'
  <2> DEFINE sending == IF \E s \in Senders : held[s] # 0 THEN 1 ELSE 0
  <2> HIDE DEF sending
  <2>0. sending \in Nat
    BY DEF sending
  <2>1. dropped = {} =>
          /\ reader # "broken"
          /\ \A i \in 1 .. Len(queue) : queue[i] = decrypted + i
          /\ \A j \in 1 .. Len(wire) : wire[j] = decrypted + Len(queue) + j
          /\ ~Dead => counter = decrypted + Len(queue) + Len(wire) + sending
    BY DEF FrameInv, NoGap, sending
  <2>2. dropped = {} => decrypted' = decrypted + 1 /\ reader' = reader
    BY <1>1, <1>3, <2>1
  <2>3. ASSUME dropped = {}, NEW i \in 1 .. Len(queue') PROVE queue'[i] = decrypted' + i
    BY <1>2, <1>3, <2>1, <2>2, <2>3
  <2>4. ASSUME dropped = {}, NEW j \in 1 .. Len(wire) PROVE wire[j] = decrypted' + Len(queue') + j
    BY <1>2, <1>3, <2>1, <2>2, <2>4
  <2>5. dropped = {} /\ ~Dead => counter = decrypted' + Len(queue') + Len(wire) + sending
    BY <1>2, <1>3, <2>0, <2>1, <2>2
  <2>6. UNCHANGED sending
    BY <1>1 DEF sending
  <2>7. dropped' = {} =>
          /\ reader' # "broken"
          /\ \A i \in 1 .. Len(queue') : queue'[i] = decrypted' + i
          /\ \A j \in 1 .. Len(wire') : wire'[j] = decrypted' + Len(queue') + j
          /\ ~Dead' => counter' = decrypted' + Len(queue') + Len(wire') + sending'
    BY <1>1, <1>6, <2>1, <2>2, <2>3, <2>4, <2>5, <2>6
  <2> QED
    BY <2>7 DEF NoGap, sending
<1> QED
  BY <1>8, <1>9, <1>10 DEF FrameInv

\* A reader that is let go and a link that changes leave the frames where they are.
LEMMA QuietStep ==
    ASSUME FrameInv, [LinkNext]_linkVars,
           UNCHANGED <<held, counter, wire, queue, decrypted, dropped>>,
           reader' = reader \/ reader' = "closed"
    PROVE  FrameInv'
<1>1. InOrder' /\ DroppedLost'
  BY DEF FrameInv, InOrder, DroppedLost
<1>2. ~Dead' => ~Dead
  BY DeadForGood
<1>3. reader # "broken" => reader' # "broken"
  OBVIOUS
<1>4. NoGap'
  BY <1>2, <1>3 DEF FrameInv, NoGap
<1> QED
  BY <1>1, <1>4 DEF FrameInv

\* peer.go and sender.go: for any number of senders and any queue, a session breaks only on a
\* frame the full queue dropped, and no later frame is taken for that one.  The lock held from
\* encrypting to sending is what makes it hold: the counters on the wire rise.
THEOREM OrderedOrEnded == LinkSpec => []GapEndsSession
<1>1. LinkInit => FrameInv
  <2> SUFFICES ASSUME LinkInit PROVE FrameInv
    OBVIOUS
  <2>1. \A s \in Senders : held[s] = 0
    BY DEF LinkInit
  <2>2. held \in [Senders -> Nat]
    BY DEF LinkInit
  <2>3. InOrder
    BY <2>1, <2>2 DEF LinkInit, InOrder
  <2>4. DroppedLost
    BY DEF LinkInit, DroppedLost
  <2>5. ~\E s \in Senders : held[s] # 0
    BY <2>1
  <2>6. NoGap
    BY <2>5 DEF LinkInit, NoGap
  <2> QED
    BY <2>3, <2>4, <2>6 DEF FrameInv
<1>2. FrameInv /\ [LinkNext]_linkVars => FrameInv'
  <2> SUFFICES ASSUME FrameInv, [LinkNext]_linkVars PROVE FrameInv'
    OBVIOUS
  <2>1. ASSUME NEW s \in Senders, Encrypt(s) PROVE FrameInv'
    BY <2>1, EncryptStep
  <2>2. ASSUME NEW s \in Senders, SendFrame(s) PROVE FrameInv'
    BY <2>2, SendStep
  <2>3. CASE OfferRecv
    BY <2>3, OfferRecvStep
  <2>4. CASE Recv
    BY <2>4, RecvStep
  <2>5. CASE RecvClosed
    BY <2>5, QuietStep DEF RecvClosed
  <2>6. CASE Teardown \/ Disconnected \/ Connected \/ Failed \/ LinkTick \/ Fire
    BY <2>6, QuietStep DEF Teardown, Disconnected, Connected, Failed, LinkTick, Fire, frames
  <2>7. CASE UNCHANGED linkVars
    BY <2>7, QuietStep DEF linkVars, frames
  <2> QED
    BY <2>1, <2>2, <2>3, <2>4, <2>5, <2>6, <2>7 DEF LinkNext
<1>3. FrameInv => GapEndsSession
  BY DEF FrameInv, DroppedLost, NoGap, GapEndsSession
<1> QED
  BY <1>1, <1>2, <1>3, PTL DEF LinkSpec

-----------------------------------------------------------------------------
(* LinkWatch.                                                              *)

\* A timer that runs counts the ticks of the present disconnection, and a callback that waits
\* for the lock was started by one that lasted.
TimerInv ==
    /\ timer \in Int /\ since \in Nat
    /\ timer >= 0 => link = "disconnected" /\ since = timer
    /\ firing => overdue

\* peer.LinkWatch.State: for every grace, the watch kills only a link that was gone for the
\* whole of it, also when the callback loses the race for the lock to a link that is back.
THEOREM WatchKillsOnlyTheDead == LinkSpec => BlipIsFree
<1>1. LinkInit => TimerInv
  BY DEF LinkInit, TimerInv, None
<1>2. TimerInv /\ [LinkNext]_linkVars => TimerInv'
  <2> SUFFICES ASSUME TimerInv, [LinkNext]_linkVars PROVE TimerInv'
    OBVIOUS
  <2>1. CASE LinkTick
    <3>1. /\ timer >= 0 /\ link = "disconnected" /\ link' = link
          /\ since' = since + 1 /\ overdue' = (overdue \/ since + 1 >= Grace)
          /\ \/ timer + 1 = Grace /\ timer' = Expired /\ firing'
             \/ timer + 1 # Grace /\ timer' = timer + 1 /\ firing' = firing
          /\ timer \in Int /\ since \in Nat /\ since = timer
      BY <2>1 DEF LinkTick, TimerInv
    <3>2. timer' \in Int /\ since' \in Nat
      BY <3>1 DEF Expired
    <3>3. timer' >= 0 => since' = timer'
      BY <3>1 DEF Expired
    <3>4. firing' => overdue'
      <4>1. overdue => overdue'
        BY <3>1
      <4>2. timer + 1 = Grace => overdue'
        <5>1. timer + 1 = Grace => since + 1 >= Grace
          BY <3>1, LinkAssumption
        <5> QED
          BY <3>1, <5>1
      <4>3. firing => overdue
        BY DEF TimerInv
      <4> QED
        BY <3>1, <4>1, <4>2, <4>3
    <3> QED
      BY <3>1, <3>2, <3>3, <3>4 DEF TimerInv
  <2>2. CASE Disconnected
    BY <2>2 DEF Disconnected, TimerInv
  <2>3. CASE Teardown \/ Connected \/ Failed \/ Fire
    BY <2>3 DEF Teardown, Connected, Failed, Fire, TimerInv, None
  <2>4. ASSUME UNCHANGED watching PROVE TimerInv'
    BY <2>4 DEF watching, TimerInv
  <2>5. ASSUME NEW s \in Senders, Encrypt(s) \/ SendFrame(s) PROVE UNCHANGED watching
    BY <2>5 DEF Encrypt, SendFrame
  <2>6. CASE OfferRecv \/ Recv \/ RecvClosed
    BY <2>4, <2>6 DEF OfferRecv, Recv, RecvClosed
  <2>7. CASE UNCHANGED linkVars
    BY <2>4, <2>7 DEF linkVars
  <2> QED
    BY <2>1, <2>2, <2>3, <2>4, <2>5, <2>6, <2>7 DEF LinkNext
<1>3. TimerInv /\ [LinkNext]_linkVars => [link # "killed" /\ link' = "killed" => overdue]_linkVars
  <2> SUFFICES ASSUME TimerInv, LinkNext, link # "killed", link' = "killed" PROVE overdue
    OBVIOUS
  <2>1. CASE Fire
    BY <2>1 DEF Fire, TimerInv
  <2>2. ~Fire => FALSE
    BY DEF LinkNext, watching, Encrypt, SendFrame, OfferRecv, Recv, RecvClosed, Teardown,
           Disconnected, Connected, Failed, LinkTick
  <2> QED
    BY <2>1, <2>2
<1> QED
  BY <1>1, <1>2, <1>3, PTL DEF LinkSpec, BlipIsFree

-----------------------------------------------------------------------------
(* The grants of guests.                                                   *)

\* The states in which a revoke-grant handler has found a grant of its owner.
Tombstoning == {"load", "truncate", "write", "remove", "drop"}

\* A revoked grant that is not installed again leaves the directory for good:
\* the tombstone file, which may be lost or torn, plays no part in this.
RevokedGone ==
    /\ files \subseteq added
    /\ acked \subseteq added
    /\ acked \cap files = {}
    /\ \A r \in Revokers : rpc[r] \in Tombstoning => rgid[r] \in added
    /\ \A r \in Revokers : rpc[r] = "drop" => rgid[r] \notin files
    /\ \A a \in Attaches : before[a].offer \subseteq acked

\* Sessions being served are in the registry.
ServingRegistered == \A a \in Attaches : pc[a] \in Serving => a \in live

USE DEF Serving, Goto, RGoto, disk, guest, revoke

\* Every variable of the guest model keeps its type.
THEOREM TypeCorrect == Spec => []TypeOK
<1>1. Init => TypeOK
  BY GuestAssumption DEF Init, TypeOK
<1>2. TypeOK /\ [Next]_vars => TypeOK'
  <2> SUFFICES ASSUME TypeOK, [Next]_vars PROVE TypeOK'
    OBVIOUS
  <2> USE GuestAssumption DEF TypeOK
  <2>1. CASE Tick
    BY <2>1 DEF Tick
  <2>2. CASE Restart
    BY <2>2 DEF Restart
  <2>3. ASSUME NEW g \in Gids, AddGrant(g) PROVE TypeOK'
    BY <2>3 DEF AddGrant
  <2>4. ASSUME NEW a \in Attaches, NEW o \in Owners, BeginAttach(a, o) PROVE TypeOK'
    BY <2>4 DEF BeginAttach
  <2>5. ASSUME NEW a \in Attaches, Authorize(a) PROVE TypeOK'
    BY <2>5 DEF Authorize
  <2>6. ASSUME NEW a \in Attaches, NotAuthorized(a) PROVE TypeOK'
    BY <2>6 DEF NotAuthorized
  <2>7. ASSUME NEW a \in Attaches, HandshakeFails(a) PROVE TypeOK'
    BY <2>7 DEF HandshakeFails
  <2>8. ASSUME NEW a \in Attaches, Register(a) PROVE TypeOK'
    BY <2>8 DEF Register
  <2>9. ASSUME NEW a \in Attaches, ContextEnds(a) PROVE TypeOK'
    BY <2>9 DEF ContextEnds
  <2>10. ASSUME NEW a \in Attaches, TransportEnds(a) PROVE TypeOK'
    BY <2>10 DEF TransportEnds
  <2>11. ASSUME NEW a \in Attaches, Unregister(a) PROVE TypeOK'
    BY <2>11 DEF Unregister
  <2>12. ASSUME NEW r \in Revokers, RevokeOwn(r) PROVE TypeOK'
    BY <2>12 DEF RevokeOwn
  <2>13. ASSUME NEW r \in Revokers, RevokeOther(r) PROVE TypeOK'
    BY <2>13 DEF RevokeOther
  <2>14. ASSUME NEW r \in Revokers, LoadForRevoke(r) PROVE TypeOK'
    BY <2>14 DEF LoadForRevoke, LoadTombstones
  <2>15. ASSUME NEW r \in Revokers, Truncate(r) PROVE TypeOK'
    BY <2>15 DEF Truncate
  <2>16. ASSUME NEW r \in Revokers, WriteTombs(r) PROVE TypeOK'
    BY <2>16 DEF WriteTombs, Overwrite
  <2>17. ASSUME NEW r \in Revokers, WriteFails(r) PROVE TypeOK'
    BY <2>17 DEF WriteFails
  <2>18. ASSUME NEW r \in Revokers, RemoveFile(r) PROVE TypeOK'
    BY <2>18 DEF RemoveFile
  <2>19. ASSUME NEW r \in Revokers, Drop(r) PROVE TypeOK'
    BY <2>19 DEF Drop
  <2>20. CASE UNCHANGED vars
    BY <2>20 DEF vars
  <2> QED
    BY <2>1, <2>2, <2>3, <2>4, <2>5, <2>6, <2>7, <2>8, <2>9, <2>10, <2>11, <2>12, <2>13,
       <2>14, <2>15, <2>16, <2>17, <2>18, <2>19, <2>20 DEF Next
<1> QED
  BY <1>1, <1>2, PTL DEF Spec

\* If owners do not install a grant again, an acknowledged revocation holds for
\* every later offer: although concurrent revokes lose tombstones of one another
\* and readers may see a torn file, the grant file stays removed.
THEOREM RevocationHolds == ASSUME ReAdd = FALSE PROVE Spec => []NoAttachAfterRevoke
<1>1. Init => RevokedGone /\ NoAttachAfterRevoke
  BY DEF Init, RevokedGone, NoAttachAfterRevoke, Tombstoning
<1>2. ASSUME TypeOK, RevokedGone, NoAttachAfterRevoke, [Next]_vars
      PROVE  (RevokedGone /\ NoAttachAfterRevoke)'
  <2> USE <1>2 DEF TypeOK, RevokedGone, NoAttachAfterRevoke, Tombstoning
  <2>1. CASE Tick
    BY <2>1 DEF Tick
  <2>2. CASE Restart
    BY <2>2 DEF Restart
  <2>3. ASSUME NEW g \in Gids, AddGrant(g) PROVE (RevokedGone /\ NoAttachAfterRevoke)'
    BY <2>3 DEF AddGrant
  <2>4. ASSUME NEW a \in Attaches, NEW o \in Owners, BeginAttach(a, o)
        PROVE (RevokedGone /\ NoAttachAfterRevoke)'
    BY <2>4 DEF BeginAttach
  <2>5. ASSUME NEW a \in Attaches, Authorize(a) PROVE (RevokedGone /\ NoAttachAfterRevoke)'
    <3>1. PICK g \in cand[a] \cap files : gid' = [gid EXCEPT ![a] = g]
      BY <2>5 DEF Authorize
    <3>2. g \notin before[a].offer
      BY <3>1
    <3> QED
      BY <2>5, <3>1, <3>2 DEF Authorize
  <2>6. ASSUME NEW a \in Attaches, NotAuthorized(a) PROVE (RevokedGone /\ NoAttachAfterRevoke)'
    BY <2>6 DEF NotAuthorized
  <2>7. ASSUME NEW a \in Attaches, HandshakeFails(a) PROVE (RevokedGone /\ NoAttachAfterRevoke)'
    BY <2>7 DEF HandshakeFails
  <2>8. ASSUME NEW a \in Attaches, Register(a) PROVE (RevokedGone /\ NoAttachAfterRevoke)'
    BY <2>8 DEF Register
  <2>9. ASSUME NEW a \in Attaches, ContextEnds(a) \/ TransportEnds(a)
        PROVE (RevokedGone /\ NoAttachAfterRevoke)'
    BY <2>9 DEF ContextEnds, TransportEnds
  <2>11. ASSUME NEW a \in Attaches, Unregister(a) PROVE (RevokedGone /\ NoAttachAfterRevoke)'
    BY <2>11 DEF Unregister
  <2>12. ASSUME NEW r \in Revokers, RevokeOwn(r) PROVE (RevokedGone /\ NoAttachAfterRevoke)'
    BY <2>12 DEF RevokeOwn
  <2>13. ASSUME NEW r \in Revokers, RevokeOther(r) PROVE (RevokedGone /\ NoAttachAfterRevoke)'
    BY <2>13 DEF RevokeOther
  <2>14. ASSUME NEW r \in Revokers, LoadForRevoke(r) PROVE (RevokedGone /\ NoAttachAfterRevoke)'
    BY <2>14 DEF LoadForRevoke
  <2>15. ASSUME NEW r \in Revokers, Truncate(r) \/ WriteTombs(r) \/ WriteFails(r)
         PROVE (RevokedGone /\ NoAttachAfterRevoke)'
    BY <2>15 DEF Truncate, WriteTombs, WriteFails
  <2>18. ASSUME NEW r \in Revokers, RemoveFile(r) PROVE (RevokedGone /\ NoAttachAfterRevoke)'
    BY <2>18 DEF RemoveFile
  <2>19. ASSUME NEW r \in Revokers, Drop(r) PROVE (RevokedGone /\ NoAttachAfterRevoke)'
    BY <2>19 DEF Drop
  <2>20. CASE UNCHANGED vars
    BY <2>20 DEF vars
  <2> QED
    BY <2>1, <2>2, <2>3, <2>4, <2>5, <2>6, <2>7, <2>8, <2>9, <2>11, <2>12, <2>13,
       <2>14, <2>15, <2>18, <2>19, <2>20 DEF Next
<1> QED
  BY <1>1, <1>2, TypeCorrect, PTL DEF Spec

\* Dropping the live sessions of a revoked grant misses no session that was
\* registered: one that goes on was still in its handshake.
THEOREM RegisteredAreDropped == Spec => []EscapesOnlyInHandshake
<1>1. Init => ServingRegistered /\ EscapesOnlyInHandshake
  BY DEF Init, ServingRegistered, EscapesOnlyInHandshake
<1>2. ASSUME TypeOK, ServingRegistered, EscapesOnlyInHandshake, [Next]_vars
      PROVE  (ServingRegistered /\ EscapesOnlyInHandshake)'
  <2> USE <1>2 DEF TypeOK, ServingRegistered, EscapesOnlyInHandshake
  <2>1. CASE Tick
    BY <2>1 DEF Tick
  <2>2. CASE Restart
    BY <2>2 DEF Restart
  <2>3. ASSUME NEW g \in Gids, AddGrant(g) PROVE (ServingRegistered /\ EscapesOnlyInHandshake)'
    BY <2>3 DEF AddGrant
  <2>4. ASSUME NEW a \in Attaches, NEW o \in Owners, BeginAttach(a, o)
        PROVE (ServingRegistered /\ EscapesOnlyInHandshake)'
    BY <2>4 DEF BeginAttach
  <2>5. ASSUME NEW a \in Attaches, Authorize(a) PROVE (ServingRegistered /\ EscapesOnlyInHandshake)'
    BY <2>5 DEF Authorize
  <2>6. ASSUME NEW a \in Attaches, NotAuthorized(a) \/ HandshakeFails(a)
        PROVE (ServingRegistered /\ EscapesOnlyInHandshake)'
    BY <2>6 DEF NotAuthorized, HandshakeFails
  <2>8. ASSUME NEW a \in Attaches, Register(a) PROVE (ServingRegistered /\ EscapesOnlyInHandshake)'
    BY <2>8 DEF Register
  <2>9. ASSUME NEW a \in Attaches, ContextEnds(a) \/ TransportEnds(a)
        PROVE (ServingRegistered /\ EscapesOnlyInHandshake)'
    BY <2>9 DEF ContextEnds, TransportEnds
  <2>11. ASSUME NEW a \in Attaches, Unregister(a) PROVE (ServingRegistered /\ EscapesOnlyInHandshake)'
    BY <2>11 DEF Unregister
  <2>12. ASSUME NEW r \in Revokers, RevokeOwn(r) \/ LoadForRevoke(r) \/ WriteFails(r)
         PROVE (ServingRegistered /\ EscapesOnlyInHandshake)'
    BY <2>12 DEF RevokeOwn, LoadForRevoke, WriteFails
  <2>13. ASSUME NEW r \in Revokers, RevokeOther(r) PROVE (ServingRegistered /\ EscapesOnlyInHandshake)'
    BY <2>13 DEF RevokeOther
  <2>15. ASSUME NEW r \in Revokers, Truncate(r) \/ WriteTombs(r) \/ RemoveFile(r)
         PROVE (ServingRegistered /\ EscapesOnlyInHandshake)'
    BY <2>15 DEF Truncate, WriteTombs, RemoveFile
  <2>19. ASSUME NEW r \in Revokers, Drop(r) PROVE (ServingRegistered /\ EscapesOnlyInHandshake)'
    BY <2>19 DEF Drop
  <2>20. CASE UNCHANGED vars
    BY <2>20 DEF vars
  <2> QED
    BY <2>1, <2>2, <2>3, <2>4, <2>5, <2>6, <2>8, <2>9, <2>11, <2>12, <2>13, <2>15, <2>19, <2>20 DEF Next
<1> QED
  BY <1>1, <1>2, TypeCorrect, PTL DEF Spec
=============================================================================
