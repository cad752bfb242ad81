---------------------------- MODULE PairRoomsProofs ----------------------------
(***************************************************************************)
(* The pairing rooms for any number of rooms, parties, bridges and bytes,  *)
(* whichever way arrivals, hand-overs and timers interleave.               *)
(***************************************************************************)
EXTENDS PairRooms, FiniteSetTheorems, TLAPS

Waits == {"waiting", "timer"}
Handed == {"blocked", "paired out"}
Claims == Handed \cup {"claimed"}
Drives == {"drive", "bridging", "closing", "leaving", "bridged", "no bridge"}

\* Who is still to be met, who met whom: a handler in the map waits in that room, alone;
\* a claimer's mate waits or drives and has the claimer in its channel once it was handed
\* over; a channel holds its claimer; a driver drives with what its channel held.
InMap ==
    \A r \in Rooms : waiting[r] # Nobody =>
        /\ room[waiting[r]] = r
        /\ at[waiting[r]] \in Waits
        /\ partner[waiting[r]] = Nobody
        /\ \A g \in Handlers : mate[g] # waiting[r]
Claimers ==
    \A h \in Handlers : at[h] \in Claims =>
        /\ mate[h] # Nobody
        /\ room[mate[h]] = room[h]
        /\ at[mate[h]] \in Waits \cup Drives
        /\ partner[mate[h]] = IF at[h] \in Handed THEN h ELSE Nobody
Channels ==
    \A h \in Handlers : partner[h] # Nobody =>
        /\ at[partner[h]] \in Handed
        /\ mate[partner[h]] = h
Mates ==
    \A h \in Handlers :
        /\ at[h] \notin Claims \cup Drives => mate[h] = Nobody
        /\ at[h] \in Drives => mate[h] = partner[h] /\ partner[h] # Nobody
OneClaim ==
    \A h, g \in Handlers :
        (at[h] \in Claims /\ at[g] \in Claims /\ mate[h] = mate[g]) => h = g
Meeting == InMap /\ Claimers /\ Channels /\ Mates /\ OneClaim

\* done was closed by the handlers that are past the close, once.
ClosedOnce ==
    \A h \in Handlers : closes[h] = IF at[h] \in {"leaving", "bridged", "no bridge"} THEN 1 ELSE 0

\* The bridge count is the size of a finite set, within the cap.
Counted == IsFiniteSet(Bridging) /\ BridgesCounted

\* What was forwarded was counted first, against the budget.
Budgeted == \A h \in Handlers : sent[h] <= used[h] /\ sent[h] <= Budget

PairInv == PairTypeOK /\ Meeting /\ ClosedOnce /\ Counted /\ Budgeted

\* Every step keeps the types: done is closed by a handler that has not closed it, and a
\* bridge is counted below the cap.
LEMMA PairTypes ==
    ASSUME PairInv, [PairNext]_pairVars
    PROVE  PairTypeOK'
<1> USE PairAssumption DEF Ended, GoOn
<1>0. PairTypeOK /\ ClosedOnce
  BY DEF PairInv
<1>a. active \in 0 .. MaxBridges /\ MaxBridges \in Nat
  BY <1>0 DEF PairTypeOK
<1>b. closes \in [Handlers -> 0 .. 2]
  BY <1>0 DEF PairTypeOK
<1>c. used \in [Handlers -> Nat] /\ sent \in [Handlers -> Nat]
  BY <1>0 DEF PairTypeOK
<1>1. ASSUME NEW h \in Handlers, Step(h) PROVE PairTypeOK'
  <2>1. CASE Claim(h)
    BY <1>0, <2>1 DEF Claim, PairTypeOK
  <2>2. CASE HandOver(h)
    BY <1>0, <2>2 DEF HandOver, PairTypeOK
  <2>3. CASE RoomsFull(h)
    BY <1>0, <2>3 DEF RoomsFull, PairTypeOK
  <2>4. CASE Wait(h)
    BY <1>0, <2>4 DEF Wait, PairTypeOK
  <2>5. CASE Meet(h)
    BY <1>0, <2>5 DEF Meet, PairTypeOK
  <2>6. CASE WaitTimer(h)
    BY <1>0, <2>6 DEF WaitTimer, PairTypeOK
  <2>7. CASE TimedOut(h)
    BY <1>0, <2>7 DEF TimedOut, PairTypeOK
  <2>8. CASE ClaimedInTime(h)
    BY <1>0, <2>8 DEF ClaimedInTime, PairTypeOK
  <2>9. CASE BeginBridge(h)
    <3>1. active' \in 0 .. MaxBridges
      BY <1>a, <2>9 DEF BeginBridge
    <3> QED
      BY <1>0, <2>9, <3>1 DEF BeginBridge, PairTypeOK
  <2>10. CASE NoBridge(h)
    <3>1. closes[h] = 0 /\ closes' = [closes EXCEPT ![h] = closes[h] + 1]
      BY <1>0, <2>10 DEF NoBridge, ClosedOnce
    <3>2. closes' \in [Handlers -> 0 .. 2]
      BY <1>b, <3>1
    <3> QED
      BY <1>0, <2>10, <3>2 DEF NoBridge, PairTypeOK
  <2>11. CASE BridgeEnds(h)
    BY <1>0, <2>11 DEF BridgeEnds, PairTypeOK
  <2>12. CASE CloseDone(h)
    <3>1. closes[h] = 0 /\ closes' = [closes EXCEPT ![h] = closes[h] + 1]
      BY <1>0, <2>12 DEF CloseDone, ClosedOnce
    <3>2. closes' \in [Handlers -> 0 .. 2]
      BY <1>b, <3>1
    <3> QED
      BY <1>0, <2>12, <3>2 DEF CloseDone, PairTypeOK
  <2>13. CASE EndBridge(h)
    <3>1. active' \in 0 .. MaxBridges
      BY <1>a, <2>13 DEF EndBridge
    <3> QED
      BY <1>0, <2>13, <3>1 DEF EndBridge, PairTypeOK
  <2>14. CASE Released(h)
    BY <1>0, <2>14 DEF Released, PairTypeOK
  <2> QED
    BY <1>1, <2>1, <2>2, <2>3, <2>4, <2>5, <2>6, <2>7, <2>8, <2>9, <2>10, <2>11, <2>12,
       <2>13, <2>14 DEF Step
<1>2. ASSUME NEW h \in Handlers, NEW n \in FrameSizes, CopyFrame(h, n) PROVE PairTypeOK'
  <2>0. n \in Nat
    OBVIOUS
  <2>1. used' \in [Handlers -> Nat]
    BY <1>c, <1>2, <2>0 DEF CopyFrame
  <2>2. sent' \in [Handlers -> Nat]
    BY <1>c, <1>2, <2>0 DEF CopyFrame
  <2>3. at' = at \/ at' = [at EXCEPT ![h] = "closing"]
    BY <1>2 DEF CopyFrame
  <2> QED
    BY <1>0, <1>2, <2>1, <2>2, <2>3 DEF CopyFrame, PairTypeOK
<1>3. CASE UNCHANGED pairVars
  BY <1>0, <1>3 DEF pairVars, PairTypeOK
<1> QED
  BY <1>1, <1>2, <1>3 DEF PairNext

\* A handler that goes on waiting, driving or blocked changes nothing about who met whom.
LEMMA MeetingQuiet ==
    ASSUME PairTypeOK, Meeting, NEW h \in Handlers, NEW l,
           \/ at[h] \in Waits /\ l \in Waits
           \/ at[h] \in Drives /\ l \in Drives
           \/ at[h] = "blocked" /\ l = "paired out"
           \/ at[h] = "idle" /\ l = "no room",
           at' = [at EXCEPT ![h] = l], UNCHANGED <<room, waiting, partner, mate>>
    PROVE  Meeting'
<1>1. \A g \in Handlers :
         /\ at'[g] \in Waits <=> at[g] \in Waits
         /\ at'[g] \in Drives <=> at[g] \in Drives
         /\ at'[g] \in Claims <=> at[g] \in Claims
         /\ at'[g] \in Handed <=> at[g] \in Handed
  BY DEF PairTypeOK, Waits, Drives, Claims, Handed
<1>0. /\ \A r \in Rooms : waiting[r] # Nobody => waiting[r] \in Handlers
      /\ \A g \in Handlers : mate[g] # Nobody => mate[g] \in Handlers
      /\ \A g \in Handlers : partner[g] # Nobody => partner[g] \in Handlers
  BY DEF PairTypeOK
<1>2. InMap'
  BY <1>0, <1>1 DEF Meeting, InMap
<1>3. Claimers'
  BY <1>0, <1>1 DEF Meeting, Claimers
<1>4. Channels'
  BY <1>0, <1>1 DEF Meeting, Channels
<1>5. Mates'
  BY <1>1 DEF Meeting, Mates
<1>6. OneClaim'
  BY <1>1 DEF Meeting, OneClaim
<1> QED
  BY <1>2, <1>3, <1>4, <1>5, <1>6 DEF Meeting

\* Arrivals, hand-overs and timers keep the pairing one to one.
LEMMA MeetingStep ==
    ASSUME PairInv, [PairNext]_pairVars
    PROVE  Meeting'
<1>0. PairTypeOK /\ Meeting /\ Nobody \notin Handlers
  BY PairAssumption DEF PairInv
<1>a. /\ \A r \in Rooms : waiting[r] # Nobody => waiting[r] \in Handlers
      /\ \A g \in Handlers : mate[g] # Nobody => mate[g] \in Handlers
      /\ \A g \in Handlers : partner[g] # Nobody => partner[g] \in Handlers
      /\ \A g \in Handlers : room[g] \in Rooms
  BY <1>0 DEF PairTypeOK
<1>b. \A g \in Handlers :
         /\ at[g] \in Claims => at[g] \notin Waits \cup Drives /\ at[g] # "idle"
         /\ at[g] \in Waits => at[g] \notin Drives /\ at[g] # "idle"
         /\ at[g] \in Drives => at[g] # "idle"
         /\ at[g] \in Handed => at[g] \in Claims /\ at[g] # "claimed"
  BY DEF Waits, Drives, Claims, Handed
<1>1. ASSUME NEW h \in Handlers, Claim(h) PROVE Meeting'
  <2> DEFINE w == waiting[room[h]]
  <2>1. /\ w \in Handlers /\ room[w] = room[h] /\ at[w] \in Waits /\ partner[w] = Nobody
        /\ \A g \in Handlers : mate[g] # w /\ mate[g] # h /\ partner[g] # h
        /\ mate[h] = Nobody /\ w # h /\ partner[h] = Nobody
    <3>1. at[h] = "idle" /\ w \in Handlers
      BY <1>1, <1>a DEF Claim
    <3>2. at[h] \notin Waits \cup Drives \cup Claims \cup Handed
      BY <1>b, <3>1
    <3>3. room[w] = room[h] /\ at[w] \in Waits /\ partner[w] = Nobody
          /\ \A g \in Handlers : mate[g] # w
      BY <1>0, <1>1, <1>a DEF Claim, Meeting, InMap
    <3>4. mate[h] = Nobody
      BY <1>0, <3>2 DEF Meeting, Mates
    <3>5. \A g \in Handlers : partner[g] # h
      BY <1>0, <3>2 DEF Meeting, Channels
    <3>6. \A g \in Handlers : mate[g] # h
      BY <1>0, <3>2, <3>5 DEF Meeting, Claimers, Mates
    <3>7. partner[h] = Nobody
      BY <1>0, <1>a, <3>6 DEF Meeting, Channels
    <3> QED
      BY <3>2, <3>3, <3>1, <3>4, <3>5, <3>6, <3>7
  <2>2. /\ \A r \in Rooms : waiting'[r] = IF r = room[h] THEN Nobody ELSE waiting[r]
        /\ \A g \in Handlers :
              /\ mate'[g] = IF g = h THEN w ELSE mate[g]
              /\ at'[g] \in Waits <=> at[g] \in Waits
              /\ at'[g] \in Drives <=> at[g] \in Drives
              /\ at'[g] \in Claims <=> (at[g] \in Claims \/ g = h)
              /\ at'[g] \in Handed <=> at[g] \in Handed
        /\ at[h] \notin Handed
        /\ room' = room /\ partner' = partner
    BY <1>0, <1>1 DEF Claim, GoOn, PairTypeOK, Waits, Drives, Claims, Handed
  <2> HIDE DEF w
  <2>3. InMap'
    BY <1>0, <1>a, <2>1, <2>2 DEF Meeting, InMap
  <2>4. Claimers'
    BY <1>0, <1>a, <2>1, <2>2 DEF Meeting, Claimers
  <2>5. Channels'
    BY <1>0, <1>a, <2>1, <2>2 DEF Meeting, Channels
  <2>6. Mates'
    BY <1>0, <1>a, <2>1, <2>2 DEF Meeting, Mates
  <2>7. OneClaim'
    BY <1>0, <1>a, <2>1, <2>2 DEF Meeting, OneClaim
  <2> QED
    BY <2>3, <2>4, <2>5, <2>6, <2>7 DEF Meeting
<1>2. ASSUME NEW h \in Handlers, HandOver(h) PROVE Meeting'
  <2> DEFINE w == mate[h]
  <2>1. /\ w \in Handlers /\ room[w] = room[h] /\ at[w] \in Waits /\ partner[w] = Nobody
        /\ w # h /\ w = mate[h] /\ at[w] \notin Drives /\ at[h] \in Claims
    <3>1. at[h] \in Claims /\ at[h] \notin Handed
      BY <1>2 DEF HandOver, Claims, Handed
    <3>2. w \in Handlers /\ room[w] = room[h] /\ at[w] \in Waits \cup Drives /\ partner[w] = Nobody
      BY <1>0, <1>a, <3>1 DEF Meeting, Claimers
    <3>3. at[w] \notin Drives
      BY <1>0, <3>2 DEF Meeting, Mates
    <3> QED
      BY <1>b, <3>1, <3>2, <3>3
  <2>2. /\ \A g \in Handlers :
              /\ partner'[g] = IF g = w THEN h ELSE partner[g]
              /\ at'[g] \in Waits <=> at[g] \in Waits
              /\ at'[g] \in Drives <=> at[g] \in Drives
              /\ at'[g] \in Claims <=> at[g] \in Claims
              /\ at'[g] \in Handed <=> (at[g] \in Handed \/ g = h)
        /\ room' = room /\ mate' = mate /\ waiting' = waiting
    BY <1>0, <1>2 DEF HandOver, GoOn, PairTypeOK, Waits, Drives, Claims, Handed
  <2> HIDE DEF w
  <2>3. InMap'
    BY <1>0, <1>a, <2>1, <2>2 DEF Meeting, InMap
  <2>4. Claimers'
    BY <1>0, <1>a, <2>1, <2>2 DEF Meeting, Claimers, OneClaim
  <2>5. Channels'
    BY <1>0, <1>a, <2>1, <2>2 DEF Meeting, Channels
  <2>6. Mates'
    BY <1>0, <1>a, <2>1, <2>2 DEF Meeting, Mates
  <2>7. OneClaim'
    BY <1>0, <1>a, <2>1, <2>2 DEF Meeting, OneClaim
  <2> QED
    BY <2>3, <2>4, <2>5, <2>6, <2>7 DEF Meeting
<1>3. ASSUME NEW h \in Handlers, Wait(h) PROVE Meeting'
  <2>1. /\ waiting[room[h]] = Nobody /\ mate[h] = Nobody /\ partner[h] = Nobody
        /\ \A g \in Handlers : mate[g] # h /\ partner[g] # h
    <3>1. at[h] = "idle" /\ waiting[room[h]] = Nobody
      BY <1>3 DEF Wait
    <3>2. at[h] \notin Waits \cup Drives \cup Claims \cup Handed
      BY <1>b, <3>1
    <3>4. mate[h] = Nobody
      BY <1>0, <3>2 DEF Meeting, Mates
    <3>5. \A g \in Handlers : partner[g] # h
      BY <1>0, <3>2 DEF Meeting, Channels
    <3>6. \A g \in Handlers : mate[g] # h
      BY <1>0, <3>2, <3>5 DEF Meeting, Claimers, Mates
    <3>7. partner[h] = Nobody
      BY <1>0, <1>a, <3>6 DEF Meeting, Channels
    <3> QED
      BY <3>1, <3>4, <3>5, <3>6, <3>7
  <2>2. /\ \A r \in Rooms : waiting'[r] = IF r = room[h] THEN h ELSE waiting[r]
        /\ \A g \in Handlers :
              /\ at'[g] \in Waits <=> (at[g] \in Waits \/ g = h)
              /\ at'[g] \in Drives <=> at[g] \in Drives
              /\ at'[g] \in Claims <=> at[g] \in Claims
              /\ at'[g] \in Handed <=> at[g] \in Handed
        /\ room' = room /\ mate' = mate /\ partner' = partner
    BY <1>0, <1>3 DEF Wait, GoOn, PairTypeOK, Waits, Drives, Claims, Handed
  <2>3. InMap'
    BY <1>0, <1>a, <2>1, <2>2 DEF Meeting, InMap
  <2>4. Claimers'
    BY <1>0, <1>a, <2>1, <2>2 DEF Meeting, Claimers
  <2>5. Channels'
    BY <1>0, <1>a, <2>1, <2>2 DEF Meeting, Channels
  <2>6. Mates'
    BY <1>0, <1>a, <2>1, <2>2 DEF Meeting, Mates
  <2>7. OneClaim'
    BY <1>0, <1>a, <2>1, <2>2 DEF Meeting, OneClaim
  <2> QED
    BY <2>3, <2>4, <2>5, <2>6, <2>7 DEF Meeting
<1>4. ASSUME NEW h \in Handlers, Meet(h) \/ ClaimedInTime(h) PROVE Meeting'
  <2> DEFINE x == partner[h]
  <2>1. /\ x \in Handlers /\ at[x] \in Handed /\ at[x] \in Claims /\ mate[x] = h
        /\ mate[h] = Nobody /\ x # h /\ x = partner[h]
        /\ \A r \in Rooms : waiting[r] # h /\ waiting[r] # x
    <3>1. at[h] \in Waits /\ x \in Handlers
      BY <1>4, <1>a DEF Meet, ClaimedInTime, Waits
    <3>2. at[x] \in Handed /\ mate[x] = h
      BY <1>0, <3>1 DEF Meeting, Channels
    <3>3. mate[h] = Nobody
      BY <1>0, <1>b, <3>1 DEF Meeting, Mates
    <3>4. \A r \in Rooms : waiting[r] # h /\ waiting[r] # x
      BY <1>0, <1>b, <3>1, <3>2 DEF Meeting, InMap
    <3> QED
      BY <1>0, <1>b, <3>1, <3>2, <3>3, <3>4
  <2>2. /\ \A g \in Handlers :
              /\ mate'[g] = IF g = h THEN x ELSE mate[g]
              /\ at'[g] \in Waits <=> (at[g] \in Waits /\ g # h)
              /\ at'[g] \in Drives <=> (at[g] \in Drives \/ g = h)
              /\ at'[g] \in Claims <=> at[g] \in Claims
              /\ at'[g] \in Handed <=> at[g] \in Handed
        /\ at[h] \notin Claims
        /\ room' = room /\ partner' = partner /\ waiting' = waiting
    <3>1. at'[h] = "drive" /\ at[h] \in Waits /\ \A g \in Handlers : g # h => at'[g] = at[g]
      BY <1>0, <1>4 DEF Meet, ClaimedInTime, GoOn, PairTypeOK, Waits
    <3>2. /\ \A g \in Handlers : mate'[g] = IF g = h THEN x ELSE mate[g]
          /\ room' = room /\ partner' = partner /\ waiting' = waiting
      BY <1>0, <1>4 DEF Meet, ClaimedInTime, PairTypeOK
    <3> HIDE DEF x
    <3> QED
      BY <3>1, <3>2 DEF Waits, Drives, Claims, Handed
  <2> HIDE DEF x
  <2>3. InMap'
    BY <1>0, <1>a, <2>1, <2>2 DEF Meeting, InMap
  <2>4. Claimers'
    BY <1>0, <1>a, <2>1, <2>2 DEF Meeting, Claimers
  <2>5. Channels'
    BY <1>0, <1>a, <2>1, <2>2 DEF Meeting, Channels
  <2>6. Mates'
    BY <1>0, <1>a, <2>1, <2>2 DEF Meeting, Mates
  <2>7. OneClaim'
    BY <1>0, <1>a, <2>1, <2>2 DEF Meeting, OneClaim
  <2> QED
    BY <2>3, <2>4, <2>5, <2>6, <2>7 DEF Meeting
<1>5. ASSUME NEW h \in Handlers, TimedOut(h) PROVE Meeting'
  <2>1. /\ mate[h] = Nobody /\ partner[h] = Nobody /\ at[h] \in Waits /\ at[h] \notin Claims
        /\ \A g \in Handlers : mate[g] # h /\ partner[g] # h
    <3>1. at[h] \in Waits /\ waiting[room[h]] = h
      BY <1>5 DEF TimedOut, Waits
    <3>2. partner[h] = Nobody /\ \A g \in Handlers : mate[g] # h
      BY <1>0, <1>a, <3>1 DEF Meeting, InMap
    <3>3. mate[h] = Nobody
      BY <1>0, <1>b, <3>1 DEF Meeting, Mates
    <3>4. \A g \in Handlers : partner[g] # h
      BY <1>0, <1>b, <3>1 DEF Meeting, Channels
    <3> QED
      BY <1>b, <3>1, <3>2, <3>3, <3>4
  <2>2. /\ \A r \in Rooms : waiting'[r] = IF r = room[h] THEN Nobody ELSE waiting[r]
        /\ \A g \in Handlers :
              /\ at'[g] \in Waits <=> (at[g] \in Waits /\ g # h)
              /\ at'[g] \in Drives <=> at[g] \in Drives
              /\ at'[g] \in Claims <=> at[g] \in Claims
              /\ at'[g] \in Handed <=> at[g] \in Handed
        /\ waiting[room[h]] = h
        /\ room' = room /\ mate' = mate /\ partner' = partner
    BY <1>0, <1>5 DEF TimedOut, GoOn, PairTypeOK, Waits, Drives, Claims, Handed
  <2>3. InMap'
    BY <1>0, <1>a, <2>1, <2>2 DEF Meeting, InMap
  <2>4. Claimers'
    BY <1>0, <1>a, <2>1, <2>2 DEF Meeting, Claimers
  <2>5. Channels'
    BY <1>0, <1>a, <2>1, <2>2 DEF Meeting, Channels
  <2>6. Mates'
    BY <1>0, <1>a, <2>1, <2>2 DEF Meeting, Mates
  <2>7. OneClaim'
    BY <1>0, <1>a, <2>1, <2>2 DEF Meeting, OneClaim
  <2> QED
    BY <2>3, <2>4, <2>5, <2>6, <2>7 DEF Meeting
<1>7. ASSUME NEW h \in Handlers,
             RoomsFull(h) \/ WaitTimer(h) \/ BeginBridge(h) \/ NoBridge(h) \/ BridgeEnds(h)
             \/ CloseDone(h) \/ EndBridge(h) \/ Released(h)
      PROVE  Meeting'
  BY <1>0, <1>7, MeetingQuiet
  DEF RoomsFull, WaitTimer, BeginBridge, NoBridge, BridgeEnds, CloseDone, EndBridge, Released,
      GoOn, Waits, Drives
<1>8. CASE UNCHANGED <<at, room, waiting, partner, mate>>
  BY <1>0, <1>8 DEF Meeting, InMap, Claimers, Channels, Mates, OneClaim
<1>9. ASSUME NEW h \in Handlers, NEW n \in FrameSizes, CopyFrame(h, n) PROVE Meeting'
  BY <1>0, <1>8, <1>9, MeetingQuiet DEF CopyFrame, GoOn, Drives
<1> QED
  BY <1>1, <1>2, <1>3, <1>4, <1>5, <1>7, <1>8, <1>9 DEF PairNext, Step, pairVars

\* done is closed by NoBridge and CloseDone, each on its way into the states past the close.
LEMMA ClosedOnceStep ==
    ASSUME PairInv, [PairNext]_pairVars
    PROVE  ClosedOnce'
<1>0. /\ ClosedOnce /\ at = [g \in Handlers |-> at[g]] /\ closes = [g \in Handlers |-> closes[g]]
  BY DEF PairInv, PairTypeOK
<1>1. ASSUME NEW h \in Handlers, NoBridge(h) \/ CloseDone(h) PROVE ClosedOnce'
  <2>1. closes[h] = 0 /\ closes' = [closes EXCEPT ![h] = closes[h] + 1]
    BY <1>0, <1>1 DEF NoBridge, CloseDone, ClosedOnce
  <2>2. at' = [at EXCEPT ![h] = "no bridge"] \/ at' = [at EXCEPT ![h] = "leaving"]
    BY <1>1 DEF NoBridge, CloseDone, GoOn
  <2>3. closes'[h] = 1 /\ \A g \in Handlers : g # h => closes'[g] = closes[g]
    BY <1>0, <2>1
  <2>4. /\ at'[h] \in {"no bridge", "leaving"}
        /\ \A g \in Handlers : g # h => at'[g] = at[g]
    BY <1>0, <2>2
  <2> QED
    BY <1>0, <2>3, <2>4 DEF ClosedOnce
<1>2. ASSUME NEW h \in Handlers, EndBridge(h) PROVE ClosedOnce'
  BY <1>0, <1>2 DEF EndBridge, GoOn, ClosedOnce
<1>3. ASSUME NEW h \in Handlers, NEW l, at' = [at EXCEPT ![h] = l], UNCHANGED closes,
             at[h] \notin {"leaving", "bridged", "no bridge"},
             l \notin {"leaving", "bridged", "no bridge"}
      PROVE  ClosedOnce'
  BY <1>0, <1>3 DEF ClosedOnce
<1>4. ASSUME NEW h \in Handlers,
             \/ Claim(h) \/ HandOver(h) \/ RoomsFull(h) \/ Wait(h) \/ Meet(h) \/ WaitTimer(h)
             \/ TimedOut(h) \/ ClaimedInTime(h) \/ BeginBridge(h) \/ BridgeEnds(h) \/ Released(h)
      PROVE  ClosedOnce'
  BY <1>3, <1>4 DEF Claim, HandOver, RoomsFull, Wait, Meet, WaitTimer, TimedOut, ClaimedInTime,
                    BeginBridge, BridgeEnds, Released, GoOn
<1>5. CASE UNCHANGED <<at, closes>>
  BY <1>0, <1>5 DEF ClosedOnce
<1>6. ASSUME NEW h \in Handlers, NEW n \in FrameSizes, CopyFrame(h, n) PROVE ClosedOnce'
  BY <1>3, <1>5, <1>6 DEF CopyFrame, GoOn
<1> QED
  BY <1>1, <1>2, <1>4, <1>5, <1>6 DEF PairNext, Step, pairVars

\* Every bridge is counted when it begins and given back when it ends, and only then.
LEMMA CountedStep ==
    ASSUME PairInv, [PairNext]_pairVars
    PROVE  Counted'
<1>0. /\ Counted /\ at = [g \in Handlers |-> at[g]]
      /\ active \in 0 .. MaxBridges /\ MaxBridges \in Nat
  BY PairAssumption DEF PairInv, PairTypeOK
<1>1. /\ IsFiniteSet(Bridging) /\ active = Cardinality(Bridging) /\ Cardinality(Bridging) \in Nat
      /\ active <= MaxBridges
  BY <1>0, FS_CardinalityType DEF Counted, BridgesCounted
<1>2. ASSUME NEW h \in Handlers, BeginBridge(h) PROVE Counted'
  <2>1. h \notin Bridging /\ Bridging' = Bridging \cup {h}
    BY <1>0, <1>2 DEF BeginBridge, GoOn, Bridging
  <2>2. IsFiniteSet(Bridging') /\ Cardinality(Bridging') = Cardinality(Bridging) + 1
    BY <1>1, <2>1, FS_AddElement
  <2>3. active' = active + 1 /\ active < MaxBridges
    BY <1>2 DEF BeginBridge
  <2> QED
    BY <1>0, <1>1, <2>2, <2>3 DEF Counted, BridgesCounted
<1>3. ASSUME NEW h \in Handlers, EndBridge(h) PROVE Counted'
  <2>1. h \in Bridging /\ Bridging' = Bridging \ {h}
    BY <1>0, <1>3 DEF EndBridge, GoOn, Bridging
  <2>2. IsFiniteSet(Bridging') /\ Cardinality(Bridging') = Cardinality(Bridging) - 1
    BY <1>1, <2>1, FS_RemoveElement
  <2>3. active > 0
    BY <1>1, <2>1, FS_EmptySet
  <2>4. active' = active - 1
    BY <1>3, <2>3 DEF EndBridge
  <2> QED
    BY <1>0, <1>1, <2>2, <2>3, <2>4 DEF Counted, BridgesCounted
<1>4. CASE Bridging' = Bridging /\ active' = active
  BY <1>1, <1>4 DEF Counted, BridgesCounted
<1>5. ASSUME NEW h \in Handlers, NEW l, at' = [at EXCEPT ![h] = l], UNCHANGED active,
             at[h] \in {"bridging", "closing", "leaving"} <=> l \in {"bridging", "closing", "leaving"}
      PROVE  Counted'
  <2>1. Bridging' = Bridging
    BY <1>0, <1>5 DEF Bridging
  <2> QED
    BY <1>4, <1>5, <2>1
<1>6. ASSUME NEW h \in Handlers,
             \/ Claim(h) \/ HandOver(h) \/ RoomsFull(h) \/ Wait(h) \/ Meet(h) \/ WaitTimer(h)
             \/ TimedOut(h) \/ ClaimedInTime(h) \/ NoBridge(h) \/ BridgeEnds(h) \/ CloseDone(h)
             \/ Released(h)
      PROVE  Counted'
  BY <1>5, <1>6 DEF Claim, HandOver, RoomsFull, Wait, Meet, WaitTimer, TimedOut, ClaimedInTime,
                    NoBridge, BridgeEnds, CloseDone, Released, GoOn
<1>7. ASSUME NEW h \in Handlers, NEW n \in FrameSizes, CopyFrame(h, n) PROVE Counted'
  <2>1. CASE UNCHANGED at
    BY <1>4, <1>7, <2>1 DEF CopyFrame, Bridging
  <2>2. CASE GoOn(h, "closing")
    BY <1>5, <1>7, <2>2 DEF CopyFrame, GoOn
  <2> QED
    BY <1>7, <2>1, <2>2 DEF CopyFrame
<1>8. CASE UNCHANGED pairVars
  BY <1>4, <1>8 DEF pairVars, Bridging
<1> QED
  BY <1>2, <1>3, <1>6, <1>7, <1>8 DEF PairNext, Step

\* A frame is counted before it is forwarded, and forwarded only within the budget.
LEMMA BudgetedStep ==
    ASSUME PairInv, [PairNext]_pairVars
    PROVE  Budgeted'
<1>0. /\ Budgeted /\ Budget \in Nat /\ used \in [Handlers -> Nat] /\ sent \in [Handlers -> Nat]
  BY PairAssumption DEF PairInv, PairTypeOK
<1>1. CASE UNCHANGED <<used, sent>>
  BY <1>0, <1>1 DEF Budgeted
<1>2. ASSUME NEW h \in Handlers, NEW n \in FrameSizes, CopyFrame(h, n) PROVE Budgeted'
  <2>1. n \in Nat /\ used' = [used EXCEPT ![h] = used[h] + n]
    BY <1>2, PairAssumption DEF CopyFrame
  <2>2. CASE UNCHANGED sent
    BY <1>0, <2>1, <2>2 DEF Budgeted
  <2>3. CASE ~(used'[h] > Budget) /\ sent' = [sent EXCEPT ![h] = sent[h] + n]
    BY <1>0, <2>1, <2>3 DEF Budgeted
  <2> QED
    BY <1>2, <2>2, <2>3 DEF CopyFrame
<1> QED
  BY <1>1, <1>2
  DEF PairNext, Step, pairVars, Claim, HandOver, RoomsFull, Wait, Meet, WaitTimer, TimedOut,
      ClaimedInTime, BeginBridge, NoBridge, BridgeEnds, CloseDone, EndBridge, Released

\* What the meeting invariant says of mates: they are met one to one, and a running bridge
\* joins its driver to the party of the same room that was handed over to it.
LEMMA MeetingPairs ==
    ASSUME PairInv
    PROVE  PairedOneToOne
<1>0. PairTypeOK /\ Meeting /\ ClosedOnce /\ Nobody \notin Handlers
  BY PairAssumption DEF PairInv
<1>a. /\ \A g \in Handlers : mate[g] # Nobody => mate[g] \in Handlers
      /\ \A g \in Handlers : partner[g] # Nobody => partner[g] \in Handlers
  BY <1>0 DEF PairTypeOK
<1>b. \A g \in Handlers :
         /\ at[g] \in Claims => at[g] \notin Waits \cup Drives
         /\ at[g] \in Handed => at[g] \in Claims
         /\ g \in Bridging => at[g] \in Drives
  BY DEF Waits, Drives, Claims, Handed, Bridging
<1>1. \A h \in Handlers : closes[h] <= 1
  <2>1. \A h \in Handlers : closes[h] = 0 \/ closes[h] = 1
    BY <1>0 DEF ClosedOnce
  <2> QED
    BY <2>1
<1>2. ASSUME NEW h \in Handlers, at[h] \in Drives
      PROVE /\ mate[h] \in Handlers /\ at[mate[h]] \in Claims /\ mate[mate[h]] = h
            /\ room[mate[h]] = room[h]
  <2>1. mate[h] = partner[h] /\ partner[h] \in Handlers
    BY <1>0, <1>2, <1>a DEF Meeting, Mates
  <2>2. at[partner[h]] \in Handed /\ mate[partner[h]] = h
    BY <1>0, <2>1 DEF Meeting, Channels
  <2>3. at[partner[h]] \in Claims
    BY <1>b, <2>1, <2>2
  <2> QED
    BY <1>0, <2>1, <2>2, <2>3 DEF Meeting, Claimers
<1>3. ASSUME NEW h \in Handlers, NEW g \in Handlers, mate[h] # Nobody, mate[g] = mate[h]
      PROVE  g = h
  <2>1. at[h] \in Claims \cup Drives /\ at[g] \in Claims \cup Drives
    BY <1>0, <1>3 DEF Meeting, Mates
  <2>2. CASE at[h] \in Claims /\ at[g] \in Claims
    BY <1>0, <1>3, <2>2 DEF Meeting, OneClaim
  <2>3. CASE at[h] \in Drives /\ at[g] \in Drives
    BY <1>2, <1>3, <2>3
  <2>4. CASE at[h] \in Claims /\ at[g] \in Drives
    BY <1>0, <1>2, <1>3, <1>b, <2>4 DEF Meeting, Claimers
  <2>5. CASE at[h] \in Drives /\ at[g] \in Claims
    BY <1>0, <1>2, <1>3, <1>b, <2>5 DEF Meeting, Claimers
  <2> QED
    BY <2>1, <2>2, <2>3, <2>4, <2>5
<1>4. \A h \in Bridging : room[mate[h]] = room[h] /\ mate[mate[h]] = h /\ mate[h] \notin Bridging
  BY <1>2, <1>b DEF Bridging
<1> QED
  BY <1>1, <1>3, <1>4 DEF PairedOneToOne

\* The inductive invariant of the rooms holds in every reachable state.
THEOREM PairingInvariant == PairSpec => []PairInv
<1>1. PairInit => PairInv
  <2> SUFFICES ASSUME PairInit PROVE PairInv
    OBVIOUS
  <2> USE PairAssumption
  <2>1. PairTypeOK
    BY DEF PairInit, PairTypeOK
  <2>2. Meeting
    BY DEF PairInit, Meeting, InMap, Claimers, Channels, Mates, OneClaim, Handed, Claims, Drives
  <2>3. ClosedOnce
    BY DEF PairInit, ClosedOnce
  <2>4. Counted
    <3>1. Bridging = {}
      BY DEF PairInit, Bridging
    <3> QED
      BY <3>1, FS_EmptySet DEF PairInit, Counted, BridgesCounted
  <2>5. Budgeted
    BY DEF PairInit, Budgeted
  <2> QED
    BY <2>1, <2>2, <2>3, <2>4, <2>5 DEF PairInv
<1>2. PairInv /\ [PairNext]_pairVars => PairInv'
  BY PairTypes, MeetingStep, ClosedOnceStep, CountedStep, BudgetedStep DEF PairInv
<1> QED
  BY <1>1, <1>2, PTL DEF PairSpec

\* handlePair and bridge, for any number of parties: they meet in pairs of one room, done
\* is closed once, and the bridges and the bytes they forward stay within their limits.
THEOREM RoomsAreSound == PairSpec => []RoomsSound
<1>1. PairInv => RoomsSound
  BY MeetingPairs DEF PairInv, RoomsSound, Counted, Budgeted, WithinBudget
<1> QED
  BY <1>1, PairingInvariant, PTL
=============================================================================
