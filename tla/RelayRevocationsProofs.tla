------------------------ MODULE RelayRevocationsProofs ------------------------
(***************************************************************************)
(* Proofs about both ends of a revocation: RelayRevocations, for any       *)
(* number of slots, records and concurrent handlers and any number of      *)
(* restarts, and Prewarm, for any number of commands.                      *)
(*                                                                         *)
(* Types and what failing writes leave of an acknowledgement need no       *)
(* assumption about the disk.  The whole promise of an acknowledgement is  *)
(* proved for a configured file whose writes succeed: with a failing write *)
(* it does not hold.                                                       *)
(***************************************************************************)
EXTENDS RelayRevocations, Prewarm, FiniteSetTheorems, TLAPS

\* Every step of a handler, a registration or a restart keeps the types.
LEMMA TypeStep == TypeOK /\ [Next]_vars => TypeOK'
<1> SUFFICES ASSUME TypeOK, [Next]_vars PROVE TypeOK'
  OBVIOUS
<1> USE DEF TypeOK, Goto, locals, Running, Outcomes, Tombstones
<1>1. ASSUME NEW p \in Posts, NEW t \in Stamps, PostDuplicate(p, t) PROVE TypeOK'
  BY <1>1 DEF PostDuplicate
<1>2. ASSUME NEW p \in Posts, NEW t \in Stamps, PostFull(p, t) PROVE TypeOK'
  BY <1>2 DEF PostFull
<1>3. ASSUME NEW p \in Posts, NEW t \in Stamps, PostInsert(p, t) PROVE TypeOK'
  BY <1>3 DEF PostInsert
<1>4. ASSUME NEW p \in Posts, SlotDurable(p) PROVE TypeOK'
  BY <1>4 DEF SlotDurable
<1>5. ASSUME NEW p \in Posts, PersistSkip(p) PROVE TypeOK'
  BY <1>5 DEF PersistSkip
<1>6. ASSUME NEW p \in Posts, PersistBegin(p) PROVE TypeOK'
  BY <1>6 DEF PersistBegin
<1>7. ASSUME NEW p \in Posts, WriteFile(p) PROVE TypeOK'
  BY <1>7 DEF WriteFile, Dom
<1>8. ASSUME NEW p \in Posts, WriteFails(p) PROVE TypeOK'
  BY <1>8 DEF WriteFails
<1>9. ASSUME NEW p \in Posts, Rollback(p) PROVE TypeOK'
  BY <1>9 DEF Rollback
<1>10. ASSUME NEW p \in Posts, Acknowledge(p) PROVE TypeOK'
  BY <1>10 DEF Acknowledge
<1>11. ASSUME NEW s \in Slots, RegisterAgent(s) PROVE TypeOK'
  BY <1>11 DEF RegisterAgent
<1>12. ASSUME NEW s \in Slots, AgentGone(s) PROVE TypeOK'
  BY <1>12 DEF AgentGone
<1>13. ASSUME Restart PROVE TypeOK'
  BY <1>13, RevocationsAssumption DEF Restart, Dom
<1>14. ASSUME UNCHANGED vars PROVE TypeOK'
  BY <1>14 DEF vars
<1> QED
  BY <1>1, <1>2, <1>3, <1>4, <1>5, <1>6, <1>7, <1>8, <1>9, <1>10, <1>11,
     <1>12, <1>13, <1>14 DEF Next, Handler

\* postRevocation, persistRevocations, rollbackRevocation and LoadRevocations
\* keep every variable within its type.
THEOREM TypeCorrect == Spec => []TypeOK
<1>1. Init => TypeOK
  BY RevocationsAssumption
  DEF Init, TypeOK, Tombstones, NoTombstones, Running, Outcomes
<1> QED
  BY <1>1, TypeStep, PTL DEF Spec

-----------------------------------------------------------------------------
(***************************************************************************)
(* The inductive invariant behind an acknowledgement.  The tombstones of a *)
(* slot only grow between restarts until a handler of that slot takes its  *)
(* change back; away from those slots snapshots are ordered by their       *)
(* versions, and the file is the snapshot of version revPersisted.         *)
(***************************************************************************)

InFlight == {p \in Posts : pc[p] \in {"persist", "writing"}}

\* A handler that put a record into the map has the version of it.
Versioned == \A p \in Posts : pc[p] \in {"persist", "writing", "rollback"} => ver[p] > 0

\* A handler holds persistMu while it writes, and only one that put a record into the map
\* has a version.  Without failing writes nobody takes one out again.
HandlersTold ==
    /\ \A p \in Posts : pc[p] = "writing" => persistMu = p
    /\ \A p \in Posts : pc[p] \in {"idle", "durable"} => ver[p] = 0
    /\ Versioned
    /\ ~DiskMayFail => \A p \in Posts : pc[p] # "rollback" /\ p \notin Undone

\* Snapshots in flight are subsets of the map and contain their own slot.
SnapshotsFromMap ==
    /\ revPersisted <= revVersion
    /\ Dom(disk) \subseteq Dom(revoked) \cup UndoneSlots
    /\ revDurable \subseteq Dom(disk) \cup UndoneSlots
    /\ \A p \in InFlight : /\ ver[p] <= revVersion
                           /\ slot[p] \in Dom(snap[p])
                           /\ Dom(snap[p]) \subseteq Dom(revoked) \cup UndoneSlots

\* A higher version is a superset, among snapshots and towards the file.
VersionsOrdered ==
    /\ \A p, q \in InFlight :
          ver[p] <= ver[q] => Dom(snap[p]) \subseteq Dom(snap[q]) \cup UndoneSlots
    /\ \A p \in InFlight :
          /\ ver[p] <= revPersisted => Dom(snap[p]) \subseteq Dom(disk) \cup UndoneSlots
          /\ ver[p] > revPersisted => Dom(disk) \subseteq Dom(snap[p]) \cup UndoneSlots
    /\ \A p \in Posts : pc[p] = "writing" => ver[p] > revPersisted

\* Whoever answers, or is about to answer, 204 is covered by the file.
AnswersCovered ==
    \A p \in Posts : pc[p] \in {"ok", "acked"} => slot[p] \in Dom(disk) \cup UndoneSlots

DurabilityInv ==
    TypeOK /\ HandlersTold /\ SnapshotsFromMap /\ VersionsOrdered /\ AnswersCovered

\* A relay that starts without a file on disk has nothing to cover.
LEMMA DurabilityInit == HasFile /\ Init => DurabilityInv
BY RevocationsAssumption
DEF Init, DurabilityInv, TypeOK, HandlersTold, Versioned, SnapshotsFromMap, VersionsOrdered, Undone,
    AnswersCovered, InFlight, Dom, Tombstones, NoTombstones, Running, Outcomes

\* A rollback is never forgotten: the outcome of a handler is final.
LEMMA UndoneForGood ==
    ASSUME TypeOK, [Next]_vars
    PROVE  Undone \subseteq Undone' /\ UndoneSlots \subseteq UndoneSlots' /\ slot' = slot
<1>1. slot' = slot
  BY DEF Next, Handler, PostDuplicate, PostFull, PostInsert, SlotDurable, PersistSkip, locals,
         PersistBegin, WriteFile, WriteFails, Rollback, Acknowledge, RegisterAgent,
         AgentGone, Restart, vars
<1>2. ASSUME NEW p \in Posts, pc[p] = "refused" PROVE pc'[p] = "refused" /\ ver'[p] = ver[p]
  BY <1>2 DEF Next, Handler, PostDuplicate, PostFull, PostInsert, SlotDurable, PersistSkip, locals,
         PersistBegin, WriteFile, WriteFails, Rollback, Acknowledge, RegisterAgent,
         AgentGone, Restart, vars, Goto, TypeOK, Running
<1>3. Undone \subseteq Undone'
  BY <1>2 DEF Undone
<1> QED
  BY <1>1, <1>3 DEF UndoneSlots

\* Only a rollback makes a handler undone, and none without a failing disk.
LEMMA UndoneStep ==
    ASSUME TypeOK, HandlersTold, Next
    PROVE  \/ \E p \in Posts : Rollback(p)
           \/ UndoneSlots' = UndoneSlots /\ Undone' = Undone
<1> USE DEF Undone, Goto, locals, TypeOK, Running, Outcomes
<1> SUFFICES ASSUME \A p \in Posts : ~Rollback(p) PROVE Undone' = Undone
  BY UndoneForGood DEF UndoneSlots
<1>1. ASSUME NEW p \in Posts, p \in Undone' PROVE p \in Undone
  <2>1. pc'[p] = "refused" /\ ver'[p] > 0
    BY <1>1
  <2>2. CASE pc[p] = "refused"
    BY <2>1, <2>2 DEF Next, Handler, PostDuplicate, PostFull, PostInsert, SlotDurable,
         PersistSkip, PersistBegin, WriteFile, WriteFails, Acknowledge, RegisterAgent,
         AgentGone, Restart
  <2>3. CASE pc[p] # "refused"
    <3>1. SlotDurable(p)
      BY <2>1, <2>3 DEF Next, Handler, PostDuplicate, PostFull, PostInsert, SlotDurable,
         PersistSkip, PersistBegin, WriteFile, WriteFails, Acknowledge, RegisterAgent,
         AgentGone, Restart
    <3> QED
      BY <2>1, <3>1 DEF SlotDurable, HandlersTold
  <2> QED
    BY <2>2, <2>3
<1> QED
  BY <1>1, UndoneForGood

\* Every step of a handler, a registration or a restart keeps DurabilityInv, the slots it undoes
\* excepted.
LEMMA DurabilityStep ==
    ASSUME HasFile, DurabilityInv, [Next]_vars
    PROVE  DurabilityInv'
<1> USE DEF DurabilityInv
<1>0. TypeOK'
  BY TypeStep
<1>u. UndoneSlots \subseteq UndoneSlots'
  BY UndoneForGood
<1>t. CASE UNCHANGED vars
  BY <1>0, <1>t
  DEF vars, Versioned, HandlersTold, SnapshotsFromMap, VersionsOrdered, AnswersCovered, Undone, UndoneSlots,
      InFlight, Dom
<1>r. ASSUME NEW p \in Posts, Rollback(p) PROVE DurabilityInv'
  <2> USE <1>r DEF Rollback
  <2>1. /\ pc[p] = "rollback" /\ ver[p] > 0 /\ DiskMayFail /\ p \in Undone'
        /\ \A q \in Posts : pc'[q] = IF q = p THEN "refused" ELSE pc[q]
        /\ UNCHANGED <<ver, slot, snap, disk, revDurable, revVersion, revPersisted, persistMu>>
    BY DEF TypeOK, Goto, locals, HandlersTold, Versioned, Undone
  <2>2. slot[p] \in UndoneSlots'
    BY <2>1 DEF UndoneSlots
  <2>3. Dom(revoked) \subseteq Dom(revoked') \cup UndoneSlots'
    BY <2>2 DEF TypeOK, Tombstones, Dom
  <2>4. InFlight' = InFlight
    BY <2>1 DEF InFlight
  <2>5. HandlersTold'
    BY <2>1 DEF HandlersTold, Versioned
  <2>6. SnapshotsFromMap'
    BY <1>u, <2>1, <2>3, <2>4 DEF SnapshotsFromMap
  <2>7. VersionsOrdered'
    BY <1>u, <2>1, <2>4 DEF VersionsOrdered
  <2>8. AnswersCovered'
    BY <1>u, <2>1 DEF AnswersCovered
  <2> QED
    BY <1>0, <2>5, <2>6, <2>7, <2>8
<1> SUFFICES ASSUME Next, UndoneSlots' = UndoneSlots, Undone' = Undone PROVE DurabilityInv'
  BY <1>t, <1>r, UndoneStep
<1> USE DEF TypeOK, Goto, locals, Tombstones, InFlight, Dom, Versioned
<1>1. ASSUME NEW p \in Posts, NEW t \in Stamps, PostDuplicate(p, t) PROVE DurabilityInv'
  BY <1>0, <1>1
  DEF PostDuplicate, HandlersTold, SnapshotsFromMap, VersionsOrdered, AnswersCovered
<1>2. ASSUME NEW p \in Posts, NEW t \in Stamps, PostFull(p, t) PROVE DurabilityInv'
  BY <1>0, <1>2
  DEF PostFull, HandlersTold, SnapshotsFromMap, VersionsOrdered, AnswersCovered
<1>3. ASSUME NEW p \in Posts, NEW t \in Stamps, PostInsert(p, t) PROVE DurabilityInv'
  <2> USE <1>3 DEF PostInsert
  <2>1. Dom(revoked) \subseteq Dom(revoked') /\ slot[p] \in Dom(revoked')
    BY RevocationsAssumption
  <2>2. HandlersTold' /\ AnswersCovered'
    BY DEF HandlersTold, AnswersCovered
  <2>3. SnapshotsFromMap'
    BY <2>1 DEF SnapshotsFromMap
  <2>4. VersionsOrdered'
    BY <2>1 DEF VersionsOrdered, SnapshotsFromMap
  <2> QED
    BY <1>0, <2>2, <2>3, <2>4
<1>4. ASSUME NEW p \in Posts, SlotDurable(p) PROVE DurabilityInv'
  BY <1>0, <1>4
  DEF SlotDurable, HandlersTold, SnapshotsFromMap, VersionsOrdered, AnswersCovered
<1>5. ASSUME NEW p \in Posts, PersistSkip(p) PROVE DurabilityInv'
  BY <1>0, <1>5
  DEF PersistSkip, HandlersTold, SnapshotsFromMap, VersionsOrdered, AnswersCovered
<1>6. ASSUME NEW p \in Posts, PersistBegin(p) PROVE DurabilityInv'
  BY <1>0, <1>6, RevocationsAssumption
  DEF PersistBegin, HandlersTold, SnapshotsFromMap, VersionsOrdered, AnswersCovered
<1>7. ASSUME NEW p \in Posts, WriteFile(p) PROVE DurabilityInv'
  <2> USE <1>7 DEF WriteFile
  <2>1. p \in InFlight /\ ver[p] > revPersisted /\ Dom(disk) \subseteq Dom(snap[p]) \cup UndoneSlots
    BY DEF VersionsOrdered
  <2>2. HandlersTold'
    BY RevocationsAssumption DEF HandlersTold
  <2>3. SnapshotsFromMap'
    BY <2>1 DEF SnapshotsFromMap
  <2>4. VersionsOrdered'
    BY <2>1 DEF VersionsOrdered, HandlersTold
  <2>5. AnswersCovered'
    BY <2>1 DEF AnswersCovered, SnapshotsFromMap
  <2> QED
    BY <1>0, <2>2, <2>3, <2>4, <2>5
<1>8. ASSUME NEW p \in Posts, WriteFails(p) PROVE DurabilityInv'
  BY <1>0, <1>8, RevocationsAssumption
  DEF WriteFails, HandlersTold, SnapshotsFromMap, VersionsOrdered, AnswersCovered
<1>10. ASSUME NEW p \in Posts, Acknowledge(p) PROVE DurabilityInv'
  BY <1>0, <1>10
  DEF Acknowledge, HandlersTold, SnapshotsFromMap, VersionsOrdered, AnswersCovered
<1>11. ASSUME NEW s \in Slots, RegisterAgent(s) PROVE DurabilityInv'
  BY <1>0, <1>11
  DEF RegisterAgent, HandlersTold, SnapshotsFromMap, VersionsOrdered, AnswersCovered
<1>12. ASSUME NEW s \in Slots, AgentGone(s) PROVE DurabilityInv'
  BY <1>0, <1>12
  DEF AgentGone, HandlersTold, SnapshotsFromMap, VersionsOrdered, AnswersCovered
<1>13. ASSUME Restart PROVE DurabilityInv'
  BY <1>0, <1>13
  DEF Restart, HandlersTold, SnapshotsFromMap, VersionsOrdered, AnswersCovered, Running
<1> QED
  BY <1>1, <1>2, <1>3, <1>4, <1>5, <1>6, <1>7, <1>8, <1>r, <1>10, <1>11, <1>12,
     <1>13 DEF Next, Handler

\* With a revocations file, DurabilityInv is an invariant, whether or not writes fail.
THEOREM Durability ==
    ASSUME HasFile
    PROVE  Spec => []DurabilityInv
BY DurabilityInit, DurabilityStep, PTL DEF Spec

\* Without failing writes no slot is ever undone.
LEMMA NothingUndone ==
    ASSUME ~DiskMayFail, DurabilityInv
    PROVE  UndoneSlots = {}
BY DEF DurabilityInv, HandlersTold, UndoneSlots, Undone

\* With a file whose writes succeed, a revocation acknowledged by postRevocation
\* is in the file and is enforced for ever, across restarts.
THEOREM AckedIsPermanent ==
    ASSUME HasFile, ~DiskMayFail
    PROVE  Spec => [](AckedEnforced /\ AckedOnDisk)
<1>1. DurabilityInv => AckedEnforced /\ AckedOnDisk
  BY NothingUndone DEF DurabilityInv, AnswersCovered, SnapshotsFromMap, AckedEnforced,
     AckedOnDisk, AckedSlots, Dom
<1> QED
  BY <1>1, Durability, PTL

\* With a file whose writes succeed, persistRevocations drops a stale write only
\* when the file already covers every slot of it.
THEOREM StaleWritesCovered ==
    ASSUME HasFile, ~DiskMayFail
    PROVE  Spec => DroppedWriteCovered
<1> DEFINE Covered ==
      \A p \in Posts : (HasFile /\ pc[p] = "persist" /\ pc'[p] = "ok")
                          => Dom(snap[p]) \subseteq Dom(disk)
<1>1. DurabilityInv /\ [Next]_vars => [Covered]_vars
  <2> SUFFICES ASSUME DurabilityInv, Next, NEW p \in Posts,
                      pc[p] = "persist", pc'[p] = "ok"
               PROVE  Dom(snap[p]) \subseteq Dom(disk)
    OBVIOUS
  <2>1. PersistSkip(p)
    BY DEF Next, Handler, PostDuplicate, PostFull, PostInsert, SlotDurable, PersistSkip,
           PersistBegin, WriteFile, WriteFails, Rollback, Acknowledge, RegisterAgent,
           AgentGone, Restart, Goto, DurabilityInv, TypeOK, Running
  <2> QED
    BY <2>1, NothingUndone DEF PersistSkip, DurabilityInv, VersionsOrdered, InFlight
<1> QED
  BY <1>1, Durability, PTL DEF Spec, DroppedWriteCovered

\* With a file whose writes succeed, the relay implements PermanentRevocations:
\* every handler step, registration and restart is one of its steps.
THEOREM ImplementsPromise ==
    ASSUME HasFile, ~DiskMayFail
    PROVE  Spec => KeepsPromise
<1>1. Init => Permanent!PInit
  BY DEF Init, Permanent!PInit, AckedSlots, Dom, NoTombstones
<1>2. ASSUME DurabilityInv, DurabilityInv', [Next]_vars
      PROVE  [Permanent!PNext]_(Permanent!pvars)
  <2>0. UndoneSlots = {}
    BY <1>2, NothingUndone
  <2> USE <1>2 DEF DurabilityInv, TypeOK, Tombstones, Goto, locals, AckedSlots
  <2> USE DEF Permanent!PNext, Permanent!pvars
  <2>1. ASSUME NEW p \in Posts, NEW t \in Stamps,
               PostDuplicate(p, t) \/ PostFull(p, t)
        PROVE  UNCHANGED Permanent!pvars
    BY <2>1 DEF PostDuplicate, PostFull
  <2>2. ASSUME NEW p \in Posts, NEW t \in Stamps, PostInsert(p, t)
        PROVE  Permanent!Enforce(slot[p])
    <3>1. AckedSlots' = AckedSlots
      BY <2>2 DEF PostInsert
    <3>2. Dom(revoked)' = Dom(revoked) \cup {slot[p]}
      BY <2>2, RevocationsAssumption DEF PostInsert, Dom
    <3> QED
      BY <2>2, <3>1, <3>2 DEF PostInsert, Permanent!Enforce
  <2>3. ASSUME NEW p \in Posts, SlotDurable(p) \/ Acknowledge(p)
        PROVE  Permanent!Promise(slot[p]) \/ UNCHANGED Permanent!pvars
    <3>1. UNCHANGED <<Dom(revoked), agents>>
      BY <2>3 DEF SlotDurable, Acknowledge
    <3>2. CASE pc'[p] = "acked"
      <4>1. AckedSlots' = AckedSlots \cup {slot[p]}
        BY <2>3, <3>2 DEF SlotDurable, Acknowledge
      <4>2. slot[p] \in Dom(revoked)
        BY <2>0, <2>3, <3>2 DEF SlotDurable, Acknowledge, AnswersCovered, SnapshotsFromMap
      <4> QED
        BY <3>1, <4>1, <4>2 DEF Permanent!Promise
    <3>3. CASE pc'[p] # "acked"
      <4>1. AckedSlots' = AckedSlots
        BY <2>3, <3>3 DEF SlotDurable, Acknowledge
      <4> QED
        BY <3>1, <4>1
    <3> QED
      BY <3>2, <3>3
  <2>4. ASSUME NEW p \in Posts,
               PersistSkip(p) \/ PersistBegin(p) \/ WriteFile(p)
        PROVE  UNCHANGED Permanent!pvars
    BY <2>4 DEF PersistSkip, PersistBegin, WriteFile
  <2>5. ASSUME NEW p \in Posts, WriteFails(p) \/ Rollback(p)
        PROVE  FALSE
    BY <2>5 DEF WriteFails, Rollback, HandlersTold
  <2>6. ASSUME NEW s \in Slots, RegisterAgent(s)
        PROVE  Permanent!Register(s)
    BY <2>6 DEF RegisterAgent, Dom, Permanent!Register
  <2>7. ASSUME NEW s \in Slots, AgentGone(s)
        PROVE  Permanent!Leave(s)
    BY <2>7 DEF AgentGone, Permanent!Leave
  <2>8. ASSUME Restart
        PROVE  Permanent!Crash
    <3>1. AckedSlots' = AckedSlots
      BY <2>8 DEF Restart, Running
    <3>2. Dom(revoked)' = Dom(disk)
      BY <2>8 DEF Restart, Dom
    <3>3. Dom(disk) \subseteq Dom(revoked) /\ AckedSlots \subseteq Dom(disk)
      BY <2>0 DEF SnapshotsFromMap, AnswersCovered
    <3> QED
      BY <2>8, <3>1, <3>2, <3>3 DEF Restart, Permanent!Crash
  <2>9. ASSUME UNCHANGED vars
        PROVE  UNCHANGED Permanent!pvars
    BY <2>9 DEF vars, Dom
  <2>10. ASSUME NEW p \in Posts PROVE slot[p] \in Slots
    OBVIOUS
  <2> HIDE <1>2 DEF DurabilityInv, TypeOK, Tombstones, Goto, locals, AckedSlots, Permanent!pvars
  <2>11. CASE \E p \in Posts, t \in Stamps :
                PostDuplicate(p, t) \/ PostFull(p, t) \/ PostInsert(p, t)
    BY <2>1, <2>2, <2>10, <2>11
  <2>12. CASE \E p \in Posts : Handler(p)
    BY <2>3, <2>4, <2>5, <2>10, <2>12 DEF Handler
  <2>13. CASE \E s \in Slots : RegisterAgent(s) \/ AgentGone(s)
    BY <2>6, <2>7, <2>13
  <2> QED
    BY <1>2, <2>8, <2>9, <2>11, <2>12, <2>13 DEF Next
<1> QED
  BY <1>1, <1>2, Durability, PTL DEF Spec, KeepsPromise, Permanent!PSpec

-----------------------------------------------------------------------------
(***************************************************************************)
(* The capacity.  The map is within it until a handler puts a record back, *)
(* and every snapshot was the map once.                                    *)
(***************************************************************************)

Fits(t) == Cardinality(Dom(t)) <= MaxRevocations
Restored == \E p \in Undone : old[p] # NoRec

CapacityInv ==
    /\ TypeOK /\ Versioned
    /\ \/ Restored
       \/ Fits(revoked) /\ Fits(disk) /\ \A p \in InFlight : Fits(snap[p])

\* Fewer tombstones fit where more did.
LEMMA FewerFit ==
    ASSUME NEW t, NEW u, Dom(u) \subseteq Dom(t), Fits(t)
    PROVE  Fits(u)
<1>1. IsFiniteSet(Slots) /\ Dom(t) \subseteq Slots /\ MaxRevocations \in Nat
  BY RevocationsAssumption DEF Dom
<1>2. IsFiniteSet(Dom(t))
  BY <1>1, FS_Subset
<1>3. /\ Cardinality(Dom(t)) \in Nat /\ Cardinality(Dom(u)) \in Nat
      /\ Cardinality(Dom(u)) <= Cardinality(Dom(t))
  BY <1>2, FS_Subset, FS_CardinalityType
<1> QED
  BY <1>1, <1>3 DEF Fits

\* postRevocation looks at the capacity before it adds a slot, and replaces a record freely.
LEMMA InsertFits ==
    ASSUME TypeOK, NEW p \in Posts, NEW t \in Stamps, PostInsert(p, t), Fits(revoked)
    PROVE  Fits(revoked')
<1>1. /\ revoked' = [revoked EXCEPT ![slot[p]] = t] /\ ~AtCapacity(slot[p])
      /\ slot[p] \in Slots /\ revoked \in [Slots -> Stamps \cup {NoRec}]
  BY DEF PostInsert, TypeOK, Tombstones
<1>2. Dom(revoked') = Dom(revoked) \cup {slot[p]}
  BY <1>1, RevocationsAssumption DEF Dom
<1>3. IsFiniteSet(Dom(revoked)) /\ MaxRevocations \in Nat
  <2>1. Dom(revoked) \subseteq Slots
    BY DEF Dom
  <2> QED
    BY <2>1, RevocationsAssumption, FS_Subset
<1>4. CASE slot[p] \in Dom(revoked)
  <2>1. Dom(revoked') = Dom(revoked)
    BY <1>2, <1>4
  <2> QED
    BY <2>1 DEF Fits
<1>5. CASE slot[p] \notin Dom(revoked)
  <2>1. revoked[slot[p]] = NoRec
    BY <1>1, <1>5 DEF Dom
  <2>2. ~(Cardinality(Dom(revoked)) >= MaxRevocations)
    BY <1>1, <2>1 DEF AtCapacity
  <2>3. Cardinality(Dom(revoked')) = Cardinality(Dom(revoked)) + 1
    BY <1>2, <1>3, <1>5, FS_AddElement
  <2>4. Cardinality(Dom(revoked)) \in Nat
    BY <1>3, FS_CardinalityType
  <2> QED
    BY <1>3, <2>2, <2>3, <2>4 DEF Fits
<1> QED
  BY <1>4, <1>5

\* Every step keeps the map, the snapshots and the file within the capacity, or puts back a
\* record.
LEMMA CapacityStep == CapacityInv /\ [Next]_vars => CapacityInv'
<1> SUFFICES ASSUME CapacityInv, [Next]_vars PROVE CapacityInv'
  OBVIOUS
<1>0. TypeOK'
  BY TypeStep DEF CapacityInv
<1>1. Versioned'
  BY DEF CapacityInv, Versioned, TypeOK, Next, Handler, PostDuplicate, PostFull, PostInsert,
         SlotDurable, PersistSkip, PersistBegin, WriteFile, WriteFails, Rollback, Acknowledge,
         RegisterAgent, AgentGone, Restart, Goto, locals, vars, Running
<1>2. Restored => Restored'
  <2>1. ASSUME NEW p \in Undone PROVE p \in Undone' /\ old'[p] = old[p]
    <3>1. p \in Undone' /\ pc[p] = "refused" /\ p \in Posts
      BY UndoneForGood DEF CapacityInv, Undone
    <3>2. old'[p] = old[p]
      BY <3>1 DEF CapacityInv, TypeOK, Next, Handler, PostDuplicate, PostFull, PostInsert,
         SlotDurable, PersistSkip, PersistBegin, WriteFile, WriteFails, Rollback, Acknowledge,
         RegisterAgent, AgentGone, Restart, locals, vars
    <3> QED
      BY <3>1, <3>2
  <2> QED
    BY <2>1 DEF Restored
<1> SUFFICES ASSUME ~Restored'
             PROVE  Fits(revoked') /\ Fits(disk') /\ \A p \in InFlight' : Fits(snap'[p])
  BY <1>0, <1>1 DEF CapacityInv, Fits
<1>3. Fits(revoked) /\ Fits(disk) /\ \A p \in InFlight : Fits(snap[p])
  BY <1>2 DEF CapacityInv
<1>4. ASSUME NEW p \in Posts, NEW t \in Stamps, PostInsert(p, t)
      PROVE  Fits(revoked') /\ Fits(disk') /\ \A q \in InFlight' : Fits(snap'[q])
  <2>1. Fits(revoked')
    BY <1>3, <1>4, InsertFits DEF CapacityInv
  <2>2. /\ disk' = disk /\ snap'[p] = revoked'
        /\ \A q \in InFlight' : q = p \/ (q \in InFlight /\ snap'[q] = snap[q])
    <3>1. /\ disk' = disk /\ snap' = [snap EXCEPT ![p] = revoked']
          /\ pc' = [pc EXCEPT ![p] = "persist"] /\ DOMAIN snap = Posts /\ DOMAIN pc = Posts
      BY <1>4 DEF PostInsert, Goto, CapacityInv, TypeOK
    <3>2. snap'[p] = revoked' /\ \A q \in Posts : q # p => snap'[q] = snap[q] /\ pc'[q] = pc[q]
      BY <3>1
    <3>3. ASSUME NEW q \in InFlight', q # p PROVE q \in InFlight /\ snap'[q] = snap[q]
      BY <3>2, <3>3 DEF InFlight
    <3> QED
      BY <3>1, <3>2, <3>3
  <2> QED
    BY <1>3, <2>1, <2>2
<1>5. ASSUME NEW p \in Posts, WriteFile(p)
      PROVE  Fits(revoked') /\ Fits(disk') /\ \A q \in InFlight' : Fits(snap'[q])
  <2>1. /\ revoked' = revoked /\ disk' = snap[p] /\ p \in InFlight /\ snap' = snap
        /\ InFlight' \subseteq InFlight
    BY <1>5 DEF WriteFile, Goto, locals, InFlight, CapacityInv, TypeOK
  <2> QED
    BY <1>3, <2>1
<1>6. ASSUME NEW p \in Posts, Rollback(p)
      PROVE  Fits(revoked') /\ Fits(disk') /\ \A q \in InFlight' : Fits(snap'[q])
  <2>1. /\ disk' = disk /\ snap' = snap /\ InFlight' \subseteq InFlight
        /\ pc'[p] = "refused" /\ ver'[p] > 0 /\ old'[p] = old[p]
    BY <1>6 DEF Rollback, Goto, locals, InFlight, CapacityInv, TypeOK, Versioned
  <2>2. old[p] = NoRec
    BY <2>1 DEF Restored, Undone
  <2>3. Dom(revoked') \subseteq Dom(revoked)
    BY <1>6, <2>2 DEF Rollback, Dom, CapacityInv, TypeOK, Tombstones
  <2> QED
    BY <1>3, <2>1, <2>3, FewerFit
<1>7. ASSUME Restart
      PROVE  Fits(revoked') /\ Fits(disk') /\ \A q \in InFlight' : Fits(snap'[q])
  <2>1. revoked' = disk /\ disk' = disk /\ InFlight' = {}
    BY <1>7 DEF Restart, InFlight, Running
  <2> QED
    BY <1>3, <2>1
<1>8. ASSUME UNCHANGED <<revoked, disk, snap>>, InFlight' \subseteq InFlight
      PROVE  Fits(revoked') /\ Fits(disk') /\ \A q \in InFlight' : Fits(snap'[q])
  BY <1>3, <1>8
<1>9. CASE \E p \in Posts, t \in Stamps : PostDuplicate(p, t) \/ PostFull(p, t)
  BY <1>8, <1>9 DEF PostDuplicate, PostFull, Goto, locals, InFlight, CapacityInv, TypeOK
<1>10. CASE \E p \in Posts : SlotDurable(p) \/ PersistSkip(p) \/ PersistBegin(p) \/ WriteFails(p)
                                \/ Acknowledge(p)
  BY <1>8, <1>10 DEF SlotDurable, PersistSkip, PersistBegin, WriteFails, Acknowledge, Goto,
                     locals, InFlight, CapacityInv, TypeOK
<1>11. CASE \E s \in Slots : RegisterAgent(s) \/ AgentGone(s)
  BY <1>8, <1>11 DEF RegisterAgent, AgentGone, locals, InFlight
<1>12. CASE UNCHANGED vars
  BY <1>8, <1>12 DEF vars, InFlight
<1> QED
  BY <1>4, <1>5, <1>6, <1>7, <1>9, <1>10, <1>11, <1>12 DEF Next, Handler

\* postRevocation, persistRevocations and rollbackRevocation: with a disk that fails whenever it
\* likes, for any number of handlers, records and restarts, an acknowledged revocation is
\* enforced and in the file unless a handler of its own slot took a change back, and the file
\* is within the capacity unless a handler put a record back.
THEOREM OnlyRollbacksLose == Spec => []DiskSound
<1>1. Init => CapacityInv
  <2> SUFFICES ASSUME Init PROVE CapacityInv
    OBVIOUS
  <2>1. TypeOK
    BY RevocationsAssumption DEF Init, TypeOK, Tombstones, NoTombstones, Running, Outcomes
  <2>2. Versioned /\ InFlight = {} /\ Dom(NoTombstones) = {}
    BY DEF Init, Versioned, InFlight, Dom, NoTombstones
  <2>3. Fits(NoTombstones)
    BY <2>2, FS_EmptySet, RevocationsAssumption DEF Fits
  <2> QED
    BY <2>1, <2>2, <2>3 DEF Init, CapacityInv
<1>2. CapacityInv => FileLoadable
  BY DEF CapacityInv, Fits, Restored, FileLoadable
<1>3. CASE HasFile
  <2>1. DurabilityInv => AckedKept
    BY DEF DurabilityInv, AnswersCovered, SnapshotsFromMap, AckedKept, AckedSlots, Dom
  <2> QED
    BY <1>1, <1>2, <1>3, <2>1, CapacityStep, Durability, PTL DEF Spec, DiskSound
<1>4. CASE ~HasFile
  <2>1. AckedKept
    BY <1>4 DEF AckedKept
  <2> QED
    BY <1>1, <1>2, <2>1, CapacityStep, PTL DEF Spec, DiskSound
<1> QED
  BY <1>3, <1>4

-----------------------------------------------------------------------------
(***************************************************************************)
(* The other end of a revocation, Prewarm: for any number of commands and  *)
(* machines and any timeouts that the renew margin and the lifetime of     *)
(* TURN credentials outlast twice.                                         *)
(*                                                                         *)
(* No variable holds when an attach began, so the invariant says of each   *)
(* attach that there is such a time t: everything it waits for was asked   *)
(* at t, the joins end within a timeout of t and the live registry         *)
(* question within another, the credentials in hand outlast both, and the  *)
(* tombstones it counts on are those the relay knew a timeout before the   *)
(* cached snapshot, which was younger than the ceiling at t, or all the    *)
(* relay knew at t.                                                        *)
(***************************************************************************)

\* A step of one command leaves the others where they are.
Steps(p) ==
    /\ proc' \in [Procs -> Commands]
    /\ \A q \in Procs \ {p} : proc'[q] = proc[q]

\* The states of one fetch of prewarm.go.
FetchStates == {"none", "asked", "answered", "local", "reading", "done", "failed", "taken"}

\* The command p becomes c.
Becomes(p, c) == proc' = [proc EXCEPT ![p] = c]

\* A command that becomes another leaves the others where they are.
LEMMA Edited ==
  ASSUME PrewarmTypeOK, NEW p \in Procs, NEW c \in Commands, Becomes(p, c)
  PROVE  Steps(p) /\ proc'[p] = c
BY DEF PrewarmTypeOK, Steps, Becomes

\* Run's effect on its command, field by field.
LEMMA RunEffect ==
  ASSUME PrewarmTypeOK, NEW p \in Procs, NEW readable \in BOOLEAN, Run(p, readable)
  PROVE  /\ Steps(p)
         /\ proc[p].pc = "idle" /\ proc'[p].pc = "registry"
         /\ proc'[p].plan["revocations"] = DirectoryPlan(cache["revocations"], now)
         /\ proc'[p].plan["turn"] = IF p \in Dialers THEN TurnPlan(cache["turn"], expiry, now) ELSE "fresh"
         /\ \A s \in Sources : /\ proc'[p].fetch[s] = IF proc'[p].plan[s] = "fresh" THEN "none" ELSE "asked"
                               /\ proc'[p].since[s] = IF proc'[p].plan[s] = "fresh" THEN 0 ELSE now
         /\ proc'[p].turn = IF p \in Dialers /\ cache["turn"] # None THEN expiry ELSE None
         /\ proc'[p].revocations = proc[p].revocations
         /\ proc'[p].iceErr = proc[p].iceErr
<1> DEFINE plan == [s \in Sources |->
            CASE s = "revocations" -> DirectoryPlan(cache[s], now)
              [] s = "registry" -> IF readable THEN DirectoryPlan(cache[s], now) ELSE "fetch"
              [] s = "turn" -> IF p \in Dialers THEN TurnPlan(cache[s], expiry, now) ELSE "fresh"]
<1> DEFINE fetch == [s \in Sources |-> IF plan[s] = "fresh" THEN "none" ELSE "asked"]
<1> DEFINE since == [s \in Sources |-> IF plan[s] = "fresh" THEN 0 ELSE now]
<1> DEFINE registry == IF readable /\ cache["registry"] # None THEN "cache" ELSE "error"
<1> DEFINE turn == IF p \in Dialers /\ cache["turn"] # None THEN expiry ELSE None
<1> DEFINE c == [proc[p] EXCEPT !.pc = "registry", !.plan = plan, !.fetch = fetch, !.since = since,
                                !.registry = registry, !.turn = turn]
<1>1. proc' = [proc EXCEPT ![p] = c] /\ proc[p].pc = "idle"
  BY DEF Run, At
<1>2. proc[p] \in Commands /\ now \in Times /\ 0 \in Times /\ expiry \in Expiries \cup {None}
  BY PrewarmAssumption DEF PrewarmTypeOK, Times
<1>3. plan \in [Sources -> {"fresh", "stale", "fetch"}]
  BY DEF DirectoryPlan, TurnPlan, Sources
<1>4. /\ plan["revocations"] = DirectoryPlan(cache["revocations"], now)
      /\ plan["turn"] = IF p \in Dialers THEN TurnPlan(cache["turn"], expiry, now) ELSE "fresh"
  BY DEF Sources
<1> HIDE DEF plan
<1>5. fetch \in [Sources -> FetchStates] /\ since \in [Sources -> Times]
  BY <1>2 DEF FetchStates
<1>6. \A s \in Sources : fetch[s] = (IF plan[s] = "fresh" THEN "none" ELSE "asked")
                      /\ since[s] = (IF plan[s] = "fresh" THEN 0 ELSE now)
  OBVIOUS
<1>a. registry \in {"cache", "error"} /\ turn \in Expiries \cup {None}
      /\ turn = IF p \in Dialers /\ cache["turn"] # None THEN expiry ELSE None
  BY <1>2
<1> HIDE DEF fetch, since, registry, turn
<1>7. c \in Commands
  BY <1>2, <1>3, <1>5, <1>a DEF Commands, FetchStates
<1>8. /\ c.pc = "registry" /\ c.plan = plan /\ c.fetch = fetch /\ c.since = since
      /\ c.turn = turn
      /\ c.revocations = proc[p].revocations
      /\ c.iceErr = proc[p].iceErr
  BY <1>2 DEF Commands
<1> HIDE DEF c
<1>9. proc' \in [Procs -> Commands] /\ proc'[p] = c /\ \A q \in Procs \ {p} : proc'[q] = proc[q]
  BY <1>1, <1>7 DEF PrewarmTypeOK
<1> QED
  BY <1>1, <1>4, <1>6, <1>8, <1>9, <1>a DEF Steps



\* p's fetch of s moves to f: what it changes and what it leaves alone.
Fetches(p, s, f, n, tu, td) ==
    /\ Steps(p)
    /\ proc'[p].pc = proc[p].pc
    /\ proc'[p].plan = proc[p].plan
    /\ proc'[p].revocations = proc[p].revocations
    /\ proc'[p].iceErr = proc[p].iceErr
    /\ proc'[p].decided = proc[p].decided
    /\ \A r \in Sources : proc'[p].fetch[r] = (IF r = s THEN f ELSE proc[p].fetch[r])
    /\ \A r \in Sources : proc'[p].since[r] = (IF r = s THEN n ELSE proc[p].since[r])
    /\ proc'[p].turn = tu
    /\ proc'[p].todo = td

\* c with its fetch of s moved to f.
FetchEdit(c, s, f, n, tu, td, rd) ==
    [c EXCEPT !.fetch = [c.fetch EXCEPT ![s] = f], !.since = [c.since EXCEPT ![s] = n],
              !.turn = tu, !.todo = td, !.read = rd]

\* It is a command again, with the rest of it as it was,
LEMMA FetchEdited ==
  ASSUME NEW b \in Commands, NEW s \in Sources, NEW f \in FetchStates, NEW n \in Times,
         NEW tu \in Expiries \cup {None}, NEW td \in SUBSET Machines, NEW rd \in SUBSET Machines
  PROVE  LET c == FetchEdit(b, s, f, n, tu, td, rd) IN
         /\ c \in Commands
         /\ c.pc = b.pc /\ c.plan = b.plan /\ c.revocations = b.revocations
         /\ c.iceErr = b.iceErr /\ c.decided = b.decided
         /\ c.turn = tu /\ c.todo = td
BY DEF FetchEdit, Commands, FetchStates

\* and so are the fetches of the other sources.
LEMMA FetchMarked ==
  ASSUME NEW b \in Commands, NEW s \in Sources, NEW f \in FetchStates, NEW n \in Times,
         NEW tu \in Expiries \cup {None}, NEW td \in SUBSET Machines, NEW rd \in SUBSET Machines,
         NEW r \in Sources
  PROVE  LET c == FetchEdit(b, s, f, n, tu, td, rd) IN
         /\ c.fetch[r] = (IF r = s THEN f ELSE b.fetch[r])
         /\ c.since[r] = (IF r = s THEN n ELSE b.since[r])
BY DEF FetchEdit, Commands, FetchStates

\* The same, said of a step.
LEMMA FetchEffect ==
  ASSUME PrewarmTypeOK, NEW p \in Procs, NEW s \in Sources, NEW f \in FetchStates, NEW n \in Times,
         NEW tu \in Expiries \cup {None}, NEW td \in SUBSET Machines, NEW rd \in SUBSET Machines,
         Becomes(p, FetchEdit(proc[p], s, f, n, tu, td, rd))
  PROVE  Fetches(p, s, f, n, tu, td)
<1>1. proc[p] \in Commands
  BY DEF PrewarmTypeOK
<1> DEFINE c == FetchEdit(proc[p], s, f, n, tu, td, rd)
<1>2. /\ c \in Commands
      /\ c.pc = proc[p].pc /\ c.plan = proc[p].plan /\ c.revocations = proc[p].revocations
      /\ c.iceErr = proc[p].iceErr /\ c.decided = proc[p].decided
      /\ c.turn = tu /\ c.todo = td
  BY <1>1, FetchEdited
<1>3. \A r \in Sources : /\ c.fetch[r] = (IF r = s THEN f ELSE proc[p].fetch[r])
                         /\ c.since[r] = (IF r = s THEN n ELSE proc[p].since[r])
  BY <1>1, FetchMarked
<1>4. Steps(p) /\ proc'[p] = c
  BY <1>2, Edited
<1> HIDE DEF c
<1> QED
  BY <1>2, <1>3, <1>4 DEF Fetches

\* What each step of fetchRevocations, fetchRegistry and fetchICE does to its fetch.
LEMMA AnswersEffect ==
  ASSUME PrewarmTypeOK, NEW p \in Procs
  PROVE  /\ RelayAnswers(p) => Fetches(p, "revocations", "answered", proc[p].since["revocations"],
                                       proc[p].turn, Published)
         /\ \A s \in Sources : FetchFails(p, s) =>
               \E td : Fetches(p, s, "failed", 0, proc[p].turn, td) /\ (s = "revocations" \/ td = proc[p].todo)
         /\ \A w \in BOOLEAN : RegistryLands(p, w) => 
               Fetches(p, "registry", "done", 0, proc[p].turn, proc[p].todo)
         /\ \A w \in BOOLEAN, exp \in {None, now + Lifetime} : 
               TurnLands(p, w, exp) => Fetches(p, "turn", "done", 0, exp, proc[p].todo)
         /\ \A w \in BOOLEAN : Stamp(p, w) => 
               Fetches(p, "revocations", "done", 0, proc[p].turn, proc[p].todo)
         /\ RecordRead(p) => Fetches(p, "revocations", "reading", 0, proc[p].turn, proc[p].todo)
         /\ \A m \in Machines : RecordWrite(p, m) => 
               Fetches(p, "revocations", "local", proc[p].since["revocations"], proc[p].turn, proc[p].todo \ {m})
         /\ RecordFails(p) => 
               Fetches(p, "revocations", "failed", proc[p].since["revocations"], proc[p].turn, {})
<1>1. proc[p] \in Commands /\ proc \in [Procs -> Commands]
  BY DEF PrewarmTypeOK
<1>2. /\ \A s \in Sources : proc[p].since[s] \in Times
      /\ proc[p].turn \in Expiries \cup {None}
      /\ proc[p].todo \in SUBSET Machines
      /\ proc[p].read \in SUBSET Machines
      /\ store \in SUBSET Machines
      /\ Published \in SUBSET Machines
      /\ {} \in SUBSET Machines
      /\ 0 \in Times
      /\ now + Lifetime \in Expiries
      /\ "revocations" \in Sources /\ "registry" \in Sources /\ "turn" \in Sources
  BY <1>1, PrewarmAssumption DEF Commands, Published, PrewarmTypeOK, Times, Sources, Expiries
<1>3. "answered" \in FetchStates /\ "failed" \in FetchStates /\ "done" \in FetchStates
      /\ "reading" \in FetchStates /\ "local" \in FetchStates
  BY DEF FetchStates
<1>4. ASSUME NEW s \in Sources
      PROVE  [proc[p].since EXCEPT ![s] = proc[p].since[s]] = proc[p].since
  BY <1>1 DEF Commands
<1>5. RelayAnswers(p) => Fetches(p, "revocations", "answered", proc[p].since["revocations"],
                                 proc[p].turn, Published)
  <2> SUFFICES ASSUME RelayAnswers(p)
               PROVE  Becomes(p, FetchEdit(proc[p], "revocations", "answered", proc[p].since["revocations"],
                                           proc[p].turn, Published, proc[p].read))
    BY <1>2, <1>3, FetchEffect
  <2> QED
    <3> DEFINE c == [proc[p] EXCEPT !.fetch = [proc[p].fetch EXCEPT !["revocations"] = "answered"],
                                    !.todo = Published]
    <3>1. proc' = [proc EXCEPT ![p] = c]
      BY <1>1 DEF RelayAnswers, Commands
    <3>2. c = FetchEdit(proc[p], "revocations", "answered", proc[p].since["revocations"],
                        proc[p].turn, Published, proc[p].read)
      BY <1>1, <1>2, <1>4 DEF FetchEdit, Commands
    <3> QED
      BY <3>1, <3>2 DEF Becomes
<1>6. ASSUME NEW s \in Sources, FetchFails(p, s)
      PROVE  \E td : /\ Fetches(p, s, "failed", 0, proc[p].turn, td)
                     /\ s = "revocations" \/ td = proc[p].todo
  <2> DEFINE td == IF s = "revocations" THEN {} ELSE proc[p].todo
  <2>1. td \in SUBSET Machines /\ (s = "revocations" \/ td = proc[p].todo)
    BY <1>2
  <2>2. Becomes(p, FetchEdit(proc[p], s, "failed", 0, proc[p].turn, td, proc[p].read))
    BY <1>1, <1>2, <1>6 DEF FetchFails, FetchEdit, Becomes, Commands
  <2> HIDE DEF td
  <2> QED
    BY <1>2, <1>3, <2>1, <2>2, FetchEffect
<1>7. ASSUME NEW w \in BOOLEAN, RegistryLands(p, w)
      PROVE  Fetches(p, "registry", "done", 0, proc[p].turn, proc[p].todo)
  <2>1. Becomes(p, FetchEdit(proc[p], "registry", "done", 0, proc[p].turn, proc[p].todo, proc[p].read))
    BY <1>1, <1>2, <1>7 DEF RegistryLands, FetchEdit, Becomes, Commands
  <2> QED
    BY <1>2, <1>3, <2>1, FetchEffect
<1>8. ASSUME NEW w \in BOOLEAN, NEW exp \in {None, now + Lifetime}, TurnLands(p, w, exp)
      PROVE  Fetches(p, "turn", "done", 0, exp, proc[p].todo)
  <2>1. Becomes(p, FetchEdit(proc[p], "turn", "done", 0, exp, proc[p].todo, proc[p].read))
    BY <1>1, <1>2, <1>8 DEF TurnLands, FetchEdit, Becomes, Commands
  <2>2. exp \in Expiries \cup {None}
    BY <1>2
  <2> QED
    BY <1>2, <1>3, <2>1, <2>2, FetchEffect
<1>9. ASSUME NEW w \in BOOLEAN, Stamp(p, w)
      PROVE  Fetches(p, "revocations", "done", 0, proc[p].turn, proc[p].todo)
  <2>1. Becomes(p, FetchEdit(proc[p], "revocations", "done", 0, proc[p].turn, proc[p].todo, proc[p].read))
    BY <1>1, <1>2, <1>9 DEF Stamp, FetchEdit, Becomes, Commands
  <2> QED
    BY <1>2, <1>3, <2>1, FetchEffect
<1>10. RecordRead(p) => Fetches(p, "revocations", "reading", 0, proc[p].turn, proc[p].todo)
  <2> SUFFICES ASSUME RecordRead(p)
               PROVE  Becomes(p, FetchEdit(proc[p], "revocations", "reading", 0, proc[p].turn,
                                           proc[p].todo, store))
    BY <1>2, <1>3, FetchEffect
  <2> QED
    BY <1>1, <1>2 DEF RecordRead, FetchEdit, Becomes, Commands
<1>11. ASSUME NEW m \in Machines, RecordWrite(p, m)
       PROVE  Fetches(p, "revocations", "local", proc[p].since["revocations"], proc[p].turn, proc[p].todo \ {m})
  <2>1. Becomes(p, FetchEdit(proc[p], "revocations", "local", proc[p].since["revocations"], proc[p].turn,
                             proc[p].todo \ {m}, {}))
    BY <1>1, <1>2, <1>4, <1>11 DEF RecordWrite, FetchEdit, Becomes, Commands
  <2>2. proc[p].todo \ {m} \in SUBSET Machines
    BY <1>2
  <2> QED
    BY <1>2, <1>3, <2>1, <2>2, FetchEffect
<1>12. RecordFails(p) => 
             Fetches(p, "revocations", "failed", proc[p].since["revocations"], proc[p].turn, {})
  <2> SUFFICES ASSUME RecordFails(p)
               PROVE  Becomes(p, FetchEdit(proc[p], "revocations", "failed", proc[p].since["revocations"],
                                           proc[p].turn, {}, {}))
    BY <1>2, <1>3, FetchEffect
  <2> QED
    <3> DEFINE c == [proc[p] EXCEPT !.fetch = [proc[p].fetch EXCEPT !["revocations"] = "failed"],
                                    !.todo = {}, !.read = {}]
    <3>1. proc' = [proc EXCEPT ![p] = c]
      BY <1>1 DEF RecordFails, Commands
    <3>2. c = FetchEdit(proc[p], "revocations", "failed", proc[p].since["revocations"], proc[p].turn, {}, {})
      BY <1>1, <1>2, <1>4 DEF FetchEdit, Commands
    <3> QED
      BY <3>1, <3>2 DEF Becomes
<1> QED
  BY <1>5, <1>6, <1>7, <1>8, <1>9, <1>10, <1>11, <1>12

\* What a step of p that is not one of its fetches leaves alone.
Carries(p) ==
    /\ Steps(p)
    /\ proc'[p].fetch = proc[p].fetch
    /\ proc'[p].since = proc[p].since

\* The effect of the three joins of Run, field by field: the registry,
LEMMA JoinRegistryEffect ==
  ASSUME PrewarmTypeOK, NEW p \in Procs, JoinRegistry(p)
  PROVE  /\ Steps(p)
         /\ proc'[p].pc = "turn"
         /\ proc'[p].plan = proc[p].plan /\ proc'[p].since = proc[p].since
         /\ proc'[p].turn = proc[p].turn /\ proc'[p].todo = proc[p].todo
         /\ proc'[p].revocations = proc[p].revocations
         /\ \A r \in Sources \ {"registry"} : proc'[p].fetch[r] = proc[p].fetch[r]
         /\ \/ proc'[p].fetch["registry"] = proc[p].fetch["registry"]
            \/ proc'[p].fetch["registry"] = "taken"
<1> DEFINE mark == IF Landed(p, "registry") THEN "taken" ELSE proc[p].fetch["registry"]
<1> DEFINE from == IF Fetch(p, "registry") = "done" THEN "relay" ELSE proc[p].registry
<1> DEFINE marks == [proc[p].fetch EXCEPT !["registry"] = mark]
<1> DEFINE c == [proc[p] EXCEPT !.pc = "turn", !.registry = from, !.fetch = marks]
<1>1. proc[p] \in Commands
  BY DEF PrewarmTypeOK
<1>2. proc' = [proc EXCEPT ![p] = c]
  BY <1>1 DEF JoinRegistry, Commands
<1>3. /\ mark \in FetchStates /\ from \in {"relay", "cache", "error"}
      /\ mark = proc[p].fetch["registry"] \/ mark = "taken"
  BY <1>1 DEF Commands, FetchStates, Sources
<1> HIDE DEF mark, from
<1>4. /\ marks \in [Sources -> FetchStates]
      /\ \A r \in Sources \ {"registry"} : marks[r] = proc[p].fetch[r]
      /\ marks["registry"] = mark
  BY <1>1, <1>3 DEF Commands, FetchStates, Sources
<1> HIDE DEF marks
<1>5. c \in Commands
  BY <1>1, <1>3, <1>4 DEF Commands, FetchStates
<1>6. /\ c.pc = "turn" /\ c.plan = proc[p].plan /\ c.since = proc[p].since /\ c.turn = proc[p].turn
      /\ c.todo = proc[p].todo /\ c.revocations = proc[p].revocations /\ c.fetch = marks
  BY <1>1 DEF Commands
<1>7. Steps(p) /\ proc'[p] = c
  BY <1>2, <1>5, Edited DEF Becomes
<1> HIDE DEF c
<1> QED
  BY <1>3, <1>4, <1>6, <1>7

\* the TURN credentials,
LEMMA JoinTurnEffect ==
  ASSUME PrewarmTypeOK, NEW p \in Procs, JoinTurn(p)
  PROVE  /\ Carries(p)
         /\ proc'[p].pc = "revocations"
         /\ proc'[p].plan = proc[p].plan
         /\ proc'[p].todo = proc[p].todo
         /\ proc'[p].revocations = proc[p].revocations
         /\ proc'[p].turn = None \/ proc'[p].turn = proc[p].turn
         /\ proc[p].fetch["turn"] = "failed" => proc'[p].iceErr
<1> DEFINE bad == Fetch(p, "turn") = "failed"
<1> DEFINE tu == IF bad /\ ~(proc[p].turn # None /\ now < proc[p].turn) THEN None ELSE proc[p].turn
<1> DEFINE c == [proc[p] EXCEPT !.pc = "revocations", !.iceErr = bad, !.turn = tu]
<1>1. proc[p] \in Commands
  BY DEF PrewarmTypeOK
<1>2. proc' = [proc EXCEPT ![p] = c]
  BY <1>1 DEF JoinTurn, Commands
<1>3. bad \in BOOLEAN /\ tu \in Expiries \cup {None} /\ (tu = None \/ tu = proc[p].turn)
  BY <1>1 DEF Commands
<1>4. proc[p].fetch["turn"] = "failed" => bad
  BY DEF Fetch
<1> HIDE DEF bad, tu
<1>5. c \in Commands
  BY <1>1, <1>3 DEF Commands
<1>6. /\ c.pc = "revocations" /\ c.plan = proc[p].plan /\ c.since = proc[p].since /\ c.turn = tu
      /\ c.todo = proc[p].todo /\ c.revocations = proc[p].revocations /\ c.fetch = proc[p].fetch
      /\ c.iceErr = bad
  BY <1>1 DEF Commands
<1>7. Steps(p) /\ proc'[p] = c
  BY <1>2, <1>5, Edited DEF Becomes
<1> HIDE DEF c
<1> QED
  BY <1>3, <1>4, <1>6, <1>7 DEF Carries

\* and the revocations.
LEMMA JoinRevocationsEffect ==
  ASSUME PrewarmTypeOK, NEW p \in Procs, JoinRevocations(p)
  PROVE  /\ Carries(p)
         /\ proc'[p].pc = "resolve"
         /\ proc'[p].plan = proc[p].plan
         /\ proc'[p].todo = proc[p].todo
         /\ proc'[p].turn = proc[p].turn
         /\ proc'[p].iceErr = proc[p].iceErr
         /\ \/ proc'[p].revocations = "error"
            \/ proc[p].fetch["revocations"] = "done"
            \/ proc[p].plan["revocations"] # "fetch"
<1> DEFINE rv == IF Fetch(p, "revocations") = "done" THEN "relay"
                 ELSE IF proc[p].plan["revocations"] = "fetch" THEN "error" ELSE "cache"
<1> DEFINE c == [proc[p] EXCEPT !.pc = "resolve", !.revocations = rv]
<1>1. proc[p] \in Commands
  BY DEF PrewarmTypeOK
<1>2. proc' = [proc EXCEPT ![p] = c]
  BY <1>1 DEF JoinRevocations, Commands
<1>3. /\ rv \in {"relay", "cache", "error"}
      /\ rv = "error" \/ proc[p].fetch["revocations"] = "done" \/ proc[p].plan["revocations"] # "fetch"
  BY DEF Fetch
<1> HIDE DEF rv
<1>5. c \in Commands
  BY <1>1, <1>3 DEF Commands
<1>6. /\ c.pc = "resolve" /\ c.plan = proc[p].plan /\ c.since = proc[p].since /\ c.turn = proc[p].turn
      /\ c.todo = proc[p].todo /\ c.revocations = rv /\ c.fetch = proc[p].fetch
      /\ c.iceErr = proc[p].iceErr
  BY <1>1 DEF Commands
<1>7. Steps(p) /\ proc'[p] = c
  BY <1>2, <1>5, Edited DEF Becomes
<1> HIDE DEF c
<1> QED
  BY <1>3, <1>6, <1>7 DEF Carries

\* A command that has ended keeps its fetches.
LEMMA DecidedEffect ==
  ASSUME NEW c \in Commands, NEW l \in Ended
  PROVE  /\ Decided(c, l) \in Commands
         /\ Decided(c, l).pc = l
         /\ Decided(c, l).fetch = c.fetch
         /\ Decided(c, l).since = c.since
         /\ Decided(c, l).todo = c.todo
<1>1. NoPlan \in [Sources -> {"fresh", "stale", "fetch"}]
  BY DEF NoPlan
<1> QED
  BY <1>1 DEF Decided, Commands

\* The effect of resolveMachinesWarm, up to its live question,
LEMMA ResolveEffect ==
  ASSUME PrewarmTypeOK, NEW p \in Procs, NEW hit \in BOOLEAN, Resolve(p, hit)
  PROVE  /\ Steps(p)
         /\ proc'[p].todo = proc[p].todo
         /\ \A r \in Sources \ {"registry"} : /\ proc'[p].fetch[r] = proc[p].fetch[r]
                                              /\ proc'[p].since[r] = proc[p].since[r]
         /\ \/ /\ proc'[p].fetch["registry"] = proc[p].fetch["registry"]
               /\ proc'[p].since["registry"] = proc[p].since["registry"]
               /\ proc'[p].pc = "refreshing" => proc[p].fetch["registry"] \notin {"none", "taken"}
            \/ proc'[p].fetch["registry"] = "asked" /\ proc'[p].since["registry"] = now
         /\ proc'[p].pc \in {"dialing", "refreshing", "unknown"}
         /\ proc'[p].pc # "unknown" => /\ proc'[p].decided = store
                                       /\ proc'[p].turn = proc[p].turn
                                       /\ proc'[p].iceErr = proc[p].iceErr
                                       /\ proc'[p].revocations = proc[p].revocations
<1>1. proc[p] \in Commands /\ store \in SUBSET Machines /\ now \in Times
  BY DEF PrewarmTypeOK
<1>2. CASE hit
  <2> DEFINE c == [proc[p] EXCEPT !.pc = "dialing", !.decided = store]
  <2>1. proc' = [proc EXCEPT ![p] = c]
    BY <1>1, <1>2 DEF Resolve, Commands
  <2>2. c \in Commands
    BY <1>1 DEF Commands
  <2>3. /\ c.pc = "dialing" /\ c.fetch = proc[p].fetch /\ c.since = proc[p].since /\ c.turn = proc[p].turn
        /\ c.todo = proc[p].todo /\ c.revocations = proc[p].revocations /\ c.iceErr = proc[p].iceErr
        /\ c.decided = store
    BY <1>1 DEF Commands
  <2>4. Steps(p) /\ proc'[p] = c
    BY <2>1, <2>2, Edited DEF Becomes
  <2> HIDE DEF c
  <2> QED
    BY <2>3, <2>4
<1>3. CASE ~hit /\ proc[p].registry # "cache"
  <2> DEFINE c == Decided(proc[p], "unknown")
  <2>1. proc' = [proc EXCEPT ![p] = c]
    BY <1>1, <1>3 DEF Resolve, Commands
  <2>2. /\ c \in Commands /\ c.pc = "unknown" /\ c.fetch = proc[p].fetch /\ c.since = proc[p].since
        /\ c.todo = proc[p].todo
    BY <1>1, DecidedEffect DEF Ended
  <2>3. Steps(p) /\ proc'[p] = c
    BY <2>1, <2>2, Edited DEF Becomes
  <2> HIDE DEF c
  <2> QED
    BY <2>2, <2>3
<1>4. CASE ~hit /\ proc[p].registry = "cache"
  <2> DEFINE again == Fetch(p, "registry") \in {"none", "taken"}
  <2> DEFINE mark == IF again THEN "asked" ELSE proc[p].fetch["registry"]
  <2> DEFINE start == IF again THEN now ELSE proc[p].since["registry"]
  <2> DEFINE marks == [proc[p].fetch EXCEPT !["registry"] = mark]
  <2> DEFINE starts == [proc[p].since EXCEPT !["registry"] = start]
  <2> DEFINE c == [proc[p] EXCEPT !.pc = "refreshing", !.decided = store, !.fetch = marks, !.since = starts]
  <2>1. proc' = [proc EXCEPT ![p] = c]
    BY <1>1, <1>4 DEF Resolve, Fetch, Commands
  <2>2. /\ mark \in FetchStates /\ start \in Times
        /\ \/ mark = proc[p].fetch["registry"] /\ start = proc[p].since["registry"]
              /\ proc[p].fetch["registry"] \notin {"none", "taken"}
           \/ mark = "asked" /\ start = now
    BY <1>1 DEF Commands, FetchStates, Sources, Fetch
  <2> HIDE DEF mark, start
  <2>3. /\ marks \in [Sources -> FetchStates] /\ marks["registry"] = mark
        /\ \A r \in Sources \ {"registry"} : marks[r] = proc[p].fetch[r]
        /\ starts \in [Sources -> Times] /\ starts["registry"] = start
        /\ \A r \in Sources \ {"registry"} : starts[r] = proc[p].since[r]
    BY <1>1, <2>2 DEF Commands, FetchStates, Sources
  <2> HIDE DEF marks, starts
  <2>4. c \in Commands
    BY <1>1, <2>3 DEF Commands, FetchStates
  <2>5. /\ c.pc = "refreshing" /\ c.fetch = marks /\ c.since = starts /\ c.turn = proc[p].turn
        /\ c.todo = proc[p].todo /\ c.revocations = proc[p].revocations /\ c.iceErr = proc[p].iceErr
        /\ c.decided = store
    BY <1>1 DEF Commands
  <2>6. Steps(p) /\ proc'[p] = c
    BY <2>1, <2>4, Edited DEF Becomes
  <2> HIDE DEF c, again
  <2> QED
    BY <2>2, <2>3, <2>5, <2>6
<1> QED
  BY <1>2, <1>3, <1>4

\* after it,
LEMMA RefreshedEffect ==
  ASSUME PrewarmTypeOK, NEW p \in Procs, NEW hit \in BOOLEAN, Refreshed(p, hit)
  PROVE  /\ Carries(p)
         /\ proc'[p].todo = proc[p].todo
         /\ proc'[p].pc \in {"dialing", "unknown"}
         /\ proc'[p].pc = "dialing" => /\ proc'[p].decided = proc[p].decided
                                       /\ proc'[p].turn = proc[p].turn
                                       /\ proc'[p].iceErr = proc[p].iceErr
                                       /\ proc'[p].revocations = proc[p].revocations
<1>1. proc[p] \in Commands
  BY DEF PrewarmTypeOK
<1>2. CASE hit /\ Fetch(p, "registry") = "done"
  <2> DEFINE c == [proc[p] EXCEPT !.pc = "dialing"]
  <2>1. proc' = [proc EXCEPT ![p] = c]
    BY <1>1, <1>2 DEF Refreshed, Commands
  <2>2. /\ c \in Commands /\ c.pc = "dialing" /\ c.fetch = proc[p].fetch /\ c.since = proc[p].since
        /\ c.turn = proc[p].turn /\ c.decided = proc[p].decided
        /\ c.todo = proc[p].todo /\ c.revocations = proc[p].revocations /\ c.iceErr = proc[p].iceErr
    BY <1>1 DEF Commands
  <2>3. Steps(p) /\ proc'[p] = c
    BY <2>1, <2>2, Edited DEF Becomes
  <2> HIDE DEF c
  <2> QED
    BY <2>2, <2>3 DEF Carries
<1>3. CASE ~(hit /\ Fetch(p, "registry") = "done")
  <2> DEFINE c == Decided(proc[p], "unknown")
  <2>1. proc' = [proc EXCEPT ![p] = c]
    BY <1>1, <1>3 DEF Refreshed, Commands
  <2>2. /\ c \in Commands /\ c.pc = "unknown" /\ c.fetch = proc[p].fetch /\ c.since = proc[p].since
        /\ c.todo = proc[p].todo
    BY <1>1, DecidedEffect DEF Ended
  <2>3. Steps(p) /\ proc'[p] = c
    BY <2>1, <2>2, Edited DEF Becomes
  <2> HIDE DEF c
  <2> QED
    BY <2>2, <2>3 DEF Carries
<1> QED
  BY <1>2, <1>3

\* and of the dial of cmdAttach.
LEMMA DialEffect ==
  ASSUME PrewarmTypeOK, NEW p \in Procs, NEW again \in BOOLEAN, NEW got \in {None, now + Lifetime},
         Dial(p, again, got)
  PROVE  /\ Carries(p)
         /\ proc'[p].todo = proc[p].todo
         /\ proc'[p].pc = "attached"
<1> DEFINE b == Decided(proc[p], "attached")
<1> DEFINE tu == IF again THEN got ELSE proc[p].turn
<1> DEFINE c == [b EXCEPT !.turn = tu]
<1>1. proc[p] \in Commands /\ now + Lifetime \in Expiries
  BY PrewarmAssumption DEF PrewarmTypeOK, Times, Expiries
<1>2. proc' = [proc EXCEPT ![p] = c]
  BY <1>1 DEF Dial
<1>3. /\ b \in Commands /\ b.pc = "attached" /\ b.fetch = proc[p].fetch /\ b.since = proc[p].since
      /\ b.todo = proc[p].todo
  BY <1>1, DecidedEffect DEF Ended
<1> HIDE DEF b
<1>4. tu \in Expiries \cup {None}
  BY <1>1, <1>3 DEF Commands
<1> HIDE DEF tu
<1>5. c \in Commands /\ c.pc = b.pc /\ c.fetch = b.fetch /\ c.since = b.since /\ c.todo = b.todo
  BY <1>3, <1>4 DEF Commands
<1>6. Steps(p) /\ proc'[p] = c
  BY <1>2, <1>5, Edited DEF Becomes
<1> HIDE DEF c
<1> QED
  BY <1>3, <1>5, <1>6 DEF Carries

\* The effect of the steps of cmdMachineRevoke on their command.
LEMMA RetireEffect ==
  ASSUME PrewarmTypeOK, NEW p \in Procs
  PROVE  /\ \A m \in Machines : Retire(p, m) => Carries(p) /\ proc[p].pc = "idle" /\ proc'[p].pc = "recording"
         /\ RetireRecords(p) => Carries(p) /\ proc'[p].todo = proc[p].todo /\ proc'[p].pc = "posting"
         /\ RetireNotRecorded(p) => Carries(p) /\ proc'[p].todo = proc[p].todo /\ proc'[p].pc = "revoke failed"
         /\ \A hit \in BOOLEAN : Post(p, hit) => /\ Carries(p)
                                                 /\ proc'[p].todo = proc[p].todo
                                                 /\ proc'[p].pc \in {"revoked", "revoke failed"}
<1>1. proc[p] \in Commands /\ store \in SUBSET Machines
  BY DEF PrewarmTypeOK
<1>2. ASSUME NEW l \in Ended \cup {"posting"}, proc' = [proc EXCEPT ![p].pc = l]
      PROVE  Carries(p) /\ proc'[p].todo = proc[p].todo /\ proc'[p].pc = l
  <2> DEFINE c == [proc[p] EXCEPT !.pc = l]
  <2>1. proc' = [proc EXCEPT ![p] = c]
    BY <1>1, <1>2 DEF Commands
  <2>2. c \in Commands /\ c.pc = l /\ c.fetch = proc[p].fetch /\ c.since = proc[p].since /\ c.todo = proc[p].todo
    BY <1>1 DEF Commands
  <2>3. Steps(p) /\ proc'[p] = c
    BY <2>1, <2>2, Edited DEF Becomes
  <2> HIDE DEF c
  <2> QED
    BY <2>2, <2>3 DEF Carries
<1>3. ASSUME NEW m \in Machines, Retire(p, m)
      PROVE  Carries(p) /\ proc[p].pc = "idle" /\ proc'[p].pc = "recording"
  <2> DEFINE c == [proc[p] EXCEPT !.pc = "recording", !.read = store, !.todo = {m}]
  <2>1. proc' = [proc EXCEPT ![p] = c] /\ proc[p].pc = "idle"
    BY <1>1, <1>3 DEF Commands, Retire, At
  <2>2. c \in Commands /\ c.pc = "recording" /\ c.fetch = proc[p].fetch /\ c.since = proc[p].since
    BY <1>1 DEF Commands
  <2>3. Steps(p) /\ proc'[p] = c
    BY <2>1, <2>2, Edited DEF Becomes
  <2> HIDE DEF c
  <2> QED
    BY <2>1, <2>2, <2>3 DEF Carries
<1>4. ASSUME NEW hit \in BOOLEAN, Post(p, hit)
      PROVE  /\ Carries(p)
             /\ proc'[p].todo = proc[p].todo
             /\ proc'[p].pc \in {"revoked", "revoke failed"}
  <2> DEFINE l == IF hit THEN "revoked" ELSE "revoke failed"
  <2>1. proc' = [proc EXCEPT ![p].pc = l] /\ l \in {"revoked", "revoke failed"} /\ l \in Ended \cup {"posting"}
    BY <1>4 DEF Post, Ended
  <2> HIDE DEF l
  <2> QED
    BY <2>1, <1>2
<1>5. RetireRecords(p) => Carries(p) /\ proc'[p].todo = proc[p].todo /\ proc'[p].pc = "posting"
  BY <1>2 DEF RetireRecords
<1>6. RetireNotRecorded(p) => Carries(p) /\ proc'[p].todo = proc[p].todo /\ proc'[p].pc = "revoke failed"
  BY <1>2 DEF RetireNotRecorded, Ended
<1> QED
  BY <1>3, <1>4, <1>5, <1>6

-----------------------------------------------------------------------------

\* The fetch waits for the relay.
Asked(p, s) == Fetch(p, s) \in {"asked", "answered"}

\* S holds every tombstone that r, the relay, learned before t.
Known(r, t, S) == \A m \in Machines : (r[m] # None /\ r[m] < t) => m \in S

\* What a snapshot cached less than the ceiling before t cannot miss.
Horizon(t) == t + 1 - Ceiling - Timeout

\* No fetch outlives its timeout.
Timely(p) == \A s \in Sources : Asked(p, s) =>
    proc[p].since[s] <= now /\ now <= proc[p].since[s] + Timeout

\* fetchRevocations: what the relay knew when it was asked is stored or still to be recorded.
Heard(p) ==
    /\ Fetch(p, "revocations") = "answered" =>
          lost \/ Known(relay, proc[p].since["revocations"], store \cup proc[p].todo)
    /\ Fetch(p, "revocations") \in {"local", "reading"} =>
          lost \/ Known(relay, now - Timeout, store \cup proc[p].todo)

\* The cache timestamp vouches for what the relay knew a timeout earlier.
Vouched ==
    cache["revocations"] # None =>
        /\ cache["revocations"] <= now
        /\ lost \/ Known(relay, cache["revocations"] - Timeout, store)

\* Only the answer with the revocations is worked on in steps.
Plain(p) == \A s \in {"registry", "turn"} : Fetch(p, s) \notin {"answered", "local", "reading"}

\* A command that has not begun has asked for nothing.
Unstarted(p) ==
    At(p, "idle") => /\ \A s \in Sources : Fetch(p, s) = "none"
                     /\ proc[p].revocations = "error"
                     /\ ~proc[p].iceErr

\* Credentials in hand, planned or fetched at t or later, outlast two timeouts.
Armed(p, t) ==
    (proc[p].turn # None /\ Fetch(p, "turn") \in {"none", "done"}) => t + 2 * Timeout < proc[p].turn

\* joinICE: the credentials are from the cache or the relay, or the error is kept.
TurnJoined(p) ==
    /\ Fetch(p, "turn") \in {"none", "done", "failed"}
    /\ Fetch(p, "turn") = "failed" => proc[p].iceErr

\* What Run, started at t, has to show for itself before the name is resolved.
Awaits(p, t) ==
    /\ now <= t + Timeout
    /\ \A s \in Sources : Asked(p, s) => proc[p].since[s] = t
    /\ \A s \in Sources : (proc[p].plan[s] # "fresh" /\ (s = "registry" => At(p, "registry")))
                             => Fetch(p, s) \notin {"none", "taken"}
    /\ proc[p].plan["turn"] = "fresh" => Fetch(p, "turn") = "none"

\* The tombstones it may count on: those of the cached snapshot, or all the relay
\* knew at t.
Learns(p, t) ==
    \/ lost
    \/ /\ proc[p].plan["revocations"] # "fetch" => Known(relay, Horizon(t), store)
       /\ Fetch(p, "revocations") \in {"answered", "local", "reading"} => Known(relay, t, store \cup proc[p].todo)
       /\ Fetch(p, "revocations") = "done" => Known(relay, t, store)
       /\ proc[p].revocations # "error" => Known(relay, Horizon(t), store)

\* The warm-up that Run started at t.
Warm(p, t) ==
    /\ Awaits(p, t)
    /\ Armed(p, t)
    /\ proc[p].pc \in {"revocations", "resolve"} => TurnJoined(p)
    /\ Learns(p, t)

\* The same once the tombstones have been read.
Deciding(p, t) ==
    /\ now <= t + 2 * Timeout
    /\ At(p, "refreshing") =>
          /\ Fetch(p, "registry") \in {"asked", "done", "failed"}
          /\ Fetch(p, "registry") = "asked" => proc[p].since["registry"] <= t + Timeout
    /\ Armed(p, t)
    /\ TurnJoined(p)
    /\ lost \/ proc[p].revocations = "error" \/ Known(relay, Horizon(t), proc[p].decided)

\* An attach under way began at some t, not long ago.
Phased(p) ==
    /\ proc[p].pc \in {"registry", "turn", "revocations", "resolve"} => \E t \in 0..now : Warm(p, t)
    /\ proc[p].pc \in {"refreshing", "dialing"} => \E t \in 0..now : Deciding(p, t)

\* All that is known of one command,
FreshFor(p) == Timely(p) /\ Heard(p) /\ Plain(p) /\ Unstarted(p) /\ Phased(p)

\* and of all of them: the inductive invariant.
PrewarmInv ==
    /\ PrewarmTypeOK
    /\ Vouched
    /\ \A p \in Procs : FreshFor(p)

\* A step in which no time passes, the relay forgets nothing, and the file of
\* tombstones grows unless something was lost.
Settles ==
    /\ now' = now
    /\ \A m \in Machines : relay'[m] = relay[m] \/ relay'[m] = now
    /\ lost => lost'
    /\ lost' \/ store \subseteq store'

\* The types of the times, as arithmetic needs them.
LEMMA TimesAre ==
  ASSUME PrewarmTypeOK
  PROVE  /\ now \in Int /\ Timeout \in Int /\ Timeout > 0 /\ Lifetime \in Int /\ Margin \in Int
         /\ TTL \in Nat /\ Ceiling \in Nat
         /\ 2 * Timeout <= Margin /\ 2 * Timeout < Lifetime
         /\ None \notin Int
         /\ \A m \in Machines : relay[m] # None => relay[m] \in Int
         /\ \A s \in Sources : cache[s] # None => cache[s] \in Int
         /\ expiry # None => expiry \in Int
         /\ \A p \in Procs : \A s \in Sources : proc[p].since[s] \in Int /\ proc[p].since[s] >= 0
         /\ \A p \in Procs : proc[p].turn # None => proc[p].turn \in Int
         /\ now >= 0
<1>1. \A p \in Procs : proc[p] \in Commands
  BY DEF PrewarmTypeOK
<1>2. \A p \in Procs : proc[p].since \in [Sources -> Times] /\ proc[p].turn \in Expiries \cup {None}
  BY <1>1 DEF Commands
<1> QED
  BY <1>2, PrewarmAssumption DEF PrewarmTypeOK, Times, Expiries, Ceiling

\* What was known of the past stays known: the relay learns tombstones only now.
LEMMA KnownStays ==
  ASSUME PrewarmTypeOK, Settles, NEW t \in Int, t <= now, NEW S, NEW T, S \subseteq T, Known(relay, t, S)
  PROVE  Known(relay', t, T)
BY TimesAre DEF Known, Settles

\* What is known up to t is known up to an earlier time.
LEMMA KnownBefore ==
  ASSUME PrewarmTypeOK, NEW t \in Int, NEW u \in Int, u <= t, NEW S, NEW T, S \subseteq T, Known(relay, t, S)
  PROVE  Known(relay, u, T)
BY TimesAre DEF Known

\* The times an attach begun at t looks back to are past.
LEMMA HorizonBefore ==
  ASSUME PrewarmTypeOK, NEW t \in 0..now
  PROVE  /\ t \in Int /\ t <= now
         /\ Horizon(t) \in Int /\ Horizon(t) <= t /\ Horizon(t) <= now
         /\ now - Timeout \in Int /\ now - Timeout <= now
BY TimesAre DEF Horizon

\* A fetch of revocations left alone keeps what it heard,
LEMMA HeardStays ==
  ASSUME PrewarmTypeOK, Settles, NEW q \in Procs, Timely(q), Heard(q),
         proc'[q].fetch["revocations"] = proc[q].fetch["revocations"],
         proc'[q].since["revocations"] = proc[q].since["revocations"],
         proc'[q].todo = proc[q].todo
  PROVE  Heard(q)'
<1>1. "revocations" \in Sources
  BY DEF Sources
<1>2. Fetch(q, "revocations")' = Fetch(q, "revocations")
  BY DEF Fetch
<1>3. lost' \/ (~lost /\ store \cup proc[q].todo \subseteq store' \cup proc'[q].todo)
  BY DEF Settles
<1>4. ASSUME Fetch(q, "revocations") = "answered", ~lost'
      PROVE  Known(relay', proc'[q].since["revocations"], store' \cup proc'[q].todo)
  <2>1. proc[q].since["revocations"] \in Int /\ proc[q].since["revocations"] <= now
    BY <1>1, <1>4, TimesAre DEF Timely, Asked
  <2>2. Known(relay, proc[q].since["revocations"], store \cup proc[q].todo)
    BY <1>3, <1>4 DEF Heard
  <2> QED
    BY <1>3, <1>4, <2>1, <2>2, KnownStays
<1>5. ASSUME Fetch(q, "revocations") \in {"local", "reading"}, ~lost'
      PROVE  Known(relay', now' - Timeout, store' \cup proc'[q].todo)
  <2>1. now - Timeout \in Int /\ now - Timeout <= now /\ now' = now
    BY TimesAre DEF Settles
  <2>2. Known(relay, now - Timeout, store \cup proc[q].todo)
    BY <1>3, <1>5 DEF Heard
  <2>3. Known(relay', now - Timeout, store' \cup proc'[q].todo)
    BY <1>3, <1>5, <2>1, <2>2, KnownStays
  <2> QED
    BY <2>1, <2>3
<1> QED
  BY <1>2, <1>4, <1>5 DEF Heard

\* a cache timestamp left alone what it vouches for,
LEMMA VouchedStays ==
  ASSUME PrewarmTypeOK, Settles, Vouched, cache'["revocations"] = cache["revocations"]
  PROVE  Vouched'
<1>1. "revocations" \in Sources
  BY DEF Sources
<1> SUFFICES ASSUME cache["revocations"] # None
             PROVE  /\ cache["revocations"] <= now'
                    /\ lost' \/ Known(relay', cache["revocations"] - Timeout, store')
  BY DEF Vouched
<1>2. /\ cache["revocations"] \in Int /\ cache["revocations"] <= now
      /\ cache["revocations"] - Timeout \in Int /\ cache["revocations"] - Timeout <= now
  BY <1>1, TimesAre DEF Vouched
<1>3. ASSUME ~lost'
      PROVE  Known(relay', cache["revocations"] - Timeout, store')
  <2>1. Known(relay, cache["revocations"] - Timeout, store) /\ store \subseteq store'
    BY <1>3 DEF Vouched, Settles
  <2> QED
    BY <1>2, <2>1, KnownStays
<1> QED
  BY <1>2, <1>3 DEF Settles

\* and an attach the tombstones it counts on.
LEMMA LearnsStays ==
  ASSUME PrewarmTypeOK, Settles, NEW q \in Procs, NEW t \in 0..now, Learns(q, t),
         proc'[q].plan["revocations"] = proc[q].plan["revocations"],
         proc'[q].fetch["revocations"] = proc[q].fetch["revocations"],
         proc'[q].todo = proc[q].todo,
         proc'[q].revocations = proc[q].revocations
  PROVE  Learns(q, t)'
<1> SUFFICES ASSUME ~lost' PROVE Learns(q, t)'
  BY DEF Learns
<1>1. ~lost /\ store \subseteq store' /\ store \cup proc[q].todo \subseteq store' \cup proc'[q].todo
  BY DEF Settles
<1>2. Fetch(q, "revocations")' = Fetch(q, "revocations")
  BY DEF Fetch
<1>3. Known(relay, Horizon(t), store) => Known(relay', Horizon(t), store')
  BY <1>1, HorizonBefore, KnownStays
<1>4. Known(relay, t, store) => Known(relay', t, store')
  BY <1>1, HorizonBefore, KnownStays
<1>5. Known(relay, t, store \cup proc[q].todo) => Known(relay', t, store' \cup proc'[q].todo)
  BY <1>1, HorizonBefore, KnownStays
<1> QED
  BY <1>1, <1>2, <1>3, <1>4, <1>5 DEF Learns

\* A command that takes no step keeps what is known of it.
LEMMA BystanderStays ==
  ASSUME PrewarmTypeOK, Settles, NEW q \in Procs, proc'[q] = proc[q], FreshFor(q)
  PROVE  FreshFor(q)'
<1>1. now' = now
  BY DEF Settles
<1>2. Timely(q)'
  BY <1>1 DEF FreshFor, Timely, Asked, Fetch
<1>3. Heard(q)'
  BY HeardStays DEF FreshFor
<1>4. Plain(q)'
  BY DEF FreshFor, Plain, Fetch
<1>5. Unstarted(q)'
  BY DEF FreshFor, Unstarted, At, Fetch
<1>6. ASSUME NEW t \in 0..now, Warm(q, t) PROVE Warm(q, t)'
  <2>1. Learns(q, t)'
    BY <1>6, LearnsStays DEF Warm
  <2>2. Awaits(q, t)'
    BY <1>1, <1>6 DEF Warm, Awaits, Asked, Fetch, At
  <2>3. Armed(q, t)' /\ (proc'[q].pc \in {"revocations", "resolve"} => TurnJoined(q)')
    BY <1>6 DEF Warm, Armed, TurnJoined, Fetch
  <2> QED
    BY <2>1, <2>2, <2>3 DEF Warm
<1>7. ASSUME NEW t \in 0..now, Deciding(q, t) PROVE Deciding(q, t)'
  <2>1. Known(relay, Horizon(t), proc[q].decided) => Known(relay', Horizon(t), proc'[q].decided)
    BY HorizonBefore, KnownStays
  <2>2. lost' \/ proc'[q].revocations = "error" \/ Known(relay', Horizon(t), proc'[q].decided)
    BY <1>7, <2>1 DEF Deciding, Settles
  <2>3. Armed(q, t)' /\ TurnJoined(q)'
    BY <1>7 DEF Deciding, Armed, TurnJoined, Fetch
  <2>4. /\ now' <= t + 2 * Timeout
        /\ At(q, "refreshing")' =>
              /\ Fetch(q, "registry")' \in {"asked", "done", "failed"}
              /\ Fetch(q, "registry")' = "asked" => proc'[q].since["registry"] <= t + Timeout
    BY <1>1, <1>7 DEF Deciding, Fetch, At
  <2> QED
    BY <2>2, <2>3, <2>4 DEF Deciding
<1>8. Phased(q)'
  BY <1>1, <1>6, <1>7 DEF FreshFor, Phased
<1> QED
  BY <1>2, <1>3, <1>4, <1>5, <1>8 DEF FreshFor

\* A step of a fetch keeps what is known of its command, given that the revocations
\* are accounted for.
LEMMA FetchStep ==
  ASSUME PrewarmTypeOK, Settles, NEW p \in Procs, NEW s \in Sources, NEW f \in FetchStates, NEW n, NEW tu, NEW td,
         Fetches(p, s, f, n, tu, td), FreshFor(p),
         Fetch(p, s) \notin {"none", "taken"},
         f \notin {"none", "taken", "asked"},
         f = "answered" => Fetch(p, s) = "asked" /\ n = proc[p].since[s],
         f \in {"answered", "local", "reading"} => s = "revocations",
         s = "turn" => Fetch(p, "turn") = "asked",
         tu = proc[p].turn \/ (s = "turn" /\ tu \in {None, now + Lifetime}),
         s = "turn" /\ f = "done" => tu \in {None, now + Lifetime},
         Heard(p)',
         \A t \in 0..now : Learns(p, t) => Learns(p, t)'
  PROVE  FreshFor(p)'
<1>1. now' = now
  BY DEF Settles
<1>2. /\ proc'[p].pc = proc[p].pc /\ proc'[p].plan = proc[p].plan
      /\ proc'[p].revocations = proc[p].revocations /\ proc'[p].iceErr = proc[p].iceErr
      /\ proc'[p].decided = proc[p].decided /\ proc'[p].turn = tu
      /\ \A r \in Sources : Fetch(p, r)' = (IF r = s THEN f ELSE Fetch(p, r))
      /\ \A r \in Sources : proc'[p].since[r] = (IF r = s THEN n ELSE proc[p].since[r])
  BY DEF Fetches, Fetch
<1>3. "registry" \in Sources /\ "turn" \in Sources /\ "revocations" \in Sources
  BY DEF Sources
<1>4. \A r \in Sources : Asked(p, r)' => Asked(p, r) /\ proc'[p].since[r] = proc[p].since[r]
  BY <1>2 DEF Asked
<1>5. Timely(p)'
  BY <1>1, <1>4 DEF FreshFor, Timely
<1>6. Plain(p)'
  BY <1>2, <1>3 DEF FreshFor, Plain
<1>7. Unstarted(p)'
  BY <1>2 DEF FreshFor, Unstarted, At
<1>8. ASSUME NEW t \in 0..now, Armed(p, t) PROVE Armed(p, t)'
  <2>1. CASE s = "turn"
    <3>1. f = "done" => tu = None \/ tu = now + Lifetime
      BY <2>1
    <3>2. t + 2 * Timeout < now + Lifetime
      BY TimesAre
    <3> QED
      BY <1>2, <1>3, <2>1, <3>1, <3>2 DEF Armed
  <2>2. CASE s # "turn"
    BY <1>2, <1>3, <1>8, <2>2 DEF Armed
  <2> QED
    BY <2>1, <2>2
<1>9. ASSUME TurnJoined(p) PROVE TurnJoined(p)'
  <2>1. s # "turn"
    BY <1>9 DEF TurnJoined
  <2> QED
    BY <1>2, <1>3, <1>9, <2>1 DEF TurnJoined
<1>10. ASSUME NEW t \in 0..now, Warm(p, t) PROVE Warm(p, t)'
  <2>1. Learns(p, t)'
    BY <1>10 DEF Warm
  <2>2. \A r \in Sources : Asked(p, r)' => proc'[p].since[r] = t
    BY <1>4, <1>10 DEF Warm, Awaits
  <2>3. \A r \in Sources : (proc'[p].plan[r] # "fresh" /\ (r = "registry" => At(p, "registry")'))
                              => Fetch(p, r)' \notin {"none", "taken"}
    BY <1>2, <1>10 DEF Warm, Awaits, At
  <2>4. proc'[p].plan["turn"] = "fresh" => Fetch(p, "turn")' = "none"
    BY <1>2, <1>3, <1>10 DEF Warm, Awaits
  <2>5. Awaits(p, t)'
    BY <1>1, <1>10, <2>2, <2>3, <2>4 DEF Warm, Awaits
  <2>6. Armed(p, t)' /\ (proc'[p].pc \in {"revocations", "resolve"} => TurnJoined(p)')
    BY <1>2, <1>8, <1>9, <1>10 DEF Warm
  <2> QED
    BY <2>1, <2>5, <2>6 DEF Warm
<1>11. ASSUME NEW t \in 0..now, Deciding(p, t) PROVE Deciding(p, t)'
  <2>1. Known(relay, Horizon(t), proc[p].decided) => Known(relay', Horizon(t), proc'[p].decided)
    BY <1>2, HorizonBefore, KnownStays
  <2>2. lost' \/ proc'[p].revocations = "error" \/ Known(relay', Horizon(t), proc'[p].decided)
    BY <1>2, <1>11, <2>1 DEF Deciding, Settles
  <2>3. Armed(p, t)' /\ TurnJoined(p)'
    BY <1>8, <1>9, <1>11 DEF Deciding
  <2>4. ASSUME At(p, "refreshing")'
        PROVE  /\ Fetch(p, "registry")' \in {"asked", "done", "failed"}
               /\ Fetch(p, "registry")' = "asked" => proc'[p].since["registry"] <= t + Timeout
    <3>1. /\ Fetch(p, "registry") \in {"asked", "done", "failed"}
          /\ Fetch(p, "registry") = "asked" => proc[p].since["registry"] <= t + Timeout
      BY <1>2, <1>11, <2>4 DEF Deciding, At
    <3>2. CASE s = "registry"
      BY <1>2, <1>3, <3>2 DEF FetchStates
    <3>3. CASE s # "registry"
      BY <1>2, <1>3, <3>1, <3>3
    <3> QED
      BY <3>2, <3>3
  <2> QED
    BY <1>1, <1>11, <2>2, <2>3, <2>4 DEF Deciding
<1>12. Phased(p)'
  BY <1>1, <1>2, <1>10, <1>11 DEF FreshFor, Phased
<1> QED
  BY <1>5, <1>6, <1>7, <1>12 DEF FreshFor

\* A fetch of the registry or of credentials is none of the revocations' business.
LEMMA OtherFetchStep ==
  ASSUME PrewarmTypeOK, Settles, NEW p \in Procs, NEW s \in {"registry", "turn"}, NEW f \in {"done", "failed"},
         NEW n, NEW tu,
         Fetches(p, s, f, n, tu, proc[p].todo), FreshFor(p),
         Fetch(p, s) \in {"asked", "answered"},
         tu = proc[p].turn \/ (s = "turn" /\ tu \in {None, now + Lifetime}),
         s = "turn" /\ f = "done" => tu \in {None, now + Lifetime}
  PROVE  FreshFor(p)'
<1>1. s \in Sources /\ f \in FetchStates /\ s # "revocations" /\ "revocations" \in Sources
  BY DEF Sources, FetchStates
<1>2. /\ proc'[p].plan = proc[p].plan
      /\ proc'[p].fetch["revocations"] = proc[p].fetch["revocations"]
      /\ proc'[p].since["revocations"] = proc[p].since["revocations"]
      /\ proc'[p].todo = proc[p].todo
      /\ proc'[p].revocations = proc[p].revocations
  BY <1>1 DEF Fetches
<1>3. Heard(p)'
  BY <1>2, HeardStays DEF FreshFor
<1>4. \A t \in 0..now : Learns(p, t) => Learns(p, t)'
  BY <1>2, LearnsStays
<1>5. s = "turn" => Fetch(p, "turn") = "asked"
  BY DEF FreshFor, Plain
<1> QED
  BY <1>1, <1>3, <1>4, <1>5, FetchStep

\* fetchRevocations from its request to its timestamp.
LEMMA RevocationsFetchStep ==
  ASSUME PrewarmTypeOK, Settles, NEW p \in Procs, NEW f \in {"answered", "local", "reading", "done", "failed"},
         NEW n, NEW td, NEW m,
         Fetches(p, "revocations", f, n, proc[p].turn, td), FreshFor(p),
         f = "answered" => /\ Fetch(p, "revocations") = "asked" /\ n = proc[p].since["revocations"]
                           /\ store' = store /\ relay' = relay /\ td = Published,
         f = "reading" => /\ Fetch(p, "revocations") \in {"answered", "local"}
                          /\ td = proc[p].todo,
         f = "local" => /\ Fetch(p, "revocations") = "reading"
                        /\ m \in store' /\ td = proc[p].todo \ {m},
         f = "done" => Fetch(p, "revocations") \in {"answered", "local"} /\ proc[p].todo = {},
         f = "failed" => Fetch(p, "revocations") \in {"asked", "answered", "reading"}
  PROVE  FreshFor(p)'
<1>1. /\ "revocations" \in Sources /\ f \in FetchStates
      /\ "revocations" # "turn"
      /\ Fetch(p, "revocations") \notin {"none", "taken"}
  BY DEF Sources, FetchStates
<1>2. /\ proc'[p].plan = proc[p].plan /\ proc'[p].revocations = proc[p].revocations
      /\ Fetch(p, "revocations")' = f
      /\ proc'[p].since["revocations"] = n
      /\ proc'[p].todo = td
      /\ now' = now
  BY <1>1 DEF Fetches, Fetch, Settles
<1>3. lost' \/ (~lost /\ store \subseteq store')
  BY DEF Settles
<1>4. f \in {"local", "reading"} => lost' \/ store \cup proc[p].todo \subseteq store' \cup td
  BY <1>3
<1>5. f = "answered" => \A u \in Int : Known(relay', u, store' \cup td)
  BY DEF Known, Published
<1>6. Heard(p)'
  <2>1. ASSUME f = "answered" PROVE Known(relay', n, store' \cup td)
    BY <1>1, <1>5, <2>1, TimesAre
  <2>2. ASSUME f \in {"local", "reading"}, ~lost' PROVE Known(relay', now - Timeout, store' \cup td)
    <3>1. Known(relay, now - Timeout, store \cup proc[p].todo)
      <4>1. CASE Fetch(p, "revocations") = "answered"
        <5>1. Known(relay, proc[p].since["revocations"], store \cup proc[p].todo)
          BY <1>3, <2>2, <4>1 DEF FreshFor, Heard
        <5>2. /\ now - Timeout \in Int /\ proc[p].since["revocations"] \in Int
              /\ now - Timeout <= proc[p].since["revocations"]
          BY <1>1, <4>1, TimesAre DEF FreshFor, Timely, Asked
        <5> QED
          BY <5>1, <5>2, KnownBefore
      <4>2. CASE Fetch(p, "revocations") \in {"local", "reading"}
        BY <1>3, <2>2, <4>2 DEF FreshFor, Heard
      <4> QED
        BY <2>2, <4>1, <4>2
    <3>2. now - Timeout \in Int /\ now - Timeout <= now
      BY TimesAre
    <3> QED
      BY <1>4, <2>2, <3>1, <3>2, KnownStays
  <2> QED
    BY <1>2, <2>1, <2>2 DEF Heard
<1>7. ASSUME NEW t \in 0..now, Learns(p, t) PROVE Learns(p, t)'
  <2> SUFFICES ASSUME ~lost' PROVE Learns(p, t)'
    BY DEF Learns
  <2>1. Known(relay, Horizon(t), store) => Known(relay', Horizon(t), store')
    BY <1>3, HorizonBefore, KnownStays
  <2>2. ASSUME f \in {"answered", "local", "reading"} PROVE Known(relay', t, store' \cup td)
    <3>1. CASE f = "answered"
      BY <1>5, <3>1, HorizonBefore
    <3>2. CASE f \in {"local", "reading"}
      <4>1. Known(relay, t, store \cup proc[p].todo)
        BY <1>3, <1>7, <3>2 DEF Learns
      <4> QED
        BY <1>4, <3>2, <4>1, HorizonBefore, KnownStays
    <3> QED
      BY <2>2, <3>1, <3>2
  <2>3. ASSUME f = "done" PROVE Known(relay', t, store')
    <3>1. Known(relay, t, store \cup proc[p].todo) /\ store \cup proc[p].todo \subseteq store'
      BY <1>3, <1>7, <2>3 DEF Learns
    <3> QED
      BY <3>1, HorizonBefore, KnownStays
  <2> QED
    BY <1>2, <1>3, <1>7, <2>1, <2>2, <2>3 DEF Learns
<1> QED
  BY <1>1, <1>6, <1>7, FetchStep

\* Stamp: the tombstones stored by now are those the relay knew a timeout ago.
LEMMA StampStep ==
  ASSUME PrewarmTypeOK, Settles, NEW p \in Procs, FreshFor(p),
         Fetch(p, "revocations") \in {"answered", "local"}, proc[p].todo = {}, cache'["revocations"] = now
  PROVE  Vouched'
<1>1. "revocations" \in Sources
  BY DEF Sources
<1>2. now - Timeout \in Int /\ now - Timeout <= now /\ now' = now
  BY TimesAre DEF Settles
<1>3. ASSUME ~lost'
      PROVE  Known(relay', now - Timeout, store')
  <2>1. ~lost /\ store \cup proc[p].todo \subseteq store'
    BY <1>3 DEF Settles
  <2>2. Known(relay, now - Timeout, store \cup proc[p].todo)
    <3>1. CASE Fetch(p, "revocations") = "answered"
      <4>1. Known(relay, proc[p].since["revocations"], store \cup proc[p].todo)
        BY <2>1, <3>1 DEF FreshFor, Heard
      <4>2. /\ proc[p].since["revocations"] \in Int
            /\ now - Timeout <= proc[p].since["revocations"]
        BY <1>1, <3>1, TimesAre DEF FreshFor, Timely, Asked
      <4> QED
        BY <1>2, <4>1, <4>2, KnownBefore
    <3>2. CASE Fetch(p, "revocations") = "local"
      BY <2>1, <3>2 DEF FreshFor, Heard
    <3> QED
      BY <3>1, <3>2
  <2> QED
    BY <1>2, <2>1, <2>2, KnownStays
<1> QED
  BY <1>2, <1>3, TimesAre DEF Vouched

\* When one command steps, what is known of every other stays known.
LEMMA OthersStay ==
  ASSUME PrewarmTypeOK, Settles, NEW p \in Procs, Steps(p), FreshFor(p)', \A q \in Procs : FreshFor(q)
  PROVE  \A q \in Procs : FreshFor(q)'
<1> SUFFICES ASSUME NEW q \in Procs, q # p PROVE FreshFor(q)'
  OBVIOUS
<1>1. proc'[q] = proc[q]
  BY DEF Steps
<1> QED
  BY <1>1, BystanderStays

\* The steps that join answers touch at most the fetch of the registry.
LEMMA FetchesStay ==
  ASSUME PrewarmTypeOK, Settles, NEW p \in Procs, FreshFor(p),
         proc'[p].todo = proc[p].todo,
         \A r \in Sources \ {"registry"} : /\ proc'[p].fetch[r] = proc[p].fetch[r]
                                           /\ proc'[p].since[r] = proc[p].since[r],
         \/ /\ proc'[p].fetch["registry"] = proc[p].fetch["registry"]
            /\ proc'[p].since["registry"] = proc[p].since["registry"]
         \/ proc'[p].fetch["registry"] = "taken"
         \/ proc'[p].fetch["registry"] = "asked" /\ proc'[p].since["registry"] = now
  PROVE  Timely(p)' /\ Heard(p)' /\ Plain(p)'
<1>1. "registry" \in Sources /\ "turn" \in Sources \ {"registry"} /\ "revocations" \in Sources \ {"registry"}
  BY DEF Sources
<1>2. now' = now
  BY DEF Settles
<1>3. Heard(p)'
  BY <1>1, HeardStays DEF FreshFor
<1>4. Plain(p)'
  BY <1>1 DEF FreshFor, Plain, Fetch
<1>5. ASSUME NEW r \in Sources, Asked(p, r)'
      PROVE  proc'[p].since[r] <= now' /\ now' <= proc'[p].since[r] + Timeout
  <2>1. CASE r # "registry"
    BY <1>2, <1>5, <2>1 DEF FreshFor, Timely, Asked, Fetch
  <2>2. CASE r = "registry" /\ proc'[p].fetch[r] = proc[p].fetch[r] /\ proc'[p].since[r] = proc[p].since[r]
    BY <1>2, <1>5, <2>2 DEF FreshFor, Timely, Asked, Fetch
  <2>3. CASE r = "registry" /\ proc'[p].since[r] = now
    BY <1>2, <2>3, TimesAre
  <2> QED
    BY <1>5, <2>1, <2>2, <2>3 DEF Asked, Fetch
<1> QED
  BY <1>3, <1>4, <1>5 DEF Timely

\* Run joins the registry, the credentials and the revocations: the time it began is
\* the same, and so is what it may count on.
LEMMA JoinRegistryStep ==
  ASSUME PrewarmTypeOK, Settles, NEW p \in Procs, FreshFor(p), JoinRegistry(p)
  PROVE  FreshFor(p)'
<1>1. /\ proc'[p].pc = "turn"
      /\ proc'[p].plan = proc[p].plan /\ proc'[p].since = proc[p].since
      /\ proc'[p].turn = proc[p].turn /\ proc'[p].todo = proc[p].todo
      /\ proc'[p].revocations = proc[p].revocations
      /\ \A r \in Sources \ {"registry"} : proc'[p].fetch[r] = proc[p].fetch[r]
      /\ \/ proc'[p].fetch["registry"] = proc[p].fetch["registry"]
         \/ proc'[p].fetch["registry"] = "taken"
  BY JoinRegistryEffect
<1>2. proc[p].pc = "registry"
  BY DEF JoinRegistry, At
<1>3. Timely(p)' /\ Heard(p)' /\ Plain(p)'
  BY <1>1, FetchesStay
<1>4. "registry" \in Sources /\ "turn" \in Sources \ {"registry"} /\ "revocations" \in Sources \ {"registry"}
  BY DEF Sources
<1>5. now' = now
  BY DEF Settles
<1>6. PICK t \in 0..now : Warm(p, t)
  BY <1>2 DEF FreshFor, Phased
<1>7. Learns(p, t)'
  BY <1>1, <1>4, <1>6, LearnsStays DEF Warm
<1>8. Awaits(p, t)'
  <2>1. \A r \in Sources : Asked(p, r)' => proc'[p].since[r] = t
    BY <1>1, <1>4, <1>6 DEF Warm, Awaits, Asked, Fetch
  <2>2. \A r \in Sources \ {"registry"} : proc'[p].plan[r] # "fresh" => Fetch(p, r)' \notin {"none", "taken"}
    BY <1>1, <1>4, <1>6 DEF Warm, Awaits, Fetch
  <2>3. proc'[p].plan["turn"] = "fresh" => Fetch(p, "turn")' = "none"
    BY <1>1, <1>4, <1>6 DEF Warm, Awaits, Fetch
  <2>4. ~At(p, "registry")'
    BY <1>1 DEF At
  <2> QED
    BY <1>5, <1>6, <2>1, <2>2, <2>3, <2>4 DEF Warm, Awaits
<1>9. Armed(p, t)'
  BY <1>1, <1>4, <1>6 DEF Warm, Armed, Fetch
<1>10. Warm(p, t)'
  BY <1>1, <1>7, <1>8, <1>9 DEF Warm
<1>11. Unstarted(p)' /\ Phased(p)'
  BY <1>1, <1>5, <1>10 DEF Unstarted, Phased, At
<1> QED
  BY <1>3, <1>11 DEF FreshFor

\* The join of the credentials: they are fresh or the error is kept.
LEMMA JoinTurnStep ==
  ASSUME PrewarmTypeOK, Settles, NEW p \in Procs, FreshFor(p), JoinTurn(p)
  PROVE  FreshFor(p)'
<1>1. /\ proc'[p].fetch = proc[p].fetch /\ proc'[p].since = proc[p].since
      /\ proc'[p].pc = "revocations"
      /\ proc'[p].plan = proc[p].plan
      /\ proc'[p].todo = proc[p].todo
      /\ proc'[p].revocations = proc[p].revocations
      /\ proc'[p].turn = None \/ proc'[p].turn = proc[p].turn
      /\ proc[p].fetch["turn"] = "failed" => proc'[p].iceErr
  BY JoinTurnEffect DEF Carries
<1>2. proc[p].pc = "turn" /\ (proc[p].plan["turn"] # "fresh" => proc[p].fetch["turn"] \in {"done", "failed"})
  BY DEF JoinTurn, At, Landed, Fetch
<1>3. Timely(p)' /\ Heard(p)' /\ Plain(p)'
  BY <1>1, FetchesStay
<1>4. "registry" \in Sources /\ "turn" \in Sources /\ "revocations" \in Sources
  BY DEF Sources
<1>5. now' = now
  BY DEF Settles
<1>6. PICK t \in 0..now : Warm(p, t)
  BY <1>2 DEF FreshFor, Phased
<1>7. Learns(p, t)'
  BY <1>1, <1>4, <1>6, LearnsStays DEF Warm
<1>8. Awaits(p, t)'
  BY <1>1, <1>2, <1>5, <1>6 DEF Warm, Awaits, Asked, Fetch, At
<1>9. Armed(p, t)'
  BY <1>1, <1>4, <1>6 DEF Warm, Armed, Fetch
<1>10. TurnJoined(p)'
  BY <1>1, <1>2, <1>6 DEF Warm, Awaits, TurnJoined, Fetch
<1>11. Warm(p, t)'
  BY <1>7, <1>8, <1>9, <1>10 DEF Warm
<1>12. Unstarted(p)' /\ Phased(p)'
  BY <1>1, <1>5, <1>11 DEF Unstarted, Phased, At
<1> QED
  BY <1>3, <1>12 DEF FreshFor

\* The join of the revocations: unless it ends in an error, they are young enough.
LEMMA JoinRevocationsStep ==
  ASSUME PrewarmTypeOK, Settles, NEW p \in Procs, FreshFor(p), JoinRevocations(p), store' = store, relay' = relay,
         lost' = lost
  PROVE  FreshFor(p)'
<1>1. /\ proc'[p].fetch = proc[p].fetch /\ proc'[p].since = proc[p].since
      /\ proc'[p].pc = "resolve"
      /\ proc'[p].plan = proc[p].plan
      /\ proc'[p].todo = proc[p].todo
      /\ proc'[p].turn = proc[p].turn
      /\ proc'[p].iceErr = proc[p].iceErr
      /\ \/ proc'[p].revocations = "error"
         \/ proc[p].fetch["revocations"] = "done"
         \/ proc[p].plan["revocations"] # "fetch"
  BY JoinRevocationsEffect DEF Carries
<1>2. proc[p].pc = "revocations"
  BY DEF JoinRevocations, At
<1>3. Timely(p)' /\ Heard(p)' /\ Plain(p)'
  BY <1>1, FetchesStay
<1>4. now' = now
  BY DEF Settles
<1>5. PICK t \in 0..now : Warm(p, t)
  BY <1>2 DEF FreshFor, Phased
<1>6. Known(relay, t, store) => Known(relay, Horizon(t), store)
  BY HorizonBefore, KnownBefore
<1>7. Learns(p, t)'
  BY <1>1, <1>5, <1>6 DEF Warm, Learns, Fetch
<1>8. Awaits(p, t)'
  BY <1>1, <1>2, <1>4, <1>5 DEF Warm, Awaits, Asked, Fetch, At
<1>9. Armed(p, t)' /\ TurnJoined(p)'
  BY <1>1, <1>2, <1>5 DEF Warm, Armed, TurnJoined, Fetch
<1>10. Warm(p, t)'
  BY <1>7, <1>8, <1>9 DEF Warm
<1>11. Unstarted(p)' /\ Phased(p)'
  BY <1>1, <1>4, <1>10 DEF Unstarted, Phased, At
<1> QED
  BY <1>3, <1>11 DEF FreshFor

\* resolveMachinesWarm decides on the tombstones stored within a timeout of Run.
LEMMA ResolveStep ==
  ASSUME PrewarmTypeOK, Settles, NEW p \in Procs, FreshFor(p), NEW hit \in BOOLEAN, Resolve(p, hit),
         relay' = relay, lost' = lost
  PROVE  FreshFor(p)'
<1>1. /\ proc'[p].todo = proc[p].todo
      /\ \A r \in Sources \ {"registry"} : /\ proc'[p].fetch[r] = proc[p].fetch[r]
                                           /\ proc'[p].since[r] = proc[p].since[r]
      /\ \/ /\ proc'[p].fetch["registry"] = proc[p].fetch["registry"]
            /\ proc'[p].since["registry"] = proc[p].since["registry"]
            /\ proc'[p].pc = "refreshing" => proc[p].fetch["registry"] \notin {"none", "taken"}
         \/ proc'[p].fetch["registry"] = "asked" /\ proc'[p].since["registry"] = now
      /\ proc'[p].pc \in {"dialing", "refreshing", "unknown"}
      /\ proc'[p].pc # "unknown" => /\ proc'[p].decided = store
                                    /\ proc'[p].turn = proc[p].turn
                                    /\ proc'[p].iceErr = proc[p].iceErr
                                    /\ proc'[p].revocations = proc[p].revocations
  BY ResolveEffect
<1>2. proc[p].pc = "resolve"
  BY DEF Resolve, At
<1>3. Timely(p)' /\ Heard(p)' /\ Plain(p)'
  BY <1>1, FetchesStay
<1>4. now' = now
  BY DEF Settles
<1>5. PICK t \in 0..now : Warm(p, t)
  BY <1>2 DEF FreshFor, Phased
<1>6. "registry" \in Sources /\ "turn" \in Sources \ {"registry"} /\ "revocations" \in Sources \ {"registry"}
  BY DEF Sources
<1>7. ASSUME proc'[p].pc # "unknown" PROVE Deciding(p, t)'
  <2>1. Armed(p, t)' /\ TurnJoined(p)'
    BY <1>1, <1>2, <1>5, <1>6, <1>7 DEF Warm, Armed, TurnJoined, Fetch
  <2>2. lost' \/ proc'[p].revocations = "error" \/ Known(relay', Horizon(t), proc'[p].decided)
    BY <1>1, <1>5, <1>7 DEF Warm, Learns
  <2>3. now <= t + Timeout /\ now' <= t + 2 * Timeout
    BY <1>4, <1>5, TimesAre, HorizonBefore DEF Warm, Awaits
  <2>4. ASSUME proc'[p].pc = "refreshing"
        PROVE  /\ Fetch(p, "registry")' \in {"asked", "done", "failed"}
               /\ Fetch(p, "registry")' = "asked" => proc'[p].since["registry"] <= t + Timeout
    <3>1. CASE proc'[p].fetch["registry"] = "asked" /\ proc'[p].since["registry"] = now
      BY <2>3, <3>1 DEF Fetch
    <3>2. CASE /\ proc'[p].fetch["registry"] = proc[p].fetch["registry"]
               /\ proc'[p].since["registry"] = proc[p].since["registry"]
               /\ proc[p].fetch["registry"] \notin {"none", "taken"}
      <4>1. proc[p].fetch["registry"] \in FetchStates \ {"none", "taken", "answered", "local", "reading"}
        BY <1>6, <3>2 DEF PrewarmTypeOK, Commands, FetchStates, FreshFor, Plain, Fetch
      <4>2. proc[p].fetch["registry"] = "asked" => proc[p].since["registry"] = t
        BY <1>5, <1>6 DEF Warm, Awaits, Asked, Fetch
      <4>3. t <= t + Timeout
        BY TimesAre, HorizonBefore
      <4> QED
        BY <3>2, <4>1, <4>2, <4>3 DEF FetchStates, Fetch
    <3> QED
      BY <1>1, <2>4, <3>1, <3>2
  <2> QED
    BY <2>1, <2>2, <2>3, <2>4 DEF Deciding, At
<1>8. Unstarted(p)' /\ Phased(p)'
  BY <1>1, <1>4, <1>7 DEF Unstarted, Phased, At
<1> QED
  BY <1>3, <1>8 DEF FreshFor

\* The live registry question takes at most one timeout more.
LEMMA RefreshedStep ==
  ASSUME PrewarmTypeOK, Settles, NEW p \in Procs, FreshFor(p), NEW hit \in BOOLEAN, Refreshed(p, hit),
         relay' = relay, lost' = lost
  PROVE  FreshFor(p)'
<1>1. /\ proc'[p].fetch = proc[p].fetch /\ proc'[p].since = proc[p].since
      /\ proc'[p].todo = proc[p].todo
      /\ proc'[p].pc \in {"dialing", "unknown"}
      /\ proc'[p].pc = "dialing" => /\ proc'[p].decided = proc[p].decided
                                    /\ proc'[p].turn = proc[p].turn
                                    /\ proc'[p].iceErr = proc[p].iceErr
                                    /\ proc'[p].revocations = proc[p].revocations
  BY RefreshedEffect DEF Carries
<1>2. proc[p].pc = "refreshing"
  BY DEF Refreshed, At
<1>3. Timely(p)' /\ Heard(p)' /\ Plain(p)'
  BY <1>1, FetchesStay
<1>4. now' = now
  BY DEF Settles
<1>5. PICK t \in 0..now : Deciding(p, t)
  BY <1>2 DEF FreshFor, Phased
<1>6. ASSUME proc'[p].pc = "dialing" PROVE Deciding(p, t)'
  BY <1>1, <1>4, <1>5, <1>6 DEF Deciding, Armed, TurnJoined, Fetch, At
<1>7. Unstarted(p)' /\ Phased(p)'
  BY <1>1, <1>4, <1>6 DEF Unstarted, Phased, At
<1> QED
  BY <1>3, <1>7 DEF FreshFor

\* A step that ends an attach, or is one of a machine revoke.
LEMMA LeavesStep ==
  ASSUME PrewarmTypeOK, Settles, NEW p \in Procs, FreshFor(p), Carries(p),
         proc'[p].todo = proc[p].todo \/ proc[p].pc = "idle",
         proc'[p].pc \notin {"idle", "registry", "turn", "revocations", "resolve", "refreshing", "dialing"}
  PROVE  FreshFor(p)'
<1>1. proc'[p].fetch = proc[p].fetch /\ proc'[p].since = proc[p].since /\ now' = now
  BY DEF Carries, Settles
<1>2. Timely(p)' /\ Plain(p)'
  BY <1>1 DEF FreshFor, Timely, Plain, Asked, Fetch
<1>3. Heard(p)'
  <2>1. CASE proc'[p].todo = proc[p].todo
    BY <1>1, <2>1, HeardStays DEF FreshFor
  <2>2. CASE proc[p].pc = "idle"
    BY <1>1, <2>2 DEF FreshFor, Unstarted, Heard, At, Fetch, Sources
  <2> QED
    BY <2>1, <2>2
<1>4. Unstarted(p)' /\ Phased(p)'
  BY DEF Unstarted, Phased, At
<1> QED
  BY <1>2, <1>3, <1>4 DEF FreshFor

\* Run: what it plans to serve from the caches is as young as the plan claims.
LEMMA RunStep ==
  ASSUME PrewarmTypeOK, Vouched, NEW p \in Procs, FreshFor(p), NEW readable \in BOOLEAN, Run(p, readable)
  PROVE  FreshFor(p)'
<1>1. /\ proc[p].pc = "idle" /\ proc'[p].pc = "registry"
      /\ proc'[p].plan["revocations"] = DirectoryPlan(cache["revocations"], now)
      /\ proc'[p].plan["turn"] = IF p \in Dialers THEN TurnPlan(cache["turn"], expiry, now) ELSE "fresh"
      /\ \A s \in Sources : /\ proc'[p].fetch[s] = IF proc'[p].plan[s] = "fresh" THEN "none" ELSE "asked"
                            /\ proc'[p].since[s] = IF proc'[p].plan[s] = "fresh" THEN 0 ELSE now
      /\ proc'[p].turn = IF p \in Dialers /\ cache["turn"] # None THEN expiry ELSE None
      /\ proc'[p].revocations = proc[p].revocations
      /\ proc'[p].iceErr = proc[p].iceErr
  BY RunEffect
<1>2. now' = now /\ relay' = relay /\ store' = store /\ lost' = lost
  BY DEF Run
<1>3. "registry" \in Sources /\ "turn" \in Sources /\ "revocations" \in Sources
  BY DEF Sources
<1>4. proc[p].revocations = "error"
  BY <1>1 DEF FreshFor, Unstarted, At
<1>5. \A s \in Sources : Asked(p, s)' => proc'[p].since[s] = now
  BY <1>1 DEF Asked, Fetch
<1>6. Timely(p)'
  BY <1>2, <1>5, TimesAre DEF Timely
<1>7. Heard(p)' /\ Plain(p)'
  BY <1>1, <1>3 DEF Heard, Plain, Fetch
<1>8. Awaits(p, now)'
  <2>1. \A s \in Sources : (proc'[p].plan[s] # "fresh") => Fetch(p, s)' \notin {"none", "taken"}
    BY <1>1 DEF Fetch
  <2>2. proc'[p].plan["turn"] = "fresh" => Fetch(p, "turn")' = "none"
    BY <1>1, <1>3 DEF Fetch
  <2>3. now' <= now' + Timeout
    BY <1>2, TimesAre
  <2> QED
    BY <1>2, <1>5, <2>1, <2>2, <2>3 DEF Awaits
<1>9. Armed(p, now)'
  <2> SUFFICES ASSUME proc'[p].turn # None, Fetch(p, "turn")' \in {"none", "done"}
               PROVE  now + 2 * Timeout < proc'[p].turn
    BY <1>2 DEF Armed
  <2>1. p \in Dialers /\ cache["turn"] # None /\ proc'[p].turn = expiry /\ expiry # None
    BY <1>1
  <2>2. TurnPlan(cache["turn"], expiry, now) = "fresh"
    BY <1>1, <1>3, <2>1 DEF Fetch
  <2>3. expiry \in Int /\ ~(now >= expiry - Margin)
    BY <2>1, <2>2, TimesAre DEF TurnPlan
  <2> QED
    BY <2>1, <2>3, TimesAre
<1>10. Learns(p, now)'
  <2>1. ASSUME ~lost, proc'[p].plan["revocations"] # "fetch"
        PROVE  Known(relay, Horizon(now), store)
    <3>1. /\ cache["revocations"] # None /\ cache["revocations"] \in Int
          /\ now - cache["revocations"] < Ceiling
      BY <1>1, <1>3, <2>1, TimesAre DEF DirectoryPlan
    <3>2. Known(relay, cache["revocations"] - Timeout, store)
      BY <2>1, <3>1 DEF Vouched
    <3>3. /\ Horizon(now) \in Int /\ cache["revocations"] - Timeout \in Int
          /\ Horizon(now) <= cache["revocations"] - Timeout
      BY <3>1, TimesAre DEF Horizon
    <3> QED
      BY <3>2, <3>3, KnownBefore
  <2>2. Fetch(p, "revocations")' \in {"none", "asked"}
    BY <1>1, <1>3 DEF Fetch
  <2>3. Horizon(now)' = Horizon(now)
    BY <1>2 DEF Horizon
  <2> QED
    BY <1>1, <1>2, <1>4, <2>1, <2>2, <2>3 DEF Learns
<1>11. Warm(p, now)'
  BY <1>1, <1>8, <1>9, <1>10 DEF Warm
<1>12. \E t \in 0..now' : Warm(p, t)'
  BY <1>2, <1>11, TimesAre
<1>13. Unstarted(p)' /\ Phased(p)'
  BY <1>1, <1>12 DEF Unstarted, Phased, At
<1> QED
  BY <1>6, <1>7, <1>13 DEF FreshFor

\* Time passes only while the commands wait, and no wait is longer than a timeout.
LEMMA TickStep ==
  ASSUME PrewarmTypeOK, Vouched, \A p \in Procs : FreshFor(p), Tick
  PROVE  Vouched' /\ \A p \in Procs : FreshFor(p)'
<1>1. /\ now' = now + 1 /\ relay' = relay /\ store' = store /\ cache' = cache
      /\ proc' = proc /\ lost' = lost
  BY DEF Tick
<1>2. Vouched'
  BY <1>1, TimesAre DEF Vouched, Sources
<1>3. ASSUME NEW p \in Procs PROVE FreshFor(p)'
  <2>1. AtRest(p) /\ \A s \in Sources : /\ Asked(p, s) => now < proc[p].since[s] + Timeout
                                        /\ Fetch(p, s) \notin {"reading", "local"}
    BY DEF Tick, Asked
  <2>2. FreshFor(p)
    OBVIOUS
  <2>3. Timely(p)'
    BY <1>1, <2>1, <2>2, TimesAre DEF FreshFor, Timely, Asked, Fetch
  <2>4. Heard(p)'
    BY <1>1, <2>1, <2>2 DEF FreshFor, Heard, Fetch, Sources
  <2>5. Plain(p)' /\ Unstarted(p)'
    BY <1>1, <2>2 DEF FreshFor, Plain, Unstarted, Fetch, At
  <2>6. ASSUME NEW t \in 0..now, Warm(p, t),
               proc[p].pc \in {"registry", "turn", "revocations", "resolve"}
        PROVE  Warm(p, t)'
    <3>1. PICK s \in Sources :
             At(p, s) /\ ~Landed(p, s) /\ proc[p].plan[s] \in (IF s = "turn" THEN {"stale", "fetch"} ELSE {"fetch"})
      BY <2>1, <2>6 DEF AtRest, Ended, At
    <3>2. Fetch(p, s) \notin {"none", "taken"}
      BY <2>6, <3>1 DEF Warm, Awaits
    <3>3. Fetch(p, s) \in FetchStates
      BY DEF PrewarmTypeOK, Commands, FetchStates, Fetch
    <3>4. Asked(p, s)
      BY <2>1, <3>1, <3>2, <3>3 DEF Asked, Landed, FetchStates
    <3>5. now < t + Timeout
      BY <2>1, <2>6, <3>4 DEF Warm, Awaits
    <3>6. Awaits(p, t)'
      BY <1>1, <2>6, <3>5, TimesAre, HorizonBefore DEF Warm, Awaits, Asked, Fetch, At
    <3>7. Armed(p, t)' /\ (proc'[p].pc \in {"revocations", "resolve"} => TurnJoined(p)')
      BY <1>1, <2>6 DEF Warm, Armed, TurnJoined, Fetch
    <3>8. Learns(p, t)'
      BY <1>1, <2>6 DEF Warm, Learns, Fetch
    <3> QED
      BY <3>6, <3>7, <3>8 DEF Warm
  <2>7. ASSUME NEW t \in 0..now, Deciding(p, t), proc[p].pc \in {"refreshing", "dialing"}
        PROVE  Deciding(p, t)'
    <3>1. proc[p].pc = "refreshing" /\ ~Landed(p, "registry")
      BY <2>1, <2>7 DEF AtRest, Ended, At, Sources
    <3>2. Fetch(p, "registry") = "asked" /\ proc[p].since["registry"] <= t + Timeout
      BY <2>7, <3>1 DEF Deciding, At, Landed
    <3>3. now < proc[p].since["registry"] + Timeout
      BY <2>1, <3>2 DEF Asked, Sources
    <3>4. now' <= t + 2 * Timeout
      BY <1>1, <3>2, <3>3, TimesAre, HorizonBefore DEF Sources
    <3>5. Armed(p, t)' /\ TurnJoined(p)'
      BY <1>1, <2>7 DEF Deciding, Armed, TurnJoined, Fetch
    <3> QED
      BY <1>1, <2>7, <3>4, <3>5 DEF Deciding, Fetch, At
  <2>8. \A t \in 0..now : t \in 0..now'
    BY <1>1, TimesAre
  <2>9. Phased(p)'
    BY <1>1, <2>2, <2>6, <2>7, <2>8 DEF FreshFor, Phased
  <2> QED
    BY <2>3, <2>4, <2>5, <2>9 DEF FreshFor
<1> QED
  BY <1>2, <1>3

\* Faults are counted up to their bound.
LEMMA FaultCounted ==
  ASSUME NEW b, Fault(b), faults \in 0..MaxFaults
  PROVE  faults' \in 0..MaxFaults
BY PrewarmAssumption DEF Fault

\* A step of a command keeps the types and, the clock apart, settles.
LEMMA CommandTypes ==
  ASSUME PrewarmTypeOK, NEW p \in Procs, Steps(p), now' = now,
         faults' = faults \/ \E b : Fault(b),
         relay' = relay \/ \E hit \in BOOLEAN : Post(p, hit),
         store' \subseteq Machines,
         \A s \in Sources : cache'[s] \in {cache[s], now}, cache' \in [Sources -> Times \cup {None}],
         expiry' \in {expiry, None, now + Lifetime},
         lost' \in BOOLEAN
  PROVE  PrewarmTypeOK'
<1>1. relay' \in [Machines -> Times \cup {None, -Timeout}]
  BY DEF PrewarmTypeOK, Post
<1>2. expiry' \in Expiries \cup {None}
  BY PrewarmAssumption DEF PrewarmTypeOK, Times, Expiries
<1>3. faults' \in 0..MaxFaults
  BY FaultCounted DEF PrewarmTypeOK
<1> QED
  BY <1>1, <1>2, <1>3 DEF PrewarmTypeOK, Steps

\* Writing a cache timestamp touches no other.
LEMMA CacheTyped ==
  ASSUME PrewarmTypeOK, NEW w, NEW s \in Sources,
         cache' = IF w THEN [cache EXCEPT ![s] = now] ELSE cache
  PROVE  /\ cache' \in [Sources -> Times \cup {None}]
         /\ \A r \in Sources : cache'[r] \in {cache[r], now}
         /\ \A r \in Sources \ {s} : cache'[r] = cache[r]
BY DEF PrewarmTypeOK

\* The initial states satisfy the invariant.
LEMMA PrewarmStart == PrewarmInit => PrewarmInv
<1> SUFFICES ASSUME PrewarmInit PROVE PrewarmInv
  OBVIOUS
<1>1. PrewarmTypeOK
  <2>1. 0 \in Times /\ Lifetime \in Expiries
    BY PrewarmAssumption DEF Times, Expiries
  <2>2. cache \in [Sources -> Times \cup {None}] /\ expiry \in Expiries \cup {None}
    BY <2>1 DEF PrewarmInit
  <2>3. proc \in [Procs -> Commands]
    <3> DEFINE c == [pc |-> "idle", plan |-> NoPlan, fetch |-> [s \in Sources |-> "none"],
                     since |-> [s \in Sources |-> 0], registry |-> "error",
                     revocations |-> "error", turn |-> None, iceErr |-> FALSE,
                     todo |-> {}, read |-> {}, decided |-> {}]
    <3>1. c \in Commands
      BY <2>1 DEF Commands, NoPlan
    <3>2. proc = [p \in Procs |-> c]
      BY DEF PrewarmInit
    <3> HIDE DEF c
    <3> QED
      BY <3>1, <3>2
  <2>4. relay \in [Machines -> Times \cup {None, -Timeout}] /\ now \in Times
    BY <2>1 DEF PrewarmInit
  <2>5. store \subseteq Machines /\ lost \in BOOLEAN
    BY DEF PrewarmInit
  <2>6. faults \in 0..MaxFaults
    BY PrewarmAssumption DEF PrewarmInit
  <2> QED
    BY <2>2, <2>3, <2>4, <2>5, <2>6 DEF PrewarmTypeOK
<1>2. Vouched
  <2>1. "revocations" \in Sources /\ (cache["revocations"] # None => cache["revocations"] = 0) /\ now = 0
    BY DEF PrewarmInit, Sources
  <2>2. Known(relay, 0 - Timeout, store)
    BY PrewarmAssumption DEF PrewarmInit, Known
  <2> QED
    BY <2>1, <2>2 DEF Vouched
<1>3. ASSUME NEW p \in Procs PROVE FreshFor(p)
  <2>1. /\ proc[p].pc = "idle" /\ \A s \in Sources : proc[p].fetch[s] = "none"
        /\ proc[p].revocations = "error" /\ ~proc[p].iceErr
    BY DEF PrewarmInit
  <2> QED
    BY <2>1 DEF FreshFor, Timely, Heard, Plain, Unstarted, Phased, Asked, Fetch, At, Sources
<1> QED
  BY <1>1, <1>2, <1>3 DEF PrewarmInv

\* The steps of one command.
CommandNext(p) ==
    \/ \E readable \in BOOLEAN : Run(p, readable)
    \/ RelayAnswers(p) \/ \E s \in Sources : FetchFails(p, s)
    \/ \E w \in BOOLEAN : RegistryLands(p, w) \/ Stamp(p, w)
    \/ \E w \in BOOLEAN, exp \in {None, now + Lifetime} : TurnLands(p, w, exp)
    \/ RecordRead(p) \/ RecordFails(p)
    \/ \E m \in Machines : RecordWrite(p, m) \/ Retire(p, m)
    \/ JoinRegistry(p) \/ JoinTurn(p) \/ JoinRevocations(p)
    \/ \E hit \in BOOLEAN : Resolve(p, hit) \/ Refreshed(p, hit) \/ Post(p, hit)
    \/ \E again \in BOOLEAN, got \in {None, now + Lifetime} : Dial(p, again, got)
    \/ RetireRecords(p) \/ RetireNotRecorded(p)

\* A step that touches neither caches nor tombstones keeps the rest of the state in place.
Still == UNCHANGED <<now, relay, store, cache, expiry, lost>>

\* Such a step settles.
LEMMA StillSettles == ASSUME Still PROVE Settles
BY DEF Still, Settles

\* What is left of the invariant once the acting command is dealt with.
LEMMA StillStep ==
  ASSUME PrewarmInv, NEW p \in Procs, Still, faults' = faults \/ \E b : Fault(b), Steps(p), FreshFor(p)'
  PROVE  PrewarmInv'
<1>1. Settles
  BY StillSettles
<1>2. PrewarmTypeOK /\ Vouched /\ \A q \in Procs : FreshFor(q)
  BY DEF PrewarmInv
<1>3. /\ now' = now /\ relay' = relay /\ store' = store /\ cache' = cache /\ expiry' = expiry /\ lost' = lost
  BY DEF Still
<1>4. \A q \in Procs : FreshFor(q)'
  BY <1>1, <1>2, OthersStay
<1>5. Vouched'
  BY <1>1, <1>2, <1>3, VouchedStays
<1>6. PrewarmTypeOK'
  <2>1. /\ store' \subseteq Machines /\ cache' \in [Sources -> Times \cup {None}] /\ lost' \in BOOLEAN
        /\ \A s \in Sources : cache'[s] \in {cache[s], now}
        /\ expiry' \in {expiry, None, now + Lifetime}
    BY <1>2, <1>3 DEF PrewarmTypeOK
  <2> QED
    BY <1>2, <1>3, <2>1, CommandTypes
<1> QED
  BY <1>4, <1>5, <1>6 DEF PrewarmInv

\* The joins, the resolution of the name and the dial.
LEMMA AttachKeepsFresh ==
  ASSUME PrewarmInv, NEW p \in Procs
  PROVE  /\ \A readable \in BOOLEAN : Run(p, readable) => PrewarmInv'
         /\ JoinRegistry(p) => PrewarmInv'
         /\ JoinTurn(p) => PrewarmInv'
         /\ JoinRevocations(p) => PrewarmInv'
         /\ \A hit \in BOOLEAN : Resolve(p, hit) => PrewarmInv'
         /\ \A hit \in BOOLEAN : Refreshed(p, hit) => PrewarmInv'
         /\ \A again \in BOOLEAN, got \in {None, now + Lifetime} : Dial(p, again, got) => PrewarmInv'
<1>0. PrewarmTypeOK /\ Vouched /\ FreshFor(p)
  BY DEF PrewarmInv
<1>1. ASSUME NEW readable \in BOOLEAN, Run(p, readable) PROVE PrewarmInv'
  <2>1. Still /\ \E b : Fault(b)
    BY <1>1 DEF Run, Still
  <2>2. Steps(p) /\ FreshFor(p)'
    BY <1>0, <1>1, RunEffect, RunStep
  <2> QED
    BY <2>1, <2>2, StillStep
<1>2. ASSUME JoinRegistry(p) PROVE PrewarmInv'
  <2>1. Still /\ faults' = faults
    BY <1>2 DEF JoinRegistry, Still
  <2>2. Steps(p) /\ FreshFor(p)'
    BY <1>0, <1>2, <2>1, StillSettles, JoinRegistryEffect, JoinRegistryStep
  <2> QED
    BY <2>1, <2>2, StillStep
<1>3. ASSUME JoinTurn(p) PROVE PrewarmInv'
  <2>1. Still /\ faults' = faults
    BY <1>3 DEF JoinTurn, Still
  <2>2. Steps(p) /\ FreshFor(p)'
    BY <1>0, <1>3, <2>1, StillSettles, JoinTurnEffect, JoinTurnStep DEF Carries
  <2> QED
    BY <2>1, <2>2, StillStep
<1>4. ASSUME JoinRevocations(p) PROVE PrewarmInv'
  <2>1. Still /\ faults' = faults
    BY <1>4 DEF JoinRevocations, Still
  <2>2. Steps(p)
    BY <1>0, <1>4, JoinRevocationsEffect DEF Carries
  <2>3. FreshFor(p)'
    BY <1>0, <1>4, <2>1, StillSettles, JoinRevocationsStep DEF Still
  <2> QED
    BY <2>1, <2>2, <2>3, StillStep
<1>5. ASSUME NEW hit \in BOOLEAN, Resolve(p, hit) PROVE PrewarmInv'
  <2>1. Still /\ faults' = faults
    BY <1>5 DEF Resolve, Still
  <2>2. Steps(p)
    BY <1>0, <1>5, ResolveEffect
  <2>3. FreshFor(p)'
    BY <1>0, <1>5, <2>1, StillSettles, ResolveStep DEF Still
  <2> QED
    BY <2>1, <2>2, <2>3, StillStep
<1>6. ASSUME NEW hit \in BOOLEAN, Refreshed(p, hit) PROVE PrewarmInv'
  <2>1. Still /\ faults' = faults
    BY <1>6 DEF Refreshed, Still
  <2>2. Steps(p)
    BY <1>0, <1>6, RefreshedEffect DEF Carries
  <2>3. FreshFor(p)'
    BY <1>0, <1>6, <2>1, StillSettles, RefreshedStep DEF Still
  <2> QED
    BY <2>1, <2>2, <2>3, StillStep
<1>7. ASSUME NEW again \in BOOLEAN, NEW got \in {None, now + Lifetime}, Dial(p, again, got) PROVE PrewarmInv'
  <2>1. Still /\ \E b : Fault(b)
    BY <1>7 DEF Dial, Still
  <2>2. Carries(p) /\ proc'[p].todo = proc[p].todo /\ proc'[p].pc = "attached"
    BY <1>0, <1>7, DialEffect
  <2>3. FreshFor(p)' /\ Steps(p)
    BY <1>0, <2>1, <2>2, StillSettles, LeavesStep DEF Carries
  <2> QED
    BY <2>1, <2>3, StillStep
<1> QED
  BY <1>1, <1>2, <1>3, <1>4, <1>5, <1>6, <1>7

\* The answers of the relay and the work on the files they cause.
LEMMA FetchesKeepFresh ==
  ASSUME PrewarmInv, NEW p \in Procs
  PROVE  /\ RelayAnswers(p) => PrewarmInv'
         /\ \A s \in Sources : FetchFails(p, s) => PrewarmInv'
         /\ RecordRead(p) => PrewarmInv'
         /\ RecordFails(p) => PrewarmInv'
<1>0. PrewarmTypeOK /\ Vouched /\ FreshFor(p)
  BY DEF PrewarmInv
<1>1. ASSUME RelayAnswers(p) PROVE PrewarmInv'
  <2>1. Still /\ faults' = faults /\ Fetch(p, "revocations") = "asked"
    BY <1>1 DEF RelayAnswers, Still
  <2>2. Fetches(p, "revocations", "answered", proc[p].since["revocations"], proc[p].turn, Published)
    BY <1>0, <1>1, AnswersEffect
  <2>3. FreshFor(p)'
    BY <1>0, <2>1, <2>2, StillSettles, RevocationsFetchStep DEF Still
  <2> QED
    BY <2>1, <2>2, <2>3, StillStep DEF Fetches
<1>2. ASSUME NEW s \in Sources, FetchFails(p, s) PROVE PrewarmInv'
  <2>1. Still /\ (\E b : Fault(b)) /\ Fetch(p, s) \in {"asked", "answered"}
    BY <1>2 DEF FetchFails, Still
  <2>2. PICK td : /\ Fetches(p, s, "failed", 0, proc[p].turn, td)
                  /\ s = "revocations" \/ td = proc[p].todo
    BY <1>0, <1>2, AnswersEffect
  <2>3. CASE s = "revocations"
    <3>1. FreshFor(p)'
      BY <1>0, <2>1, <2>2, <2>3, StillSettles, RevocationsFetchStep
    <3> QED
      BY <2>1, <2>2, <3>1, StillStep DEF Fetches
  <2>4. CASE s # "revocations"
    <3>1. s \in {"registry", "turn"}
      BY <2>4 DEF Sources
    <3>2. Fetches(p, s, "failed", 0, proc[p].turn, proc[p].todo)
      BY <2>2, <2>4
    <3>3. FreshFor(p)'
      BY <1>0, <2>1, <3>1, <3>2, StillSettles, OtherFetchStep
    <3> QED
      BY <2>1, <3>2, <3>3, StillStep DEF Fetches
  <2> QED
    BY <2>3, <2>4
<1>3. ASSUME RecordRead(p) PROVE PrewarmInv'
  <2>1. Still /\ faults' = faults /\ Fetch(p, "revocations") \in {"answered", "local"}
    BY <1>3 DEF RecordRead, Still
  <2>2. Fetches(p, "revocations", "reading", 0, proc[p].turn, proc[p].todo)
    BY <1>0, <1>3, AnswersEffect
  <2>3. FreshFor(p)'
    BY <1>0, <2>1, <2>2, StillSettles, RevocationsFetchStep
  <2> QED
    BY <2>1, <2>2, <2>3, StillStep DEF Fetches
<1>4. ASSUME RecordFails(p) PROVE PrewarmInv'
  <2>1. Still /\ (\E b : Fault(b)) /\ Fetch(p, "revocations") = "reading"
    BY <1>4 DEF RecordFails, Still
  <2>2. Fetches(p, "revocations", "failed", proc[p].since["revocations"], proc[p].turn, {})
    BY <1>0, <1>4, AnswersEffect
  <2>3. FreshFor(p)'
    BY <1>0, <2>1, <2>2, StillSettles, RevocationsFetchStep
  <2> QED
    BY <2>1, <2>2, <2>3, StillStep DEF Fetches
<1> QED
  BY <1>1, <1>2, <1>3, <1>4

\* The steps that write a cache or the file of tombstones.
LEMMA WritesKeepFresh ==
  ASSUME PrewarmInv, NEW p \in Procs
  PROVE  /\ \A w \in BOOLEAN : RegistryLands(p, w) => PrewarmInv'
         /\ \A w \in BOOLEAN, exp \in {None, now + Lifetime} : TurnLands(p, w, exp) => PrewarmInv'
         /\ \A w \in BOOLEAN : Stamp(p, w) => PrewarmInv'
         /\ \A m \in Machines : RecordWrite(p, m) => PrewarmInv'
<1>0. PrewarmTypeOK /\ Vouched /\ FreshFor(p) /\ \A q \in Procs : FreshFor(q)
  BY DEF PrewarmInv
<1>a. "registry" \in Sources /\ "turn" \in Sources /\ "revocations" \in Sources
  BY DEF Sources
<1>1. ASSUME NEW w \in BOOLEAN, RegistryLands(p, w) PROVE PrewarmInv'
  <2>1. /\ UNCHANGED <<now, relay, store, expiry, lost>> /\ (\E b : Fault(b)) /\ Fetch(p, "registry") = "asked"
        /\ cache' = IF w THEN [cache EXCEPT !["registry"] = now] ELSE cache
    BY <1>1 DEF RegistryLands
  <2>2. Settles
    BY <2>1 DEF Settles
  <2>3. Fetches(p, "registry", "done", 0, proc[p].turn, proc[p].todo)
    BY <1>0, <1>1, AnswersEffect
  <2>4. FreshFor(p)'
    BY <1>0, <2>1, <2>2, <2>3, OtherFetchStep
  <2>5. /\ cache' \in [Sources -> Times \cup {None}]
        /\ \A r \in Sources : cache'[r] \in {cache[r], now}
        /\ cache'["revocations"] = cache["revocations"]
    BY <1>0, <1>a, <2>1, CacheTyped
  <2>6. \A q \in Procs : FreshFor(q)'
    BY <1>0, <2>2, <2>3, <2>4, OthersStay DEF Fetches
  <2>7. Vouched'
    BY <1>0, <2>2, <2>5, VouchedStays
  <2>8. store' \subseteq Machines /\ lost' \in BOOLEAN /\ expiry' \in {expiry, None, now + Lifetime}
    BY <1>0, <2>1 DEF PrewarmTypeOK
  <2>9. PrewarmTypeOK'
    BY <1>0, <2>1, <2>3, <2>5, <2>8, CommandTypes DEF Fetches
  <2> QED
    BY <2>6, <2>7, <2>9 DEF PrewarmInv
<1>2. ASSUME NEW w \in BOOLEAN, NEW exp \in {None, now + Lifetime}, TurnLands(p, w, exp) PROVE PrewarmInv'
  <2>1. /\ UNCHANGED <<now, relay, store, lost>> /\ (\E b : Fault(b)) /\ Fetch(p, "turn") = "asked"
        /\ cache' = IF w THEN [cache EXCEPT !["turn"] = now] ELSE cache
        /\ expiry' = IF w THEN exp ELSE expiry
    BY <1>2 DEF TurnLands
  <2>2. Settles
    BY <2>1 DEF Settles
  <2>3. Fetches(p, "turn", "done", 0, exp, proc[p].todo)
    BY <1>0, <1>2, AnswersEffect
  <2>4. FreshFor(p)'
    BY <1>0, <2>1, <2>2, <2>3, OtherFetchStep
  <2>5. /\ cache' \in [Sources -> Times \cup {None}]
        /\ \A r \in Sources : cache'[r] \in {cache[r], now}
        /\ cache'["revocations"] = cache["revocations"]
    BY <1>0, <1>a, <2>1, CacheTyped
  <2>6. \A q \in Procs : FreshFor(q)'
    BY <1>0, <2>2, <2>3, <2>4, OthersStay DEF Fetches
  <2>7. Vouched'
    BY <1>0, <2>2, <2>5, VouchedStays
  <2>8. store' \subseteq Machines /\ lost' \in BOOLEAN /\ expiry' \in {expiry, None, now + Lifetime}
    BY <1>0, <2>1 DEF PrewarmTypeOK
  <2>9. PrewarmTypeOK'
    BY <1>0, <2>1, <2>3, <2>5, <2>8, CommandTypes DEF Fetches
  <2> QED
    BY <2>6, <2>7, <2>9 DEF PrewarmInv
<1>3. ASSUME NEW w \in BOOLEAN, Stamp(p, w) PROVE PrewarmInv'
  <2>1. /\ UNCHANGED <<now, relay, store, expiry, lost>> /\ (\E b : Fault(b))
        /\ Fetch(p, "revocations") \in {"answered", "local"} /\ proc[p].todo = {}
        /\ cache' = IF w THEN [cache EXCEPT !["revocations"] = now] ELSE cache
    BY <1>3 DEF Stamp
  <2>2. Settles
    BY <2>1 DEF Settles
  <2>3. Fetches(p, "revocations", "done", 0, proc[p].turn, proc[p].todo)
    BY <1>0, <1>3, AnswersEffect
  <2>4. FreshFor(p)'
    BY <1>0, <2>1, <2>2, <2>3, RevocationsFetchStep
  <2>5. /\ cache' \in [Sources -> Times \cup {None}]
        /\ \A r \in Sources : cache'[r] \in {cache[r], now}
    BY <1>0, <1>a, <2>1, CacheTyped
  <2>6. \A q \in Procs : FreshFor(q)'
    BY <1>0, <2>2, <2>3, <2>4, OthersStay DEF Fetches
  <2>7. Vouched'
    <3>1. CASE cache'["revocations"] = cache["revocations"]
      BY <1>0, <2>2, <3>1, VouchedStays
    <3>2. CASE cache'["revocations"] = now
      BY <1>0, <2>1, <2>2, <3>2, StampStep
    <3> QED
      BY <1>a, <2>5, <3>1, <3>2
  <2>8. store' \subseteq Machines /\ lost' \in BOOLEAN /\ expiry' \in {expiry, None, now + Lifetime}
    BY <1>0, <2>1 DEF PrewarmTypeOK
  <2>9. PrewarmTypeOK'
    BY <1>0, <2>1, <2>3, <2>5, <2>8, CommandTypes DEF Fetches
  <2> QED
    BY <2>6, <2>7, <2>9 DEF PrewarmInv
<1>4. ASSUME NEW m \in Machines, RecordWrite(p, m) PROVE PrewarmInv'
  <2>1. /\ UNCHANGED <<now, relay, cache, expiry, faults>>
        /\ Fetch(p, "revocations") = "reading"
        /\ store' = proc[p].read \cup {m}
        /\ lost' = (lost \/ ~(store \subseteq store'))
    BY <1>4 DEF RecordWrite
  <2>2. Settles
    BY <2>1 DEF Settles
  <2>3. Fetches(p, "revocations", "local", proc[p].since["revocations"], proc[p].turn, proc[p].todo \ {m})
    BY <1>0, <1>4, AnswersEffect
  <2>4. FreshFor(p)'
    BY <1>0, <2>1, <2>2, <2>3, RevocationsFetchStep
  <2>5. /\ cache' \in [Sources -> Times \cup {None}] /\ cache' = cache
        /\ \A r \in Sources : cache'[r] \in {cache[r], now}
    BY <1>0, <2>1 DEF PrewarmTypeOK
  <2>6. \A q \in Procs : FreshFor(q)'
    BY <1>0, <2>2, <2>3, <2>4, OthersStay DEF Fetches
  <2>7. Vouched'
    BY <1>0, <2>2, <2>5, VouchedStays
  <2>8. store' \subseteq Machines
    BY <1>0, <2>1 DEF PrewarmTypeOK, Commands
  <2>9. lost' \in BOOLEAN /\ expiry' \in {expiry, None, now + Lifetime}
    BY <2>1
  <2>10. PrewarmTypeOK'
    BY <1>0, <2>1, <2>3, <2>5, <2>8, <2>9, CommandTypes DEF Fetches
  <2> QED
    BY <2>6, <2>7, <2>10 DEF PrewarmInv
<1> QED
  BY <1>1, <1>2, <1>3, <1>4

\* machine revoke, and the tombstones other devices publish.
LEMMA RetiresKeepFresh ==
  ASSUME PrewarmInv, NEW p \in Procs
  PROVE  /\ \A m \in Machines : Retire(p, m) => PrewarmInv'
         /\ RetireRecords(p) => PrewarmInv'
         /\ RetireNotRecorded(p) => PrewarmInv'
         /\ \A hit \in BOOLEAN : Post(p, hit) => PrewarmInv'
<1>0. PrewarmTypeOK /\ Vouched /\ FreshFor(p) /\ \A q \in Procs : FreshFor(q)
  BY DEF PrewarmInv
<1>1. ASSUME NEW m \in Machines, Retire(p, m) PROVE PrewarmInv'
  <2>1. Still /\ faults' = faults
    BY <1>1 DEF Retire, Still
  <2>2. Carries(p) /\ proc[p].pc = "idle" /\ proc'[p].pc = "recording"
    BY <1>0, <1>1, RetireEffect
  <2>3. FreshFor(p)'
    BY <1>0, <2>1, <2>2, StillSettles, LeavesStep
  <2> QED
    BY <2>1, <2>2, <2>3, StillStep DEF Carries
<1>2. ASSUME RetireRecords(p) PROVE PrewarmInv'
  <2>1. /\ UNCHANGED <<now, relay, cache, expiry, faults>>
        /\ store' = proc[p].read \cup proc[p].todo
        /\ lost' = (lost \/ ~(store \subseteq store'))
    BY <1>2 DEF RetireRecords
  <2>2. Settles
    BY <2>1 DEF Settles
  <2>3. Carries(p) /\ proc'[p].todo = proc[p].todo /\ proc'[p].pc = "posting"
    BY <1>0, <1>2, RetireEffect
  <2>4. FreshFor(p)'
    BY <1>0, <2>2, <2>3, LeavesStep
  <2>5. /\ cache' \in [Sources -> Times \cup {None}] /\ cache' = cache
        /\ \A r \in Sources : cache'[r] \in {cache[r], now}
    BY <1>0, <2>1 DEF PrewarmTypeOK
  <2>6. \A q \in Procs : FreshFor(q)'
    BY <1>0, <2>2, <2>3, <2>4, OthersStay DEF Carries
  <2>7. Vouched'
    BY <1>0, <2>2, <2>5, VouchedStays
  <2>8. store' \subseteq Machines
    BY <1>0, <2>1 DEF PrewarmTypeOK, Commands
  <2>9. lost' \in BOOLEAN /\ expiry' \in {expiry, None, now + Lifetime}
    BY <2>1
  <2>10. PrewarmTypeOK'
    BY <1>0, <2>1, <2>3, <2>5, <2>8, <2>9, CommandTypes DEF Carries
  <2> QED
    BY <2>6, <2>7, <2>10 DEF PrewarmInv
<1>3. ASSUME RetireNotRecorded(p) PROVE PrewarmInv'
  <2>1. Still /\ \E b : Fault(b)
    BY <1>3 DEF RetireNotRecorded, Still
  <2>2. Carries(p) /\ proc'[p].todo = proc[p].todo /\ proc'[p].pc = "revoke failed"
    BY <1>0, <1>3, RetireEffect
  <2>3. FreshFor(p)'
    BY <1>0, <2>1, <2>2, StillSettles, LeavesStep
  <2> QED
    BY <2>1, <2>2, <2>3, StillStep DEF Carries
<1>4. ASSUME NEW hit \in BOOLEAN, Post(p, hit) PROVE PrewarmInv'
  <2>1. /\ UNCHANGED <<now, store, cache, expiry, lost>> /\ (\E b : Fault(b))
        /\ \A m \in Machines : relay'[m] = relay[m] \/ relay'[m] = now
    BY <1>4 DEF Post
  <2>2. Settles
    BY <2>1 DEF Settles
  <2>3. Carries(p) /\ proc'[p].todo = proc[p].todo /\ proc'[p].pc \in {"revoked", "revoke failed"}
    BY <1>0, <1>4, RetireEffect
  <2>4. FreshFor(p)'
    BY <1>0, <2>2, <2>3, LeavesStep
  <2>5. /\ cache' \in [Sources -> Times \cup {None}] /\ cache' = cache
        /\ \A r \in Sources : cache'[r] \in {cache[r], now}
        /\ store' \subseteq Machines /\ lost' \in BOOLEAN /\ expiry' \in {expiry, None, now + Lifetime}
    BY <1>0, <2>1 DEF PrewarmTypeOK
  <2>6. \A q \in Procs : FreshFor(q)'
    BY <1>0, <2>2, <2>3, <2>4, OthersStay DEF Carries
  <2>7. Vouched'
    BY <1>0, <2>2, <2>5, VouchedStays
  <2>8. PrewarmTypeOK'
    BY <1>0, <1>4, <2>1, <2>3, <2>5, CommandTypes DEF Carries
  <2> QED
    BY <2>6, <2>7, <2>8 DEF PrewarmInv
<1> QED
  BY <1>1, <1>2, <1>3, <1>4

\* Every step of a command, of another device and of the clock keeps the invariant.
LEMMA PrewarmStep == PrewarmInv /\ [PrewarmNext]_prewarmVars => PrewarmInv'
<1> SUFFICES ASSUME PrewarmInv, [PrewarmNext]_prewarmVars PROVE PrewarmInv'
  OBVIOUS
<1>0. PrewarmTypeOK /\ Vouched /\ \A q \in Procs : FreshFor(q)
  BY DEF PrewarmInv
<1>1. ASSUME NEW p \in Procs, CommandNext(p) PROVE PrewarmInv'
  BY <1>1, AttachKeepsFresh, FetchesKeepFresh, WritesKeepFresh, RetiresKeepFresh DEF CommandNext
<1>2. ASSUME NEW m \in Elsewhere, RevokedElsewhere(m) PROVE PrewarmInv'
  <2>1. /\ now' = now /\ store' = store /\ cache' = cache /\ expiry' = expiry
        /\ proc' = proc /\ lost' = lost /\ faults' = faults
        /\ relay' = [relay EXCEPT ![m] = now]
    BY <1>2 DEF RevokedElsewhere
  <2>2. relay' \in [Machines -> Times \cup {None, -Timeout}]
    BY <1>0, <2>1 DEF PrewarmTypeOK
  <2>3. Settles
    BY <1>0, <2>1 DEF Settles, PrewarmTypeOK
  <2>4. PrewarmTypeOK'
    BY <1>0, <2>1, <2>2 DEF PrewarmTypeOK
  <2>5. \A q \in Procs : FreshFor(q)'
    BY <1>0, <2>1, <2>3, BystanderStays
  <2>6. Vouched'
    BY <1>0, <2>1, <2>3, VouchedStays
  <2> QED
    BY <2>4, <2>5, <2>6 DEF PrewarmInv
<1>3. ASSUME Tick PROVE PrewarmInv'
  <2>1. PrewarmTypeOK'
    BY <1>0, <1>3, PrewarmAssumption DEF Tick, PrewarmTypeOK, Times
  <2> QED
    BY <1>0, <1>3, <2>1, TickStep DEF PrewarmInv
<1>4. ASSUME UNCHANGED prewarmVars PROVE PrewarmInv'
  <2>1. /\ now' = now /\ store' = store /\ cache' = cache /\ expiry' = expiry
        /\ proc' = proc /\ lost' = lost /\ faults' = faults /\ relay' = relay
    BY <1>4 DEF prewarmVars
  <2>2. Settles
    BY <2>1 DEF Settles
  <2>3. PrewarmTypeOK'
    BY <1>0, <2>1 DEF PrewarmTypeOK
  <2>4. \A q \in Procs : FreshFor(q)'
    BY <1>0, <2>1, <2>2, BystanderStays
  <2>5. Vouched'
    BY <1>0, <2>1, <2>2, VouchedStays
  <2> QED
    BY <2>3, <2>4, <2>5 DEF PrewarmInv
<1> QED
  BY <1>1, <1>2, <1>3, <1>4 DEF PrewarmNext, CommandNext

\* At the dial at most two timeouts have passed since Run.
LEMMA PrewarmEnough == PrewarmInv => DecidedFresh
<1> SUFFICES ASSUME PrewarmInv, NEW p \in Procs, At(p, "dialing")
             PROVE  /\ (proc[p].revocations # "error" /\ ~lost) =>
                          \A age \in Overlooked(p) : age < Ceiling + 3 * Timeout
                    /\ (~proc[p].iceErr /\ proc[p].turn # None) => now < proc[p].turn
  BY DEF DecidedFresh, RevocationsFresh, TurnAlive
<1>1. PrewarmTypeOK /\ FreshFor(p)
  BY DEF PrewarmInv
<1>2. PICK t \in 0..now : Deciding(p, t)
  BY <1>1 DEF FreshFor, Phased, At
<1>3. now <= t + 2 * Timeout /\ t \in Int
  BY <1>1, <1>2, HorizonBefore DEF Deciding
<1>4. ASSUME proc[p].revocations # "error", ~lost, NEW m \in Published \ proc[p].decided
      PROVE  now - relay[m] < Ceiling + 3 * Timeout
  <2>1. m \in Machines /\ relay[m] # None /\ relay[m] \in Int
    BY <1>1, <1>4, TimesAre DEF Published
  <2>2. ~(relay[m] < Horizon(t))
    BY <1>2, <1>4, <2>1 DEF Deciding, Known
  <2> QED
    BY <1>1, <1>3, <2>1, <2>2, TimesAre DEF Horizon
<1>5. ASSUME ~proc[p].iceErr, proc[p].turn # None PROVE now < proc[p].turn
  <2>1. Fetch(p, "turn") \in {"none", "done"}
    BY <1>2, <1>5 DEF Deciding, TurnJoined
  <2>2. t + 2 * Timeout < proc[p].turn
    BY <1>2, <1>5, <2>1 DEF Deciding, Armed
  <2> QED
    BY <1>1, <1>3, <1>5, <2>2, TimesAre
<1> QED
  BY <1>4, <1>5 DEF Overlooked

\* Prewarmer.Run, fetchRevocations, resolveMachinesWarm and cmdMachineRevoke keep every
\* variable of the warm path within its type.
THEOREM PrewarmTypeCorrect == PrewarmSpec => []PrewarmTypeOK
<1>1. PrewarmInv => PrewarmTypeOK
  BY DEF PrewarmInv
<1> QED
  BY <1>1, PrewarmStart, PrewarmStep, PTL DEF PrewarmSpec

\* Prewarmer.Run, resolveMachinesWarm and cmdAttach: whatever requests are lost, writes fail
\* and commands overlap, an attach that met no relay error overlooks a tombstone only for the
\* stale ceiling and three timeouts, unless an overlapping RecordRevocation overwrote it; and
\* the TURN credentials in hand at the dial are alive.
THEOREM AttachesDecidedFresh == PrewarmSpec => []DecidedFresh
BY PrewarmStart, PrewarmStep, PrewarmEnough, PTL DEF PrewarmSpec
=============================================================================
