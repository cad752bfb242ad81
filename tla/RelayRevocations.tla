--------------------------- MODULE RelayRevocations ---------------------------
(***************************************************************************)
(* The relay's permanent machine revocations:                              *)
(* go/internal/signal/revocations.go and the fields revoked, persistMu,    *)
(* revVersion, revPersisted and revDurable of Server (server.go).          *)
(*                                                                         *)
(* Every POST /revocations runs in a goroutine of its own.  It changes the *)
(* tombstone map under the broker lock s.mu, then writes a snapshot of the *)
(* map to disk under a second lock, persistMu, and takes the change back   *)
(* if the write fails.  The steps of concurrent handlers interleave here   *)
(* at every lock operation.  The relay process may crash at any step and   *)
(* restart from the file (LoadRevocations).                                *)
(*                                                                         *)
(* A record is abstracted to its slot (owner|machine) and a stamp that     *)
(* tells two signed records of one slot apart.  Requests that fail to      *)
(* decode or verify change no state and are left out.                      *)
(***************************************************************************)
EXTENDS Naturals, FiniteSets

CONSTANTS
    Slots,          \* owner|machine keys
    Stamps,         \* distinguish two owner-signed records for one slot
    Posts,          \* POST /revocations requests, one handler goroutine each
    NoRec,          \* "no entry in the map"
    NoPost,         \* "lock not held"
    HasFile,        \* a revocations file is configured (LoadRevocations ran)
    DiskMayFail,    \* writeRevocationsFile may return an error
    MaxRevocations, \* Server.maxRevocations
    MaxCrashes      \* bound on restarts of the relay process

ASSUME RevocationsAssumption ==
    /\ NoRec \notin Stamps
    /\ NoPost \notin Posts
    /\ HasFile \in BOOLEAN
    /\ DiskMayFail \in BOOLEAN
    /\ MaxRevocations \in Nat \ {0}
    /\ MaxCrashes \in Nat
    /\ IsFiniteSet(Slots)

VARIABLES
    revoked,      \* slot -> tombstone in memory (s.mu)
    agents,       \* slots with a live agent registration (s.mu)
    revVersion,   \* bumped with every change of revoked (s.mu)
    revPersisted, \* version of the last snapshot written (persistMu)
    revDurable,   \* slots that a written snapshot held (persistMu)
    disk,         \* the revocations file
    mu,           \* holder of s.mu across steps, or NoPost
    persistMu,    \* holder of persistMu across steps, or NoPost
    pc,           \* handler -> control state; the last four are its outcome
    slot,         \* handler -> slot of its record
    old,          \* handler -> (existing, exists) it read
    ver,          \* handler -> version of its snapshot
    snap,         \* handler -> its snapshot
    crashes

vars == <<revoked, agents, revVersion, revPersisted, revDurable, disk, mu,
          persistMu, pc, slot, old, ver, snap, crashes>>
locals == <<slot, old, ver, snap>>

Tombstones == [Slots -> Stamps \cup {NoRec}]
NoTombstones == [s \in Slots |-> NoRec]
Dom(t) == {s \in Slots : t[s] # NoRec}

Running == {"idle", "durable", "persist", "writing", "rollback", "ok"}
Outcomes == {"acked",    \* 204 No Content
             "refused",  \* 500 could not persist revocation
             "full",     \* 503 server capacity reached
             "lost"}     \* the process died before it answered

TypeOK ==
    /\ revoked \in Tombstones
    /\ agents \subseteq Slots
    /\ revVersion \in Nat
    /\ revPersisted \in Nat
    /\ revDurable \subseteq Slots
    /\ disk \in Tombstones
    /\ mu \in Posts \cup {NoPost}
    /\ persistMu \in Posts \cup {NoPost}
    /\ pc \in [Posts -> Running \cup Outcomes]
    /\ slot \in [Posts -> Slots]
    /\ old \in [Posts -> Stamps \cup {NoRec}]
    /\ ver \in [Posts -> Nat]
    /\ snap \in [Posts -> Tombstones]
    /\ crashes \in 0..MaxCrashes

Init ==
    /\ revoked = NoTombstones
    /\ agents = {}
    /\ revVersion = 0
    /\ revPersisted = 0
    /\ revDurable = {}
    /\ disk = NoTombstones
    /\ mu = NoPost
    /\ persistMu = NoPost
    /\ pc = [p \in Posts |-> "idle"]
    /\ slot \in [Posts -> Slots]
    /\ old = [p \in Posts |-> NoRec]
    /\ ver = [p \in Posts |-> 0]
    /\ snap = [p \in Posts |-> NoTombstones]
    /\ crashes = 0

Goto(p, l) == pc' = [pc EXCEPT ![p] = l]

(***************************************************************************)
(* postRevocation, the section under s.mu.  A slot is chosen per handler   *)
(* in Init, the stamp of its record here.                                  *)
(***************************************************************************)

\* The very record is already there: the handler keeps s.mu while it waits
\* for persistMu inside slotDurable.
PostDuplicate(p, t) ==
    /\ pc[p] = "idle"
    /\ mu = NoPost
    /\ revoked[slot[p]] = t
    /\ mu' = p
    /\ Goto(p, "durable")
    /\ UNCHANGED <<revoked, agents, revVersion, revPersisted, revDurable, disk,
                   persistMu, locals, crashes>>

\* Mutant: a duplicate is acknowledged without asking whether it is durable.
SlotDurableUnchecked(p) ==
    /\ pc[p] = "durable"
    /\ persistMu = NoPost
    /\ mu' = NoPost
    /\ Goto(p, "acked")
    /\ UNCHANGED <<revoked, agents, revVersion, revPersisted, revDurable, disk,
                   persistMu, locals, crashes>>

\* slotDurable got persistMu: answer, and release both locks.
SlotDurable(p) ==
    /\ pc[p] = "durable"
    /\ persistMu = NoPost
    /\ mu' = NoPost
    /\ Goto(p, IF HasFile /\ slot[p] \notin revDurable THEN "refused" ELSE "acked")
    /\ UNCHANGED <<revoked, agents, revVersion, revPersisted, revDurable, disk,
                   persistMu, locals, crashes>>

\* Mutant: the capacity test is off by one.
AtCapacityOffByOne(s) ==
    revoked[s] = NoRec /\ Cardinality(Dom(revoked)) > MaxRevocations

AtCapacity(s) == revoked[s] = NoRec /\ Cardinality(Dom(revoked)) >= MaxRevocations

PostFull(p, t) ==
    /\ pc[p] = "idle"
    /\ mu = NoPost
    /\ revoked[slot[p]] # t
    /\ AtCapacity(slot[p])
    /\ Goto(p, "full")
    /\ UNCHANGED <<revoked, agents, revVersion, revPersisted, revDurable, disk,
                   mu, persistMu, locals, crashes>>

\* The tombstone enters the map, the live agent leaves it and the snapshot is
\* taken, all in one critical section.
PostInsert(p, t) ==
    /\ pc[p] = "idle"
    /\ mu = NoPost
    /\ revoked[slot[p]] # t
    /\ ~AtCapacity(slot[p])
    /\ revoked' = [revoked EXCEPT ![slot[p]] = t]
    /\ revVersion' = revVersion + 1
    /\ agents' = agents \ {slot[p]}
    /\ old' = [old EXCEPT ![p] = revoked[slot[p]]]
    /\ ver' = [ver EXCEPT ![p] = revVersion + 1]
    /\ snap' = [snap EXCEPT ![p] = revoked']
    /\ Goto(p, "persist")
    /\ UNCHANGED <<revPersisted, revDurable, disk, mu, persistMu, slot, crashes>>

(***************************************************************************)
(* persistRevocations.                                                     *)
(***************************************************************************)

\* Mutant: the version test is off by one.
PersistSkipOffByOne(p) ==
    /\ pc[p] = "persist"
    /\ HasFile => persistMu = NoPost /\ ver[p] <= revPersisted + 1
    /\ Goto(p, "ok")
    /\ UNCHANGED <<revoked, agents, revVersion, revPersisted, revDurable, disk,
                   mu, persistMu, locals, crashes>>

\* A newer snapshot already reached disk, or there is no file at all.
PersistSkip(p) ==
    /\ pc[p] = "persist"
    /\ HasFile => persistMu = NoPost /\ ver[p] <= revPersisted
    /\ Goto(p, "ok")
    /\ UNCHANGED <<revoked, agents, revVersion, revPersisted, revDurable, disk,
                   mu, persistMu, locals, crashes>>

\* Mutant: a stale snapshot is written over a newer one.
PersistBeginStale(p) ==
    /\ pc[p] = "persist"
    /\ HasFile
    /\ persistMu = NoPost
    /\ persistMu' = p
    /\ Goto(p, "writing")
    /\ UNCHANGED <<revoked, agents, revVersion, revPersisted, revDurable, disk,
                   mu, locals, crashes>>

\* persistMu is held from here until the file is renamed or the write failed.
PersistBegin(p) ==
    /\ pc[p] = "persist"
    /\ HasFile
    /\ persistMu = NoPost
    /\ ver[p] > revPersisted
    /\ persistMu' = p
    /\ Goto(p, "writing")
    /\ UNCHANGED <<revoked, agents, revVersion, revPersisted, revDurable, disk,
                   mu, locals, crashes>>

\* writeRevocationsFile renamed the new file into place.
WriteFile(p) ==
    /\ pc[p] = "writing"
    /\ disk' = snap[p]
    /\ revPersisted' = ver[p]
    /\ revDurable' = revDurable \cup Dom(snap[p])
    /\ persistMu' = NoPost
    /\ Goto(p, "ok")
    /\ UNCHANGED <<revoked, agents, revVersion, mu, locals, crashes>>

\* Mutant: the error path returns without releasing persistMu.
WriteFailsKeepsLock(p) ==
    /\ pc[p] = "writing"
    /\ DiskMayFail
    /\ Goto(p, "rollback")
    /\ UNCHANGED <<revoked, agents, revVersion, revPersisted, revDurable, disk,
                   mu, persistMu, locals, crashes>>

\* Any of its system calls failed: the old file is still in place.
WriteFails(p) ==
    /\ pc[p] = "writing"
    /\ DiskMayFail
    /\ persistMu' = NoPost
    /\ Goto(p, "rollback")
    /\ UNCHANGED <<revoked, agents, revVersion, revPersisted, revDurable, disk,
                   mu, locals, crashes>>

\* rollbackRevocation restores what this handler read, whatever happened since.
Rollback(p) ==
    /\ pc[p] = "rollback"
    /\ mu = NoPost
    /\ revoked' = [revoked EXCEPT ![slot[p]] = old[p]]
    /\ Goto(p, "refused")
    /\ UNCHANGED <<agents, revVersion, revPersisted, revDurable, disk, mu,
                   persistMu, locals, crashes>>

Acknowledge(p) ==
    /\ pc[p] = "ok"
    /\ Goto(p, "acked")
    /\ UNCHANGED <<revoked, agents, revVersion, revPersisted, revDurable, disk,
                   mu, persistMu, locals, crashes>>

(***************************************************************************)
(* The rest of the relay, as far as it touches this state.                 *)
(***************************************************************************)

\* Mutant: registration does not look at the tombstones again.
RegisterAgentUnchecked(s) ==
    /\ mu = NoPost
    /\ s \notin agents
    /\ agents' = agents \cup {s}
    /\ UNCHANGED <<revoked, revVersion, revPersisted, revDurable, disk, mu,
                   persistMu, pc, locals, crashes>>

\* handleAgent's critical section: a revoked slot is refused.
RegisterAgent(s) ==
    /\ mu = NoPost
    /\ revoked[s] = NoRec
    /\ s \notin agents
    /\ agents' = agents \cup {s}
    /\ UNCHANGED <<revoked, revVersion, revPersisted, revDurable, disk, mu,
                   persistMu, pc, locals, crashes>>

\* handleAgent's deferred removal when the agent's socket ends.
AgentGone(s) ==
    /\ mu = NoPost
    /\ s \in agents
    /\ agents' = agents \ {s}
    /\ UNCHANGED <<revoked, revVersion, revPersisted, revDurable, disk, mu,
                   persistMu, pc, locals, crashes>>

\* The process dies and LoadRevocations reads the file back; a file over
\* capacity fails startup.
Restart ==
    /\ crashes < MaxCrashes
    /\ Cardinality(Dom(disk)) <= MaxRevocations
    /\ crashes' = crashes + 1
    /\ revoked' = disk
    /\ revDurable' = Dom(disk)
    /\ revVersion' = 0
    /\ revPersisted' = 0
    /\ agents' = {}
    /\ mu' = NoPost
    /\ persistMu' = NoPost
    /\ pc' = [p \in Posts |-> IF pc[p] \in Running \ {"idle"} THEN "lost" ELSE pc[p]]
    /\ UNCHANGED <<disk, locals>>

Handler(p) ==
    \/ SlotDurable(p)
    \/ PersistSkip(p)
    \/ PersistBegin(p)
    \/ WriteFile(p)
    \/ WriteFails(p)
    \/ Rollback(p)
    \/ Acknowledge(p)

Next ==
    \/ \E p \in Posts, t \in Stamps : PostDuplicate(p, t) \/ PostFull(p, t) \/ PostInsert(p, t)
    \/ \E p \in Posts : Handler(p)
    \/ \E s \in Slots : RegisterAgent(s) \/ AgentGone(s)
    \/ Restart

\* The Go scheduler runs every handler goroutine, mutexes are starvation-free
\* and a disk write returns: once started, a handler keeps taking steps.
Fairness == \A p \in Posts : WF_vars(Handler(p))

Spec == Init /\ [][Next]_vars
FairSpec == Spec /\ Fairness

-----------------------------------------------------------------------------

AckedSlots == {slot[p] : p \in {q \in Posts : pc[q] = "acked"}}

\* A revocation the relay acknowledged with 204 is enforced from then on: its
\* slot stays in the tombstone map, across restarts and whatever other
\* handlers do (postRevocation answers 204 only for a "permanent" tombstone).
AckedEnforced == \A s \in AckedSlots : revoked[s] # NoRec

\* An acknowledged revocation is in the file, so the next start loads it.
AckedOnDisk == HasFile => \A s \in AckedSlots : disk[s] # NoRec

\* The handlers that took their change back after a failed write.
Undone == {p \in Posts : pc[p] = "refused" /\ ver[p] > 0}
UndoneSlots == {slot[p] : p \in Undone}

\* postRevocation and rollbackRevocation: with a file, an acknowledged revocation is
\* enforced and in the file, however often the relay restarts, unless another handler
\* of the very slot took its change back after a failed write.
AckedKept == HasFile => \A s \in AckedSlots \ UndoneSlots : revoked[s] # NoRec /\ disk[s] # NoRec

\* LoadRevocations refuses a file over capacity.  The relay writes one only after a
\* handler put a record back that its own had replaced, in a slot no longer counted.
FileLoadable ==
    \/ Cardinality(Dom(disk)) <= MaxRevocations
    \/ \E p \in Undone : old[p] # NoRec

\* What failing writes leave of an acknowledgement and of the next start: only the
\* rollbacks of rollbackRevocation can take anything away.
DiskSound == AckedKept /\ FileLoadable

\* Every accepted POST is answered, however handlers wait on the two locks.
EveryPostAnswered == \A p \in Posts : pc[p] # "idle" ~> pc[p] \in Outcomes

\* A write that persistRevocations drops as stale is covered by the file: the
\* file already holds a tombstone for every slot of the dropped snapshot.
DroppedWriteCovered ==
    [][\A p \in Posts : (HasFile /\ pc[p] = "persist" /\ pc'[p] = "ok")
                            => Dom(snap[p]) \subseteq Dom(disk)]_vars

\* The detailed specification implements the abstract promise.
Permanent == INSTANCE PermanentRevocations
                 WITH permanent <- AckedSlots, enforced <- Dom(revoked), live <- agents

\* Every step of the handlers is a step of PermanentRevocations: an
\* acknowledged tombstone is never dropped, only a crash drops one at all, and
\* a slot is registered only while it is not revoked.
KeepsPromise == Permanent!PSpec

\* The broker lock is never held by a handler that waits for the file write of
\* another one: signaling does not wait for an fsync.
FsyncDoesNotStallBroker ==
    ~ \E p, q \in Posts : mu = p /\ pc[p] = "durable" /\ persistMu = q
=============================================================================
