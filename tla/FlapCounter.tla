------------------------------ MODULE FlapCounter ------------------------------
(***************************************************************************)
(* The relay's detector of two agents that keep replacing each other:      *)
(* flapCounter in go/internal/signal/proofstore.go, called by handleAgent  *)
(* under s.mu whenever a registration replaces a connected agent.  It is   *)
(* kept beside the proofs and has the same slots.                          *)
(***************************************************************************)
EXTENDS ProofStore, Sequences, Lists

CONSTANTS
    Threshold,   \* flapCounter.threshold
    FlapWindow,  \* flapCounter.window
    MaxSlots,    \* flapCounter.max
    NoSlot,
    FlapTime,    \* bound on the wall clock
    MaxBurst     \* bound on the replacements of one slot at one time

ASSUME FlapAssumption ==
    /\ Threshold \in Nat
    /\ FlapWindow \in Nat \ {0}
    /\ MaxSlots \in Nat \ {0}
    /\ FlapTime \in Nat \ {0}
    /\ MaxBurst \in Nat
    /\ NoSlot \notin Seq(Nat)

VARIABLES
    time,
    stamps,   \* slot -> replacement times kept for it, or NoSlot
    alarm,    \* slot -> the last record reported a flap
    happened  \* slot -> times of its replacements since it was tracked (history)

flapVars == <<time, stamps, alarm, happened>>

FlapTimes == 1..FlapTime
Tracked == {k \in Keys : stamps[k] # NoSlot}

FlapTypeOK ==
    /\ time \in FlapTimes
    /\ DOMAIN stamps = Keys
    /\ \A k \in Tracked : stamps[k] \in Seq(FlapTimes) /\ stamps[k] # <<>>
    /\ alarm \in [Keys -> BOOLEAN]
    /\ happened \in [Keys -> Seq(FlapTimes)]
    /\ Cardinality(Tracked) <= MaxSlots

FlapInit ==
    /\ time = 1
    /\ stamps = [k \in Keys |-> NoSlot]
    /\ alarm = [k \in Keys |-> FALSE]
    /\ happened = [k \in Keys |-> <<>>]

FlapTick ==
    /\ time < FlapTime
    /\ time' = time + 1
    /\ UNCHANGED <<stamps, alarm, happened>>

\* Mutant: a stamp exactly as old as the window is kept.
KeptInclusive(q) == Sublist(q, {i \in DOMAIN q : q[i] + FlapWindow >= time})

\* The stamps that are after the cutoff.
Kept(q) == Sublist(q, {i \in DOMAIN q : q[i] + FlapWindow > time})

\* flapSlot.last.
Last(q) == q[Len(q)]

\* Mutant: the slot that was replaced last is evicted.
Busiest(v) == v \in Tracked /\ \A j \in Tracked : Last(stamps[j]) <= Last(stamps[v])

\* evictOldest; the order of the map decides between equal stamps.
Quietest(v) == v \in Tracked /\ \A j \in Tracked : Last(stamps[v]) <= Last(stamps[j])

\* The replacement is recorded in the slot that holds the stamps q.
Recorded(k, q) ==
    /\ Cardinality({i \in DOMAIN happened[k] : happened[k][i] = time}) < MaxBurst
    /\ alarm' = [alarm EXCEPT ![k] = Len(q) > Threshold]
    /\ UNCHANGED time

\* A tracked slot is replaced.
Record(k) ==
    LET q == Append(Kept(stamps[k]), time) IN
    /\ stamps[k] # NoSlot
    /\ Recorded(k, q)
    /\ stamps' = [stamps EXCEPT ![k] = q]
    /\ happened' = [happened EXCEPT ![k] = Append(@, time)]

\* A slot is replaced that is not tracked.
RecordNew(k) ==
    /\ stamps[k] = NoSlot
    /\ Cardinality(Tracked) < MaxSlots
    /\ Recorded(k, <<time>>)
    /\ stamps' = [stamps EXCEPT ![k] = <<time>>]
    /\ happened' = [happened EXCEPT ![k] = <<time>>]

RecordEvicting(k) ==
    /\ stamps[k] = NoSlot
    /\ Cardinality(Tracked) >= MaxSlots
    /\ Recorded(k, <<time>>)
    /\ \E v \in Keys :
          /\ Quietest(v)
          /\ stamps' = [stamps EXCEPT ![v] = NoSlot, ![k] = <<time>>]
          /\ happened' = [happened EXCEPT ![v] = <<>>, ![k] = <<time>>]

FlapNext == FlapTick \/ \E k \in Keys : Record(k) \/ RecordNew(k) \/ RecordEvicting(k)

FlapSpec == FlapInit /\ [][FlapNext]_flapVars

-----------------------------------------------------------------------------

\* The replacements of k in the window that ends now, from the history.
ReferenceCount(k) ==
    Cardinality({i \in DOMAIN happened[k] : happened[k][i] <= time /\ time < happened[k][i] + FlapWindow})

\* A replacement raises the alarm exactly when the slot was replaced more than
\* Threshold times in the window that ends with it, since it has been tracked.
AlarmExact ==
    [][\A k \in Keys : (stamps'[k] # stamps[k] /\ stamps'[k] # NoSlot) =>
          (alarm'[k] <=> ReferenceCount(k)' > Threshold)]_flapVars

\* A full counter forgets a slot that has gone longest without a replacement:
\* two agents that are flapping are not hidden by replacements elsewhere.
ForgetsQuietest ==
    [][\A k \in Tracked : stamps'[k] = NoSlot =>
          \A j \in Tracked : Last(happened[k]) <= Last(happened[j])]_flapVars

\* proofStore.learn and flapCounter.record: a full table forgets the slot that was not
\* used, or was quiet, for longest; a proof that is not forgotten sticks; the alarm is
\* raised exactly at the threshold within the window.
TablesSound == EvictsLeastRecent /\ ProofSticks /\ ForgetsQuietest /\ AlarmExact
=============================================================================
