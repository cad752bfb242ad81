------------------------------- MODULE ProofStore -------------------------------
(***************************************************************************)
(* The relay's bounded store of learned registration proofs:               *)
(* proofStore in go/internal/signal/proofstore.go, with the calls that     *)
(* handleAgent makes under s.mu for one registration.                      *)
(*                                                                         *)
(* Trust on first use: the first proof a slot presents is remembered and   *)
(* every later registration must present it again.  A full store evicts    *)
(* the least recently seen slot, which is then open to any proof.          *)
(***************************************************************************)
EXTENDS Naturals, FiniteSets

CONSTANTS
    Keys,      \* owner|machine slots
    Secrets,   \* proofs that fit maxAgentProofBytes
    Unstored,  \* proofs learn ignores: empty or over-long
    NoEntry,
    MaxProofs, \* proofStore.max
    MaxClock   \* bound on the logical clock

ASSUME ProofAssumption ==
    /\ Secrets \cap Unstored = {}
    /\ MaxProofs \in Nat \ {0}
    /\ MaxClock \in Nat
    /\ IsFiniteSet(Keys)
    /\ NoEntry \notin [secret : Secrets, seen : Nat]

VARIABLES
    entries,  \* slot -> learned proof and recency, or NoEntry
    clock,    \* logical clock of the store
    live,     \* slots with a connected agent
    older     \* <<j, k>>: j and k are in the store, and k was touched after j (history)

storeVars == <<entries, clock, live, older>>

Entry == [secret : Secrets, seen : 0..MaxClock]
Known == {k \in Keys : entries[k] # NoEntry}

StoreTypeOK ==
    /\ entries \in [Keys -> Entry \cup {NoEntry}]
    /\ clock \in 0..MaxClock
    /\ live \subseteq Keys
    /\ older \subseteq Keys \X Keys
    /\ Cardinality(Known) <= MaxProofs

StoreInit ==
    /\ entries = [k \in Keys |-> NoEntry]
    /\ clock = 0
    /\ live = {}
    /\ older = {}

\* The recency history, kept apart from the code's clocks: v leaves the store, if it is
\* another one, and k is touched.
Touched(v, k) ==
    {p \in older : {v, k} \cap {p[1], p[2]} = {}} \cup ((Known \ {v, k}) \X {k})

Matches(k, x) == entries[k] = NoEntry \/ entries[k].secret = x

\* proofStore.ok on a known slot refreshes its recency, whatever the outcome.
Refreshed(k) == [entries EXCEPT ![k].seen = clock + 1]

\* A call of ok that no registration follows: the check before the WebSocket
\* accept, or a proof that does not match.
Check(k) ==
    /\ clock < MaxClock
    /\ entries[k] # NoEntry
    /\ entries' = Refreshed(k)
    /\ clock' = clock + 1
    /\ older' = Touched(k, k)
    /\ UNCHANGED live

\* A known slot registers again: learn leaves the entry alone.
Renew(k, x) ==
    /\ clock < MaxClock
    /\ entries[k] # NoEntry
    /\ Matches(k, x)
    /\ entries' = Refreshed(k)
    /\ clock' = clock + 1
    /\ older' = Touched(k, k)
    /\ live' = live \cup {k}

\* An unknown slot registers with a proof that is not stored.
RegisterUnstored(k, x) ==
    /\ entries[k] = NoEntry
    /\ x \in Unstored
    /\ live' = live \cup {k}
    /\ UNCHANGED <<entries, clock, older>>

\* Mutant: the most recently seen entry is evicted.
EvictedNewest(k, v) ==
    IF Cardinality(Known) >= MaxProofs
    THEN v \in Known /\ \A j \in Known : entries[v].seen >= entries[j].seen
    ELSE v = k

\* evictLRU: when the store is full the entry with the smallest clock goes; k
\* stands for "nothing is evicted".
Evicted(k, v) ==
    IF Cardinality(Known) >= MaxProofs
    THEN v \in Known /\ \A j \in Known : entries[v].seen <= entries[j].seen
    ELSE v = k

\* Mutant: a proof is learned also when the slot has one.
LearnOverwrites(k, x) ==
    /\ clock < MaxClock
    /\ x \in Secrets
    /\ \E v \in Keys :
          /\ Evicted(k, v)
          /\ entries' = [entries EXCEPT ![v] = NoEntry,
                                        ![k] = [secret |-> x, seen |-> clock + 1]]
          /\ older' = Touched(v, k)
    /\ clock' = clock + 1
    /\ live' = live \cup {k}

\* An unknown slot registers and its proof is learned.
Learn(k, x) ==
    /\ clock < MaxClock
    /\ entries[k] = NoEntry
    /\ x \in Secrets
    /\ \E v \in Keys :
          /\ Evicted(k, v)
          /\ entries' = [entries EXCEPT ![v] = NoEntry,
                                        ![k] = [secret |-> x, seen |-> clock + 1]]
          /\ older' = Touched(v, k)
    /\ clock' = clock + 1
    /\ live' = live \cup {k}

\* The agent of a slot disconnects.
Depart(k) ==
    /\ k \in live
    /\ live' = live \ {k}
    /\ UNCHANGED <<entries, clock, older>>

StoreNext ==
    \E k \in Keys :
        \/ \E x \in Secrets \cup Unstored :
              Renew(k, x) \/ RegisterUnstored(k, x) \/ Learn(k, x)
        \/ Check(k)
        \/ Depart(k)

StoreSpec == StoreInit /\ [][StoreNext]_storeVars

-----------------------------------------------------------------------------

\* A learned proof is never replaced by another one in a single step: a slot
\* changes hands only after its entry was evicted.
ProofSticks ==
    [][\A k \in Keys : (entries[k] # NoEntry /\ entries'[k] # NoEntry)
                            => entries'[k].secret = entries[k].secret]_storeVars

\* Only the least recently touched slot is ever evicted.
EvictsLeastRecent ==
    [][\A k \in Keys : (entries[k] # NoEntry /\ entries'[k] = NoEntry)
                            => \A j \in Known \ {k} : <<k, j>> \in older]_storeVars

\* The proof of a slot with a connected agent is not evicted while the store
\* holds an entry of a slot that has none.
LiveEvictedLast ==
    [][\A k \in live : (entries[k] # NoEntry /\ entries'[k] = NoEntry)
                            => Known \subseteq live]_storeVars
=============================================================================
