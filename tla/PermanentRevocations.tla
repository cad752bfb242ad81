-------------------------- MODULE PermanentRevocations --------------------------
(***************************************************************************)
(* What the relay promises about machine revocations, with no locks, no    *)
(* versions and no file: a slot is enforced as soon as a revocation of it  *)
(* is accepted, permanent once it was acknowledged, and a permanent slot   *)
(* is enforced for ever.  Only a crash may drop an enforced slot, and only *)
(* one that nobody was promised.                                           *)
(***************************************************************************)
EXTENDS FiniteSets

CONSTANT Slots

VARIABLES
    permanent,  \* slots whose revocation was acknowledged
    enforced,   \* slots refused at registration and attach
    live        \* slots with a registered agent

pvars == <<permanent, enforced, live>>

PInit == permanent = {} /\ enforced = {} /\ live = {}

Enforce(s) ==
    /\ enforced' = enforced \cup {s}
    /\ live' = live \ {s}
    /\ UNCHANGED permanent

Promise(s) ==
    /\ s \in enforced
    /\ permanent' = permanent \cup {s}
    /\ UNCHANGED <<enforced, live>>

Register(s) ==
    /\ s \notin enforced
    /\ live' = live \cup {s}
    /\ UNCHANGED <<permanent, enforced>>

Leave(s) ==
    /\ live' = live \ {s}
    /\ UNCHANGED <<permanent, enforced>>

Crash ==
    /\ live' = {}
    /\ enforced' \in SUBSET enforced
    /\ permanent \subseteq enforced'
    /\ UNCHANGED permanent

PNext ==
    \/ \E s \in Slots : Enforce(s) \/ Promise(s) \/ Register(s) \/ Leave(s)
    \/ Crash

PSpec == PInit /\ [][PNext]_pvars
=============================================================================
