------------------------------- MODULE MCSharing -------------------------------
(***************************************************************************)
(* How a machine gets its people, for TLC: pairing it with an owner        *)
(* (Pairing) and sharing it with a guest (Share).  They share no state, so *)
(* a behaviour exercises one of them (part) and leaves the other at rest:  *)
(* the states reached are those of the two specifications side by side.    *)
(***************************************************************************)
EXTENDS Pairing, Share

CONSTANTS ma, mb

VARIABLE part   \* the part exercised

allVars == <<part, pairingVars, shareVars>>

\* A part at rest has one of its initial states.
SharingInit ==
    /\ part \in {"pairing", "share"}
    /\ PairingInit /\ ShareInit
    /\ part = "share" => \A p \in DOMAIN gate : gate[p] = "compare"

SharingNext ==
    \/ part = "pairing" /\ PairingNext /\ UNCHANGED <<part, shareVars>>
    \/ part = "share" /\ ShareNext /\ UNCHANGED <<part, pairingVars>>

SharingSpec == SharingInit /\ [][SharingNext]_allVars

MCDir == <<[id |-> ma, name |-> "a", ts |-> 0, shared |-> FALSE],
           [id |-> mb, name |-> "b", ts |-> 0, shared |-> FALSE]>>

Symmetry == Permutations(Clients) \cup Permutations(Gids)
=============================================================================
