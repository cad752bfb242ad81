--------------------------------- MODULE Lists ---------------------------------
(***************************************************************************)
(* The loop that keeps some entries of a list, as the client's directory   *)
(* and the relay's flap counter run it.                                    *)
(***************************************************************************)
EXTENDS Naturals, FiniteSets

\* The entries of a list at some of its positions, in their order.
Sublist(list, I) ==
    [k \in 1 .. Cardinality(I) |->
        list[CHOOSE i \in I : Cardinality({j \in I : j <= i}) = k]]
=============================================================================
