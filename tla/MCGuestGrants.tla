---------------------------- MODULE MCGuestGrants ----------------------------
(* GuestGrants for TLC: two grants of two owners, one of them short.        *)
EXTENDS GuestGrants, TLC

CONSTANTS g1, g2, o1, o2

MCOwnerOf == (g1 :> o1) @@ (g2 :> o2)
MCSameOwner == (g1 :> o1) @@ (g2 :> o1)
MCNB == (g1 :> 0) @@ (g2 :> 1)
MCNA == (g1 :> 1) @@ (g2 :> 2)
=============================================================================
