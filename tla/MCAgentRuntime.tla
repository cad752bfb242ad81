---------------------------- MODULE MCAgentRuntime ----------------------------
(***************************************************************************)
(* AgentRuntime for TLC: two offers of the owner with one session id and   *)
(* one of a guest, all routed to the same owner.  The whole does not fit a *)
(* run, so a behaviour exercises one side of it: the pins change while two *)
(* of the offers are served, or the pins stay and all the offers race each *)
(* other, the clock and the auto-update.                                   *)
(***************************************************************************)
EXTENDS AgentRuntime, TLC

CONSTANTS o1, own, again, guest

VARIABLE side   \* "owners" or "offers"

MCOwnerOf == [f \in Offers |-> o1]
MCSessionOf == [f \in Offers |-> IF f = guest THEN 2 ELSE 1]

MCInit == Init /\ side \in {"owners", "offers"}

\* What each side leaves out.
MCNext ==
    /\ Next
    /\ side = "owners" => pc'[again] = "idle" /\ now' = 0 /\ updates' = 0
    /\ side = "offers" => changes' = 0 /\ want' = NoReload
    /\ UNCHANGED side

MCSpec == MCInit /\ [][MCNext]_<<vars, side>> /\ Fairness
=============================================================================
