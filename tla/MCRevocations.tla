----------------------------- MODULE MCRevocations -----------------------------
(***************************************************************************)
(* Both ends of a revocation for TLC: the relay that makes it permanent    *)
(* (RelayRevocations) and the client that decides an attach on it          *)
(* (Prewarm).  Prewarm sees of the relay only when it learned a tombstone, *)
(* so a behaviour exercises one end and leaves the other at rest: the      *)
(* states reached are those of the two specifications side by side.        *)
(***************************************************************************)
EXTENDS MCRelayRevocations, Prewarm

VARIABLE end    \* the end exercised

allVars == <<end, vars, prewarmVars>>

\* The end at rest has one of its initial states.
RevocationsInit ==
    /\ end \in {"relay", "client"}
    /\ Init
    /\ PrewarmInit
    /\ end = "client" => slot = CHOOSE f \in [Posts -> Slots] : TRUE
    /\ end = "relay" => Published = {} /\ cache["turn"] = None

RevocationsNext ==
    \/ end = "relay" /\ Next /\ UNCHANGED <<end, prewarmVars>>
    \/ end = "client" /\ PrewarmNext /\ UNCHANGED <<end, vars>>

RevocationsSpec == RevocationsInit /\ [][RevocationsNext]_allVars
=============================================================================
