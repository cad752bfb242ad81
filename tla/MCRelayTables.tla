----------------------------- MODULE MCRelayTables -----------------------------
(***************************************************************************)
(* What the relay keeps a limit on, for TLC: its tables of proofs, of      *)
(* flapping agents and of request windows (ProofStore, FlapCounter and     *)
(* RateLimiter), and the sessions of one agent (RelayBroker, where two     *)
(* browsers race for the only session).  They share no state here, so a    *)
(* behaviour exercises one of them (table) and leaves the others at rest:  *)
(* the states reached are those of the specifications side by side, not    *)
(* their product.  The slots of the tables are the addresses of the        *)
(* limiter, so that one symmetry serves them.                              *)
(***************************************************************************)
EXTENDS RelayBroker, FlapCounter, RateLimiter, TLC

VARIABLE table   \* the table exercised

allVars == <<table, storeVars, limiterVars, flapVars, vars>>

\* A table at rest has one of its initial states.
TablesInit ==
    /\ table \in {"proofs", "limiter", "flaps", "sessions"}
    /\ StoreInit /\ LimiterInit /\ FlapInit /\ Init
    /\ aProof = CHOOSE f \in [Conns -> Proofs] : TRUE

TablesNext ==
    \/ table = "proofs" /\ StoreNext /\ UNCHANGED <<table, limiterVars, flapVars, vars>>
    \/ table = "limiter" /\ LimiterNext /\ UNCHANGED <<table, storeVars, flapVars, vars>>
    \/ table = "flaps" /\ FlapNext /\ UNCHANGED <<table, storeVars, limiterVars, vars>>
    \/ table = "sessions" /\ Next /\ UNCHANGED <<table, storeVars, limiterVars, flapVars>>

TablesSpec == TablesInit /\ [][TablesNext]_allVars

Symmetry == Permutations(Keys) \cup Permutations(Calls)
=============================================================================
