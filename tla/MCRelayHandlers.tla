---------------------------- MODULE MCRelayHandlers ----------------------------
(***************************************************************************)
(* Handlers of the relay that wait for each other, for TLC: the two ends   *)
(* of a pairing room (PairRooms), and revocations posted while the disk    *)
(* fails (RelayRevocations).  They share no state, so a behaviour          *)
(* exercises one of them (part) and leaves the other at rest: the states   *)
(* reached are those of the two specifications side by side.               *)
(***************************************************************************)
EXTENDS PairRooms, RelayRevocations

VARIABLE part   \* the part exercised

allVars == <<part, pairVars, vars>>

\* A part at rest has one of its initial states.
HandlersInit ==
    /\ part \in {"rooms", "revocations"}
    /\ PairInit /\ Init
    /\ part = "rooms" => slot = CHOOSE f \in [Posts -> Slots] : TRUE
    /\ part = "revocations" => room = CHOOSE f \in [Handlers -> Rooms] : TRUE

\* Agents, which no handler waits for, stay away (MCRevocations has them).
HandlersNext ==
    \/ part = "rooms" /\ PairNext /\ UNCHANGED <<part, vars>>
    \/ part = "revocations" /\ Next /\ agents' = {} /\ UNCHANGED <<part, pairVars>>

\* A handler that can go on does.
HandlersFairness ==
    /\ \A h \in Handlers : WF_pairVars(part = "rooms" /\ Step(h))
    /\ \A p \in Posts : WF_vars(part = "revocations" /\ Handler(p))

HandlersSpec == HandlersInit /\ [][HandlersNext]_allVars /\ HandlersFairness

\* handlePair and postRevocation: every call returns, also the one that handed its
\* socket to a waiter whose timer fired in the same instant or to a driver that
\* found no bridge free, and the ones that wait for the two locks of a failing disk.
HandlersReturn == EveryHandlerReturns /\ EveryPostAnswered
=============================================================================
