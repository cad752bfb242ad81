-------------------------------- MODULE MCClient --------------------------------
(***************************************************************************)
(* The Go client for TLC: the multiplexer (Mux), the reconnect loop        *)
(* (Reconnect) and the owner identity (ClientIdentity).  They share no     *)
(* state, so a behaviour exercises one of them (part) and leaves the       *)
(* others at rest: the states reached are those of the three               *)
(* specifications side by side, not their product.                         *)
(***************************************************************************)
EXTENDS Mux, Reconnect, ClientIdentity

VARIABLE part   \* the part exercised

allVars == <<part, vars, redialVars, identityVars>>

\* A part at rest has one of its initial states.
ClientInit ==
    /\ part \in {"mux", "redial", "identity"}
    /\ Init
    /\ RedialInit
    /\ IdentityInit
    /\ part # "mux" => \A w \in Windows : size <= w
    /\ part # "identity" => /\ file = Missing
                            /\ \A p \in Procs : proc[p].goal = "load"

ClientNext ==
    \/ part = "mux" /\ Next /\ UNCHANGED <<part, redialVars, identityVars>>
    \/ part = "redial" /\ RedialNext /\ UNCHANGED <<part, vars, identityVars>>
    \/ part = "identity" /\ IdentityNext /\ UNCHANGED <<part, vars, redialVars>>

\* The fairness of Mux and of Reconnect, for the part exercised.
ClientFairness ==
    /\ \A s \in Sessions :
          /\ WF_vars(part = "mux" /\ CloseQuit(s))
          /\ WF_vars(part = "mux" /\ ctx = "done" /\ SessionEnd(s))
    /\ \A a \in Sessions \cup {Stdin} :
          /\ WF_vars(part = "mux" /\ RepaintShort(a))
          /\ WF_vars(part = "mux" /\ RepaintFull(a))
    /\ WF_vars(part = "mux" /\ SwitchNext)
    /\ WF_vars(part = "mux" /\ WinchTake)
    /\ WF_vars(part = "mux" /\ WinchGetSize)
    /\ WF_vars(part = "mux" /\ WinchSend)
    /\ WF_vars(part = "mux" /\ ResizeSend)
    /\ WF_vars(part = "mux" /\ ResizerReturns)
    /\ WF_vars(part = "mux" /\ RunReturns)
    /\ WF_redialVars(part = "redial" /\ (Redial \/ TopReturns))
    /\ WF_redialVars(part = "redial" /\ (LocatorOpens \/ DialFails \/ DialSucceeds))
    /\ WF_redialVars(part = "redial" /\ (HealthyDrop \/ Flap))
    /\ WF_redialVars(part = "redial" /\ (Wakes \/ SleepCut))
    /\ WF_redialVars(part = "redial" /\ caller = "done" /\ \E hard \in BOOLEAN : RunEnds(hard))

ClientSpec == ClientInit /\ [][ClientNext]_allVars /\ ClientFairness

\* ReconnectLoopWith: the loop gives up on a gone machine and obeys a cancellation.
RedialGivesUp == part = "redial" => GivesUp
=============================================================================
