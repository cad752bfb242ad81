-------------------------------- MODULE MCAttach --------------------------------
(***************************************************************************)
(* An attach for TLC: who may (GuestGrants), the goroutines that serve it  *)
(* at both ends (SessionPumps), the watch over the tmux layout             *)
(* (WindowStrip) and the link underneath (PeerLink).  They share no state, *)
(* so a behaviour exercises one of them (part) and leaves the others at    *)
(* rest: the states reached are those of the four specifications side by   *)
(* side, not their product.                                                *)
(***************************************************************************)
EXTENDS MCGuestGrants, SessionPumps, WindowStrip, PeerLink

VARIABLE part   \* the part exercised

allVars == <<part, vars, pumpVars, stripVars, linkVars>>

\* A part at rest has one of its initial states.
AttachInit ==
    /\ part \in {"guests", "pumps", "strip", "link"}
    /\ Init /\ PumpInit /\ StripInit /\ LinkInit

AttachNext ==
    \/ part = "guests" /\ Next /\ UNCHANGED <<part, pumpVars, stripVars, linkVars>>
    \/ part = "pumps" /\ PumpNext /\ UNCHANGED <<part, vars, stripVars, linkVars>>
    \/ part = "strip" /\ StripNext /\ UNCHANGED <<part, vars, pumpVars, linkVars>>
    \/ part = "link" /\ LinkNext /\ UNCHANGED <<part, vars, pumpVars, stripVars>>

\* The fairness of each part, for the part exercised: the clock of GuestGrants and
\* the returns of its deferred calls; a goroutine that can go on does; the ticker of
\* the window pusher; the timer of the watch and its callback.
AttachFairness ==
    /\ WF_vars(part = "guests" /\ Tick)
    /\ \A a \in Attaches : /\ WF_vars(part = "guests" /\ ContextEnds(a))
                           /\ WF_vars(part = "guests" /\ Unregister(a))
    /\ \A p \in Pumps : WF_pumpVars(part = "pumps" /\ PumpLetGo(p))
    /\ WF_pumpVars(part = "pumps" /\ AgentFirst)
    /\ WF_pumpVars(part = "pumps" /\ AgentSecond)
    /\ WF_pumpVars(part = "pumps" /\ ClientFirst)
    /\ WF_pumpVars(part = "pumps" /\ ClientCleanup)
    /\ \A s \in Sessions : WF_stripVars(part = "strip" /\ Poll(s))
    /\ WF_linkVars(part = "link" /\ LinkTick)
    /\ WF_linkVars(part = "link" /\ Fire)
    /\ WF_linkVars(part = "link" /\ RecvClosed)

AttachSpec == AttachInit /\ [][AttachNext]_allVars /\ AttachFairness
=============================================================================
