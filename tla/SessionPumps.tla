----------------------------- MODULE SessionPumps ------------------------------
(***************************************************************************)
(* The two ends of an attach while it lasts: RunAgentSession of            *)
(* go/internal/agent/session.go between a data channel and a shell, and    *)
(* ClientBridgeSink of go/internal/client/bridge.go between a data channel *)
(* and a terminal.                                                         *)
(*                                                                         *)
(* A goroutine is parked where it blocks and ends by putting its result    *)
(* into errc.  The channel closes for both ends; an end that returns       *)
(* closes its peer connection, so that the other's Recv fails.             *)
(***************************************************************************)
EXTENDS Integers, FiniteSets

\* The goroutines: the agent's two pumps, the client's three.
AgentPumps == {"to_shell", "from_shell"}
ClientPumps == {"from_keys", "to_screen", "resizes"}
Pumps == AgentPumps \cup ClientPumps

VARIABLES
    open,      \* whether the data channel is open
    shell,     \* whether the terminal the agent runs is open
    keys,      \* whether the client's input is open
    pump,      \* goroutine -> "on" or "ended"
    errc,      \* end -> goroutines whose result waits in errc
    agent,     \* RunAgentSession: "serving", "closing", "returned"
    client     \* ClientBridgeSink: "serving", "returned", "cleaned"

pumpVars == <<open, shell, keys, pump, errc, agent, client>>

PumpInit ==
    /\ open = TRUE /\ shell = TRUE /\ keys = TRUE
    /\ pump = [p \in Pumps |-> "on"]
    /\ errc = [e \in {"agent", "client"} |-> {}]
    /\ agent = "serving" /\ client = "serving"

End(p) == IF p \in AgentPumps THEN "agent" ELSE "client"

-----------------------------------------------------------------------------
(* What happens to an attach.                                              *)

\* The link is given up: ICE failed, the grace of LinkWatch is over, or the frame
\* counter no longer matches.
ChannelCloses ==
    /\ open
    /\ open' = FALSE
    /\ UNCHANGED <<shell, keys, pump, errc, agent, client>>

\* The program in the terminal ends.
ShellExits ==
    /\ shell
    /\ shell' = FALSE
    /\ UNCHANGED <<open, keys, pump, errc, agent, client>>

\* The person detaches: the client's input ends.
KeysEnd ==
    /\ keys
    /\ keys' = FALSE
    /\ UNCHANGED <<open, shell, pump, errc, agent, client>>

-----------------------------------------------------------------------------
(* The goroutines.                                                         *)

AgentCancelled == agent \in {"closing", "returned"}
ClientCancelled == client \in {"returned", "cleaned"}

\* Whether a goroutine that is parked is let go: Recv by a closed channel or a
\* cancelled context, Read by a closed terminal, a select by a cancelled context.
LetGo(p) ==
    CASE p = "to_shell" -> ~open \/ AgentCancelled
      [] p = "from_shell" -> ~shell
      [] p = "from_keys" -> ~keys
      [] p = "to_screen" -> ~open \/ ClientCancelled
      [] p = "resizes" -> ClientCancelled

\* Whether what it does with a byte or a frame that comes may fail.
MayFail(p) ==
    CASE p = "to_shell" -> ~shell
      [] p \in {"from_shell", "from_keys", "resizes"} -> ~open
      [] p = "to_screen" -> FALSE

Ends(p) ==
    /\ pump[p] = "on"
    /\ pump' = [pump EXCEPT ![p] = "ended"]
    /\ errc' = [errc EXCEPT ![End(p)] = @ \cup {p}]
    /\ UNCHANGED <<open, shell, keys, agent, client>>

PumpLetGo(p) == LetGo(p) /\ Ends(p)
PumpFails(p) == MayFail(p) /\ ~LetGo(p) /\ Ends(p)

-----------------------------------------------------------------------------
(* RunAgentSession and ClientBridgeSink.                                   *)

TakesOne(e) == \E p \in errc[e] : errc' = [errc EXCEPT ![e] = @ \ {p}]

\* Mutant: the context is cancelled, the shell is the caller's.
AgentFirstCancelOnly ==
    /\ agent = "serving"
    /\ TakesOne("agent")
    /\ agent' = "closing"
    /\ UNCHANGED <<open, shell, keys, pump, client>>

\* The first result: cancel and close the shell.
AgentFirst ==
    /\ agent = "serving"
    /\ TakesOne("agent")
    /\ agent' = "closing"
    /\ shell' = FALSE
    /\ UNCHANGED <<open, keys, pump, client>>

\* Mutant: the second result is not waited for.
AgentSecondUnasked ==
    /\ agent = "closing"
    /\ agent' = "returned"
    /\ open' = FALSE
    /\ UNCHANGED <<shell, keys, pump, errc, client>>

\* The second, then the caller closes the peer connection.
AgentSecond ==
    /\ agent = "closing"
    /\ TakesOne("agent")
    /\ agent' = "returned"
    /\ open' = FALSE
    /\ UNCHANGED <<shell, keys, pump, client>>

\* The client returns with the first result; the others are left to themselves.
ClientFirst ==
    /\ client = "serving"
    /\ TakesOne("client")
    /\ client' = "returned"
    /\ UNCHANGED <<open, shell, keys, pump, agent>>

\* The caller's cleanup closes the peer connection.
ClientCleanup ==
    /\ client = "returned"
    /\ client' = "cleaned"
    /\ open' = FALSE
    /\ UNCHANGED <<shell, keys, pump, errc, agent>>

PumpNext ==
    \/ ChannelCloses \/ ShellExits \/ KeysEnd
    \/ \E p \in Pumps : PumpLetGo(p) \/ PumpFails(p)
    \/ AgentFirst \/ AgentSecond \/ ClientFirst \/ ClientCleanup

PumpSpec == PumpInit /\ [][PumpNext]_pumpVars

-----------------------------------------------------------------------------
(* Properties.                                                             *)

\* RunAgentSession: neither pump outlives the call, so nothing reads or writes a
\* shell that has been closed behind it.
NoPumpOutlives == agent = "returned" => \A p \in AgentPumps : pump[p] = "ended"

\* Whichever side ends first, both ends return.
BothReturn ==
    (~open \/ ~shell \/ ~keys) ~> (agent = "returned" /\ client = "cleaned")
=============================================================================
