------------------------------ MODULE MCCommands ------------------------------
(***************************************************************************)
(* What people do with their machines, for TLC: the overview (Overview),   *)
(* renaming a machine (MachineNames) and viewing its sessions from several *)
(* clients (TmuxViews).  They share no state here, so a behaviour          *)
(* exercises one of them (part) and leaves the others at rest: the states  *)
(* reached are those of the three specifications side by side.  Once two   *)
(* rewrites of config.json have overlapped RenameLasts says nothing more:  *)
(* a behaviour of MachineNames stops there.                                *)
(***************************************************************************)
EXTENDS Overview, MachineNames, TmuxViews

CONSTANTS m1, m2, m3

VARIABLE part   \* the part exercised

allVars == <<part, overviewVars, namesVars, viewVars>>

CommandsInit ==
    /\ part \in {"overview", "names", "views"}
    /\ OverviewInit /\ NamesInit /\ ViewInit

CommandsNext ==
    \/ part = "overview" /\ OverviewNext /\ UNCHANGED <<part, namesVars, viewVars>>
    \/ part = "names" /\ ~overlapped /\ NamesNext /\ UNCHANGED <<part, overviewVars, viewVars>>
    \/ part = "views" /\ ViewNext /\ UNCHANGED <<part, overviewVars, namesVars>>

CommandsSpec == CommandsInit /\ [][CommandsNext]_allVars

MCNamed == (m1 :> <<"a">>) @@ (m2 :> <<"b">>) @@ (m3 :> <<"c">>)
MCStored == <<m1, m3>>
MCAnswers == {<<"y">>}
=============================================================================
