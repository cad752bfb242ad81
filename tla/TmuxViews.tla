------------------------------- MODULE TmuxViews -------------------------------
(***************************************************************************)
(* The tmux sessions of a machine and the viewers that share them:         *)
(* go/internal/agent/grouped.go (a session of its own for every attach, in *)
(* the group of the base), windows.go (the window and session commands a   *)
(* client sends, and the snapshot it is shown) and the attach's part of    *)
(* serveAuthenticated in runtime.go.                                       *)
(*                                                                         *)
(* Sessions of one group show the same windows, each with a current window *)
(* of its own; the windows of a group end with its last session.  A        *)
(* command first asks tmux which client is ours and what it views, then    *)
(* runs; other viewers and people at the machine come between.  Names of   *)
(* windows, renaming and the order of windows are left out; an attach      *)
(* while the base is gone and the group is not is left out too, for what   *)
(* tmux then makes of the group is its own affair.                         *)
(***************************************************************************)
EXTENDS Integers, FiniteSets

CONSTANTS
    Viewers,
    Windows,
    Base,        \* "main"
    Extra,       \* another session, with windows of its own
    Nowhere,
    MaxCommands  \* bound: commands of all viewers

\* A session of the agent's own has none of the names people give theirs.
ASSUME ViewAssumption ==
    /\ Base \notin Viewers /\ Extra \notin Viewers /\ Base # Extra
    /\ Nowhere \notin Viewers \cup {Base, Extra}
    /\ MaxCommands \in Nat

VARIABLES
    exists,   \* sessions of tmux; a viewer's own session is named after it
    cur,      \* session -> its current window
    wins,     \* group -> its windows
    client,   \* viewer -> session its client views, or Nowhere
    at,       \* viewer -> its attach: "off", "starting", "on", "leaving"
    plan,     \* viewer -> the command it is about to run
    asked,    \* commands so far
    lost,     \* what ended the windows of the base's group, since it was last made
    felled    \* what ended the base, since it was last made

viewVars == <<exists, cur, wins, client, at, plan, asked, lost, felled>>

Sessions == Viewers \cup {Base, Extra}
Group(s) == IF s = Extra THEN Extra ELSE Base
NoCommand == [a |-> "none", s |-> Nowhere, w |-> Nowhere, who |-> Nowhere, cur |-> Nowhere]

ViewInit ==
    /\ exists = {}
    /\ cur = [s \in Sessions |-> Nowhere]
    /\ wins = [g \in {Base, Extra} |-> {}]
    /\ client = [v \in Viewers |-> Nowhere]
    /\ at = [v \in Viewers |-> "off"]
    /\ plan = [v \in Viewers |-> NoCommand] /\ asked = 0
    /\ lost = "nothing" /\ felled = "nothing"

Unused == Windows \ (wins[Base] \cup wins[Extra])
Members(g) == {s \in exists : Group(s) = g}

\* A client of a session that ends is detached, and its attach ends with it.
\* The sessions S end; what of their groups.
Kill(S, cause) ==
    /\ exists' = exists \ S
    /\ client' = [v \in Viewers |-> IF client[v] \in S THEN Nowhere ELSE client[v]]
    /\ at' = [v \in Viewers |-> IF client[v] \in S THEN "leaving" ELSE at[v]]
    /\ wins' = [g \in {Base, Extra} |-> IF Members(g) \subseteq S THEN {} ELSE wins[g]]
    /\ lost' = IF wins[Base] # {} /\ Members(Base) \subseteq S THEN cause ELSE lost
    /\ felled' = IF Base \in S \cap exists THEN cause ELSE felled
    /\ cur' = [s \in Sessions |-> IF s \in S THEN Nowhere ELSE cur[s]]

-----------------------------------------------------------------------------
(* An attach.                                                              *)

\* ensureGroupedBase: the base exists before a member is made.
AttachView(v) ==
    /\ at[v] = "off"
    /\ \/ Base \in exists /\ UNCHANGED <<exists, cur, wins, lost, felled>>
       \/ /\ Members(Base) = {} /\ Unused # {}
          /\ exists' = exists \cup {Base}
          /\ \E w \in Unused : /\ wins' = [wins EXCEPT ![Base] = {w}]
                               /\ cur' = [cur EXCEPT ![Base] = w]
          /\ lost' = "nothing" /\ felled' = "nothing"
    /\ at' = [at EXCEPT ![v] = "starting"]
    /\ UNCHANGED <<client, plan, asked>>

\* groupedLaunch: the client comes up in its own session of the group.
ClientUp(v) ==
    /\ at[v] = "starting"
    /\ Base \in exists
    /\ exists' = exists \cup {v}
    /\ cur' = [cur EXCEPT ![v] = cur[Base]]
    /\ client' = [client EXCEPT ![v] = v]
    /\ at' = [at EXCEPT ![v] = "on"]
    /\ UNCHANGED <<wins, plan, asked, lost, felled>>

\* The base went before the client came: the launch fails.
ClientFails(v) ==
    /\ at[v] = "starting"
    /\ Base \notin exists
    /\ at' = [at EXCEPT ![v] = "leaving"]
    /\ UNCHANGED <<exists, cur, wins, client, plan, asked, lost, felled>>

\* RunAgentSession returns.
Leave(v) ==
    /\ at[v] \in {"starting", "on"}
    /\ at' = [at EXCEPT ![v] = "leaving"]
    /\ client' = [client EXCEPT ![v] = Nowhere]
    /\ UNCHANGED <<exists, cur, wins, plan, asked, lost, felled>>

\* killGroupedSession: the session of this attach, and never the base.
DetachView(v) ==
    /\ at[v] = "leaving"
    /\ plan[v] = NoCommand
    /\ LET S == {v} \cap exists IN
       /\ exists' = exists \ S
       /\ wins' = [wins EXCEPT ![Base] = IF S # {} /\ Members(Base) = S THEN {} ELSE @]
       /\ lost' = IF S # {} /\ Members(Base) = S THEN "detach" ELSE lost
    /\ cur' = [cur EXCEPT ![v] = Nowhere]
    /\ at' = [at EXCEPT ![v] = "off"]
    /\ UNCHANGED <<client, plan, asked, felled>>

\* The agent is killed: its clients go and their sessions stay.
Crash ==
    /\ \E v \in Viewers : at[v] # "off"
    /\ at' = [v \in Viewers |-> "off"]
    /\ client' = [v \in Viewers |-> Nowhere]
    /\ plan' = [v \in Viewers |-> NoCommand]
    /\ UNCHANGED <<exists, cur, wins, asked, lost, felled>>

Orphans == {v \in Viewers \cap exists : \A u \in Viewers : client[u] # v}

\* Mutant: every orphan goes.
SweepEvery ==
    /\ \A v \in Viewers : at[v] = "off"
    /\ Orphans # {}
    /\ Kill(Orphans, "sweep")
    /\ UNCHANGED <<plan, asked>>

\* sweepOrphanGroupedSessions, before the agent serves: sessions of our names
\* without a client, in the order tmux lists them, but not the last of a group.
Sweep ==
    /\ \A v \in Viewers : at[v] = "off"
    /\ Orphans # {}
    /\ IF Members(Base) = Orphans
       THEN \E kept \in Orphans : Kill(Orphans \ {kept}, "sweep")
       ELSE Kill(Orphans, "sweep")
    /\ UNCHANGED <<plan, asked>>

\* Somebody at the machine ends a session, opens the extra one, or turns their
\* client to another session.
KillByHand(s) ==
    /\ s \in {Base, Extra} \cap exists
    /\ Kill({s}, "other")
    /\ UNCHANGED <<plan, asked>>

TurnTo(v, s) ==
    /\ at[v] = "on" /\ s \in exists \ {client[v]} /\ s \in {Base, Extra, v}
    /\ client' = [client EXCEPT ![v] = s]
    /\ UNCHANGED <<exists, cur, wins, at, plan, asked, lost, felled>>

-----------------------------------------------------------------------------
(* runTmuxControl.                                                         *)

Clients == {v \in Viewers : client[v] # Nowhere}

\* tmuxClient: ours by its process, else the only one there is.
Ours(v) ==
    IF client[v] # Nowhere THEN v
    ELSE IF Cardinality(Clients) = 1 THEN CHOOSE u \in Clients : TRUE
    ELSE Nowhere

\* What a client may ask for; a command without a session or a window has Nowhere.
Commands ==
    [a : {"select"}, s : {Base, Extra, Nowhere}, w : Windows]
      \cup [a : {"new"}, s : {Base, Extra, Nowhere}, w : {Nowhere}]
      \cup [a : {"switch", "kill"}, s : {Base, Extra}, w : {Nowhere}]
      \cup [a : {"next", "session"}, s : {Nowhere}, w : {Nowhere}]
      \cup [a : {"killwindow"}, s : {Nowhere}, w : Windows]

\* A command comes and the client is looked up.
Look(v) ==
    /\ at[v] \in {"starting", "on"}
    /\ plan[v] = NoCommand
    /\ asked < MaxCommands /\ asked' = asked + 1
    /\ LET who == Ours(v)
           seen == IF who = Nowhere THEN Nowhere ELSE client[who]
       IN \E c \in Commands :
             plan' = [plan EXCEPT ![v] = [a |-> c.a, s |-> c.s, w |-> c.w, who |-> who, cur |-> seen]]
    /\ UNCHANGED <<exists, cur, wins, client, at, lost, felled>>

SameView(s, t) == s = t \/ (s \in exists /\ t \in exists /\ Group(s) = Group(t))
Done(v) == plan' = [plan EXCEPT ![v] = NoCommand] /\ UNCHANGED asked

\* Move a client to a session, if both are there.
Switched(who, s) ==
    IF who # Nowhere /\ s \in exists /\ client[who] # Nowhere
    THEN [client EXCEPT ![who] = s] ELSE client

\* Mutant: the window is named without its session; tmux takes one that has it.
SelectWindowBare(v) ==
    LET p == plan[v] IN
    /\ p.a = "select"
    /\ \/ \E t \in Members(Base) \cup Members(Extra) :
             p.w \in wins[Group(t)] /\ cur' = [cur EXCEPT ![t] = p.w]
       \/ p.w \notin wins[Base] \cup wins[Extra] /\ UNCHANGED cur
    /\ Done(v)
    /\ UNCHANGED <<exists, wins, client, at, lost, felled>>

\* The client moves to the window's session unless it shows it already; the window
\* is selected in the session viewed, or by its id alone if there is none.
SelectWindow(v) ==
    LET p == plan[v]
        moves == p.who # Nowhere /\ p.s # Nowhere /\ ~SameView(p.s, p.cur)
        view == IF moves THEN p.s ELSE p.cur
        holds(t) == t \in exists /\ p.w \in wins[Group(t)]
    IN
    /\ p.a = "select"
    /\ client' = IF moves THEN Switched(p.who, p.s) ELSE client
    /\ \/ view # Nowhere /\ holds(view) /\ cur' = [cur EXCEPT ![view] = p.w]
       \/ view # Nowhere /\ ~holds(view) /\ UNCHANGED cur
       \/ view = Nowhere /\ \E t \in exists : holds(t) /\ cur' = [cur EXCEPT ![t] = p.w]
       \/ view = Nowhere /\ (\A t \in exists : ~holds(t)) /\ UNCHANGED cur
    /\ Done(v)
    /\ UNCHANGED <<exists, wins, at, lost, felled>>

\* A window is made in the session named, or viewed; it is landed on in our own
\* session if that shows it, else the client moves.
NewWindow(v) ==
    LET p == plan[v]
        t == IF p.s = Nowhere THEN p.cur ELSE p.s
    IN
    /\ p.a = "new"
    /\ IF t \in exists /\ Unused # {}
       THEN \E w \in Unused :
              /\ wins' = [wins EXCEPT ![Group(t)] = @ \cup {w}]
              /\ cur' = IF t # p.cur /\ p.who # Nowhere /\ SameView(t, p.cur)
                        THEN [cur EXCEPT ![t] = w, ![p.cur] = w]
                        ELSE [cur EXCEPT ![t] = w]
              /\ client' = IF t = p.cur \/ p.who = Nowhere \/ SameView(t, p.cur)
                           THEN client ELSE Switched(p.who, t)
       ELSE UNCHANGED <<wins, cur, client>>
    /\ Done(v)
    /\ UNCHANGED <<exists, at, lost, felled>>

\* The next or the previous window of the session viewed.
NextWindow(v) ==
    LET p == plan[v] IN
    /\ p.a = "next"
    /\ IF p.cur \in exists
       THEN \E w \in wins[Group(p.cur)] : cur' = [cur EXCEPT ![p.cur] = w]
       ELSE UNCHANGED cur
    /\ Done(v)
    /\ UNCHANGED <<exists, wins, client, at, lost, felled>>

SwitchSession(v) ==
    LET p == plan[v] IN
    /\ p.a = "switch"
    /\ client' = IF p.s # Nowhere /\ ~SameView(p.s, p.cur) THEN Switched(p.who, p.s) ELSE client
    /\ Done(v)
    /\ UNCHANGED <<exists, cur, wins, at, lost, felled>>

\* The extra session is made, and our client, looked up again, moves there.
NewSession(v) ==
    /\ plan[v].a = "session"
    /\ IF Extra \notin exists /\ Unused # {}
       THEN /\ exists' = exists \cup {Extra}
            /\ \E w \in Unused : /\ wins' = [wins EXCEPT ![Extra] = {w}]
                                 /\ cur' = [cur EXCEPT ![Extra] = w]
            /\ client' = IF Ours(v) = Nowhere THEN client ELSE [client EXCEPT ![Ours(v)] = Extra]
       ELSE UNCHANGED <<exists, wins, cur, client>>
    /\ Done(v)
    /\ UNCHANGED <<at, lost, felled>>

\* Whether a viewer that is still where it was looked up kills a session of the
\* group it views, or it is another's or a stale one's.
KillFrom(v) ==
    IF client[v] # Nowhere /\ client[v] = plan[v].cur /\ Group(client[v]) = Group(plan[v].s)
    THEN "own" ELSE "other"

\* Mutant: the guard compares names only.
KillSessionByName(v) ==
    LET p == plan[v] IN
    /\ p.a = "kill"
    /\ IF p.s \in exists /\ p.s # p.cur
       THEN Kill({p.s}, KillFrom(v))
       ELSE UNCHANGED <<exists, cur, client, at, wins, lost, felled>>
    /\ Done(v)

\* Never the session viewed, nor one of its group.
KillSession(v) ==
    LET p == plan[v] IN
    /\ p.a = "kill"
    /\ IF p.s \in exists /\ ~SameView(p.s, p.cur)
       THEN Kill({p.s}, KillFrom(v))
       ELSE UNCHANGED <<exists, cur, client, at, wins, lost, felled>>
    /\ Done(v)

\* A window that is not the last of its group: the sessions that showed it turn to
\* another.  The last one takes the group along.
KillWindow(v) ==
    LET p == plan[v]
        g == IF p.w \in wins[Extra] THEN Extra ELSE Base
    IN
    /\ p.a = "killwindow"
    /\ IF p.w \notin wins[g] THEN UNCHANGED <<exists, client, at, wins, cur, lost, felled>>
       ELSE IF wins[g] = {p.w}
       THEN Kill(Members(g), "other")
       ELSE /\ wins' = [wins EXCEPT ![g] = @ \ {p.w}]
            /\ \E w \in wins[g] \ {p.w} :
                  cur' = [s \in Sessions |-> IF Group(s) = g /\ cur[s] = p.w THEN w ELSE cur[s]]
            /\ UNCHANGED <<exists, client, at, lost, felled>>
    /\ Done(v)

ViewNext ==
    \/ Crash \/ Sweep
    \/ \E s \in {Base, Extra} : KillByHand(s)
    \/ \E v \in Viewers :
          \/ AttachView(v) \/ ClientUp(v) \/ ClientFails(v) \/ Leave(v) \/ DetachView(v)
          \/ \E s \in Sessions : TurnTo(v, s)
          \/ Look(v)
          \/ SelectWindow(v) \/ NewWindow(v) \/ NextWindow(v) \/ SwitchSession(v)
          \/ NewSession(v) \/ KillSession(v) \/ KillWindow(v)

ViewSpec == ViewInit /\ [][ViewNext]_viewVars

-----------------------------------------------------------------------------
(* The snapshot.                                                           *)

\* Mutant: the viewer's own session is folded out without its window.
SnapshotFolded(v) ==
    {[n |-> s, act |-> (s = client[v] \/ (s = Base /\ client[v] = v)), aw |-> cur[s]]
        : s \in exists \ Viewers}

\* tmuxSessionsJSON and collapseGrouped: every session but the agent's own; the
\* viewer's is folded into the base, its view and its window with it.
Snapshot(v) ==
    LET own == client[v] \in Viewers IN
    {[n |-> s,
      act |-> (s = client[v] \/ (s = Base /\ own)),
      aw |-> IF s = Base /\ own THEN cur[client[v]] ELSE cur[s]]
        : s \in exists \ Viewers}

-----------------------------------------------------------------------------
(* Properties.                                                             *)

\* grouped.go: the end of an attach and the sweep of orphans end nobody's windows
\* while the base stands, the sweep not even without it; and no viewer of the
\* group takes the base away with a command of its own.
WorkSurvives ==
    /\ lost # "sweep"
    /\ lost = "detach" => felled # "nothing"
    /\ felled # "own"

\* runTmuxControl: a viewer whose client is known moves the current window of no
\* session that another viewer looks at and it does not.
MovesOwnView ==
    [][\A v, u \in Viewers :
          (/\ plan[v].a \in {"select", "next"} /\ plan'[v] = NoCommand
           /\ plan[v].cur # Nowhere /\ plan[v].who = v
           /\ client[u] = u /\ u # v)
              => cur'[u] = cur[u]]_viewVars

\* collapseGrouped: the strip highlights what this client is looking at, not what
\* another viewer selected, as long as the base stands.
StripShowsOwn ==
    \A v \in Viewers :
        (at[v] = "on" /\ Base \in exists)
            => {e \in Snapshot(v) : e.act}
                 = {[n |-> IF client[v] = Extra THEN Extra ELSE Base,
                     act |-> TRUE, aw |-> cur[client[v]]]}

\* runTmuxControl and collapseGrouped: what one viewer does leaves the view of
\* another, and what it is shown is its own.
ViewsApart == MovesOwnView /\ [][StripShowsOwn']_viewVars

\* grouped.go:9 says that removing a session of the agent's own never destroys
\* windows.
DetachKeepsWindows == lost # "detach"
=============================================================================
