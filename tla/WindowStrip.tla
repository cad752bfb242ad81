------------------------------ MODULE WindowStrip ------------------------------
(***************************************************************************)
(* How attaches learn of the windows of tmux: the pusher of                *)
(* go/internal/agent/windowpush.go and the hooks of tmuxhooks.go that wake *)
(* it, shared by every attach of the agent.                                *)
(*                                                                         *)
(* Of the layout a session was sent, what matters is whether it is the     *)
(* present one (fresh).  A hook that is installed runs wait-for -S: tmux   *)
(* wakes everyone who waits, and remembers the signal, once, when nobody   *)
(* does.  Not every change has a hook.  The tmux server may be restarted,  *)
(* which forgets the hooks.                                                *)
(***************************************************************************)
EXTENDS Integers, FiniteSets

CONSTANTS
    Sessions,      \* attaches
    MaxRelaunches    \* bound on relaunches of tmux

VARIABLES
    watch,     \* session -> where tmuxHookNotify is
    left,      \* session -> whether its context has ended
    trigger,   \* session -> whether trigger holds a value
    armed,     \* session -> whether the debounce timer runs
    fresh,     \* session -> whether the layout last pushed is the present one
    hooked,    \* whether tmux has the hooks
    signal,    \* whether tmux remembers a signal
    relaunches,
    refs       \* hookRefs

pusher == <<left, trigger, armed, fresh>>
tmux == <<hooked, signal, relaunches>>
stripVars == <<watch, pusher, tmux, refs>>

StripInit ==
    /\ watch = [s \in Sessions |-> "off"]
    /\ left = [s \in Sessions |-> FALSE]
    /\ trigger = [s \in Sessions |-> FALSE]
    /\ armed = [s \in Sessions |-> FALSE]
    /\ fresh = [s \in Sessions |-> FALSE]
    /\ hooked = FALSE /\ signal = FALSE /\ relaunches = 0
    /\ refs = 0

Attached(s) == watch[s] # "off" /\ ~left[s]

\* RunAgentSession starts both; the pusher pushes what it finds.
Serve(s) ==
    /\ watch[s] = "off"
    /\ watch' = [watch EXCEPT ![s] = "acquiring"]
    /\ fresh' = [fresh EXCEPT ![s] = TRUE]
    /\ UNCHANGED <<left, trigger, armed, tmux, refs>>

\* The session ends and with it sctx: the pusher returns.
Leave(s) ==
    /\ Attached(s)
    /\ left' = [left EXCEPT ![s] = TRUE]
    /\ trigger' = [trigger EXCEPT ![s] = FALSE]
    /\ armed' = [armed EXCEPT ![s] = FALSE]
    /\ fresh' = [fresh EXCEPT ![s] = FALSE]
    /\ UNCHANGED <<watch, tmux, refs>>

-----------------------------------------------------------------------------
(* tmuxHookNotify.                                                         *)

\* acquireTmuxHooks: the hooks are there by the count, or are installed.
Acquire(s) ==
    /\ watch[s] = "acquiring" /\ ~left[s]
    /\ refs' = refs + 1
    /\ hooked' = (hooked \/ refs = 0)
    /\ watch' = [watch EXCEPT ![s] = "waiting"]
    /\ UNCHANGED <<pusher, signal, relaunches>>

\* The server is not up through all the tries: the poll must do.
AcquireFails(s) ==
    /\ watch[s] = "acquiring" /\ refs = 0
    /\ watch' = [watch EXCEPT ![s] = "gone"]
    /\ UNCHANGED <<pusher, tmux, refs>>

\* waitTmuxSignal: a remembered signal returns at once, else the wait parks.
Park(s) ==
    /\ watch[s] = "waiting" /\ ~left[s]
    /\ watch' = [watch EXCEPT ![s] = IF signal THEN "woken" ELSE "parked"]
    /\ signal' = FALSE
    /\ UNCHANGED <<pusher, hooked, relaunches, refs>>

\* The wait ends at its own deadline, or because tmux refused or went away.
Rearm(s) ==
    /\ watch[s] = "parked"
    /\ watch' = [watch EXCEPT ![s] = "waiting"]
    /\ UNCHANGED <<pusher, tmux, refs>>

\* The trigger is set unless it is; then the floor.
Woken(s) ==
    /\ watch[s] = "woken"
    /\ trigger' = [trigger EXCEPT ![s] = TRUE]
    /\ watch' = [watch EXCEPT ![s] = "floor"]
    /\ UNCHANGED <<left, armed, fresh, tmux, refs>>

FloorOver(s) ==
    /\ watch[s] = "floor"
    /\ watch' = [watch EXCEPT ![s] = "waiting"]
    /\ UNCHANGED <<pusher, tmux, refs>>

Holders == {s \in Sessions : watch[s] \in {"waiting", "parked", "woken", "floor"}}

\* Mutant: whoever leaves takes the hooks along.
ReleaseAll(s) ==
    /\ left[s] /\ s \in Holders
    /\ refs' = refs - 1
    /\ hooked' = FALSE
    /\ watch' = [watch EXCEPT ![s] = "gone"]
    /\ UNCHANGED <<pusher, signal, relaunches>>

\* releaseTmuxHooks, once sctx has ended: the last one removes the hooks.
Release(s) ==
    /\ left[s] /\ s \in Holders
    /\ refs' = refs - 1
    /\ hooked' = (hooked /\ refs > 1)
    /\ watch' = [watch EXCEPT ![s] = "gone"]
    /\ UNCHANGED <<pusher, signal, relaunches>>

\* acquireTmuxHooks gives up when sctx ends.
GiveUp(s) ==
    /\ left[s] /\ watch[s] = "acquiring"
    /\ watch' = [watch EXCEPT ![s] = "gone"]
    /\ UNCHANGED <<pusher, tmux, refs>>

-----------------------------------------------------------------------------
(* pushWindowSnapshots.                                                    *)

\* Mutant: the hooks replace the poll.
PollNever(s) == FALSE /\ UNCHANGED stripVars

\* The poll's tick: the layout is pushed if it is new.
Poll(s) ==
    /\ Attached(s)
    /\ ~fresh[s]
    /\ fresh' = [fresh EXCEPT ![s] = TRUE]
    /\ UNCHANGED <<watch, left, trigger, armed, tmux, refs>>

\* The first trigger of a burst arms the timer, the others fold into it.
TakeTrigger(s) ==
    /\ Attached(s)
    /\ trigger[s]
    /\ trigger' = [trigger EXCEPT ![s] = FALSE]
    /\ armed' = [armed EXCEPT ![s] = TRUE]
    /\ UNCHANGED <<watch, left, fresh, tmux, refs>>

Rebuild(s) ==
    /\ Attached(s)
    /\ armed[s]
    /\ armed' = [armed EXCEPT ![s] = FALSE]
    /\ fresh' = [fresh EXCEPT ![s] = TRUE]
    /\ UNCHANGED <<watch, left, trigger, tmux, refs>>

-----------------------------------------------------------------------------
(* tmux (external).                                                        *)

\* A change; if it has a hook, wait-for -S.
Change ==
    /\ fresh' = [s \in Sessions |-> FALSE]
    /\ \/ /\ hooked
          /\ LET parked == {s \in Sessions : watch[s] = "parked"} IN
             /\ signal' = (signal \/ parked = {})
             /\ watch' = [s \in Sessions |-> IF s \in parked THEN "woken" ELSE watch[s]]
       \/ UNCHANGED <<signal, watch>>
    /\ UNCHANGED <<left, trigger, armed, hooked, relaunches, refs>>

\* The server is gone and comes back, without hooks and without the signal.
TmuxRestarts ==
    /\ relaunches < MaxRelaunches
    /\ relaunches' = relaunches + 1
    /\ hooked' = FALSE /\ signal' = FALSE
    /\ UNCHANGED <<watch, pusher, refs>>

StripNext ==
    \/ Change \/ TmuxRestarts
    \/ \E s \in Sessions :
          \/ Serve(s) \/ Leave(s)
          \/ Acquire(s) \/ AcquireFails(s) \/ Park(s) \/ Rearm(s) \/ Woken(s) \/ FloorOver(s)
          \/ Release(s) \/ GiveUp(s)
          \/ Poll(s) \/ TakeTrigger(s) \/ Rebuild(s)

StripSpec == StripInit /\ [][StripNext]_stripVars

-----------------------------------------------------------------------------
(* Properties.                                                             *)

\* acquireTmuxHooks and releaseTmuxHooks: the hooks are in tmux exactly while an
\* attach holds them, as long as tmux is the server they were installed in.
HooksWhileHeld ==
    /\ refs = Cardinality(Holders)
    /\ relaunches = 0 => (hooked <=> Holders # {})
    /\ Holders = {} => ~hooked

\* pushWindowSnapshots: again and again a client is shown the present layout,
\* whichever signals another attach's wait took and whatever tmux forgot.
StripCatchesUp == \A s \in Sessions : []<>(Attached(s) => fresh[s])
=============================================================================
