---------------------------------- MODULE Mux ----------------------------------
(***************************************************************************)
(* The client's multiplexer: several attached machines on one terminal.    *)
(* go/internal/client/mux.go, with the SIGWINCH goroutine of muxterm.go.   *)
(*                                                                         *)
(* Goroutines: one reader per session, the stdin loop, the resize loop,    *)
(* the SIGWINCH loop and Run itself.  focus, size, dead and the screen are *)
(* guarded by Mux.mu: a critical section is one step, what a goroutine     *)
(* does after it unlocked is another.  A terminal size is its number of    *)
(* rows.  Keystrokes other than commands change nothing modelled here.     *)
(***************************************************************************)
EXTENDS Integers, Sequences, FiniteSets

CONSTANTS
    N,           \* number of attached machines
    Windows,     \* sizes (rows) the local terminal takes
    MaxResizes,  \* bound: window size changes
    MaxCommands  \* bound: prefix commands typed

ASSUME MuxAssumption ==
    /\ N \in Nat \ {0}
    /\ Windows \subseteq Nat \ {0}
    /\ MaxResizes \in Nat
    /\ MaxCommands \in Nat

VARIABLES
    focus,     \* Mux.focus                                    (m.mu)
    size,      \* Mux.size                                     (m.mu)
    dead,      \* sessions that have ended: Mux.dead           (m.mu)
    screen,    \* sessions with output on screen since the last clear (m.mu)
    quit,      \* Mux.quit is closed
    ctx,       \* the context of Run: "live" or "done"
    pc,        \* actor -> control state
    job,       \* actor -> focus change whose repaint it still owes
    remote,    \* session -> the size its machine was last told
    resizes,   \* the resizes channel, capacity 1
    window,    \* size of the local terminal
    winch,     \* a SIGWINCH is in the signal channel, capacity 1
    changes,   \* window changes so far
    commands   \* commands typed so far

vars == <<focus, size, dead, screen, quit, ctx, pc, job, remote, resizes,
          window, winch, changes, commands>>

Sessions == 0..(N - 1)

\* The actors other than the readers, which are named by their sessions.
Stdin == N
Resizer == N + 1
Winch == N + 2
Runner == N + 3
Actors == 0..(N + 3)

Rows == Windows \cup {r - 1 : r \in Windows}

TypeOK ==
    /\ focus \in Sessions
    /\ size \in Windows
    /\ dead \subseteq Sessions
    /\ screen \subseteq Sessions
    /\ quit \in BOOLEAN
    /\ ctx \in {"live", "done"}
    /\ pc \in [Actors -> {"wait", "target", "short", "full", "got", "sized", "quit", "done"}]
    /\ job \in [Actors -> [to : Sessions, size : Windows]]
    /\ remote \in [Sessions -> Rows]
    /\ resizes \in {<<>>} \cup {<<w>> : w \in Windows}
    /\ window \in Windows
    /\ winch \in BOOLEAN
    /\ changes \in 0..MaxResizes
    /\ commands \in 0..MaxCommands

Init ==
    /\ focus = 0
    /\ size \in Windows
    /\ dead = {}
    /\ screen = {}
    /\ quit = FALSE
    /\ ctx = "live"
    /\ pc = [a \in Actors |-> "wait"]
    /\ job = [a \in Actors |-> [to |-> 0, size |-> size]]
    /\ remote = [s \in Sessions |-> size]
    /\ resizes = <<>>
    /\ window = size
    /\ winch = FALSE
    /\ changes = 0
    /\ commands = 0

At(a, state) == pc[a] = state
Goto(a, state) == pc' = [pc EXCEPT ![a] = state]

-----------------------------------------------------------------------------
(* Focus changes.                                                          *)

\* The first live session after the focus, wrapping around; -1 if none.
\* The focus itself comes last.
NextLive(ended) ==
    LET live == {off \in 1..N : (focus + off) % N \notin ended}
    IN IF live = {} THEN -1
       ELSE (focus + (CHOOSE off \in live : \A o \in live : off <= o)) % N

\* Mutant: the screen is not cleared.
RefocusUncleared(a, s) ==
    /\ focus' = s
    /\ screen' = screen
    /\ job' = [job EXCEPT ![a] = [to |-> s, size |-> size]]
    /\ Goto(a, IF size > 1 THEN "short" ELSE "full")

\* Commit a focus change under the lock: clear the screen and leave the
\* repaint to be done after unlocking.
Refocus(a, s) ==
    /\ focus' = s
    /\ screen' = {}
    /\ job' = [job EXCEPT ![a] = [to |-> s, size |-> size]]
    /\ Goto(a, IF size > 1 THEN "short" ELSE "full")

\* What an actor does once its repaint is complete.
Resume(a) == IF a = Stdin THEN "wait" ELSE "done"

\* afterFocusChange without the lock, first frame: one row less.
RepaintShort(a) ==
    /\ At(a, "short")
    /\ remote' = [remote EXCEPT ![job[a].to] = job[a].size - 1]
    /\ Goto(a, "full")
    /\ UNCHANGED <<focus, size, dead, screen, quit, ctx, job, resizes, window, winch,
                   changes, commands>>

\* Mutant: the second frame repeats the shorter size.
RepaintFullShort(a) ==
    /\ At(a, "full")
    /\ remote' = [remote EXCEPT ![job[a].to] = job[a].size - 1]
    /\ Goto(a, Resume(a))
    /\ UNCHANGED <<focus, size, dead, screen, quit, ctx, job, resizes, window, winch,
                   changes, commands>>

\* afterFocusChange, second frame: the size read when the focus changed.
RepaintFull(a) ==
    /\ At(a, "full")
    /\ remote' = [remote EXCEPT ![job[a].to] = job[a].size]
    /\ Goto(a, Resume(a))
    /\ UNCHANGED <<focus, size, dead, screen, quit, ctx, job, resizes, window, winch,
                   changes, commands>>

-----------------------------------------------------------------------------
(* readSession.                                                            *)

\* A data frame of session s: only the focused machine reaches the screen.
Output(s) ==
    /\ At(s, "wait")
    /\ screen' = IF s = focus THEN screen \cup {s} ELSE screen
    /\ UNCHANGED <<focus, size, dead, quit, ctx, pc, job, remote, resizes, window, winch,
                   changes, commands>>

\* Mutant: the end of the last session does not close quit.
SessionEndNoQuit(s) ==
    /\ At(s, "wait")
    /\ dead' = dead \cup {s}
    /\ \/ /\ NextLive(dead \cup {s}) < 0 \/ s # focus
          /\ Goto(s, "done")
          /\ UNCHANGED <<focus, screen, job>>
       \/ /\ NextLive(dead \cup {s}) >= 0
          /\ s = focus
          /\ Refocus(s, NextLive(dead \cup {s}))
    /\ UNCHANGED <<size, quit, ctx, remote, resizes, window, winch, changes, commands>>

\* onSessionEnd: Recv or Decrypt fails (the transport ended, or the context
\* is done).  The next live target is resolved and committed in the same
\* critical section.
SessionEnd(s) ==
    /\ At(s, "wait")
    /\ dead' = dead \cup {s}
    /\ \/ /\ NextLive(dead \cup {s}) < 0
          /\ Goto(s, "quit")
          /\ UNCHANGED <<focus, screen, job>>
       \/ /\ NextLive(dead \cup {s}) >= 0
          /\ s # focus
          /\ Goto(s, "done")
          /\ UNCHANGED <<focus, screen, job>>
       \/ /\ NextLive(dead \cup {s}) >= 0
          /\ s = focus
          /\ Refocus(s, NextLive(dead \cup {s}))
    /\ UNCHANGED <<size, quit, ctx, remote, resizes, window, winch, changes, commands>>

\* No session is left: quitOnce closes quit, after unlocking.
CloseQuit(s) ==
    /\ At(s, "quit")
    /\ quit' = TRUE
    /\ Goto(s, "done")
    /\ UNCHANGED <<focus, size, dead, screen, ctx, job, remote, resizes, window, winch,
                   changes, commands>>

-----------------------------------------------------------------------------
(* readStdin and command.                                                  *)

Typed ==
    /\ At(Stdin, "wait")
    /\ commands < MaxCommands
    /\ commands' = commands + 1

\* Mutant: the check for a dead target is left to whoever resolved it.
SwitchToDead(s) == s # focus /\ Refocus(Stdin, s)

\* A digit, or the second half of 'n': no-op on a dead or the focused session.
SwitchTo(s) == s \notin dead /\ s # focus /\ Refocus(Stdin, s)

TypeDigit(s) ==
    /\ Typed
    /\ SwitchTo(s)
    /\ UNCHANGED <<size, dead, quit, ctx, remote, resizes, window, winch, changes>>

\* 'n': the target is resolved in one critical section ...
TypeNext ==
    /\ Typed
    /\ NextLive(dead) >= 0
    /\ job' = [job EXCEPT ![Stdin].to = NextLive(dead)]
    /\ Goto(Stdin, "target")
    /\ UNCHANGED <<focus, size, dead, screen, quit, ctx, remote, resizes, window, winch, changes>>

\* ... and committed in another.
SwitchNext ==
    /\ At(Stdin, "target")
    /\ \/ SwitchTo(job[Stdin].to)
       \/ /\ job[Stdin].to \in dead \/ job[Stdin].to = focus
          /\ Goto(Stdin, "wait")
          /\ UNCHANGED <<focus, screen, job>>
    /\ UNCHANGED <<size, dead, quit, ctx, remote, resizes, window, winch, changes, commands>>

TypeQuit ==
    /\ Typed
    /\ quit' = TRUE
    /\ UNCHANGED <<focus, size, dead, screen, ctx, pc, job, remote, resizes, window, winch, changes>>

\* The chunk was read and quit or the context is seen, or stdin is at its end.
StdinReturns ==
    /\ At(Stdin, "wait")
    /\ Goto(Stdin, "done")
    /\ UNCHANGED <<focus, size, dead, screen, quit, ctx, job, remote, resizes, window, winch,
                   changes, commands>>

-----------------------------------------------------------------------------
(* Terminal sizes.                                                         *)

\* The user resizes the terminal (external); the signal channel holds one
\* signal and a second one is dropped.
WindowChanges(w) ==
    /\ changes < MaxResizes
    /\ w # window
    /\ window' = w
    /\ winch' = TRUE
    /\ changes' = changes + 1
    /\ UNCHANGED <<focus, size, dead, screen, quit, ctx, pc, job, remote, resizes, commands>>

WinchTake ==
    /\ At(Winch, "wait")
    /\ winch
    /\ winch' = FALSE
    /\ Goto(Winch, "got")
    /\ UNCHANGED <<focus, size, dead, screen, quit, ctx, job, remote, resizes, window,
                   changes, commands>>

WinchGetSize ==
    /\ At(Winch, "got")
    /\ job' = [job EXCEPT ![Winch].size = window]
    /\ Goto(Winch, "sized")
    /\ UNCHANGED <<focus, size, dead, screen, quit, ctx, remote, resizes, window, winch,
                   changes, commands>>

\* The size is dropped if the channel still holds an earlier one.
WinchSend ==
    /\ At(Winch, "sized")
    /\ resizes' = IF resizes = <<>> THEN <<job[Winch].size>> ELSE resizes
    /\ Goto(Winch, "wait")
    /\ UNCHANGED <<focus, size, dead, screen, quit, ctx, job, remote, window, winch,
                   changes, commands>>

\* resizeLoop: record the size and read the focus under the lock ...
ResizeRecord ==
    /\ At(Resizer, "wait")
    /\ resizes # <<>>
    /\ size' = Head(resizes)
    /\ resizes' = Tail(resizes)
    /\ job' = [job EXCEPT ![Resizer] = [to |-> focus, size |-> Head(resizes)]]
    /\ Goto(Resizer, "full")
    /\ UNCHANGED <<focus, dead, screen, quit, ctx, remote, window, winch, changes, commands>>

\* ... and tell that machine after unlocking.
ResizeSend ==
    /\ At(Resizer, "full")
    /\ remote' = [remote EXCEPT ![job[Resizer].to] = job[Resizer].size]
    /\ Goto(Resizer, "wait")
    /\ UNCHANGED <<focus, size, dead, screen, quit, ctx, job, resizes, window, winch,
                   changes, commands>>

ResizerReturns ==
    /\ At(Resizer, "wait")
    /\ quit \/ ctx = "done"
    /\ Goto(Resizer, "done")
    /\ UNCHANGED <<focus, size, dead, screen, quit, ctx, job, remote, resizes, window, winch,
                   changes, commands>>

-----------------------------------------------------------------------------
(* Run.                                                                    *)

\* The caller's context is cancelled (SIGTERM).
Cancel ==
    /\ ctx = "live"
    /\ ctx' = "done"
    /\ UNCHANGED <<focus, size, dead, screen, quit, pc, job, remote, resizes, window, winch,
                   changes, commands>>

\* Run returns and its deferred cancel ends the context of the goroutines.
RunReturns ==
    /\ At(Runner, "wait")
    /\ quit \/ ctx = "done" \/ At(Stdin, "done")
    /\ Goto(Runner, "done")
    /\ ctx' = "done"
    /\ UNCHANGED <<focus, size, dead, screen, quit, job, remote, resizes, window, winch,
                   changes, commands>>

Next ==
    \/ \E s \in Sessions : Output(s) \/ SessionEnd(s) \/ CloseQuit(s) \/ TypeDigit(s)
    \/ \E a \in Sessions \cup {Stdin} : RepaintShort(a) \/ RepaintFull(a)
    \/ TypeNext \/ SwitchNext \/ TypeQuit \/ StdinReturns
    \/ \E w \in Windows : WindowChanges(w)
    \/ WinchTake \/ WinchGetSize \/ WinchSend
    \/ ResizeRecord \/ ResizeSend \/ ResizerReturns
    \/ Cancel \/ RunReturns

Spec == Init /\ [][Next]_vars

\* Goroutines that can run do run.  A reader whose context is done gets the
\* error from Recv; a session, the user and stdin owe nothing.
Fairness ==
    /\ \A s \in Sessions : WF_vars(CloseQuit(s)) /\ WF_vars(ctx = "done" /\ SessionEnd(s))
    /\ \A a \in Sessions \cup {Stdin} : WF_vars(RepaintShort(a)) /\ WF_vars(RepaintFull(a))
    /\ WF_vars(SwitchNext)
    /\ WF_vars(WinchTake) /\ WF_vars(WinchGetSize) /\ WF_vars(WinchSend)
    /\ WF_vars(ResizeSend) /\ WF_vars(ResizerReturns)
    /\ WF_vars(RunReturns)

FairSpec == Spec /\ Fairness

-----------------------------------------------------------------------------
(* Properties.                                                             *)

\* The focus is never stranded on a dead session while another one lives,
\* whatever sessions end while a switch is under way (mux.go:250-253).
FocusNotStranded == focus \in dead => Sessions \subseteq dead

\* Since the last clear only the focused machine wrote to the screen: no
\* output of a machine survives the switch away from it, or arrives after it.
OnlyFocusOnScreen == screen \subseteq {focus}

\* No goroutine is in the middle of anything and no size is on its way.
Settled ==
    /\ \A a \in Actors : pc[a] \in {"wait", "done"}
    /\ At(Runner, "wait")
    /\ At(Stdin, "wait")
    /\ resizes = <<>>
    /\ ~winch

\* A repaint never leaves the focused machine at the size that is one row
\* short, although repaints and resizes of several goroutines interleave.
RepaintCompletes ==
    Settled /\ focus \notin dead => remote[focus] \in Windows

\* mux.go: the terminal shows the focused machine and no other, and at its full size
\* when everything has come to rest.
ScreenIsFocus == OnlyFocusOnScreen /\ RepaintCompletes

\* The screen of the focused machine ends at the dimensions of the terminal
\* (mux.go:230-232).
EndsAtWindowSize ==
    Settled /\ focus \notin dead => remote[focus] = window

\* When all machines have disconnected, Run returns (mux.go:62).
DisconnectedReturns == (Sessions \subseteq dead) ~> At(Runner, "done")
=============================================================================
