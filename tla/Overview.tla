-------------------------------- MODULE Overview --------------------------------
(***************************************************************************)
(* The machine overview of the Go client: go/internal/cli/overview.go over *)
(* the key decoder, rows and cursor of overview_model.go.                  *)
(*                                                                         *)
(* One loop takes ticks, window changes and bytes from the keyboard pump.  *)
(* A tick rebuilds the rows from machines.json, the cached registry and    *)
(* the stored revocations, all of which other processes and other devices  *)
(* change meanwhile; it draws only when the rows changed.  Enter attaches  *)
(* the machine under the cursor, r and x open a one-line prompt that is    *)
(* answered several keys, and perhaps several ticks, later.                *)
(*                                                                         *)
(* Row i stands for row i and machine i of the code, which are replaced    *)
(* together.  A name is a sequence of bytes.  Cursors start at 1.  The     *)
(* status line and the tmux summary of a row are left out.                 *)
(***************************************************************************)
EXTENDS Directory

CONSTANTS
    Ids,          \* machines
    Named0,       \* the name each machine starts with
    Stored0,      \* machines.json at the start, as a sequence of ids
    Shares,       \* the machines somebody else shared with this identity
    None,         \* no row, no name
    Bytes,        \* the bytes of the keyboard that are pressed
    Answers,      \* the answers typed at a prompt
    MaxChanges    \* renames, retirements and changes from outside in one overview

ASSUME OverviewAssumption ==
    /\ IsFiniteSet(Ids)
    /\ Stored0 \in Seq(Ids)
    /\ Shares \subseteq Range(Stored0)
    /\ MaxChanges \in Nat

VARIABLES
    local,      \* machines.json
    listing,    \* the owner's registry as the cache answers it
    revoked,    \* the stored revocations
    seen,       \* seen.json: machines announced before
    rows,       \* the rows, and the machines behind them
    cursor,     \* the selected row
    fresh,      \* machines that carry the NEW badge
    ask,        \* the open prompt [kind, name, id], or None
    input,      \* the answer typed so far
    esc,        \* the key decoder: bytes of an escape sequence seen
    mode,       \* "loading", "list", "attached" or "ended"
    target,     \* the row being attached, or None
    armed,      \* the detach filter has seen the prefix
    stale,      \* readers of ended connections that still wait for a byte
    screen,     \* what was drawn last: [rows, cursor, name asked for]
    behind,     \* the last refresh could not read its files
    retired,    \* machines this overview has retired and published
    acted,      \* the last prompt carried out: [asked, did], or None
    changes     \* renames, retirements and changes from outside so far

stores == <<local, listing, revoked, seen>>
view == <<rows, cursor, fresh, behind>>
prompt == <<ask, input, esc>>
terminal == <<mode, target, armed, stale>>
ghosts == <<retired, acted, changes>>
overviewVars == <<stores, view, prompt, terminal, screen, ghosts>>

Record(id) == [id |-> id, name |-> Named0[id], ts |-> 0, shared |-> id \in Shares]

OverviewInit ==
    /\ local = [i \in DOMAIN Stored0 |-> Record(Stored0[i])]
    /\ listing = SetToSeq({Record(id) : id \in Ids \ Shares})
    /\ revoked = {}
    /\ seen = {}
    /\ rows = <<>> /\ cursor = 1 /\ fresh = {} /\ behind = FALSE
    /\ ask = None /\ input = <<>> /\ esc = 0
    /\ mode = "loading" /\ target = None /\ armed = FALSE /\ stale = 0
    /\ screen = [rows |-> <<>>, cursor |-> 1, asks |-> None]
    /\ retired = {} /\ acted = None /\ changes = 0

-----------------------------------------------------------------------------
(* The model half: keys, cursor and rows.                                  *)

Printable == Bytes \ {"esc", "enter", "ctrlC", "ctrlO", "backspace"}

\* keyDecoder.feed: an escape sequence may be split over any number of reads.
Feed(state, b) ==
    LET ev(next, key, rune) == [esc |-> next, key |-> key, rune |-> rune]
    IN CASE state = 1 /\ b = "[" -> ev(2, "none", None)
         [] state = 1 /\ b # "[" -> ev(0, "esc", None)
         [] state = 2 -> ev(0, IF b = "A" THEN "up" ELSE IF b = "B" THEN "down" ELSE "none", None)
         [] state = 0 /\ b = "esc" -> ev(1, "none", None)
         [] state = 0 /\ b = "enter" -> ev(0, "enter", None)
         [] state = 0 /\ b \in {"q", "ctrlC"} -> ev(0, "quit", b)
         [] state = 0 /\ b = "j" -> ev(0, "down", b)
         [] state = 0 /\ b = "k" -> ev(0, "up", b)
         [] state = 0 /\ b = "r" -> ev(0, "rename", b)
         [] state = 0 /\ b = "x" -> ev(0, "retire", b)
         [] state = 0 /\ b = "s" -> ev(0, "share", b)
         [] state = 0 /\ b = "?" -> ev(0, "help", b)
         [] OTHER -> ev(0, "rune", b)

\* MoveCursor: never past the last row, and on the first when there is none.
Clamp(c, n) == IF c < 1 \/ n = 0 THEN 1 ELSE IF c > n THEN n ELSE c

HasRow == cursor \in DOMAIN rows
Selected == rows[cursor]

\* refresh: the directory as the files have it now.
Rows(directory, listed, new) ==
    [i \in DOMAIN directory |->
        LET m == directory[i] IN
        [id |-> m.id, name |-> m.name, shared |-> m.shared,
         online |-> m.id \in {listed[j].id : j \in DOMAIN listed},
         new |-> m.id \in new]]

\* The cursor follows the name it was on; it stays where it is when no row has it.
CursorOn(rs, c, name) ==
    Clamp(IF Named(rs, name) = {} THEN c ELSE Least(Named(rs, name)), Len(rs))

\* Mutant: only the names are compared.
RowsEqualNames(a, b) ==
    /\ Len(a) = Len(b)
    /\ {a[i].name : i \in DOMAIN a} = {b[i].name : i \in DOMAIN b}

RowsEqual(a, b) == a = b

Draw == screen' = [rows |-> rows', cursor |-> cursor',
                   asks |-> IF ask' = None THEN None ELSE ask'.name]

\* refresh: what the rows become, given the files after the step that calls it.
Refresh(first, lastUsed) ==
    LET discovered == FilterRevoked(listing, revoked')
        merged == FilterRevoked(MergeMachines(local', discovered), revoked')
        known == {discovered[i].id : i \in DOMAIN discovered}
    IN /\ fresh' = IF first THEN known \ seen ELSE fresh
       /\ seen' = IF first THEN seen \cup known ELSE seen
       /\ rows' = Rows(merged, discovered, fresh')
       /\ cursor' = CursorOn(rows', cursor,
                             IF HasRow THEN Selected.name ELSE lastUsed)
       /\ behind' = FALSE
       /\ UNCHANGED listing

\* machines.json or the revocations cannot be read: the rows stay as they are.
RefreshUnread ==
    /\ behind' = TRUE
    /\ UNCHANGED <<rows, cursor, fresh, seen, listing>>

-----------------------------------------------------------------------------
(* The loop.                                                               *)

\* cmdOverview: the first load puts the cursor on the machine used last, which
\* lastused.json names (None: no such file).
Open ==
    /\ mode = "loading"
    /\ mode' = "list"
    /\ UNCHANGED <<local, revoked, prompt, target, armed, stale, ghosts>>
    /\ \/ \E name \in {None} \cup {Named0[id] : id \in Ids} : Refresh(TRUE, name)
       \/ RefreshUnread
    /\ Draw

\* The three-second tick.
Tick ==
    /\ mode = "list"
    /\ UNCHANGED <<local, revoked, prompt, terminal, ghosts>>
    /\ \/ Refresh(FALSE, None) /\ (IF RowsEqual(rows, rows') THEN UNCHANGED screen ELSE Draw)
       \/ RefreshUnread /\ Draw

\* A window change, or a share ceremony that came back: the screen is drawn.
Redraw ==
    /\ mode = "list"
    /\ UNCHANGED <<stores, view, prompt, terminal, ghosts>>
    /\ Draw

\* SIGINT or the end of the keyboard.
Interrupted ==
    /\ mode = "list"
    /\ mode' = "ended"
    /\ UNCHANGED <<stores, view, prompt, target, armed, stale, screen, ghosts>>

\* A byte the loop decodes as a key.
Press(ev, keys) == mode = "list" /\ ask = None /\ ev.key \in keys /\ esc' = ev.esc

Quit(ev) ==
    /\ Press(ev, {"quit"})
    /\ mode' = "ended"
    /\ UNCHANGED <<stores, view, ask, input, target, armed, stale, screen, ghosts>>

Move(ev) ==
    /\ Press(ev, {"up", "down"})
    /\ cursor' = Clamp(IF ev.key = "up" THEN cursor - 1 ELSE cursor + 1, Len(rows))
    /\ UNCHANGED <<stores, rows, fresh, behind, ask, input, terminal, ghosts>>
    /\ Draw

\* Keys without effect on the list: help, escape and text; a share ceremony
\* (refused for a share) runs aside and comes back; r and x do nothing without
\* a row of one's own, Enter without a row.
Idle(ev) ==
    /\ \/ Press(ev, {"none", "esc", "rune", "help", "share"})
       \/ Press(ev, {"rename", "retire"}) /\ ~(HasRow /\ ~Selected.shared)
       \/ Press(ev, {"enter"}) /\ ~HasRow
    /\ UNCHANGED <<stores, view, ask, input, terminal, ghosts>>
    /\ Draw

Ask(ev) ==
    /\ Press(ev, {"rename", "retire"})
    /\ HasRow /\ ~Selected.shared
    /\ ask' = [kind |-> ev.key, name |-> Selected.name, id |-> Selected.id]
    /\ input' = <<>>
    /\ acted' = None
    /\ UNCHANGED <<stores, view, terminal, retired, changes>>
    /\ Draw

\* A byte while a prompt is open.
Answer(ev, keys) == mode = "list" /\ ask # None /\ ev.key \in keys /\ esc' = ev.esc

\* handlePromptKey: text is collected.  A share key is not among the keys the
\* prompt takes, so the letter s is lost; an arrow has no text.
Type(ev) ==
    /\ \/ Answer(ev, {"rune", "up", "down", "rename", "retire", "help"})
       \/ Answer(ev, {"quit"}) /\ ev.rune = "q"
    /\ input' = IF ev.rune = "backspace" THEN (IF input = <<>> THEN input ELSE Front(input))
                ELSE IF ev.rune \in Printable THEN Append(input, ev.rune)
                ELSE input
    /\ \E answer \in Answers : IsPrefix(input', answer)
    /\ UNCHANGED <<stores, view, ask, terminal, ghosts>>
    /\ Draw

Swallow(ev) ==
    /\ Answer(ev, {"none", "share"})
    /\ UNCHANGED <<stores, view, ask, input, terminal, ghosts>>
    /\ Draw

ClosePrompt == ask' = None /\ input' = <<>>

Cancel(ev) ==
    /\ \/ Answer(ev, {"esc"})
       \/ Answer(ev, {"quit"}) /\ ev.rune = "ctrlC"
    /\ ClosePrompt
    /\ UNCHANGED <<stores, view, terminal, ghosts>>
    /\ Draw

Acted == acted' = [asked |-> ask.id, did |-> Selected.id]

\* finishRename: the machine under the cursor gets the name here first; then the
\* machine is told (told), which may fail and leaves the rows as they are.
FinishRename(ev, told) ==
    /\ Answer(ev, {"enter"})
    /\ ask.kind = "rename"
    /\ input # <<>> /\ HasRow
    /\ changes < MaxChanges
    /\ ClosePrompt
    /\ local' = RenameLocalMachine(local, [Record(Selected.id) EXCEPT !.name = Selected.name],
                                   input, changes + 1)
    /\ Acted
    /\ changes' = changes + 1
    /\ UNCHANGED <<revoked, terminal, retired>>
    /\ \/ told /\ (Refresh(FALSE, None) \/ RefreshUnread)
       \/ ~told /\ UNCHANGED <<view, seen, listing>>
    /\ Draw

Yes == {<<"y">>, <<"y", "e", "s">>}

\* Mutant: the rows are not rebuilt.
FinishRetireUnfreshened(ev, published) ==
    /\ Answer(ev, {"enter"})
    /\ ask.kind = "retire"
    /\ input \in Yes /\ HasRow
    /\ changes < MaxChanges
    /\ ClosePrompt
    /\ changes' = changes + 1
    /\ revoked' = revoked \cup {Selected.id}
    /\ Acted
    /\ retired' = IF published THEN retired \cup {Selected.id} ELSE retired
    /\ UNCHANGED <<local, view, seen, listing, terminal>>
    /\ Draw

\* finishRetire: the revocation is stored first; the rows are rebuilt only when
\* every relay took it (published).
FinishRetire(ev, published) ==
    /\ Answer(ev, {"enter"})
    /\ ask.kind = "retire"
    /\ input \in Yes /\ HasRow
    /\ changes < MaxChanges
    /\ ClosePrompt
    /\ changes' = changes + 1
    /\ revoked' = revoked \cup {Selected.id}
    /\ Acted
    /\ retired' = IF published THEN retired \cup {Selected.id} ELSE retired
    /\ UNCHANGED <<local, terminal>>
    /\ \/ published /\ (Refresh(FALSE, None) \/ RefreshUnread)
       \/ ~published /\ UNCHANGED <<view, seen, listing>>
    /\ Draw

\* Nothing to do, or the first step of the command failed.
NothingDone(ev) ==
    /\ Answer(ev, {"enter"})
    /\ ClosePrompt
    /\ UNCHANGED <<stores, view, terminal, ghosts>>
    /\ Draw

-----------------------------------------------------------------------------
(* An attach, and the keyboard handed back and forth.                      *)

\* Enter: the machine under the cursor, whatever the screen shows.
Attach(ev) ==
    /\ Press(ev, {"enter"})
    /\ HasRow
    /\ mode' = "attached"
    /\ target' = Selected
    /\ armed' = FALSE
    /\ UNCHANGED <<stores, view, ask, input, stale, screen, ghosts>>

\* Back to the list.
Return ==
    /\ mode' = "list"
    /\ target' = None
    /\ armed' = FALSE
    /\ UNCHANGED <<stores, view, prompt, ghosts>>
    /\ Draw

\* detachFilter.Read: prefix d (or q) cancels the attach and is the last thing
\* this reader takes; any other byte goes to the machine.
Detach(b) ==
    /\ mode = "attached" /\ armed
    /\ b \in {"d", "q"}
    /\ UNCHANGED stale
    /\ Return

Through(b) ==
    /\ mode = "attached"
    /\ ~(armed /\ b \in {"d", "q"})
    /\ armed' = (~armed /\ b = "ctrlO")
    /\ UNCHANGED <<stores, view, prompt, mode, target, stale, screen, ghosts>>

\* The connection ends while the reader waits for a byte: the loop gives up or
\* redials; the reader keeps waiting.
Dropped ==
    /\ mode = "attached"
    /\ stale = 0
    /\ stale' = 1
    /\ \/ Return
       \/ UNCHANGED <<stores, view, prompt, mode, target, armed, screen, ghosts>>

\* The keyboard has several readers: a byte goes to one that should be gone.  It
\* leaves when sending the byte fails, and waits for another after a prefix.
Stolen(b) ==
    /\ mode \in {"list", "attached"}
    /\ stale = 1
    /\ stale' \in IF b = "ctrlO" THEN {0, 1} ELSE {0}
    /\ UNCHANGED <<stores, view, prompt, mode, target, armed, screen, ghosts>>

-----------------------------------------------------------------------------
(* Outside: other commands of this client, other devices, the machines.    *)

Outside == /\ changes < MaxChanges /\ mode # "ended" /\ changes' = changes + 1
           /\ UNCHANGED <<seen, view, prompt, terminal, screen, retired, acted>>

\* A machine registers or leaves, or the relay lists its map in another order.
Relisted ==
    /\ Outside
    /\ \E S \in SUBSET (Ids \ Shares), front \in Ids :
          LET names(id) == IF At(listing, id) # {} THEN listing[Least(At(listing, id))] ELSE Record(id)
              rest == SetToSeq({names(id) : id \in S \ {front}})
          IN listing' = IF front \in S THEN <<names(front)>> \o rest ELSE rest
    /\ UNCHANGED <<local, revoked>>

\* Another device, or another command here, retires a machine.
RevokedElsewhere ==
    /\ Outside
    /\ \E id \in Ids \ Shares : revoked' = revoked \cup {id}
    /\ UNCHANGED <<local, listing>>

\* mir pair stores a machine; a share's window closes and it is swept.
PairedElsewhere ==
    /\ Outside
    /\ \E id \in Ids \ Shares : local' = AddMachine(local, Record(id))
    /\ UNCHANGED <<listing, revoked>>

ShareSwept ==
    /\ Outside
    /\ \E id \in Shares : local' = RemoveMachine(local, id)
    /\ UNCHANGED <<listing, revoked>>

\* A rename reaches the registry.
RenamedElsewhere ==
    /\ Outside
    /\ \E i \in DOMAIN listing :
          listing' = [listing EXCEPT ![i].name = <<"n">>, ![i].ts = changes + 1]
    /\ UNCHANGED <<local, revoked>>

Key(b) ==
    LET ev == Feed(esc, b) IN
    \/ Quit(ev) \/ Move(ev) \/ Idle(ev) \/ Ask(ev) \/ Attach(ev)
    \/ Type(ev) \/ Swallow(ev) \/ Cancel(ev) \/ NothingDone(ev)
    \/ \E ok \in BOOLEAN : FinishRename(ev, ok) \/ FinishRetire(ev, ok)

OverviewNext ==
    \/ Open \/ Tick \/ Redraw \/ Interrupted
    \/ \E b \in Bytes : Key(b) \/ Detach(b) \/ Through(b) \/ Stolen(b)
    \/ Dropped
    \/ Relisted \/ RevokedElsewhere \/ PairedElsewhere \/ ShareSwept \/ RenamedElsewhere

OverviewSpec == OverviewInit /\ [][OverviewNext]_overviewVars

-----------------------------------------------------------------------------
(* Properties.                                                             *)

NamesDiffer == \A i, j \in DOMAIN rows : rows[i].name = rows[j].name => i = j

\* overview.go draws only when rowsEqual says that the rows changed: as long as no
\* two rows have one name, the row the screen highlights is the machine that
\* Enter, rename and retire act on, and a machine retired here is gone from it.
HighlightTrue ==
    /\ mode = "list" /\ NamesDiffer => /\ screen.rows = rows
                                       /\ screen.cursor = cursor
    /\ mode = "list" /\ ~behind => \A i \in DOMAIN rows : rows[i].id \notin retired

\* handleKey asks "Retire <name>?" and "new name for <name>" of the selected row:
\* the answer acts on the machine that was asked about.
PromptNamesTarget == acted # None => acted.asked = acted.did
=============================================================================
