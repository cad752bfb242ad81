------------------------------ MODULE ClientIdentity ------------------------------
(***************************************************************************)
(* The owner identity of a client: owner.json and the keychain entry it    *)
(* names.  go/internal/client/store.go (LoadOrCreateIdentity, Rekey,       *)
(* SaveIdentity), keychain.go, cli/identity_cmds.go.                       *)
(*                                                                         *)
(* Commands are processes without a common lock; each may crash between    *)
(* any two accesses to the file or the keychain.  A root drawn at random   *)
(* is named by the keychain entry it is first stored under.                *)
(***************************************************************************)
EXTENDS Integers

CONSTANTS
    Procs,      \* commands run on this client
    Refs,       \* keychain references drawn at random
    Phrases,    \* roots with a recovery phrase at hand
    None,
    MaxFaults   \* bound on failing reads, writes and keychain calls, and crashes

ASSUME IdentityAssumption ==
    /\ None \notin Refs \cup Phrases
    /\ MaxFaults \in Nat

VARIABLES
    file,       \* owner.json
    keychain,   \* reference -> root, or None
    used,       \* references drawn so far
    proc,
    faults

identityVars == <<file, keychain, used, proc, faults>>

Roots == Refs \cup Phrases

\* "plain" holds a legacy root in clear, "v1" a key pair without a root.
Files == [kind : {"missing", "ref", "plain", "v1"}, root : Roots \cup {None}, ref : Refs \cup {None}]

Missing == [kind |-> "missing", root |-> None, ref |-> None]

Commands ==
    [pc : {"idle", "get", "draw", "put", "rename", "cleanup", "ok", "error", "crashed"},
     goal : {"load", "import", "rotate"},   \* what the command was asked for
     save : {"load", "import", "rotate"},   \* what the save under way is for
     phrase : Phrases,                      \* the phrase to import
     root : Roots \cup {None},              \* the root in hand; None: to be drawn
     ref : Refs \cup {None},                \* SecretRef, or the entry being made
     obsolete : Refs \cup {None},
     base : Files]                          \* owner.json as last read or written

IdentityTypeOK ==
    /\ file \in Files
    /\ keychain \in [Refs -> Roots \cup {None}]
    /\ used \subseteq Refs
    /\ proc \in [Procs -> Commands]
    /\ faults \in 0..MaxFaults

IdentityInit ==
    /\ \/ file = Missing /\ used = {}
       \/ \E r \in Phrases : file = [kind |-> "plain", root |-> r, ref |-> None] /\ used = {}
       \/ file = [kind |-> "v1", root |-> None, ref |-> None] /\ used = {}
       \/ \E k \in Refs, r \in Phrases : file = [kind |-> "ref", root |-> r, ref |-> k] /\ used = {k}
    /\ keychain = [k \in Refs |-> IF k \in used THEN file.root ELSE None]
    /\ \E goal \in [Procs -> {"load", "import", "rotate"}], phrase \in Phrases :
          proc = [p \in Procs |->
              [pc |-> "idle", goal |-> goal[p], save |-> "load", phrase |-> phrase,
               root |-> None, ref |-> None, obsolete |-> None, base |-> Missing]]
    /\ faults = 0

ProcAt(p, l) == proc[p].pc = l
Fault(happens) == faults' = (IF happens THEN faults + 1 ELSE faults) /\ faults' <= MaxFaults

-----------------------------------------------------------------------------
(* Loading.                                                                *)

\* Replace the identity c: what it was stored under becomes obsolete.
Replace(c, why) ==
    [c EXCEPT !.pc = "draw", !.save = why, !.obsolete = c.ref, !.ref = None,
              !.root = IF why = "import" THEN c.phrase ELSE None]

\* The identity is loaded: import goes on, a load is done.
Loaded(c) == IF c.goal = "import" THEN Replace(c, "import") ELSE [c EXCEPT !.pc = "ok"]

\* LoadOrCreateIdentity with the content f of owner.json.
Read(c, f) ==
    CASE f.kind = "ref" -> [c EXCEPT !.pc = "get", !.ref = f.ref, !.base = f]
      [] f.kind = "plain" -> [c EXCEPT !.pc = "draw", !.root = f.root, !.base = f]
      [] f.kind = "v1" -> Loaded([c EXCEPT !.base = f])
      [] f.kind = "missing" -> [c EXCEPT !.pc = "draw", !.base = f]

\* Any read error is taken for first use.
Load(p, readable) ==
    /\ ProcAt(p, "idle")
    /\ proc[p].goal # "rotate"
    /\ proc' = [proc EXCEPT ![p] = Read(@, IF readable THEN file ELSE Missing)]
    /\ Fault(~readable)
    /\ UNCHANGED <<file, keychain, used>>

\* Rekey needs the old reference only, and stops at a read error.
Rekey(p, readable) ==
    /\ ProcAt(p, "idle")
    /\ proc[p].goal = "rotate"
    /\ proc' = [proc EXCEPT ![p] =
          IF readable THEN Replace([@ EXCEPT !.ref = file.ref, !.base = file], "rotate")
          ELSE [@ EXCEPT !.pc = "error"]]
    /\ Fault(~readable)
    /\ UNCHANGED <<file, keychain, used>>

\* Mutant: a keychain that does not answer is taken for first use.
GetOrCreate(p, unlocked) ==
    /\ ProcAt(p, "get")
    /\ proc' = [proc EXCEPT ![p] =
          IF unlocked /\ keychain[proc[p].ref] # None THEN Loaded(@) ELSE [@ EXCEPT !.pc = "draw"]]
    /\ Fault(~unlocked)
    /\ UNCHANGED <<file, keychain, used>>

\* The root is fetched; a locked keychain or a missing entry ends the command.
Get(p, unlocked) ==
    /\ ProcAt(p, "get")
    /\ proc' = [proc EXCEPT ![p] =
          IF unlocked /\ keychain[proc[p].ref] # None THEN Loaded(@) ELSE [@ EXCEPT !.pc = "error"]]
    /\ Fault(~unlocked)
    /\ UNCHANGED <<file, keychain, used>>

-----------------------------------------------------------------------------
(* SaveIdentity.                                                           *)

\* A fresh reference is drawn, and the root if it is to be a new one.
Draw(p, k) ==
    /\ ProcAt(p, "draw")
    /\ k \notin used
    /\ used' = used \cup {k}
    /\ proc' = [proc EXCEPT ![p] =
          [@ EXCEPT !.pc = "put", !.ref = k, !.root = IF proc[p].root = None THEN k ELSE proc[p].root]]
    /\ UNCHANGED <<file, keychain, faults>>

Put(p) ==
    /\ ProcAt(p, "put")
    /\ keychain' = [keychain EXCEPT ![proc[p].ref] = proc[p].root]
    /\ proc' = [proc EXCEPT ![p].pc = "rename"]
    /\ UNCHANGED <<file, used, faults>>

\* What follows a complete save: import after a first use or a migration goes on.
Saved(c) == IF c.save = "load" THEN Loaded(c) ELSE [c EXCEPT !.pc = "ok"]

\* Mutant: the retired entry goes before owner.json names the new one.
RenameAfterCleanup(p) ==
    \/ /\ ProcAt(p, "rename")
       /\ proc[p].obsolete # None
       /\ keychain' = [keychain EXCEPT ![proc[p].obsolete] = None]
       /\ proc' = [proc EXCEPT ![p].obsolete = None]
       /\ UNCHANGED <<file, used, faults>>
    \/ /\ ProcAt(p, "rename")
       /\ proc[p].obsolete = None
       /\ file' = [kind |-> "ref", root |-> proc[p].root, ref |-> proc[p].ref]
       /\ proc' = [proc EXCEPT ![p] = Saved(@)]
       /\ UNCHANGED <<keychain, used, faults>>

\* owner.json is replaced atomically.
Rename(p) ==
    LET new == [kind |-> "ref", root |-> proc[p].root, ref |-> proc[p].ref] IN
    /\ ProcAt(p, "rename")
    /\ file' = new
    /\ proc' = [proc EXCEPT ![p] =
          IF proc[p].obsolete # None THEN [@ EXCEPT !.pc = "cleanup", !.base = new]
          ELSE Saved([@ EXCEPT !.base = new])]
    /\ UNCHANGED <<keychain, used, faults>>

\* The retired entry is deleted.
Cleanup(p) ==
    /\ ProcAt(p, "cleanup")
    /\ keychain' = [keychain EXCEPT ![proc[p].obsolete] = None]
    /\ proc' = [proc EXCEPT ![p] = [Saved(@) EXCEPT !.obsolete = None]]
    /\ UNCHANGED <<file, used, faults>>

\* The keychain refuses, or the file cannot be written: then the entry that was
\* made is taken back (undone), if the keychain lets it.  Some keychains also
\* refuse to delete what another command has deleted.
SaveFails(p, undone) ==
    /\ proc[p].pc \in {"put", "rename", "cleanup"}
    /\ keychain' = IF ProcAt(p, "rename") /\ undone THEN [keychain EXCEPT ![proc[p].ref] = None] ELSE keychain
    /\ proc' = [proc EXCEPT ![p].pc = "error"]
    /\ Fault(~ProcAt(p, "cleanup") \/ keychain[proc[p].obsolete] # None)
    /\ UNCHANGED <<file, used>>

\* The process is killed.
Crash(p) ==
    /\ proc[p].pc \notin {"idle", "ok", "error", "crashed"}
    /\ proc' = [proc EXCEPT ![p].pc = "crashed"]
    /\ Fault(TRUE)
    /\ UNCHANGED <<file, keychain, used>>

IdentityNext ==
    \E p \in Procs :
       \/ \E readable \in BOOLEAN : Load(p, readable) \/ Rekey(p, readable) \/ Get(p, readable)
       \/ \E k \in Refs : Draw(p, k)
       \/ Put(p) \/ Rename(p) \/ Cleanup(p)
       \/ \E undone \in BOOLEAN : SaveFails(p, undone)
       \/ Crash(p)

IdentitySpec == IdentityInit /\ [][IdentityNext]_identityVars

-----------------------------------------------------------------------------
(* Properties.                                                             *)

\* owner.json always names a keychain entry that holds the root it was written
\* for, whatever commands overlap, fail or are killed: an identity is never left
\* without its root (store.go:162-163, 261-262).
RefResolves == file.kind = "ref" => keychain[file.ref] = file.root

\* Only rotate and import replace the root of an identity.  A load does so only
\* if another command wrote owner.json after it was read (there is no lock), or
\* if it could not be read and passed for first use.
IdentityKept ==
    [][(file.root # None /\ file'.root # file.root)
          => \E p \in Procs : /\ ProcAt(p, "rename")
                              /\ proc[p].save # "load" \/ proc[p].base # file]_identityVars
=============================================================================
