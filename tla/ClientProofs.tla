------------------------------ MODULE ClientProofs ------------------------------
(***************************************************************************)
(* Proofs about the parts of the Go client: the reconnect loop             *)
(* (Reconnect), the owner identity (ClientIdentity) and the multiplexer    *)
(* (Mux), each for all values of its constants.                            *)
(***************************************************************************)
EXTENDS Mux, Reconnect, ClientIdentity, NaturalsInduction, WellFoundedInduction, TLAPS

-----------------------------------------------------------------------------
(***************************************************************************)
(* The reconnect loop.                                                     *)
(*                                                                         *)
(* The budget is not inductive by itself: that a dial fits depends on the  *)
(* failures being counted one for one and on the loop having returned at   *)
(* the limit.  Counted says so for every state of the loop.                *)
(***************************************************************************)

Trying == loop \in {"dialing", "authing", "running", "dropped"}

\* Until the loop has returned, every dial that is over is a failure, and the
\* limit has not been met.
Counted ==
    loop # "ended" =>
        /\ failures < MaxFailures
        /\ Trying => dials = failures + 1
        /\ ~Trying => dials = failures

\* The delay to come, seen from any state of the loop.
Paced ==
    backoff = Cap \/ backoff > failures \/ (backoff = failures /\ loop \in {"sleeping", "ended"})

Told == attempt <= dials /\ AttemptsFollow

RedialInv == RedialTypeOK /\ Counted /\ NoConnectionLeft /\ Paced /\ Told

\* The loop starts with its budget whole and nothing open.
LEMMA RedialInitInv == RedialInit => RedialInv
BY ReconnectAssumption DEF RedialInit, RedialInv, RedialTypeOK, Counted, NoConnectionLeft, Paced, Told, Trying, AttemptsFollow

\* Every step of the loop keeps RedialInv.
LEMMA RedialStepInv == RedialInv /\ [RedialNext]_redialVars => RedialInv'
<1> SUFFICES ASSUME RedialInv, [RedialNext]_redialVars PROVE RedialInv'
  OBVIOUS
<1> USE ReconnectAssumption DEF RedialInv, RedialTypeOK, Counted, NoConnectionLeft, Paced, Told, Trying, AttemptsFollow
<1>1. CASE CallerCancels
  BY <1>1 DEF CallerCancels
<1>2. CASE Redial
  BY <1>2 DEF Redial
<1>3. CASE TopReturns
  BY <1>3 DEF TopReturns, Return
<1>4. CASE LocatorOpens
  BY <1>4 DEF LocatorOpens
<1>5. CASE DialFails
  BY <1>5 DEF DialFails, Failed, Return
<1>6. CASE DialSucceeds
  BY <1>6 DEF DialSucceeds, Return
<1>7. CASE Matures
  BY <1>7 DEF Matures
<1>8. CASE \E hard \in BOOLEAN : RunEnds(hard)
  BY <1>8 DEF RunEnds, Return
<1>9. CASE HealthyDrop
  BY <1>9 DEF HealthyDrop
<1>10. CASE Flap
  BY <1>10 DEF Flap, Failed, Return
<1>11. CASE Wakes
  BY <1>11 DEF Wakes
<1>12. CASE SleepCut
  BY <1>12 DEF SleepCut, Return
<1>13. CASE UNCHANGED redialVars
  BY <1>13 DEF redialVars
<1> QED
  BY <1>1, <1>2, <1>3, <1>4, <1>5, <1>6, <1>7, <1>8, <1>9, <1>10, <1>11, <1>12, <1>13 DEF RedialNext

\* The invariant says what RetriesSound asks for.
LEMMA InvSound == RedialInv => RedialTypeOK /\ RetriesSound
BY ReconnectAssumption DEF RedialInv, RedialTypeOK, Counted, NoConnectionLeft, Paced, Told, Trying,
       RetriesSound, DialBudget, BackoffGrows, AttemptsFollow

\* ReconnectLoopWith, whatever its budget and longest delay, dials at most
\* MaxFailures times between two healthy sessions, leaves no connection open, and
\* slows down with every failure.
THEOREM RetriesStaySound == RedialSpec => [](RedialTypeOK /\ RetriesSound)
<1>1. RedialInit => RedialInv
  BY RedialInitInv
<1>2. RedialInv /\ [RedialNext]_redialVars => RedialInv'
  BY RedialStepInv
<1>3. RedialInv => RedialTypeOK /\ RetriesSound
  BY InvSound
<1> QED
  BY <1>1, <1>2, <1>3, PTL DEF RedialSpec

-----------------------------------------------------------------------------
(***************************************************************************)
(* The owner identity: owner.json always names a keychain entry holding    *)
(* its root, for any number of overlapping, failing and crashing commands. *)
(*                                                                         *)
(* The argument is about references.  One that a save is still making      *)
(* (Making) belongs to that save alone; one that owner.json names, or that *)
(* a command read from it, is fixed: no save is making it, so none can put *)
(* it into the file again.  A command may therefore delete what it read    *)
(* once it has replaced it, and take back what it made while it has not.   *)
(***************************************************************************)

Making(p) == proc[p].pc \in {"put", "rename"}

Fixed(k) == k \in used /\ \A q \in Procs : Making(q) => proc[q].ref # k

FileFixed ==
    /\ file.kind = "ref" => file.ref \in Refs /\ Fixed(file.ref)
    /\ file.kind # "ref" => file.ref = None

\* References in the hands of commands.
HeldFixed ==
    \A p \in Procs :
        /\ proc[p].obsolete # None => Fixed(proc[p].obsolete)
        /\ proc[p].pc = "get" => proc[p].ref \in Refs /\ Fixed(proc[p].ref)
        /\ proc[p].pc = "idle" => proc[p].ref = None /\ proc[p].obsolete = None

MadeApart ==
    /\ \A p \in Procs : Making(p) => proc[p].ref \in Refs \cap used
    /\ \A p, q \in Procs : Making(p) /\ Making(q) /\ proc[p].ref = proc[q].ref => p = q

Stored == \A p \in Procs : proc[p].pc = "rename" => keychain[proc[p].ref] = proc[p].root

Replaced == \A p \in Procs : proc[p].pc = "cleanup" => proc[p].obsolete # None /\ proc[p].obsolete # file.ref

IdentityInv == IdentityTypeOK /\ FileFixed /\ HeldFixed /\ MadeApart /\ Stored /\ Replaced /\ RefResolves

-----------------------------------------------------------------------------

\* Replacing, loading and reading an identity give a command of the right type.
LEMMA CommandTypes ==
    ASSUME NEW c \in Commands
    PROVE  /\ \A why \in {"import", "rotate"} : Replace(c, why) \in Commands
           /\ Loaded(c) \in Commands
           /\ Saved(c) \in Commands
           /\ \A f \in Files : Read(c, f) \in Commands
<1>1. ASSUME NEW d \in Commands, NEW why \in {"import", "rotate"} PROVE Replace(d, why) \in Commands
  <2>1. d.ref \in Refs \cup {None} /\ d.phrase \in Phrases
    BY DEF Commands
  <2>2. (IF why = "import" THEN d.phrase ELSE None) \in Roots \cup {None}
    BY <2>1 DEF Roots
  <2> QED
    BY <2>1, <2>2 DEF Replace, Commands
<1>2. ASSUME NEW d \in Commands PROVE Loaded(d) \in Commands
  <2>1. [d EXCEPT !.pc = "ok"] \in Commands
    BY DEF Commands
  <2> QED
    BY <1>1, <2>1 DEF Loaded
<1>3. Saved(c) \in Commands
  BY <1>2 DEF Saved, Commands
<1>4. ASSUME NEW f \in Files PROVE Read(c, f) \in Commands
  <2>1. CASE f.kind = "v1"
    <3>1. [c EXCEPT !.base = f] \in Commands
      BY DEF Commands
    <3> QED
      BY <2>1, <3>1, <1>2 DEF Read
  <2>2. CASE f.kind \in {"missing", "ref", "plain"}
    BY <2>2 DEF Read, Commands, Files
  <2> QED
    BY <2>1, <2>2 DEF Files
<1> QED
  BY <1>1, <1>2, <1>3, <1>4

\* Every step keeps the types.
LEMMA StepType == IdentityTypeOK /\ [IdentityNext]_identityVars => IdentityTypeOK'
<1> SUFFICES ASSUME IdentityTypeOK, [IdentityNext]_identityVars PROVE IdentityTypeOK'
  OBVIOUS
<1>0. Missing \in Files
  BY DEF Missing, Files
<1>f. ASSUME NEW b \in BOOLEAN, Fault(b) PROVE faults' \in 0..MaxFaults
  BY <1>f, IdentityAssumption DEF Fault, IdentityTypeOK
<1>1. ASSUME NEW p \in Procs, NEW r \in BOOLEAN, Load(p, r) PROVE IdentityTypeOK'
  <2>1. (IF r THEN file ELSE Missing) \in Files
    BY <1>0 DEF IdentityTypeOK
  <2>2. Read(proc[p], IF r THEN file ELSE Missing) \in Commands
    BY <2>1, CommandTypes DEF IdentityTypeOK
  <2>3. faults' \in 0..MaxFaults
    BY <1>1, <1>f DEF Load
  <2> QED
    BY <1>1, <2>2, <2>3 DEF Load, IdentityTypeOK
<1>2. ASSUME NEW p \in Procs, NEW r \in BOOLEAN, Rekey(p, r) PROVE IdentityTypeOK'
  <2>0. proc[p] \in Commands /\ file \in Files /\ file.ref \in Refs \cup {None}
    BY DEF IdentityTypeOK, Files
  <2>1. [proc[p] EXCEPT !.ref = file.ref, !.base = file] \in Commands
    BY <2>0 DEF Commands
  <2>2. Replace([proc[p] EXCEPT !.ref = file.ref, !.base = file], "rotate") \in Commands
    BY <2>1, CommandTypes
  <2>3. [proc[p] EXCEPT !.pc = "error"] \in Commands
    BY DEF IdentityTypeOK, Commands
  <2>4. faults' \in 0..MaxFaults
    BY <1>2, <1>f DEF Rekey
  <2> QED
    BY <1>2, <2>2, <2>3, <2>4 DEF Rekey, IdentityTypeOK
<1>3. ASSUME NEW p \in Procs, NEW r \in BOOLEAN, Get(p, r) PROVE IdentityTypeOK'
  <2>1. Loaded(proc[p]) \in Commands
    BY CommandTypes DEF IdentityTypeOK
  <2>2. [proc[p] EXCEPT !.pc = "error"] \in Commands
    BY DEF IdentityTypeOK, Commands
  <2>3. faults' \in 0..MaxFaults
    BY <1>3, <1>f DEF Get
  <2> QED
    BY <1>3, <2>1, <2>2, <2>3 DEF Get, IdentityTypeOK
<1>4. ASSUME NEW p \in Procs, NEW k \in Refs, Draw(p, k) PROVE IdentityTypeOK'
  <2>0. proc[p] \in Commands /\ proc[p].root \in Roots \cup {None}
    BY DEF IdentityTypeOK, Commands
  <2>1. (IF proc[p].root = None THEN k ELSE proc[p].root) \in Roots \cup {None}
    BY <2>0 DEF Roots
  <2>2. [proc[p] EXCEPT !.pc = "put", !.ref = k,
                        !.root = IF proc[p].root = None THEN k ELSE proc[p].root] \in Commands
    BY <2>0, <2>1 DEF Commands
  <2> QED
    BY <1>4, <2>2 DEF Draw, IdentityTypeOK
<1>5. ASSUME NEW p \in Procs, Put(p) PROVE IdentityTypeOK'
  <2>1. [proc[p] EXCEPT !.pc = "rename"] \in Commands /\ proc[p].root \in Roots \cup {None}
    BY DEF IdentityTypeOK, Commands
  <2> QED
    BY <1>5, <2>1 DEF Put, IdentityTypeOK
<1>6. ASSUME NEW p \in Procs, Rename(p) PROVE IdentityTypeOK'
  <2> DEFINE new == [kind |-> "ref", root |-> proc[p].root, ref |-> proc[p].ref]
  <2>1. new \in Files
    BY DEF IdentityTypeOK, Commands, Files
  <2>2. [proc[p] EXCEPT !.pc = "cleanup", !.base = new] \in Commands
    BY <2>1 DEF IdentityTypeOK, Commands
  <2>3. [proc[p] EXCEPT !.base = new] \in Commands
    BY <2>1 DEF IdentityTypeOK, Commands
  <2>4. Saved([proc[p] EXCEPT !.base = new]) \in Commands
    BY <2>3, CommandTypes
  <2> QED
    BY <1>6, <2>1, <2>2, <2>4 DEF Rename, IdentityTypeOK
<1>7. ASSUME NEW p \in Procs, Cleanup(p) PROVE IdentityTypeOK'
  <2>1. Saved(proc[p]) \in Commands
    BY CommandTypes DEF IdentityTypeOK
  <2>2. [Saved(proc[p]) EXCEPT !.obsolete = None] \in Commands
    BY <2>1 DEF Commands
  <2> QED
    BY <1>7, <2>2 DEF Cleanup, IdentityTypeOK
<1>8. ASSUME NEW p \in Procs, NEW u \in BOOLEAN, SaveFails(p, u) PROVE IdentityTypeOK'
  <2>1. faults' \in 0..MaxFaults
    BY <1>8, <1>f DEF SaveFails
  <2>2. [proc[p] EXCEPT !.pc = "error"] \in Commands
    BY DEF IdentityTypeOK, Commands
  <2>3. keychain' \in [Refs -> Roots \cup {None}]
    BY <1>8 DEF SaveFails, IdentityTypeOK
  <2> QED
    BY <1>8, <2>1, <2>2, <2>3 DEF SaveFails, IdentityTypeOK
<1>9. ASSUME NEW p \in Procs, Crash(p) PROVE IdentityTypeOK'
  <2>1. faults' \in 0..MaxFaults
    BY <1>9, <1>f DEF Crash
  <2>2. [proc[p] EXCEPT !.pc = "crashed"] \in Commands
    BY DEF IdentityTypeOK, Commands
  <2> QED
    BY <1>9, <2>1, <2>2 DEF Crash, IdentityTypeOK
<1>10. CASE UNCHANGED identityVars
  BY <1>10 DEF identityVars, IdentityTypeOK
<1> QED
  BY <1>1, <1>2, <1>3, <1>4, <1>5, <1>6, <1>7, <1>8, <1>9, <1>10 DEF IdentityNext

-----------------------------------------------------------------------------
(* References.                                                             *)

\* What the functions on commands do with the references in hand.
LEMMA CommandRefs ==
    ASSUME NEW c \in Commands
    PROVE  /\ Loaded(c).pc \in {"draw", "ok"}
           /\ Loaded(c).obsolete \in {c.ref, c.obsolete}
           /\ Saved(c).pc \in {"draw", "ok"}
           /\ Saved(c).obsolete \in {c.ref, c.obsolete}
<1>1. Loaded(c).pc \in {"draw", "ok"} /\ Loaded(c).obsolete \in {c.ref, c.obsolete}
  BY DEF Loaded, Replace, Commands
<1>2. Saved(c).pc \in {"draw", "ok"} /\ Saved(c).obsolete \in {c.ref, c.obsolete}
  BY <1>1 DEF Saved, Commands
<1> QED
  BY <1>1, <1>2

\* A step of p that makes nothing and draws nothing keeps the invariant if what p
\* then holds is settled and the file and the keychain stay as they are.
LEMMA QuietStep ==
    ASSUME IdentityInv, IdentityTypeOK', NEW p \in Procs, NEW c \in Commands,
           proc' = [proc EXCEPT ![p] = c],
           UNCHANGED <<file, keychain, used>>,
           c.pc \notin {"idle", "put", "rename", "cleanup"},
           c.obsolete # None => Fixed(c.obsolete),
           c.pc = "get" => c.ref \in Refs /\ Fixed(c.ref)
    PROVE  IdentityInv'
<1>1. \A k : Fixed(k) => Fixed(k)'
  BY DEF IdentityInv, IdentityTypeOK, Fixed, Making
<1>2. \A q \in Procs : q # p => proc'[q] = proc[q]
  BY DEF IdentityInv, IdentityTypeOK
<1>3. proc'[p] = c
  BY DEF IdentityInv, IdentityTypeOK
<1>4. FileFixed'
  BY <1>1 DEF IdentityInv, FileFixed
<1>5. HeldFixed'
  BY <1>1, <1>2, <1>3 DEF IdentityInv, HeldFixed
<1>6. MadeApart'
  BY <1>2, <1>3 DEF IdentityInv, MadeApart, Making
<1>7. Stored'
  BY <1>2, <1>3 DEF IdentityInv, Stored
<1>8. Replaced'
  BY <1>2, <1>3 DEF IdentityInv, Replaced
<1>9. RefResolves'
  BY DEF IdentityInv, RefResolves
<1> QED
  BY <1>4, <1>5, <1>6, <1>7, <1>8, <1>9 DEF IdentityInv

\* A command starts with nothing settled or made.
LEMMA IdentityInitInv == IdentityInit => IdentityInv
<1> SUFFICES ASSUME IdentityInit PROVE IdentityInv
  OBVIOUS
<1>1. IdentityTypeOK
  BY IdentityAssumption DEF IdentityInit, IdentityTypeOK, Commands, Files, Missing, Roots
<1>2. \A p \in Procs : proc[p].pc = "idle" /\ proc[p].ref = None /\ proc[p].obsolete = None
  <2>1. PICK goal \in [Procs -> {"load", "import", "rotate"}], phrase \in Phrases :
          proc = [p \in Procs |->
              [pc |-> "idle", goal |-> goal[p], save |-> "load", phrase |-> phrase,
               root |-> None, ref |-> None, obsolete |-> None, base |-> Missing]]
    BY DEF IdentityInit
  <2> QED
    BY <2>1
<1>3. FileFixed /\ RefResolves
  BY <1>2, IdentityAssumption DEF IdentityInit, FileFixed, RefResolves, Fixed, Making, Missing
<1> QED
  BY <1>1, <1>2, <1>3 DEF IdentityInv, HeldFixed, MadeApart, Stored, Replaced, Making

\* Every step keeps the invariant.
LEMMA IdentityStepInv == IdentityInv /\ [IdentityNext]_identityVars => IdentityInv'
<1> SUFFICES ASSUME IdentityInv, [IdentityNext]_identityVars PROVE IdentityInv'
  OBVIOUS
<1>t. IdentityTypeOK /\ IdentityTypeOK'
  BY StepType DEF IdentityInv
<1>1. ASSUME NEW p \in Procs, NEW r \in BOOLEAN, Load(p, r) PROVE IdentityInv'
  <2> DEFINE f == IF r THEN file ELSE Missing
  <2> DEFINE c == Read(proc[p], f)
  <2>1. f \in Files /\ (f.kind = "ref" => f = file)
    BY <1>t DEF IdentityTypeOK, Missing, Files
  <2>2. c \in Commands /\ proc[p] \in Commands
    BY <1>t, <2>1, CommandTypes DEF IdentityTypeOK
  <2>3. proc[p].ref = None /\ proc[p].obsolete = None
    BY <1>1 DEF Load, ProcAt, IdentityInv, HeldFixed
  <2>4. /\ c.pc \notin {"idle", "put", "rename", "cleanup"}
        /\ c.obsolete = None
        /\ c.pc = "get" => f.kind = "ref" /\ c.ref = f.ref
    <3>1. CASE f.kind = "v1"
      <4>1. [proc[p] EXCEPT !.base = f] \in Commands
        BY <2>1, <2>2 DEF Commands
      <4> QED
        BY <3>1, <4>1, <2>2, <2>3, CommandRefs DEF Read, Commands
    <3>2. CASE f.kind = "ref"
      BY <3>2, <2>2, <2>3 DEF Read, Commands
    <3>3. CASE f.kind \in {"plain", "missing"}
      BY <3>3, <2>2, <2>3 DEF Read, Commands
    <3> QED
      BY <3>1, <3>2, <3>3, <2>1 DEF Files
  <2>5. c.pc = "get" => c.ref \in Refs /\ Fixed(c.ref)
    BY <2>1, <2>4 DEF IdentityInv, FileFixed
  <2> HIDE DEF c
  <2>6. proc' = [proc EXCEPT ![p] = c] /\ UNCHANGED <<file, keychain, used>>
    BY <1>1 DEF Load, c
  <2> QED
    BY <1>t, <2>2, <2>4, <2>5, <2>6, QuietStep
<1>2. ASSUME NEW p \in Procs, NEW r \in BOOLEAN, Rekey(p, r) PROVE IdentityInv'
  <2> DEFINE d == [proc[p] EXCEPT !.ref = file.ref, !.base = file]
  <2> DEFINE c == IF r THEN Replace(d, "rotate") ELSE [proc[p] EXCEPT !.pc = "error"]
  <2>1. proc[p] \in Commands /\ file \in Files /\ file.ref \in Refs \cup {None}
    BY <1>t DEF IdentityTypeOK, Files
  <2>2. d \in Commands /\ d.ref = file.ref
    BY <2>1 DEF Commands
  <2>3. c \in Commands
    <3>1. Replace(d, "rotate") \in Commands
      BY <2>2, CommandTypes
    <3>2. [proc[p] EXCEPT !.pc = "error"] \in Commands
      BY <2>1 DEF Commands
    <3> QED
      BY <3>1, <3>2
  <2>4. proc[p].obsolete = None
    BY <1>2 DEF Rekey, ProcAt, IdentityInv, HeldFixed
  <2>5. c.pc \in {"draw", "error"} /\ c.obsolete \in {None, file.ref}
    BY <2>1, <2>2, <2>4 DEF Replace, Commands
  <2>6. c.obsolete # None => Fixed(c.obsolete)
    BY <2>5 DEF IdentityInv, FileFixed
  <2>7. proc' = [proc EXCEPT ![p] = c] /\ UNCHANGED <<file, keychain, used>>
    BY <1>2 DEF Rekey
  <2> HIDE DEF c
  <2> QED
    BY <1>t, <2>3, <2>5, <2>6, <2>7, QuietStep
<1>3. ASSUME NEW p \in Procs, NEW r \in BOOLEAN, Get(p, r) PROVE IdentityInv'
  <2> DEFINE c == IF r /\ keychain[proc[p].ref] # None THEN Loaded(proc[p])
                  ELSE [proc[p] EXCEPT !.pc = "error"]
  <2>1. proc[p] \in Commands
    BY <1>t DEF IdentityTypeOK
  <2>2. c \in Commands
    BY <2>1, CommandTypes DEF Commands
  <2>3. c.pc \in {"draw", "ok", "error"} /\ c.obsolete \in {proc[p].ref, proc[p].obsolete}
    BY <2>1, CommandRefs DEF Commands
  <2>4. c.obsolete # None => Fixed(c.obsolete)
    BY <1>3, <2>3 DEF Get, ProcAt, IdentityInv, HeldFixed
  <2>5. proc' = [proc EXCEPT ![p] = c] /\ UNCHANGED <<file, keychain, used>>
    BY <1>3 DEF Get
  <2> HIDE DEF c
  <2> QED
    BY <1>t, <2>2, <2>3, <2>4, <2>5, QuietStep
<1>4. ASSUME NEW p \in Procs, NEW k \in Refs, Draw(p, k) PROVE IdentityInv'
  <2>1. /\ proc'[p].pc = "put" /\ proc'[p].ref = k /\ proc'[p].obsolete = proc[p].obsolete
        /\ \A q \in Procs : q # p => proc'[q] = proc[q]
        /\ used' = used \cup {k} /\ k \notin used /\ UNCHANGED <<file, keychain>>
    BY <1>4, <1>t DEF Draw, IdentityTypeOK, Commands
  <2>2. \A j : Fixed(j) => Fixed(j)'
    BY <2>1 DEF Fixed, Making
  <2>3. FileFixed'
    BY <2>1, <2>2 DEF IdentityInv, FileFixed
  <2>4. HeldFixed'
    BY <2>1, <2>2 DEF IdentityInv, HeldFixed
  <2>5. MadeApart'
    BY <2>1 DEF IdentityInv, MadeApart, Making
  <2>6. Stored' /\ Replaced' /\ RefResolves'
    BY <2>1 DEF IdentityInv, Stored, Replaced, RefResolves
  <2> QED
    BY <1>t, <2>3, <2>4, <2>5, <2>6 DEF IdentityInv
<1>5. ASSUME NEW p \in Procs, Put(p) PROVE IdentityInv'
  <2>1. /\ proc[p].pc = "put" /\ proc'[p].pc = "rename" /\ proc'[p].ref = proc[p].ref
        /\ proc'[p].obsolete = proc[p].obsolete /\ proc'[p].root = proc[p].root
        /\ \A q \in Procs : q # p => proc'[q] = proc[q]
        /\ UNCHANGED <<file, used>>
    BY <1>5, <1>t DEF Put, ProcAt, IdentityTypeOK, Commands
  <2>2. proc[p].ref \in Refs /\ (file.kind = "ref" => file.ref # proc[p].ref)
    BY <2>1 DEF IdentityInv, MadeApart, FileFixed, Fixed, Making
  <2>3. /\ keychain'[proc[p].ref] = proc[p].root
        /\ \A j \in Refs : j # proc[p].ref => keychain'[j] = keychain[j]
    BY <1>5, <1>t, <2>2 DEF Put, IdentityTypeOK
  <2>4. \A j : Fixed(j) => Fixed(j)'
    BY <2>1 DEF Fixed, Making
  <2>5. FileFixed' /\ HeldFixed'
    BY <2>1, <2>4 DEF IdentityInv, FileFixed, HeldFixed
  <2>6. MadeApart'
    BY <2>1 DEF IdentityInv, MadeApart, Making
  <2>7. Stored'
    BY <2>1, <2>3 DEF IdentityInv, Stored, MadeApart, Making
  <2>8. Replaced' /\ RefResolves'
    BY <2>1, <2>2, <2>3 DEF IdentityInv, Replaced, RefResolves, FileFixed
  <2> QED
    BY <1>t, <2>5, <2>6, <2>7, <2>8 DEF IdentityInv
<1>6. ASSUME NEW p \in Procs, Rename(p) PROVE IdentityInv'
  <2> DEFINE new == [kind |-> "ref", root |-> proc[p].root, ref |-> proc[p].ref]
  <2> DEFINE c == IF proc[p].obsolete # None THEN [proc[p] EXCEPT !.pc = "cleanup", !.base = new]
                  ELSE Saved([proc[p] EXCEPT !.base = new])
  <2>1. proc[p] \in Commands /\ proc[p].pc = "rename" /\ new \in Files
    BY <1>6, <1>t DEF Rename, ProcAt, IdentityTypeOK, Commands, Files
  <2>2. [proc[p] EXCEPT !.base = new] \in Commands
    BY <2>1 DEF Commands
  <2>3. /\ c.pc \in {"cleanup", "draw", "ok"}
        /\ c.pc = "cleanup" => c.obsolete = proc[p].obsolete /\ c.obsolete # None
        /\ c.pc # "cleanup" => c.obsolete \in {None, proc[p].ref}
    <3>1. CASE proc[p].obsolete # None
      BY <3>1, <2>1 DEF Commands
    <3>2. CASE proc[p].obsolete = None
      BY <3>2, <2>1, <2>2, CommandRefs DEF Commands
    <3> QED
      BY <3>1, <3>2
  <2>4. /\ proc'[p] = c /\ file' = new /\ UNCHANGED <<keychain, used>>
        /\ \A q \in Procs : q # p => proc'[q] = proc[q]
    BY <1>6, <1>t DEF Rename, IdentityTypeOK
  <2> HIDE DEF c
  <2>5. \A j : Fixed(j) => Fixed(j)'
    BY <2>3, <2>4 DEF Fixed, Making
  <2>6. PICK k \in Refs : k = proc[p].ref /\ Fixed(k)'
    BY <2>1, <2>3, <2>4 DEF IdentityInv, MadeApart, Making, Fixed
  <2>7. FileFixed'
    BY <2>4, <2>6 DEF FileFixed
  <2>8. HeldFixed'
    BY <2>3, <2>4, <2>5, <2>6 DEF IdentityInv, HeldFixed
  <2>9. MadeApart' /\ Stored'
    BY <2>3, <2>4 DEF IdentityInv, MadeApart, Stored, Making
  <2>10. \A q \in Procs : proc[q].obsolete # None => proc[q].obsolete # proc[p].ref
    BY <2>1 DEF IdentityInv, HeldFixed, Fixed, Making
  <2>11. Replaced'
    BY <2>3, <2>4, <2>10 DEF IdentityInv, Replaced
  <2>12. RefResolves'
    BY <2>1, <2>4 DEF IdentityInv, RefResolves, Stored
  <2> QED
    BY <1>t, <2>7, <2>8, <2>9, <2>11, <2>12 DEF IdentityInv
<1>7. ASSUME NEW p \in Procs, Cleanup(p) PROVE IdentityInv'
  <2>1. proc[p] \in Commands /\ proc[p].pc = "cleanup" /\ Saved(proc[p]) \in Commands
    BY <1>7, <1>t, CommandTypes DEF Cleanup, ProcAt, IdentityTypeOK
  <2>2. /\ proc'[p].pc \in {"draw", "ok"} /\ proc'[p].obsolete = None
        /\ \A q \in Procs : q # p => proc'[q] = proc[q]
        /\ UNCHANGED <<file, used>>
    BY <1>7, <1>t, <2>1, CommandRefs DEF Cleanup, IdentityTypeOK, Commands
  <2>3. \A j \in Refs : j # proc[p].obsolete => keychain'[j] = keychain[j]
    BY <1>7, <1>t DEF Cleanup, IdentityTypeOK
  <2>4. proc[p].obsolete # file.ref /\ \A q \in Procs : Making(q) => proc[q].ref # proc[p].obsolete
    BY <2>1 DEF IdentityInv, Replaced, HeldFixed, Fixed
  <2>5. \A j : Fixed(j) => Fixed(j)'
    BY <2>2 DEF Fixed, Making
  <2>6. FileFixed' /\ HeldFixed'
    BY <2>2, <2>5 DEF IdentityInv, FileFixed, HeldFixed
  <2>7. MadeApart'
    BY <2>2 DEF IdentityInv, MadeApart, Making
  <2>8. Stored'
    BY <2>2, <2>3, <2>4 DEF IdentityInv, Stored, MadeApart, Making
  <2>9. Replaced' /\ RefResolves'
    BY <2>2, <2>3, <2>4 DEF IdentityInv, Replaced, RefResolves, FileFixed
  <2> QED
    BY <1>t, <2>6, <2>7, <2>8, <2>9 DEF IdentityInv
<1>8. ASSUME NEW p \in Procs, NEW u \in BOOLEAN, SaveFails(p, u) PROVE IdentityInv'
  <2>1. /\ proc'[p].pc = "error" /\ proc'[p].obsolete = proc[p].obsolete
        /\ \A q \in Procs : q # p => proc'[q] = proc[q]
        /\ UNCHANGED <<file, used>>
    BY <1>8, <1>t DEF SaveFails, IdentityTypeOK, Commands
  <2>2. \A j \in Refs : (Making(p) => j # proc[p].ref) => keychain'[j] = keychain[j]
    BY <1>8, <1>t DEF SaveFails, ProcAt, Making, IdentityTypeOK
  <2>3. \A j : Fixed(j) => Fixed(j)'
    BY <2>1 DEF Fixed, Making
  <2>4. FileFixed' /\ HeldFixed'
    BY <2>1, <2>3 DEF IdentityInv, FileFixed, HeldFixed
  <2>5. MadeApart' /\ Replaced'
    BY <2>1 DEF IdentityInv, MadeApart, Making, Replaced
  <2>6. Stored'
    BY <2>1, <2>2 DEF IdentityInv, Stored, MadeApart, Making
  <2>7. RefResolves'
    BY <2>1, <2>2 DEF IdentityInv, RefResolves, FileFixed, Fixed
  <2> QED
    BY <1>t, <2>4, <2>5, <2>6, <2>7 DEF IdentityInv
<1>9. ASSUME NEW p \in Procs, Crash(p) PROVE IdentityInv'
  <2> DEFINE c == [proc[p] EXCEPT !.pc = "crashed"]
  <2>1. proc[p] \in Commands
    BY <1>t DEF IdentityTypeOK
  <2>2. c \in Commands /\ c.pc = "crashed" /\ c.obsolete = proc[p].obsolete
    BY <2>1 DEF Commands
  <2>3. c.obsolete # None => Fixed(c.obsolete)
    BY <2>2 DEF IdentityInv, HeldFixed
  <2>4. proc' = [proc EXCEPT ![p] = c] /\ UNCHANGED <<file, keychain, used>>
    BY <1>9, <2>1 DEF Crash, Commands
  <2> HIDE DEF c
  <2> QED
    BY <1>t, <2>2, <2>3, <2>4, QuietStep
<1>10. CASE UNCHANGED identityVars
  BY <1>10, <1>t DEF identityVars, IdentityInv, FileFixed, HeldFixed, MadeApart, Stored, Replaced, RefResolves,
                     Fixed, Making
<1> QED
  BY <1>1, <1>2, <1>3, <1>4, <1>5, <1>6, <1>7, <1>8, <1>9, <1>10 DEF IdentityNext

\* Whatever commands overlap, fail or are killed, owner.json names a keychain
\* entry that holds the root it was written for.
THEOREM RootNeverLost == IdentitySpec => []RefResolves
<1>1. IdentityInv => RefResolves
  BY DEF IdentityInv
<1> QED
  BY <1>1, IdentityInitInv, IdentityStepInv, PTL DEF IdentitySpec

-----------------------------------------------------------------------------
(***************************************************************************)
(* Who replaces a root.  A save that is part of a load has in hand the     *)
(* root of the owner.json it read, if there was one.                       *)
(***************************************************************************)

Kept(c) ==
    c.pc \in {"draw", "put", "rename"} /\ c.save = "load" /\ c.base.root # None
        => c.root = c.base.root

KeptInv ==
    /\ IdentityTypeOK
    /\ file.kind = "missing" => file.root = None
    /\ \A p \in Procs : Kept(proc[p])

\* A save for another reason than a load is no concern of Kept, nor is a command that ended.
LEMMA KeptElsewhere ==
    ASSUME NEW c \in Commands
    PROVE  /\ \A why \in {"import", "rotate"} : Kept(Replace(c, why))
           /\ Kept(Loaded(c)) /\ Kept(Saved(c))
           /\ c.pc # "draw" => \A l \in {"get", "error", "crashed", "cleanup"} : Kept([c EXCEPT !.pc = l])
<1>1. ASSUME NEW why \in {"import", "rotate"} PROVE Kept(Replace(c, why))
  BY <1>1 DEF Kept, Replace, Commands
<1>2. Kept(Loaded(c))
  BY <1>1 DEF Loaded, Kept, Commands
<1>3. Kept(Saved(c))
  BY <1>2 DEF Saved, Kept, Commands
<1> QED
  BY <1>1, <1>2, <1>3 DEF Kept, Commands

\* Reading owner.json takes its root in hand.
LEMMA KeptRead ==
    ASSUME NEW c \in Commands, NEW f \in Files, f.kind = "missing" => f.root = None
    PROVE  Kept(Read(c, f))
<1>1. CASE f.kind = "v1"
  <2>1. [c EXCEPT !.base = f] \in Commands
    BY DEF Commands
  <2> QED
    BY <1>1, <2>1, KeptElsewhere DEF Read
<1>2. CASE f.kind \in {"missing", "ref", "plain"}
  BY <1>2 DEF Read, Commands, Files, Kept
<1> QED
  BY <1>1, <1>2 DEF Files

\* Every step keeps the root in hand.
LEMMA KeptStep == KeptInv /\ [IdentityNext]_identityVars => KeptInv'
<1> SUFFICES ASSUME KeptInv, [IdentityNext]_identityVars PROVE KeptInv'
  OBVIOUS
<1>0. /\ IdentityTypeOK /\ IdentityTypeOK' /\ proc \in [Procs -> Commands] /\ file \in Files
      /\ \A p \in Procs : Kept(proc[p])
      /\ file.kind = "missing" => file.root = None
      /\ Missing \in Files /\ Missing.root = None
  BY StepType DEF KeptInv, IdentityTypeOK, Missing, Files
<1>1. ASSUME NEW p \in Procs, NEW c, Kept(c), proc' = [proc EXCEPT ![p] = c],
             file'.kind = "missing" => file'.root = None
      PROVE  KeptInv'
  BY <1>0, <1>1 DEF KeptInv
<1>2. ASSUME NEW p \in Procs, NEW readable \in BOOLEAN, Load(p, readable) PROVE KeptInv'
  BY <1>0, <1>1, <1>2, KeptRead DEF Load
<1>3. ASSUME NEW p \in Procs, NEW readable \in BOOLEAN, Rekey(p, readable) PROVE KeptInv'
  <2>1. [proc[p] EXCEPT !.ref = file.ref, !.base = file] \in Commands
    <3>1. proc[p] \in Commands /\ file \in Files /\ file.ref \in Refs \cup {None}
      BY <1>0 DEF Files
    <3> QED
      BY <3>1 DEF Commands
  <2>2. Kept([proc[p] EXCEPT !.pc = "error"])
    BY <1>0 DEF Kept, Commands
  <2> QED
    <3>1. Kept(Replace([proc[p] EXCEPT !.ref = file.ref, !.base = file], "rotate"))
      BY <2>1, KeptElsewhere
    <3>2. /\ proc' = [proc EXCEPT ![p] =
                         IF readable THEN Replace([proc[p] EXCEPT !.ref = file.ref, !.base = file], "rotate")
                         ELSE [proc[p] EXCEPT !.pc = "error"]]
          /\ file' = file
      BY <1>3 DEF Rekey
    <3>3. CASE readable
      BY <1>0, <1>1, <3>1, <3>2, <3>3
    <3>4. CASE ~readable
      BY <1>0, <1>1, <2>2, <3>2, <3>4
    <3> QED
      BY <3>3, <3>4
<1>4. ASSUME NEW p \in Procs, NEW unlocked \in BOOLEAN, Get(p, unlocked) PROVE KeptInv'
  <2>1. Kept([proc[p] EXCEPT !.pc = "error"])
    BY <1>0 DEF Kept, Commands
  <2> QED
    BY <1>0, <1>1, <1>4, <2>1, KeptElsewhere DEF Get
<1>5. ASSUME NEW p \in Procs, NEW k \in Refs, Draw(p, k) PROVE KeptInv'
  <2> DEFINE c == [proc[p] EXCEPT !.pc = "put", !.ref = k,
                                  !.root = IF proc[p].root = None THEN k ELSE proc[p].root]
  <2>1. Kept(c)
    BY <1>0, <1>5 DEF Kept, Commands, Draw, ProcAt
  <2>2. proc' = [proc EXCEPT ![p] = c] /\ file' = file
    BY <1>5 DEF Draw
  <2> QED
    BY <1>0, <1>1, <2>1, <2>2
<1>6. ASSUME NEW p \in Procs, Put(p) PROVE KeptInv'
  <2> DEFINE c == [proc[p] EXCEPT !.pc = "rename"]
  <2>1. Kept(c)
    BY <1>0, <1>6 DEF Kept, Commands, Put, ProcAt
  <2>2. proc' = [proc EXCEPT ![p] = c] /\ file' = file
    BY <1>6 DEF Put
  <2> QED
    BY <1>0, <1>1, <2>1, <2>2
<1>7. ASSUME NEW p \in Procs, Rename(p) PROVE KeptInv'
  <2> DEFINE new == [kind |-> "ref", root |-> proc[p].root, ref |-> proc[p].ref]
  <2>1. file' = new /\ file'.kind # "missing" /\ new \in Files
    BY <1>0, <1>7 DEF Rename, Commands, Files
  <2>2. [proc[p] EXCEPT !.base = new] \in Commands
    BY <1>0, <2>1 DEF Commands
  <2>3. Kept(Saved([proc[p] EXCEPT !.base = new]))
    BY <2>2, KeptElsewhere
  <2>4. Kept([proc[p] EXCEPT !.pc = "cleanup", !.base = new])
    BY <1>0 DEF Kept, Commands
  <2> QED
    BY <1>0, <1>1, <1>7, <2>1, <2>3, <2>4 DEF Rename
<1>8. ASSUME NEW p \in Procs, Cleanup(p) PROVE KeptInv'
  <2>1. Kept(Saved(proc[p])) /\ Saved(proc[p]) \in Commands
    BY <1>0, KeptElsewhere, CommandTypes
  <2>2. Kept([Saved(proc[p]) EXCEPT !.obsolete = None])
    BY <2>1 DEF Kept, Commands
  <2> QED
    BY <1>0, <1>1, <1>8, <2>2 DEF Cleanup
<1>9. ASSUME NEW p \in Procs, NEW undone \in BOOLEAN, SaveFails(p, undone) PROVE KeptInv'
  <2>1. Kept([proc[p] EXCEPT !.pc = "error"])
    BY <1>0 DEF Kept, Commands
  <2> QED
    BY <1>0, <1>1, <1>9, <2>1 DEF SaveFails
<1>10. ASSUME NEW p \in Procs, Crash(p) PROVE KeptInv'
  <2>1. Kept([proc[p] EXCEPT !.pc = "crashed"])
    BY <1>0 DEF Kept, Commands
  <2> QED
    BY <1>0, <1>1, <1>10, <2>1 DEF Crash
<1>11. CASE UNCHANGED identityVars
  BY <1>0, <1>11 DEF KeptInv, identityVars
<1> QED
  BY <1>2, <1>3, <1>4, <1>5, <1>6, <1>7, <1>8, <1>9, <1>10, <1>11 DEF IdentityNext

\* LoadOrCreateIdentity, Rekey and SaveIdentity: for any number of commands, only rotate and
\* import replace the root of an identity; a load does so only if owner.json is not what it
\* read any more, or could not be read.
THEOREM OnlyAskedForReplaces == IdentitySpec => IdentityKept
<1> DEFINE Asked == (file.root # None /\ file'.root # file.root)
                       => \E p \in Procs : /\ ProcAt(p, "rename")
                                           /\ proc[p].save # "load" \/ proc[p].base # file
<1>1. IdentityInit => KeptInv
  <2> SUFFICES ASSUME IdentityInit PROVE KeptInv
    OBVIOUS
  <2>1. IdentityTypeOK
    BY IdentityInitInv DEF IdentityInv
  <2>2. file.kind = "missing" => file.root = None
    <3>1. CASE file = Missing
      BY <3>1 DEF Missing
    <3>2. CASE file # Missing
      BY <3>2 DEF IdentityInit
    <3> QED
      BY <3>1, <3>2
  <2>3. \A p \in Procs : proc[p].pc = "idle"
    <3>1. PICK goal \in [Procs -> {"load", "import", "rotate"}], phrase \in Phrases :
             proc = [p \in Procs |->
                 [pc |-> "idle", goal |-> goal[p], save |-> "load", phrase |-> phrase,
                  root |-> None, ref |-> None, obsolete |-> None, base |-> Missing]]
      BY DEF IdentityInit
    <3> QED
      BY <3>1
  <2> QED
    BY <2>1, <2>2, <2>3 DEF KeptInv, Kept
<1>2. KeptInv /\ [IdentityNext]_identityVars => [Asked]_identityVars
  <2> SUFFICES ASSUME KeptInv, IdentityNext, file.root # None, file'.root # file.root
               PROVE  \E p \in Procs : /\ ProcAt(p, "rename")
                                       /\ proc[p].save # "load" \/ proc[p].base # file
    OBVIOUS
  <2>1. PICK p \in Procs : Rename(p)
    BY DEF IdentityNext, Load, Rekey, Get, Draw, Put, Cleanup, SaveFails, Crash
  <2>2. ProcAt(p, "rename") /\ file'.root = proc[p].root
    BY <2>1 DEF Rename
  <2>3. Kept(proc[p])
    BY DEF KeptInv
  <2>4. proc[p].save # "load" \/ proc[p].base # file
    BY <2>2, <2>3 DEF Kept, ProcAt
  <2> QED
    BY <2>2, <2>4
<1> QED
  BY <1>1, <1>2, KeptStep, PTL DEF IdentitySpec, IdentityKept

-----------------------------------------------------------------------------
(***************************************************************************)
(* The multiplexer, for any number of machines.                            *)
(*                                                                         *)
(* nextLive resolves its target in the section that commits it, except for *)
(* 'n', where SwitchTo asks again whether the target has died.  The screen *)
(* is cleared in the section that moves the focus.  A machine that was     *)
(* told the shorter size is owed the full one (Owed) by a goroutine that   *)
(* keeps its job until it has sent it.                                     *)
(***************************************************************************)

\* A set of naturals has a least element.
LEMMA LeastElement ==
    ASSUME NEW S \in SUBSET Nat, S # {}
    PROVE  \E x \in S : \A y \in S : x <= y
<1>1. IsWellFoundedOn(OpToRel(<, Nat), Nat)
  BY NatLessThanWellFounded
<1>2. PICK x \in S : \A y \in S : ~(<<y, x>> \in OpToRel(<, Nat))
  BY <1>1, WFMin
<1>3. \A y, z \in Nat : y < z => <<y, z>> \in OpToRel(<, Nat)
  BY Zenon DEF OpToRel
<1>4. \A y \in S : ~(y < x)
  BY <1>2, <1>3
<1> QED
  BY <1>4

\* nextLive goes round all sessions: it finds a live one, or there is none.
LEMMA NextLiveFinds ==
    ASSUME focus \in Sessions, NEW ended
    PROVE  \/ NextLive(ended) = -1 /\ Sessions \subseteq ended
           \/ NextLive(ended) \in Sessions /\ NextLive(ended) \notin ended /\ NextLive(ended) >= 0
<1> DEFINE live == {off \in 1 .. N : (focus + off) % N \notin ended}
<1>0. N \in Nat \ {0} /\ focus \in 0 .. (N - 1) /\ Sessions = 0 .. (N - 1)
  BY MuxAssumption DEF Sessions
<1>1. CASE live = {}
  <2>1. NextLive(ended) = -1
    BY <1>1 DEF NextLive
  <2>2. ASSUME NEW s \in Sessions PROVE s \in ended
    <3>1. \E off \in 1 .. N : (focus + off) % N = s
      <4>1. CASE s > focus
        <5>1. s - focus \in 1 .. N /\ focus + (s - focus) = s /\ s % N = s
          BY <1>0, <4>1
        <5> QED
          BY <5>1
      <4>2. CASE s <= focus
        <5>1. s - focus + N \in 1 .. N /\ focus + (s - focus + N) = s + N /\ (s + N) % N = s
          BY <1>0, <4>2
        <5> QED
          BY <5>1
      <4> QED
        BY <1>0, <4>1, <4>2
    <3> QED
      BY <1>1, <3>1
  <2> QED
    BY <2>1, <2>2
<1>2. CASE live # {}
  <2> DEFINE off == CHOOSE x \in live : \A o \in live : x <= o
  <2>1. live \in SUBSET Nat
    BY <1>0
  <2>2. \E x \in live : \A o \in live : x <= o
    BY <1>2, <2>1, LeastElement
  <2>3. off \in live
    BY <2>2
  <2>4. NextLive(ended) = (focus + off) % N
    BY <1>2 DEF NextLive
  <2>5. off \in 1 .. N /\ (focus + off) % N \notin ended
    BY <2>3
  <2> HIDE DEF off, live
  <2>6. (focus + off) % N \in 0 .. (N - 1)
    BY <1>0, <2>5
  <2> QED
    BY <1>0, <2>4, <2>5, <2>6
<1> QED
  BY <1>1, <1>2

\* The actors are apart.
LEMMA ActorsApart ==
    /\ Sessions \subseteq Actors /\ Stdin \in Actors /\ Resizer \in Actors /\ Winch \in Actors /\ Runner \in Actors
    /\ Stdin \notin Sessions /\ Resizer \notin Sessions /\ Winch \notin Sessions /\ Runner \notin Sessions
    /\ Resizer # Stdin /\ Winch # Stdin /\ Winch # Resizer /\ Runner # Stdin
BY MuxAssumption DEF Sessions, Actors, Stdin, Resizer, Winch, Runner

MuxStates == {"wait", "target", "short", "full", "got", "sized", "quit", "done"}

\* A focus change keeps the types.
LEMMA RefocusType ==
    ASSUME TypeOK, NEW a \in Actors, NEW s \in Sessions, Refocus(a, s)
    PROVE  /\ focus' \in Sessions /\ screen' \subseteq Sessions
           /\ pc' \in [Actors -> MuxStates]
           /\ job' \in [Actors -> [to : Sessions, size : Windows]]
BY DEF TypeOK, Refocus, Goto, MuxStates

\* Every step of the goroutines keeps the types.
LEMMA MuxTypeStep == TypeOK /\ [Next]_vars => TypeOK'
<1> SUFFICES ASSUME TypeOK, [Next]_vars PROVE TypeOK'
  OBVIOUS
<1>0. focus \in Sessions
  BY DEF TypeOK
<1>c. ASSUME Typed PROVE commands' \in 0 .. MaxCommands
  <2>1. commands \in 0 .. MaxCommands /\ commands < MaxCommands /\ commands' = commands + 1
    BY <1>c DEF Typed, TypeOK
  <2>2. MaxCommands \in Nat
    BY MuxAssumption
  <2> QED
    BY <2>1, <2>2
<1> USE ActorsApart DEF Goto
<1>1. ASSUME NEW s \in Sessions, Output(s) PROVE TypeOK'
  BY <1>1 DEF TypeOK, Output
<1>2. ASSUME NEW s \in Sessions, SessionEnd(s) PROVE TypeOK'
  <2>1. \/ Goto(s, "quit") /\ UNCHANGED <<focus, screen, job>>
        \/ Goto(s, "done") /\ UNCHANGED <<focus, screen, job>>
        \/ \E t \in Sessions : Refocus(s, t)
    BY <1>0, <1>2, NextLiveFinds DEF SessionEnd
  <2>2. /\ focus' \in Sessions /\ screen' \subseteq Sessions
        /\ pc' \in [Actors -> MuxStates]
        /\ job' \in [Actors -> [to : Sessions, size : Windows]]
    <3>1. CASE \E t \in Sessions : Refocus(s, t)
      BY <3>1, RefocusType
    <3>2. CASE Goto(s, "quit") /\ UNCHANGED <<focus, screen, job>>
      BY <3>2 DEF TypeOK, MuxStates
    <3>3. CASE Goto(s, "done") /\ UNCHANGED <<focus, screen, job>>
      BY <3>3 DEF TypeOK, MuxStates
    <3> QED
      BY <2>1, <3>1, <3>2, <3>3
  <2> QED
    BY <1>2, <2>2 DEF SessionEnd, TypeOK, MuxStates
<1>3. ASSUME NEW s \in Sessions, CloseQuit(s) PROVE TypeOK'
  BY <1>3 DEF TypeOK, CloseQuit
<1>4. ASSUME NEW s \in Sessions, TypeDigit(s) PROVE TypeOK'
  <2>1. /\ focus' \in Sessions /\ screen' \subseteq Sessions
        /\ pc' \in [Actors -> MuxStates]
        /\ job' \in [Actors -> [to : Sessions, size : Windows]]
    BY <1>4, RefocusType DEF TypeDigit, SwitchTo
  <2>2. commands' \in 0 .. MaxCommands
    BY <1>4, <1>c DEF TypeDigit
  <2> QED
    BY <1>4, <2>1, <2>2 DEF TypeDigit, TypeOK, MuxStates
<1>5. ASSUME NEW a \in Sessions \cup {Stdin}, RepaintShort(a) PROVE TypeOK'
  <2>1. job[a] \in [to : Sessions, size : Windows] /\ job[a].size - 1 \in Rows
    BY <1>5 DEF TypeOK, Rows
  <2> QED
    BY <1>5, <2>1 DEF TypeOK, RepaintShort
<1>6. ASSUME NEW a \in Sessions \cup {Stdin}, RepaintFull(a) PROVE TypeOK'
  <2>1. job[a] \in [to : Sessions, size : Windows] /\ job[a].size \in Rows
    BY <1>6 DEF TypeOK, Rows
  <2> QED
    BY <1>6, <2>1 DEF TypeOK, RepaintFull, Resume
<1>7. CASE TypeNext
  <2>1. NextLive(dead) \in Sessions
    BY <1>0, <1>7, NextLiveFinds DEF TypeNext
  <2>2. job' \in [Actors -> [to : Sessions, size : Windows]]
    <3>1. [job[Stdin] EXCEPT !.to = NextLive(dead)] \in [to : Sessions, size : Windows]
      BY <2>1 DEF TypeOK
    <3>2. job' = [job EXCEPT ![Stdin] = [job[Stdin] EXCEPT !.to = NextLive(dead)]]
      BY <1>7 DEF TypeNext
    <3> QED
      BY <3>1, <3>2 DEF TypeOK
  <2>3. commands' \in 0 .. MaxCommands
    BY <1>7, <1>c DEF TypeNext
  <2> QED
    BY <1>7, <2>2, <2>3 DEF TypeNext, TypeOK
<1>8. CASE SwitchNext
  <2>1. job[Stdin].to \in Sessions
    BY DEF TypeOK
  <2>2. /\ focus' \in Sessions /\ screen' \subseteq Sessions
        /\ pc' \in [Actors -> MuxStates]
        /\ job' \in [Actors -> [to : Sessions, size : Windows]]
    <3>1. CASE SwitchTo(job[Stdin].to)
      BY <2>1, <3>1, RefocusType DEF SwitchTo
    <3>2. CASE Goto(Stdin, "wait") /\ UNCHANGED <<focus, screen, job>>
      BY <3>2 DEF TypeOK, MuxStates
    <3> QED
      BY <1>8, <3>1, <3>2 DEF SwitchNext
  <2> QED
    BY <1>8, <2>2 DEF SwitchNext, TypeOK, MuxStates
<1>9. CASE TypeQuit
  <2>1. commands' \in 0 .. MaxCommands
    BY <1>9, <1>c DEF TypeQuit
  <2> QED
    BY <1>9, <2>1 DEF TypeQuit, TypeOK
<1>10. CASE StdinReturns
  BY <1>10 DEF StdinReturns, TypeOK
<1>11. ASSUME NEW w \in Windows, WindowChanges(w) PROVE TypeOK'
  BY <1>11, MuxAssumption DEF WindowChanges, TypeOK
<1>12. CASE WinchTake
  BY <1>12 DEF WinchTake, TypeOK
<1>13. CASE WinchGetSize
  BY <1>13 DEF WinchGetSize, TypeOK
<1>14. CASE WinchSend
  BY <1>14 DEF WinchSend, TypeOK
<1>15. CASE ResizeRecord
  <2>1. PICK w \in Windows : resizes = <<w>>
    BY <1>15 DEF ResizeRecord, TypeOK
  <2>2. Head(resizes) = w /\ Tail(resizes) = <<>>
    BY <2>1
  <2> QED
    BY <1>15, <2>2 DEF ResizeRecord, TypeOK
<1>16. CASE ResizeSend
  <2>1. job[Resizer] \in [to : Sessions, size : Windows] /\ job[Resizer].size \in Rows
    BY <1>16 DEF TypeOK, Rows
  <2> QED
    BY <1>16, <2>1 DEF ResizeSend, TypeOK
<1>17. CASE ResizerReturns
  BY <1>17 DEF ResizerReturns, TypeOK
<1>18. CASE Cancel
  BY <1>18 DEF Cancel, TypeOK
<1>19. CASE RunReturns
  BY <1>19 DEF RunReturns, TypeOK
<1>20. CASE UNCHANGED vars
  BY <1>20 DEF vars, TypeOK
<1> QED
  BY <1>1, <1>2, <1>3, <1>4, <1>5, <1>6, <1>7, <1>8, <1>9, <1>10, <1>11, <1>12, <1>13, <1>14,
     <1>15, <1>16, <1>17, <1>18, <1>19, <1>20 DEF Next

\* A machine is at a size the terminal had, or a goroutine owes it one.
Owed ==
    \A s \in Sessions : remote[s] \in Windows \/ \E a \in Actors : pc[a] = "full" /\ job[a].to = s

MuxInv == TypeOK /\ FocusNotStranded /\ OnlyFocusOnScreen /\ Owed

\* The focus moves to a live session only, with the screen cleared, and a session that ends
\* takes the focus with it unless none is left.
LEMMA FocusStep ==
    ASSUME TypeOK, FocusNotStranded, OnlyFocusOnScreen, [Next]_vars
    PROVE  FocusNotStranded' /\ OnlyFocusOnScreen'
<1>0. focus \in Sessions
  BY DEF TypeOK
<1>1. ASSUME NEW s \in Sessions, SessionEnd(s) PROVE FocusNotStranded' /\ OnlyFocusOnScreen'
  <2> DEFINE n == NextLive(dead \cup {s})
  <2>0. \/ n = -1 /\ Sessions \subseteq dead \cup {s}
        \/ n \in Sessions /\ n \notin dead \cup {s} /\ n >= 0
    BY <1>0, NextLiveFinds
  <2>1. /\ dead' = dead \cup {s}
        /\ \/ n < 0 /\ UNCHANGED <<focus, screen>>
           \/ n >= 0 /\ s # focus /\ UNCHANGED <<focus, screen>>
           \/ n >= 0 /\ s = focus /\ focus' = n /\ screen' = {}
    BY <1>1 DEF SessionEnd, Refocus
  <2> HIDE DEF n
  <2>2. CASE n = -1 /\ Sessions \subseteq dead \cup {s}
    <3>1. UNCHANGED <<focus, screen>>
      BY <2>1, <2>2
    <3> QED
      BY <2>1, <2>2, <3>1 DEF FocusNotStranded, OnlyFocusOnScreen
  <2>3. CASE n \in Sessions /\ n \notin dead \cup {s} /\ n >= 0
    <3>0. n \in Int
      BY <2>3, MuxAssumption DEF Sessions
    <3>1. \/ s # focus /\ UNCHANGED <<focus, screen>>
          \/ s = focus /\ focus' = n /\ screen' = {}
      BY <2>1, <2>3, <3>0
    <3> QED
      BY <2>1, <2>3, <3>1 DEF FocusNotStranded, OnlyFocusOnScreen
  <2> QED
    BY <2>0, <2>2, <2>3
<1>2. ASSUME NEW s \in Sessions, SwitchTo(s), dead' = dead
      PROVE  FocusNotStranded' /\ OnlyFocusOnScreen'
  BY <1>2 DEF SwitchTo, Refocus, FocusNotStranded, OnlyFocusOnScreen
<1>3. ASSUME NEW s \in Sessions, TypeDigit(s) PROVE FocusNotStranded' /\ OnlyFocusOnScreen'
  BY <1>2, <1>3 DEF TypeDigit
<1>4. ASSUME UNCHANGED <<focus, dead>>, screen' = screen \/ screen' = screen \cup {focus}
      PROVE  FocusNotStranded' /\ OnlyFocusOnScreen'
  BY <1>4 DEF FocusNotStranded, OnlyFocusOnScreen
<1>5. CASE SwitchNext
  <2>1. job[Stdin].to \in Sessions
    BY ActorsApart DEF TypeOK
  <2> QED
    BY <1>2, <1>4, <1>5, <2>1 DEF SwitchNext
<1>6. ASSUME NEW s \in Sessions, Output(s) \/ CloseQuit(s)
      PROVE  FocusNotStranded' /\ OnlyFocusOnScreen'
  BY <1>4, <1>6 DEF Output, CloseQuit
<1>7. ASSUME NEW a \in Sessions \cup {Stdin}, RepaintShort(a) \/ RepaintFull(a)
      PROVE  FocusNotStranded' /\ OnlyFocusOnScreen'
  BY <1>4, <1>7 DEF RepaintShort, RepaintFull
<1>8. CASE TypeNext \/ TypeQuit \/ StdinReturns \/ Cancel \/ RunReturns
  BY <1>4, <1>8 DEF TypeNext, TypeQuit, StdinReturns, Cancel, RunReturns
<1>9. CASE \E w \in Windows : WindowChanges(w)
  BY <1>4, <1>9 DEF WindowChanges
<1>10. CASE WinchTake \/ WinchGetSize \/ WinchSend \/ ResizeRecord \/ ResizeSend \/ ResizerReturns
  BY <1>4, <1>10 DEF WinchTake, WinchGetSize, WinchSend, ResizeRecord, ResizeSend, ResizerReturns
<1>11. CASE UNCHANGED vars
  BY <1>4, <1>11 DEF vars
<1> QED
  BY <1>1, <1>3, <1>5, <1>6, <1>7, <1>8, <1>9, <1>10, <1>11 DEF Next

\* A goroutine that owes a size leaves only by sending it, and whoever sends the shorter size
\* owes the full one.
LEMMA OwedStep ==
    ASSUME TypeOK, Owed, [Next]_vars
    PROVE  Owed'
<1>0. /\ pc \in [Actors -> MuxStates] /\ job \in [Actors -> [to : Sessions, size : Windows]]
      /\ DOMAIN remote = Sessions
      /\ \A a \in Actors : job[a].to \in Sessions /\ job[a].size \in Windows
  BY DEF TypeOK, MuxStates
<1>1. ASSUME remote' = remote,
             \A a \in Actors : pc[a] = "full" => pc'[a] = "full" /\ job'[a].to = job[a].to
      PROVE  Owed'
  BY <1>1 DEF Owed
<1>2. ASSUME NEW a \in Actors, pc[a] = "full", job' = job,
             remote' = [remote EXCEPT ![job[a].to] = job[a].size],
             \A b \in Actors : b # a => pc'[b] = pc[b]
      PROVE  Owed'
  <2> SUFFICES ASSUME NEW s \in Sessions, remote'[s] \notin Windows
               PROVE  \E b \in Actors : pc'[b] = "full" /\ job'[b].to = s
    BY DEF Owed
  <2>1. s # job[a].to /\ remote'[s] = remote[s]
    BY <1>0, <1>2
  <2>2. PICK b \in Actors : pc[b] = "full" /\ job[b].to = s
    BY <2>1 DEF Owed
  <2>3. b # a
    BY <2>1, <2>2
  <2> QED
    BY <1>2, <2>2, <2>3
<1>3. ASSUME NEW a \in Actors, pc[a] # "full", UNCHANGED remote,
             \A b \in Actors : b # a => pc'[b] = pc[b] /\ job'[b] = job[b]
      PROVE  Owed'
  BY <1>1, <1>3
<1>4. ASSUME NEW a \in Actors, NEW s, Refocus(a, s), pc[a] # "full", remote' = remote PROVE Owed'
  BY <1>0, <1>3, <1>4 DEF Refocus, Goto
<1>5. ASSUME NEW a \in Actors, NEW l, Goto(a, l), pc[a] # "full", UNCHANGED <<remote, job>> PROVE Owed'
  BY <1>0, <1>3, <1>5 DEF Goto
<1>6. ASSUME NEW s \in Sessions, Output(s) PROVE Owed'
  BY <1>1, <1>6 DEF Output
<1>7. ASSUME NEW s \in Sessions, SessionEnd(s) PROVE Owed'
  BY <1>4, <1>5, <1>7, ActorsApart DEF SessionEnd, At
<1>8. ASSUME NEW s \in Sessions, CloseQuit(s) PROVE Owed'
  BY <1>5, <1>8, ActorsApart DEF CloseQuit, At
<1>9. ASSUME NEW s \in Sessions, TypeDigit(s) PROVE Owed'
  BY <1>4, <1>9, ActorsApart DEF TypeDigit, Typed, SwitchTo, At
<1>10. ASSUME NEW a \in Sessions \cup {Stdin}, RepaintShort(a) PROVE Owed'
  <2>1. /\ a \in Actors /\ pc[a] = "short" /\ job' = job
        /\ remote' = [remote EXCEPT ![job[a].to] = job[a].size - 1]
        /\ \A b \in Actors : pc'[b] = IF b = a THEN "full" ELSE pc[b]
    BY <1>0, <1>10, ActorsApart DEF RepaintShort, Goto, At
  <2> SUFFICES ASSUME NEW s \in Sessions, remote'[s] \notin Windows
               PROVE  \E b \in Actors : pc'[b] = "full" /\ job'[b].to = s
    BY DEF Owed
  <2>2. CASE s = job[a].to
    BY <2>1, <2>2
  <2>3. CASE s # job[a].to
    <3>1. remote'[s] = remote[s]
      BY <1>0, <2>1, <2>3
    <3> QED
      BY <2>1, <3>1 DEF Owed
  <2> QED
    BY <2>2, <2>3
<1>11. ASSUME NEW a \in Sessions \cup {Stdin}, RepaintFull(a) PROVE Owed'
  BY <1>0, <1>2, <1>11, ActorsApart DEF RepaintFull, Goto, At
<1>12. CASE TypeNext
  <2>1. /\ pc[Stdin] # "full" /\ UNCHANGED remote
        /\ \A b \in Actors : b # Stdin => pc'[b] = pc[b] /\ job'[b] = job[b]
    BY <1>0, <1>12, ActorsApart DEF TypeNext, Typed, Goto, At
  <2> QED
    BY <1>3, <2>1, ActorsApart
<1>13. CASE SwitchNext
  BY <1>4, <1>5, <1>13, ActorsApart DEF SwitchNext, SwitchTo, At
<1>14. CASE TypeQuit \/ Cancel \/ \E w \in Windows : WindowChanges(w)
  BY <1>1, <1>14 DEF TypeQuit, Cancel, WindowChanges
<1>15. CASE StdinReturns \/ WinchTake \/ WinchSend \/ ResizerReturns \/ RunReturns
  BY <1>5, <1>15, ActorsApart DEF StdinReturns, WinchTake, WinchSend, ResizerReturns, RunReturns, At
<1>16. CASE WinchGetSize
  <2>1. /\ pc[Winch] # "full" /\ UNCHANGED remote
        /\ \A b \in Actors : b # Winch => pc'[b] = pc[b] /\ job'[b] = job[b]
    BY <1>0, <1>16, ActorsApart DEF WinchGetSize, Goto, At
  <2> QED
    BY <1>3, <2>1, ActorsApart
<1>17. CASE ResizeRecord
  <2>1. /\ pc[Resizer] # "full" /\ UNCHANGED remote
        /\ \A b \in Actors : b # Resizer => pc'[b] = pc[b] /\ job'[b] = job[b]
    BY <1>0, <1>17, ActorsApart DEF ResizeRecord, Goto, At
  <2> QED
    BY <1>3, <2>1, ActorsApart
<1>18. CASE ResizeSend
  BY <1>0, <1>2, <1>18, ActorsApart DEF ResizeSend, Goto, At
<1>19. CASE UNCHANGED vars
  BY <1>1, <1>19 DEF vars
<1> QED
  BY <1>6, <1>7, <1>8, <1>9, <1>10, <1>11, <1>12, <1>13, <1>14, <1>15, <1>16, <1>17, <1>18, <1>19
  DEF Next

\* The invariant of the multiplexer, for any number of machines and any terminal sizes.
LEMMA MuxInvariant == Spec => []MuxInv
<1>1. Init => MuxInv
  <2> SUFFICES ASSUME Init PROVE MuxInv
    OBVIOUS
  <2>1. 0 \in Sessions
    BY MuxAssumption DEF Sessions
  <2>2. TypeOK
    BY <2>1, MuxAssumption, ActorsApart DEF Init, TypeOK, Rows
  <2>3. Owed /\ FocusNotStranded /\ OnlyFocusOnScreen
    BY DEF Init, Owed, FocusNotStranded, OnlyFocusOnScreen
  <2> QED
    BY <2>2, <2>3 DEF MuxInv
<1>2. MuxInv /\ [Next]_vars => MuxInv'
  BY MuxTypeStep, FocusStep, OwedStep DEF MuxInv
<1> QED
  BY <1>1, <1>2, PTL DEF Spec

\* mux.go, onSessionEnd and switchTo: for any number of machines, whatever sessions end while a
\* switch is under way, the focus is on a dead session only when all are dead.
THEOREM FocusFollowsLife == Spec => []FocusNotStranded
<1>1. MuxInv => FocusNotStranded
  BY DEF MuxInv
<1> QED
  BY <1>1, MuxInvariant, PTL

\* mux.go, readSession and afterFocusChange: for any number of machines and terminal sizes, only
\* the focused machine has written to the screen since it was cleared, and when everything has
\* come to rest that machine is not left at the shorter size of a repaint.
THEOREM ScreenFollowsFocus == Spec => []ScreenIsFocus
<1>1. MuxInv => ScreenIsFocus
  <2> SUFFICES ASSUME MuxInv, Settled PROVE remote[focus] \in Windows
    BY DEF MuxInv, ScreenIsFocus, RepaintCompletes
  <2>1. \A a \in Actors : pc[a] # "full"
    BY DEF Settled
  <2> QED
    BY <2>1 DEF MuxInv, Owed, TypeOK
<1> QED
  BY <1>1, MuxInvariant, PTL
==============================================================================
