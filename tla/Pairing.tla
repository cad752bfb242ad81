-------------------------------- MODULE Pairing --------------------------------
(***************************************************************************)
(* Pairing a machine with an owner: go/internal/pairing/pairing.go between *)
(* the two commands of go/internal/cli/pair.go.                            *)
(*                                                                         *)
(* The machine prints a code and waits in the relay's room for it; a       *)
(* client that was given the code joins.  Three messages: the claim of an  *)
(* owner, the machine's keys, and, after the person at the client has      *)
(* compared the safety number, the owner's proof.  The machine pins the    *)
(* owner when its operator has compared the number too.                    *)
(*                                                                         *)
(* Two ends see the same number exactly when they are the ends of one      *)
(* handshake, so a number is the link it was made on.  Somebody else who   *)
(* has read the code may sit in the room (Other): it can take part in      *)
(* handshakes but prove only its own identity.  Sockets may be lost at any *)
(* moment; time is counted in minutes.                                     *)
(***************************************************************************)
EXTENDS Integers, Sequences, FiniteSets

CONSTANTS
    Clients,       \* the owner's devices, each with an identity of its own
    Machine,       \* the machine to be paired
    Other,         \* another party that has read the code
    None,
    MaxCodes,      \* codes the machine prints
    MaxLinks,      \* links the relay makes
    MaxTries,      \* times a client is given a code
    RoomWait,      \* minutes the relay lets a party wait alone
    CodeWindow,    \* minutes a code is announced to last
    ClientWindow   \* minutes a client waits

ASSUME PairingAssumption ==
    /\ Machine \notin Clients /\ Other \notin Clients /\ Machine # Other
    /\ None \notin Clients \cup {Machine, Other}
    /\ \A p \in Clients \cup {Machine, Other}, l \in 1..MaxLinks : None # [owner |-> p, link |-> l]
    /\ MaxCodes \in Nat /\ MaxLinks \in Nat
    /\ RoomWait \in Nat \ {0} /\ CodeWindow \in Nat /\ ClientWindow \in Nat
    /\ RoomWait <= ClientWindow /\ ClientWindow <= CodeWindow

Parties == Clients \cup {Machine, Other}

VARIABLES
    at,       \* where each party is
    code,     \* the code each party uses: the number of the machine's attempt
    on,       \* the link each party is on, 0 for none
    age,      \* minutes since each party dialled
    codes,    \* codes printed so far
    room,     \* for each code, the party waiting for it, or None
    links,    \* links made: [ends, claim, info, proof, up]
    tries,    \* codes each client has used
    stored,   \* machines stored: [client, link]
    pins,     \* owners pinned: [owner, link]
    gate      \* how each person confirms: "compare" or "vouch" (--yes)

pairingVars == <<at, code, on, age, codes, room, links, tries, stored, pins, gate>>

PairingInit ==
    /\ at = [p \in Parties |-> "away"]
    /\ code = [p \in Parties |-> 0]
    /\ on = [p \in Parties |-> 0]
    /\ age = [p \in Parties |-> 0]
    /\ codes = 0
    /\ room = [c \in 1..MaxCodes |-> None]
    /\ links = <<>>
    /\ tries = [c \in Clients |-> 0]
    /\ stored = {}
    /\ pins = {}
    /\ gate \in [Clients \cup {Machine} -> {"compare", "vouch"}]

Goto(p, l) == at' = [at EXCEPT ![p] = l]
Link(p) == links[on[p]]
Peer(p) == CHOOSE q \in Link(p).ends \ {p} : TRUE

-----------------------------------------------------------------------------
(* The room: the first to come waits, the second is linked with it.        *)

Joins(p, c) ==
    /\ code' = [code EXCEPT ![p] = c]
    /\ age' = [age EXCEPT ![p] = 0]
    /\ IF room[c] = None
       THEN /\ room' = [room EXCEPT ![c] = p]
            /\ Goto(p, "waiting")
            /\ UNCHANGED <<links, on>>
       ELSE /\ Len(links) < MaxLinks
            /\ room' = [room EXCEPT ![c] = None]
            /\ links' = Append(links, [ends |-> {p, room[c]}, claim |-> None, info |-> None,
                                       proof |-> None, up |-> TRUE])
            /\ on' = [on EXCEPT ![p] = Len(links) + 1, ![room[c]] = Len(links) + 1]
            /\ at' = [at EXCEPT ![p] = "linked", ![room[c]] = "linked"]

\* pairRespond: a fresh token for every attempt; a refusal ends the command.
PrintsCode ==
    /\ at[Machine] \in {"away", "nobody", "failed"}
    /\ codes < MaxCodes
    /\ codes' = codes + 1
    /\ Joins(Machine, codes + 1)
    /\ UNCHANGED <<tries, stored, pins, gate>>

\* pairInitiate, with a code that may be an old one.
GetsCode(c) ==
    /\ at[c] \in {"away", "nobody", "failed", "refused", "paired"}
    /\ tries[c] < MaxTries
    /\ tries' = [tries EXCEPT ![c] = @ + 1]
    /\ \E k \in 1..codes : Joins(c, k)
    /\ UNCHANGED <<codes, stored, pins, gate>>

OtherJoins ==
    /\ at[Other] = "away"
    /\ \E k \in 1..codes : Joins(Other, k)
    /\ UNCHANGED <<codes, tries, stored, pins, gate>>

-----------------------------------------------------------------------------
(* The three messages.                                                     *)

Write(l, field, value) == links' = [links EXCEPT ![l] = [@ EXCEPT ![field] = value]]

\* StartInitiator: the claim goes out.
SendsClaim(c) ==
    /\ at[c] = "linked"
    /\ Link(c).up
    /\ Machine \in Link(c).ends \/ Other \in Link(c).ends
    /\ Write(on[c], "claim", c)
    /\ Goto(c, "claimed")
    /\ UNCHANGED <<code, on, age, codes, room, tries, stored, pins, gate>>

\* StartResponder: the claim is read and answered; the number is shown.
SendsInfo ==
    /\ at[Machine] = "linked"
    /\ Link(Machine).claim # None /\ Link(Machine).up
    /\ Write(on[Machine], "info", Machine)
    /\ Goto(Machine, "shown")
    /\ UNCHANGED <<code, on, age, codes, room, tries, stored, pins, gate>>

\* StartInitiator: the machine's keys arrive; the number is shown.
GetsInfo(c) ==
    /\ at[c] = "claimed"
    /\ Link(c).info # None
    /\ Goto(c, "shown")
    /\ UNCHANGED <<code, on, age, codes, room, links, tries, stored, pins, gate>>

\* sasGate.confirm: the person compares the two numbers, or vouches.
Agrees(c) ==
    \/ gate[c] = "vouch"
    \/ at[Machine] \in {"shown", "proved"} /\ on[c] = on[Machine]

\* Then Finish sends the proof over this link, which may be lost, and AddMachine
\* stores the machine, which may fail.
Confirms(c) ==
    /\ at[c] = "shown"
    /\ Agrees(c)
    /\ \/ Link(c).up /\ Write(on[c], "proof", [owner |-> c, link |-> on[c]])
       \/ ~Link(c).up /\ UNCHANGED links
    /\ \/ stored' = stored \cup {[client |-> c, link |-> on[c]]} /\ Goto(c, "paired")
       \/ UNCHANGED stored /\ Goto(c, "failed")
    /\ UNCHANGED <<code, on, age, codes, room, tries, pins, gate>>

\* The numbers differ, or the person says no.
Refuses(c) ==
    /\ at[c] = "shown"
    /\ Goto(c, "refused")
    /\ UNCHANGED <<code, on, age, codes, room, links, tries, stored, pins, gate>>

\* Mutant: the signature is not checked against the claim.
ProvedAnyone ==
    /\ at[Machine] = "shown"
    /\ Link(Machine).proof # None
    /\ Goto(Machine, "proved")
    /\ UNCHANGED <<code, on, age, codes, room, links, tries, stored, pins, gate>>

\* StartedResponder.Finish: the proof is the claimed owner's, over this handshake.
Proved ==
    /\ at[Machine] = "shown"
    /\ Link(Machine).proof = [owner |-> Link(Machine).claim, link |-> on[Machine]]
    /\ Goto(Machine, "proved")
    /\ UNCHANGED <<code, on, age, codes, room, links, tries, stored, pins, gate>>

\* A proof that does not verify.
NotProved ==
    /\ at[Machine] = "shown"
    /\ Link(Machine).proof # None
    /\ Link(Machine).proof # [owner |-> Link(Machine).claim, link |-> on[Machine]]
    /\ Goto(Machine, "failed")
    /\ UNCHANGED <<code, on, age, codes, room, links, tries, stored, pins, gate>>

\* sasGate.confirm: the operator compares with the client in hand, or vouches.
OperatorAgrees ==
    \/ gate[Machine] = "vouch"
    \/ \E c \in Clients : on[c] = on[Machine] /\ at[c] \in {"shown", "paired", "failed"}

\* Mutant: the owner is pinned on the proof alone.
PinsUnasked ==
    /\ at[Machine] = "proved"
    /\ pins' = pins \cup {[owner |-> Link(Machine).claim, link |-> on[Machine]]}
    /\ Goto(Machine, "paired")
    /\ UNCHANGED <<code, on, age, codes, room, links, tries, stored, gate>>

\* ProvisionOwner, once the operator has agreed; the file may not be written.
Pins ==
    /\ at[Machine] = "proved"
    /\ OperatorAgrees
    /\ \/ /\ pins' = pins \cup {[owner |-> Link(Machine).claim, link |-> on[Machine]]}
          /\ Goto(Machine, "paired")
       \/ UNCHANGED pins /\ Goto(Machine, "failed")
    /\ UNCHANGED <<code, on, age, codes, room, links, tries, stored, gate>>

OperatorRefuses ==
    /\ at[Machine] = "proved"
    /\ gate[Machine] = "compare"
    /\ Goto(Machine, "refused")
    /\ UNCHANGED <<code, on, age, codes, room, links, tries, stored, pins, gate>>

-----------------------------------------------------------------------------
(* Another party with the code.                                            *)

OtherClaims ==
    /\ at[Other] = "linked"
    /\ Machine \in Link(Other).ends
    /\ \E owner \in Clients \cup {Other} : Write(on[Other], "claim", owner)
    /\ Goto(Other, "claimed")
    /\ UNCHANGED <<code, on, age, codes, room, tries, stored, pins, gate>>

OtherAnswers ==
    /\ at[Other] = "linked"
    /\ Link(Other).claim # None
    /\ Write(on[Other], "info", Other)
    /\ Goto(Other, "away")
    /\ UNCHANGED <<code, on, age, codes, room, tries, stored, pins, gate>>

OtherProves ==
    /\ at[Other] = "claimed"
    /\ Link(Other).info # None
    /\ \E l \in DOMAIN links :
          Write(on[Other], "proof", IF links[l].proof # None THEN links[l].proof
                                    ELSE [owner |-> Other, link |-> on[Other]])
    /\ Goto(Other, "paired")
    /\ UNCHANGED <<code, on, age, codes, room, tries, stored, pins, gate>>

-----------------------------------------------------------------------------
(* What goes wrong.                                                        *)

Linked == {"linked", "claimed", "shown"}

\* The relay, a network or a peer drops the link.
LinkLost ==
    /\ \E l \in DOMAIN links :
          /\ links[l].up
          /\ \E p \in links[l].ends : on[p] = l /\ at[p] \in Linked
          /\ links' = [links EXCEPT ![l].up = FALSE]
    /\ UNCHANGED <<at, code, on, age, codes, room, tries, stored, pins, gate>>

\* A party on a lost link, or linked with one that speaks the same half, fails.
Fails(p) ==
    /\ at[p] \in Linked
    /\ \/ ~Link(p).up
       \/ p \in Clients /\ Peer(p) \in Clients
    /\ Goto(p, "failed")
    /\ UNCHANGED <<code, on, age, codes, room, links, tries, stored, pins, gate>>

\* rendezvous: nobody came while the relay waited.
RoomTimeout(p) ==
    /\ at[p] = "waiting"
    /\ age[p] = RoomWait
    /\ room' = [room EXCEPT ![code[p]] = None]
    /\ Goto(p, IF p = Other THEN "away" ELSE "nobody")
    /\ UNCHANGED <<code, on, age, codes, links, tries, stored, pins, gate>>

Window(p) == IF p = Machine THEN CodeWindow ELSE ClientWindow

\* Where a command waits for a message and its own deadline applies; the room's
\* comes first while it is alone.
Receiving(p) == at[p] \in {"linked", "claimed"} \/ (p = Machine /\ at[p] = "shown")

\* The command gives up and leaves its socket.
WindowOver(p) ==
    /\ p # Other
    /\ Receiving(p)
    /\ age[p] = Window(p)
    /\ Goto(p, "failed")
    /\ links' = [links EXCEPT ![on[p]].up = FALSE]
    /\ UNCHANGED <<code, on, age, codes, room, tries, stored, pins, gate>>

\* A minute passes; a deadline that is reached is acted on first.
Minute ==
    /\ \A p \in Parties :
          /\ at[p] = "waiting" => age[p] < RoomWait
          /\ p # Other /\ Receiving(p) => age[p] < Window(p)
    /\ LET Timed == {p \in Parties : at[p] = "waiting" \/ (p # Other /\ Receiving(p))} IN
       /\ Timed # {}
       /\ age' = [p \in Parties |-> IF p \in Timed THEN age[p] + 1 ELSE age[p]]
    /\ UNCHANGED <<at, code, on, codes, room, links, tries, stored, pins, gate>>

PairingNext ==
    \/ PrintsCode \/ SendsInfo \/ Proved \/ NotProved \/ Pins \/ OperatorRefuses
    \/ \E c \in Clients : GetsCode(c) \/ SendsClaim(c) \/ GetsInfo(c) \/ Confirms(c) \/ Refuses(c)
    \/ OtherJoins \/ OtherClaims \/ OtherAnswers \/ OtherProves
    \/ LinkLost \/ Minute
    \/ \E p \in Parties : Fails(p) \/ RoomTimeout(p) \/ WindowOver(p)

PairingSpec == PairingInit /\ [][PairingNext]_pairingVars

-----------------------------------------------------------------------------
(* Properties.                                                             *)

\* pairInitiate and pairRespond: an owner is pinned only if it proved itself over
\* the very handshake; where the operator compares the numbers, the owner is a
\* device in hand and nobody stood between.  Where the person at a client compares
\* them, the machine it stores is the one that printed the code.
PinnedMeant ==
    /\ \A pin \in pins :
          LET l == links[pin.link] IN
          /\ l.proof = [owner |-> pin.owner, link |-> pin.link]
          /\ gate[Machine] = "compare" => l.ends = {Machine, pin.owner} /\ pin.owner \in Clients
    /\ \A m \in stored : gate[m.client] = "compare" => links[m.link].info = Machine

\* pairRespond announces that the code lasts five minutes: nobody having come, the
\* machine has waited for its whole window.
CodeLasts == at[Machine] = "nobody" => age[Machine] >= CodeWindow
=============================================================================
