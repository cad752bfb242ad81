--------------------------------- MODULE Share ---------------------------------
(***************************************************************************)
(* Sharing a machine with a guest, from both ends: shareResolved,          *)
(* cmdShareRevoke and cmdJoin of go/internal/cli/share.go, with the        *)
(* records of go/internal/client/shares.go and the control messages of     *)
(* go/internal/client/grantctl.go.                                         *)
(*                                                                         *)
(* A share is its grant id.  The owner's directory names the machines; a   *)
(* machine may be renamed, from this device or another, and two may carry  *)
(* one name.  The machine answers a control message by installing or       *)
(* tombstoning the grant; a message or its answer may be lost, and every   *)
(* write to a disk may fail.  What the machine does to a guest's sessions  *)
(* is GuestGrants.                                                         *)
(***************************************************************************)
EXTENDS Directory

CONSTANTS
    Gids,        \* shares, each with one guest
    Names,       \* names a machine may carry
    Dir0,        \* the owner's directory at first
    NoMachine,
    MaxRenames   \* bound on renames

ASSUME ShareAssumption ==
    /\ \A i \in DOMAIN Dir0 : Dir0[i].name \in Names
    /\ \A i, j \in DOMAIN Dir0 : Dir0[i].id = Dir0[j].id => i = j
    /\ NoMachine \notin {Dir0[i].id : i \in DOMAIN Dir0}

Machines == {Dir0[i].id : i \in DOMAIN Dir0}

VARIABLES
    dir,        \* the owner's directory
    renames,
    opc,        \* share -> where the owner's command is
    target,     \* share -> id of the machine it was resolved to
    inbox,      \* share -> its add-grant: "none", "sent", "acked"
    shares,     \* share -> its record: "none", "live", "revoked"
    kept,       \* share -> machine name in its record
    installed,  \* grants in force, with the machine: [gid, at]
    known,      \* grants ever installed, with the machine (history)
    closed,     \* shares whose window is over
    gpc,        \* share -> where its guest is
    grants,     \* grants stored by guests
    entries,    \* machines of others in the guest's directory: [id, name]
    sweep,      \* the guest's sweep: empty, or the grants it found <<live, over>>
    crossed,    \* joins that stored while a sweep ran (history)
    rpc,        \* share -> where its revocation is
    asked       \* share -> machine the revocation was sent to

owner == <<dir, renames, opc, target, inbox, shares, kept>>
agent == <<installed, known, closed>>
joins == <<gpc, grants, entries, sweep, crossed>>
revoke == <<rpc, asked>>
shareVars == <<owner, agent, joins, revoke>>

ShareInit ==
    /\ dir = Dir0 /\ renames = 0
    /\ opc = [g \in Gids |-> "idle"]
    /\ target = [g \in Gids |-> NoMachine]
    /\ inbox = [g \in Gids |-> "none"]
    /\ shares = [g \in Gids |-> "none"]
    /\ kept = [g \in Gids |-> "none"]
    /\ installed = {} /\ known = {} /\ closed = {}
    /\ gpc = [g \in Gids |-> "away"]
    /\ grants = {} /\ entries = {} /\ sweep = <<>> /\ crossed = {}
    /\ rpc = [g \in Gids |-> "idle"]
    /\ asked = [g \in Gids |-> NoMachine]

Owner(g, l) == opc' = [opc EXCEPT ![g] = l]
Guest(g, l) == gpc' = [gpc EXCEPT ![g] = l]
Revoking(g, l) == rpc' = [rpc EXCEPT ![g] = l]

\* The machine carries another name, told to this directory.
Rename ==
    /\ renames < MaxRenames
    /\ renames' = renames + 1
    /\ \E i \in DOMAIN dir : \E n \in Names \ {dir[i].name} :
          dir' = RenameLocalMachine(dir, dir[i], n, renames + 1)
    /\ UNCHANGED <<opc, target, inbox, shares, kept, agent, joins, revoke>>

\* The window of a grant that was minted closes.
WindowCloses(g) ==
    /\ inbox[g] # "none"
    /\ closed' = closed \cup {g}
    /\ installed' = {i \in installed : i.gid # g}
    /\ UNCHANGED <<owner, known, joins, revoke>>

-----------------------------------------------------------------------------
(* The owner: shareResolved.                                               *)

\* The machine is resolved by name and the invite printed.
Invite(g) ==
    /\ opc[g] = "idle"
    /\ \E n \in Names : \E m \in ResolveMachine(dir, <<>>, n) :
          /\ target' = [target EXCEPT ![g] = m.id]
          /\ kept' = [kept EXCEPT ![g] = n]
    /\ Owner(g, "room")
    /\ UNCHANGED <<dir, renames, inbox, shares, agent, joins, revoke>>

\* Nobody comes, the guest goes, its proof or its binding does not verify, or the
\* owner answers no.
Declined(g) ==
    /\ opc[g] \in {"room", "asked"}
    /\ Owner(g, "nothing")
    /\ UNCHANGED <<dir, renames, target, inbox, shares, kept, agent, joins, revoke>>

\* The owner answers yes: the grant is minted, and sent to the machine when it
\* can be reached.
Agreed(g) ==
    /\ opc[g] = "asked"
    /\ \/ Owner(g, "delivering") /\ inbox' = [inbox EXCEPT ![g] = "sent"]
       \/ Owner(g, "nothing") /\ UNCHANGED inbox
    /\ UNCHANGED <<dir, renames, target, shares, kept, agent, joins, revoke>>

\* grantHandler: a grant that is not over is stored and acknowledged; it may
\* arrive after the owner stopped waiting.
MachineAdds(g) ==
    /\ inbox[g] = "sent"
    /\ g \notin closed
    /\ inbox' = [inbox EXCEPT ![g] = "acked"]
    /\ installed' = installed \cup {[gid |-> g, at |-> target[g]]}
    /\ known' = known \cup {[gid |-> g, at |-> target[g]]}
    /\ UNCHANGED <<dir, renames, opc, target, shares, kept, closed, joins, revoke>>

\* Mutant: an unconfirmed grant is taken for installed, as a rename would be.
AcknowledgedOrNot(g) ==
    /\ opc[g] = "delivering"
    /\ \/ shares' = [shares EXCEPT ![g] = "live"]
       \/ UNCHANGED shares
    /\ Owner(g, "telling")
    /\ UNCHANGED <<dir, renames, target, inbox, kept, agent, joins, revoke>>

\* GrantOverSession sees the ack; SaveOwnerShare, whose failure only warns.
Acknowledged(g) ==
    /\ opc[g] = "delivering"
    /\ inbox[g] = "acked"
    /\ \/ shares' = [shares EXCEPT ![g] = "live"]
       \/ UNCHANGED shares
    /\ Owner(g, "telling")
    /\ UNCHANGED <<dir, renames, target, inbox, kept, agent, joins, revoke>>

\* The message, its answer or the session is lost, or the write failed: no ack in
\* eight seconds.
Unconfirmed(g) ==
    /\ opc[g] = "delivering"
    /\ Owner(g, "unconfirmed")
    /\ UNCHANGED <<dir, renames, target, inbox, shares, kept, agent, joins, revoke>>

\* The record goes to the guest, who may be gone without the owner seeing it.
Tells(g) ==
    /\ opc[g] = "telling"
    /\ \/ Owner(g, "shared") /\ gpc[g] = "waiting" /\ Guest(g, "told")
       \/ Owner(g, "shared") /\ gpc[g] # "waiting" /\ UNCHANGED gpc
       \/ Owner(g, "guest_gone") /\ UNCHANGED gpc
    /\ UNCHANGED <<dir, renames, target, inbox, shares, kept, agent, grants, entries, sweep, crossed, revoke>>

-----------------------------------------------------------------------------
(* The guest: cmdJoin and SweepGuestState.                                 *)

\* The guest joins, proves its key and presents its binding; the owner is asked.
Join(g) ==
    /\ gpc[g] = "away"
    /\ opc[g] = "room"
    /\ Guest(g, "waiting")
    /\ Owner(g, "asked")
    /\ UNCHANGED <<dir, renames, target, inbox, shares, kept, agent, grants, entries, sweep, crossed, revoke>>

\* The command ends early: interrupted, declined, or the window is over.
Leaves(g) ==
    /\ gpc[g] = "waiting"
    /\ Guest(g, "left")
    /\ UNCHANGED <<owner, agent, grants, entries, sweep, crossed, revoke>>

\* AddMachine, by name; its failure ends the command.
StoresMachine(g) ==
    /\ gpc[g] = "told"
    /\ \/ /\ Guest(g, "storing")
          /\ entries' = {e \in entries : e.name # kept[g]} \cup {[id |-> target[g], name |-> kept[g]]}
       \/ Guest(g, "left") /\ UNCHANGED entries
    /\ crossed' = IF sweep = <<>> THEN crossed ELSE crossed \cup {g}
    /\ UNCHANGED <<owner, agent, grants, sweep, revoke>>

\* SaveGuestGrant.
StoresGrant(g) ==
    /\ gpc[g] = "storing"
    /\ \/ Guest(g, "joined") /\ grants' = grants \cup {g}
       \/ Guest(g, "left") /\ UNCHANGED grants
    /\ UNCHANGED <<owner, agent, entries, sweep, crossed, revoke>>

\* SweepGuestState, run by a listing in another terminal: the grants are read and
\* those that are over removed ...
SweepReads ==
    /\ sweep = <<>>
    /\ sweep' = <<grants \ closed, grants \cap closed>>
    /\ grants' = grants \ closed
    /\ crossed' = crossed \cup {g \in Gids : gpc[g] = "storing"}
    /\ UNCHANGED <<owner, agent, gpc, entries, revoke>>

\* Mutant: with every grant that is over its machine goes.
SweepRemovesOver ==
    /\ sweep # <<>>
    /\ entries' = {e \in entries : ~\E g \in sweep[2] : target[g] = e.id}
    /\ sweep' = <<>>
    /\ UNCHANGED <<owner, agent, gpc, grants, crossed, revoke>>

\* ... then the guest entries without a live one.
SweepRemoves ==
    /\ sweep # <<>>
    /\ entries' = {e \in entries : \E g \in sweep[1] : target[g] = e.id}
    /\ sweep' = <<>>
    /\ UNCHANGED <<owner, agent, gpc, grants, crossed, revoke>>

-----------------------------------------------------------------------------
(* cmdShareRevoke.                                                         *)

\* The machine is resolved by the name it had when it was shared, and told.
RevokeSends(g) ==
    /\ rpc[g] = "idle"
    /\ shares[g] = "live"
    /\ \E m \in ResolveMachine(dir, <<>>, kept[g]) : asked' = [asked EXCEPT ![g] = m.id]
    /\ Revoking(g, "sent")
    /\ UNCHANGED <<owner, agent, joins>>

\* revokeGrantHandler: a grant the machine holds is tombstoned, and a machine
\* that holds none acknowledges all the same.
MachineRevokes(g) ==
    /\ rpc[g] = "sent"
    /\ installed' = installed \ {[gid |-> g, at |-> asked[g]]}
    /\ Revoking(g, "acked")
    /\ UNCHANGED <<owner, known, closed, joins, asked>>

\* No ack: unreachable, lost, or the tombstone was not written.
RevokeUnconfirmed(g) ==
    /\ rpc[g] \in {"sent", "acked"}
    /\ Revoking(g, "idle")
    /\ UNCHANGED <<owner, agent, joins, asked>>

\* Mutant: the record is marked before the machine has answered.
MarksUnanswered(g) ==
    /\ rpc[g] \in {"sent", "acked"}
    /\ \/ shares' = [shares EXCEPT ![g] = "revoked"]
       \/ UNCHANGED shares
    /\ Revoking(g, "idle")
    /\ UNCHANGED <<dir, renames, opc, target, inbox, kept, agent, joins, asked>>

\* MarkShareRevoked, whose failure only warns.
MarksRevoked(g) ==
    /\ rpc[g] = "acked"
    /\ \/ shares' = [shares EXCEPT ![g] = "revoked"]
       \/ UNCHANGED shares
    /\ Revoking(g, "idle")
    /\ UNCHANGED <<dir, renames, opc, target, inbox, kept, agent, joins, asked>>

-----------------------------------------------------------------------------

ShareNext ==
    \/ Rename \/ SweepReads \/ SweepRemoves
    \/ \E g \in Gids :
          \/ WindowCloses(g)
          \/ Invite(g) \/ Declined(g) \/ Agreed(g) \/ MachineAdds(g) \/ Acknowledged(g)
          \/ Unconfirmed(g) \/ Tells(g)
          \/ Join(g) \/ Leaves(g) \/ StoresMachine(g) \/ StoresGrant(g)
          \/ RevokeSends(g) \/ MachineRevokes(g) \/ RevokeUnconfirmed(g) \/ MarksRevoked(g)

ShareSpec == ShareInit /\ [][ShareNext]_shareVars

-----------------------------------------------------------------------------
(* Properties.                                                             *)

InForce(g) == \E i \in installed : i.gid = g
Held == {g \in Gids : gpc[g] \in {"told", "storing", "joined"}} \cup grants

\* shareResolved: a guest never holds a grant its machine has not installed, and a
\* share that was declined or could not be delivered is in force nowhere.
AgentLearnsFirst ==
    /\ \A g \in Held : [gid |-> g, at |-> target[g]] \in known
    /\ \A g \in Gids : InForce(g) => opc[g] \notin {"idle", "room", "asked", "nothing"}

\* cmdShareRevoke: a record is marked revoked only when the machine that was asked
\* no longer honours the grant; the grant survives only at another machine, which
\* lost the name to the one that was asked.
RevokedWhereAsked ==
    \A g \in Gids : (shares[g] = "revoked" /\ InForce(g)) => asked[g] # target[g]

\* SweepGuestState leaves live shares alone: a machine the guest has joined and may
\* still use is in its directory, unless a machine shared under the same name took its place
\* or a sweep ran between the two writes of join.
JoinedIsListed ==
    \A g \in Gids :
        (gpc[g] = "joined" /\ g \notin closed \cup crossed)
            => \/ \E e \in entries : e.id = target[g]
               \/ \E h \in Gids : kept[h] = kept[g] /\ target[h] # target[g]

\* shareResolved, cmdShareRevoke and SweepGuestState: the machine learns of a grant
\* before its guest, a share is marked revoked only after the machine that was
\* asked has ended it, and a guest that joined finds the machine in its list.
SharesSound == AgentLearnsFirst /\ RevokedWhereAsked /\ JoinedIsListed

\* cmdShareRevoke tells the owner that the share is revoked and its guests dropped:
\* a record marked revoked is of a grant no machine honours.
RevokedIsEnded == \A g \in Gids : shares[g] = "revoked" => ~InForce(g)

\* GrantOverSession: "an unconfirmed grant must NOT stand".
NothingShared == \A g \in Gids : opc[g] = "unconfirmed" => ~InForce(g)
=============================================================================
