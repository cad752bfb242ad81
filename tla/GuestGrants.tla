------------------------------ MODULE GuestGrants ------------------------------
(***************************************************************************)
(* Guest access at the agent: go/internal/agent/guest.go, grants.go and    *)
(* grantstore.go, with the guest path of authorizeOffer and the grant      *)
(* window of go/internal/identity/grant.go.                                *)
(*                                                                         *)
(* Attaches and revokes run in goroutines of their own and share the grant *)
(* directory without a lock; only the registry of live guests has one.     *)
(* One guest key holds every grant.  A grant is its id: its owner and its  *)
(* window are fixed when it is minted.                                     *)
(***************************************************************************)
EXTENDS Integers, FiniteSets

CONSTANTS
    Gids,
    Owners,
    OwnerOf,     \* gid -> the owner who signed the grant
    NB, NA,      \* gid -> first and last second of its window
    Skew,        \* GrantSkew
    Attaches,    \* guest offers
    Revokers,    \* revoke-grant handlers
    ReAdd,       \* whether an owner may send a grant again that was installed before
    NoGid,
    Torn,        \* content of revoked.json that does not parse
    MaxTime,     \* bound on the clock
    MaxRestarts  \* bound on restarts of the agent

ASSUME GuestAssumption ==
    /\ OwnerOf \in [Gids -> Owners]
    /\ NB \in [Gids -> Nat] /\ NA \in [Gids -> Nat]
    /\ \A g \in Gids : NB[g] < NA[g]
    /\ Skew \in Nat
    /\ ReAdd \in BOOLEAN
    /\ NoGid \notin Gids
    /\ \A s \in SUBSET Gids : s # Torn
    /\ MaxTime \in Nat
    /\ MaxRestarts \in Nat

VARIABLES
    now,
    files,      \* gids with a grant file
    tombs,      \* content of revoked.json
    added,      \* gids installed at least once
    pc, gid,    \* attach -> control state and grant it is served under
    cand,       \* attach -> grants it found listed, valid and not tombstoned
    live,       \* attaches in the guest registry
    cancelled,  \* attaches whose context a revoke has cancelled
    rpc,        \* revoker -> control state
    who, rgid,  \* revoker -> owner of its session and gid it revokes
    snap,       \* revoker -> tombstones it is about to write
    restarts,
    acked,      \* gids whose revocation was acknowledged (history)
    before      \* attach -> acked when its offer came and when it registered (history)

disk == <<files, tombs, added>>
guest == <<pc, gid, cand, live>>
revoke == <<rpc, who, rgid, snap>>
vars == <<now, disk, guest, cancelled, revoke, restarts, acked, before>>

Serving == {"serving", "leaving"}

TypeOK ==
    /\ now \in 0..MaxTime
    /\ files \subseteq Gids /\ added \subseteq Gids /\ acked \subseteq Gids
    /\ tombs = Torn \/ tombs \subseteq Gids
    /\ pc \in [Attaches -> {"idle", "reading", "handshake", "ended"} \cup Serving]
    /\ gid \in [Attaches -> Gids \cup {NoGid}]
    /\ \A a \in Attaches : pc[a] \in {"handshake"} \cup Serving => gid[a] \in Gids
    /\ cand \in [Attaches -> SUBSET Gids]
    /\ live \subseteq Attaches /\ cancelled \subseteq Attaches
    /\ rpc \in [Revokers -> {"idle", "load", "truncate", "write", "remove", "drop", "done"}]
    /\ who \in [Revokers -> Owners]
    /\ rgid \in [Revokers -> Gids]
    /\ snap \in [Revokers -> SUBSET Gids]
    /\ restarts \in 0..MaxRestarts
    /\ before \in [Attaches -> [offer : SUBSET Gids, registered : SUBSET Gids]]

Init ==
    /\ now = 0
    /\ files = {} /\ added = {} /\ tombs = {}
    /\ pc = [a \in Attaches |-> "idle"]
    /\ gid = [a \in Attaches |-> NoGid]
    /\ cand = [a \in Attaches |-> {}]
    /\ live = {} /\ cancelled = {}
    /\ rpc = [r \in Revokers |-> "idle"]
    /\ who \in [Revokers -> Owners]
    /\ rgid \in [Revokers -> Gids]
    /\ snap = [r \in Revokers |-> {}]
    /\ restarts = 0
    /\ acked = {}
    /\ before = [a \in Attaches |-> [offer |-> {}, registered |-> {}]]

Goto(a, l) == pc' = [pc EXCEPT ![a] = l]
RGoto(r, l) == rpc' = [rpc EXCEPT ![r] = l]

Tick ==
    /\ now < MaxTime
    /\ now' = now + 1
    /\ UNCHANGED <<disk, guest, cancelled, revoke, restarts, acked, before>>

-----------------------------------------------------------------------------
(* The grant directory.                                                    *)

\* add-grant from the session of the grant's owner, not dead on arrival.
AddGrant(g) ==
    /\ now <= NA[g]
    /\ ReAdd \/ g \notin added
    /\ files' = files \cup {g}
    /\ added' = added \cup {g}
    /\ UNCHANGED <<now, tombs, guest, cancelled, revoke, restarts, acked, before>>

\* loadTombstones: a file that does not parse is an empty set.
LoadTombstones == IF tombs = Torn THEN {} ELSE tombs

ValidAt(g) == NB[g] <= now /\ now <= NA[g]

-----------------------------------------------------------------------------
(* An attach by the guest.                                                 *)

\* findValidGuestGrant lists the directory and loads the tombstones; the clock
\* was read just before.
BeginAttach(a, o) ==
    /\ pc[a] = "idle"
    /\ cand' = [cand EXCEPT ![a] = {g \in files \ LoadTombstones : OwnerOf[g] = o /\ ValidAt(g)}]
    /\ before' = [before EXCEPT ![a].offer = acked]
    /\ Goto(a, "reading")
    /\ UNCHANGED <<now, disk, gid, live, cancelled, revoke, restarts, acked>>

\* A listed file can still be read: the offer is authorized under its grant.
Authorize(a) ==
    /\ pc[a] = "reading"
    /\ \E g \in cand[a] \cap files : gid' = [gid EXCEPT ![a] = g]
    /\ Goto(a, "handshake")
    /\ UNCHANGED <<now, disk, cand, live, cancelled, revoke, restarts, acked, before>>

NotAuthorized(a) ==
    /\ pc[a] = "reading"
    /\ cand[a] \cap files = {}
    /\ Goto(a, "ended")
    /\ UNCHANGED <<now, disk, gid, cand, live, cancelled, revoke, restarts, acked, before>>

\* No slot, no data channel in time, or the Noise handshake fails.
HandshakeFails(a) ==
    /\ pc[a] = "handshake"
    /\ Goto(a, "ended")
    /\ UNCHANGED <<now, disk, gid, cand, live, cancelled, revoke, restarts, acked, before>>

\* The handshake succeeds; serveGuest registers the session.
Register(a) ==
    /\ pc[a] = "handshake"
    /\ live' = live \cup {a}
    /\ before' = [before EXCEPT ![a].registered = acked]
    /\ Goto(a, "serving")
    /\ UNCHANGED <<now, disk, gid, cand, cancelled, revoke, restarts, acked>>

\* Mutant: the context carries no deadline.
ContextEndsNoDeadline(a) ==
    /\ pc[a] = "serving"
    /\ a \in cancelled
    /\ Goto(a, "leaving")
    /\ UNCHANGED <<now, disk, gid, cand, live, cancelled, revoke, restarts, acked, before>>

\* The frame loop sees that gctx is done: cancelled, or its deadline at na.
ContextEnds(a) ==
    /\ pc[a] = "serving"
    /\ a \in cancelled \/ now >= NA[gid[a]]
    /\ Goto(a, "leaving")
    /\ UNCHANGED <<now, disk, gid, cand, live, cancelled, revoke, restarts, acked, before>>

\* The guest goes away or the transport dies.
TransportEnds(a) ==
    /\ pc[a] = "serving"
    /\ Goto(a, "leaving")
    /\ UNCHANGED <<now, disk, gid, cand, live, cancelled, revoke, restarts, acked, before>>

Unregister(a) ==
    /\ pc[a] = "leaving"
    /\ live' = live \ {a}
    /\ Goto(a, "ended")
    /\ UNCHANGED <<now, disk, gid, cand, cancelled, revoke, restarts, acked, before>>

-----------------------------------------------------------------------------
(* revokeGrantHandler and TombstoneGrant.                                  *)

\* grantByID names a grant of this owner: it is tombstoned first.
RevokeOwn(r) ==
    /\ rpc[r] = "idle"
    /\ rgid[r] \in files
    /\ OwnerOf[rgid[r]] = who[r]
    /\ RGoto(r, "load")
    /\ UNCHANGED <<now, disk, guest, cancelled, who, rgid, snap, restarts, acked, before>>

\* Nothing of this owner by that gid: only the live sessions are dropped.
RevokeOther(r) ==
    /\ rpc[r] = "idle"
    /\ rgid[r] \notin files \/ OwnerOf[rgid[r]] # who[r]
    /\ cancelled' = cancelled \cup {a \in live : gid[a] = rgid[r]}
    /\ RGoto(r, "done")
    /\ UNCHANGED <<now, disk, guest, who, rgid, snap, restarts, acked, before>>

LoadForRevoke(r) ==
    /\ rpc[r] = "load"
    /\ snap' = [snap EXCEPT ![r] = LoadTombstones \cup {rgid[r]}]
    /\ RGoto(r, "truncate")
    /\ UNCHANGED <<now, disk, guest, cancelled, who, rgid, restarts, acked, before>>

\* os.WriteFile opens the file with O_TRUNC ...
Truncate(r) ==
    /\ rpc[r] = "truncate"
    /\ tombs' = Torn
    /\ RGoto(r, "write")
    /\ UNCHANGED <<now, files, added, guest, cancelled, who, rgid, snap, restarts, acked, before>>

\* ... and writes from the start: what another handler wrote beyond it stays.
Overwrite(r) ==
    IF tombs # Torn /\ Cardinality(tombs) > Cardinality(snap[r]) THEN Torn ELSE snap[r]

WriteTombs(r) ==
    /\ rpc[r] = "write"
    /\ tombs' = Overwrite(r)
    /\ RGoto(r, "remove")
    /\ UNCHANGED <<now, files, added, guest, cancelled, who, rgid, snap, restarts, acked, before>>

\* The write fails: no acknowledgement and no drop.
WriteFails(r) ==
    /\ rpc[r] \in {"truncate", "write"}
    /\ RGoto(r, "done")
    /\ UNCHANGED <<now, disk, guest, cancelled, who, rgid, snap, restarts, acked, before>>

\* Mutant: the tombstone alone must do.
RemoveFileForgotten(r) ==
    /\ rpc[r] = "remove"
    /\ RGoto(r, "drop")
    /\ UNCHANGED <<now, disk, guest, cancelled, who, rgid, snap, restarts, acked, before>>

RemoveFile(r) ==
    /\ rpc[r] = "remove"
    /\ files' = files \ {rgid[r]}
    /\ RGoto(r, "drop")
    /\ UNCHANGED <<now, tombs, added, guest, cancelled, who, rgid, snap, restarts, acked, before>>

\* Mutant: live sessions are left to run into their deadline.
DropNothing(r) ==
    /\ rpc[r] = "drop"
    /\ acked' = acked \cup {rgid[r]}
    /\ RGoto(r, "done")
    /\ UNCHANGED <<now, disk, guest, cancelled, who, rgid, snap, restarts, before>>

\* guests.drop cancels every registered session of the gid; then the ack.
Drop(r) ==
    /\ rpc[r] = "drop"
    /\ cancelled' = cancelled \cup {a \in live : gid[a] = rgid[r]}
    /\ acked' = acked \cup {rgid[r]}
    /\ RGoto(r, "done")
    /\ UNCHANGED <<now, disk, guest, who, rgid, snap, restarts, before>>

-----------------------------------------------------------------------------

\* The agent dies and starts again: sessions and handlers are gone, and
\* sweepExpiredGrants removes the files whose window is over.
Restart ==
    /\ restarts < MaxRestarts
    /\ restarts' = restarts + 1
    /\ pc' = [a \in Attaches |-> IF pc[a] = "idle" THEN "idle" ELSE "ended"]
    /\ rpc' = [r \in Revokers |-> IF rpc[r] = "idle" THEN "idle" ELSE "done"]
    /\ live' = {} /\ cancelled' = {}
    /\ files' = {g \in files : NA[g] >= now - Skew}
    /\ UNCHANGED <<now, tombs, added, gid, cand, who, rgid, snap, acked, before>>

Next ==
    \/ Tick
    \/ Restart
    \/ \E g \in Gids : AddGrant(g)
    \/ \E a \in Attaches :
          \/ \E o \in Owners : BeginAttach(a, o)
          \/ Authorize(a) \/ NotAuthorized(a) \/ HandshakeFails(a) \/ Register(a)
          \/ ContextEnds(a) \/ TransportEnds(a) \/ Unregister(a)
    \/ \E r \in Revokers :
          \/ RevokeOwn(r) \/ RevokeOther(r) \/ LoadForRevoke(r) \/ Truncate(r)
          \/ WriteTombs(r) \/ WriteFails(r) \/ RemoveFile(r) \/ Drop(r)

\* Time passes and the frame loop looks at its context.
Fairness ==
    /\ WF_vars(Tick)
    /\ \A a \in Attaches : WF_vars(ContextEnds(a)) /\ WF_vars(Unregister(a))

Spec == Init /\ [][Next]_vars
FairSpec == Spec /\ Fairness

-----------------------------------------------------------------------------

\* An offer that comes after the revocation of a grant was acknowledged is never
\* authorized under it, whatever other revokes, crashes and failed writes do to
\* revoked.json.
NoAttachAfterRevoke ==
    \A a \in Attaches : pc[a] \in {"handshake"} \cup Serving => gid[a] \notin before[a].offer

\* A guest that outlives the acknowledged revocation of its grant was in its
\* handshake when the live sessions were dropped: no registered one is missed.
EscapesOnlyInHandshake ==
    \A a \in Attaches :
        (pc[a] = "serving" /\ gid[a] \in acked) => a \in cancelled \/ gid[a] \in before[a].registered

\* Every guest session ends, at the latest when the window of its grant closes.
GuestEnds == \A a \in Attaches : pc[a] = "serving" ~> pc[a] = "ended"

\* Once a revocation is acknowledged, every guest served under the grant has
\* been told to stop.
RevokedNotServed ==
    \A a \in Attaches : (pc[a] = "serving" /\ gid[a] \in acked) => a \in cancelled

\* A guest session is cancelled only by the owner who granted it.
OnlyOwnGidsActionable ==
    [][\A a \in cancelled' \ cancelled :
          \E r \in Revokers : rpc'[r] # rpc[r] /\ who[r] = OwnerOf[gid[a]]]_vars
=============================================================================
