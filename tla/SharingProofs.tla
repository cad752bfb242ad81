----------------------------- MODULE SharingProofs -----------------------------
(***************************************************************************)
(* Proofs about Pairing and Share: how a machine gets its owner and its    *)
(* guests.                                                                 *)
(***************************************************************************)
EXTENDS Pairing, Share, TLAPS

-----------------------------------------------------------------------------
(* Pairing, for any number of clients, codes and links.                    *)
(*                                                                         *)
(* A link between the machine and another party carries what that party    *)
(* wrote and what the machine wrote, each once: whoever has still to write *)
(* a claim or a proof finds none (Unsaid).  So what the machine has shown, *)
(* and what it pinned its owner on, stays as it was.  That the ends of a   *)
(* link are at most two ties the device in hand to the other end.          *)

Proofs == [owner : Parties, link : 1 .. MaxLinks]

LinkRecords ==
    [ends : SUBSET Parties, claim : Parties \cup {None}, info : Parties \cup {None},
     proof : Proofs \cup {None}, up : BOOLEAN]

PairTypeOK ==
    /\ DOMAIN at = Parties
    /\ on \in [Parties -> Nat]
    /\ codes \in 0 .. MaxCodes
    /\ room \in [1 .. MaxCodes -> Parties \cup {None}]
    /\ links \in Seq(LinkRecords)
    /\ Len(links) <= MaxLinks

OnLink == {"linked", "claimed", "shown", "proved"}

\* Who is on a link is an end of it, and a link has at most two.
Ends ==
    /\ \A l \in DOMAIN links : \E a, b \in Parties : links[l].ends = {a, b}
    /\ \A p \in Parties : on[p] # 0 => on[p] \in DOMAIN links /\ p \in links[on[p]].ends
    /\ \A p \in Parties : at[p] \in OnLink => on[p] # 0

\* On a link with the machine, the other end has written nothing it has still to write.
Unsaid ==
    \A p \in Clients \cup {Other} :
        at[p] \in Linked /\ Machine \in links[on[p]].ends =>
            /\ at[p] = "linked" => links[on[p]].claim = None
            /\ links[on[p]].proof = None

\* A claim comes from an end of its link, unless the other party is one; the machine's keys
\* come over its own links.
Said ==
    \A l \in DOMAIN links :
        /\ links[l].claim # None /\ Other \notin links[l].ends => links[l].claim \in links[l].ends \cap Clients
        /\ links[l].info = Machine => Machine \in links[l].ends

\* What the machine has shown, and what it took for a proof, is still there.
Shown ==
    LET l == links[on[Machine]] IN
    /\ at[Machine] \in {"shown", "proved"} => l.claim # None /\ l.info = Machine
    /\ at[Machine] = "proved" => l.proof = [owner |-> l.claim, link |-> on[Machine]]

\* So is what somebody was pinned or a machine stored on.
Records ==
    /\ \A pin \in pins :
          /\ pin.link \in DOMAIN links /\ Machine \in links[pin.link].ends
          /\ links[pin.link].proof # None
    /\ \A m \in stored : m.link \in DOMAIN links
    /\ gate \in [Clients \cup {Machine} -> {"compare", "vouch"}]
    /\ stored \subseteq [client : Clients, link : 1 .. MaxLinks]
    /\ PinnedMeant

PairingInv == PairTypeOK /\ Ends /\ Unsaid /\ Said /\ Shown /\ Records

-----------------------------------------------------------------------------
(* What a write does to a link.                                            *)

\* Nothing that the invariant reads of link k has changed.
Same(k) ==
    /\ links'[k].ends = links[k].ends
    /\ links'[k].claim = links[k].claim
    /\ links'[k].info = links[k].info
    /\ links'[k].proof = links[k].proof

\* Only the links' fields are written, and of link l only the one named.
Writes(l, field, value) ==
    /\ links' \in Seq(LinkRecords)
    /\ Len(links') = Len(links) /\ DOMAIN links' = DOMAIN links
    /\ \A k \in DOMAIN links :
          /\ links'[k].ends = links[k].ends
          /\ links'[k].claim = IF k = l /\ field = "claim" THEN value ELSE links[k].claim
          /\ links'[k].info = IF k = l /\ field = "info" THEN value ELSE links[k].info
          /\ links'[k].proof = IF k = l /\ field = "proof" THEN value ELSE links[k].proof

\* Message 1 writes the claim and nothing else.
LEMMA WritesClaim ==
    ASSUME PairTypeOK, NEW l \in DOMAIN links, NEW v \in Parties, Write(l, "claim", v)
    PROVE  Writes(l, "claim", v)
<1>1. links[l] \in LinkRecords BY DEF PairTypeOK
<1>2. [links[l] EXCEPT !["claim"] = v] \in LinkRecords BY <1>1 DEF LinkRecords
<1>3. links' = [links EXCEPT ![l] = [links[l] EXCEPT !["claim"] = v]] BY DEF Write
<1>4. links' \in Seq(LinkRecords) /\ Len(links') = Len(links) /\ DOMAIN links' = DOMAIN links
  BY <1>2, <1>3 DEF PairTypeOK
<1>5. ASSUME NEW k \in DOMAIN links
      PROVE  /\ links'[k].ends = links[k].ends
             /\ links'[k].claim = IF k = l THEN v ELSE links[k].claim
             /\ links'[k].info = links[k].info
             /\ links'[k].proof = links[k].proof
  <2>1. links'[k] = IF k = l THEN [links[l] EXCEPT !["claim"] = v] ELSE links[k] BY <1>3
  <2>2. links[k] \in LinkRecords BY DEF PairTypeOK
  <2> QED BY <2>1, <2>2 DEF LinkRecords
<1> QED BY <1>4, <1>5 DEF Writes

\* Message 2 writes the keys and nothing else.
LEMMA WritesInfo ==
    ASSUME PairTypeOK, NEW l \in DOMAIN links, NEW v \in Parties, Write(l, "info", v)
    PROVE  Writes(l, "info", v)
<1>1. links[l] \in LinkRecords BY DEF PairTypeOK
<1>2. [links[l] EXCEPT !["info"] = v] \in LinkRecords BY <1>1 DEF LinkRecords
<1>3. links' = [links EXCEPT ![l] = [links[l] EXCEPT !["info"] = v]] BY DEF Write
<1>4. links' \in Seq(LinkRecords) /\ Len(links') = Len(links) /\ DOMAIN links' = DOMAIN links
  BY <1>2, <1>3 DEF PairTypeOK
<1>5. ASSUME NEW k \in DOMAIN links
      PROVE  /\ links'[k].ends = links[k].ends
             /\ links'[k].claim = links[k].claim
             /\ links'[k].info = IF k = l THEN v ELSE links[k].info
             /\ links'[k].proof = links[k].proof
  <2>1. links'[k] = IF k = l THEN [links[l] EXCEPT !["info"] = v] ELSE links[k] BY <1>3
  <2>2. links[k] \in LinkRecords BY DEF PairTypeOK
  <2> QED BY <2>1, <2>2 DEF LinkRecords
<1> QED BY <1>4, <1>5 DEF Writes

\* Message 3 writes the proof and nothing else.
LEMMA WritesProof ==
    ASSUME PairTypeOK, NEW l \in DOMAIN links, NEW v \in Proofs, Write(l, "proof", v)
    PROVE  Writes(l, "proof", v)
<1>1. links[l] \in LinkRecords BY DEF PairTypeOK
<1>2. [links[l] EXCEPT !["proof"] = v] \in LinkRecords BY <1>1 DEF LinkRecords
<1>3. links' = [links EXCEPT ![l] = [links[l] EXCEPT !["proof"] = v]] BY DEF Write
<1>4. links' \in Seq(LinkRecords) /\ Len(links') = Len(links) /\ DOMAIN links' = DOMAIN links
  BY <1>2, <1>3 DEF PairTypeOK
<1>5. ASSUME NEW k \in DOMAIN links
      PROVE  /\ links'[k].ends = links[k].ends
             /\ links'[k].claim = links[k].claim
             /\ links'[k].info = links[k].info
             /\ links'[k].proof = IF k = l THEN v ELSE links[k].proof
  <2>1. links'[k] = IF k = l THEN [links[l] EXCEPT !["proof"] = v] ELSE links[k] BY <1>3
  <2>2. links[k] \in LinkRecords BY DEF PairTypeOK
  <2> QED BY <2>1, <2>2 DEF LinkRecords
<1> QED BY <1>4, <1>5 DEF Writes

\* A link that goes down carries what it carried.
LEMMA DownIsQuiet ==
    ASSUME PairTypeOK, NEW l \in DOMAIN links, links' = [links EXCEPT ![l].up = FALSE]
    PROVE  /\ links' \in Seq(LinkRecords)
           /\ Len(links') = Len(links) /\ DOMAIN links' = DOMAIN links
           /\ \A k \in DOMAIN links : Same(k)
<1>1. links[l] \in LinkRecords BY DEF PairTypeOK
<1>2. [links[l] EXCEPT !.up = FALSE] \in LinkRecords BY <1>1 DEF LinkRecords
<1>3. links' = [links EXCEPT ![l] = [links[l] EXCEPT !.up = FALSE]] OBVIOUS
<1>4. links' \in Seq(LinkRecords) /\ Len(links') = Len(links) /\ DOMAIN links' = DOMAIN links
  BY <1>2, <1>3 DEF PairTypeOK
<1>5. ASSUME NEW k \in DOMAIN links PROVE Same(k)
  <2>1. links'[k] = IF k = l THEN [links[l] EXCEPT !.up = FALSE] ELSE links[k] BY <1>3
  <2>2. links[k] \in LinkRecords BY DEF PairTypeOK
  <2> QED BY <2>1, <2>2 DEF LinkRecords, Same
<1> QED BY <1>4, <1>5

\* A step that writes nothing on a link and in which parties only leave, or a client reads
\* the keys, keeps the invariant.
LEMMA QuietStep ==
    ASSUME PairingInv, PairTypeOK', UNCHANGED <<on, gate, pins, stored>>,
           DOMAIN links' = DOMAIN links, \A k \in DOMAIN links : Same(k),
           \A p \in Parties : \/ at'[p] = at[p]
                              \/ at'[p] \notin OnLink
                              \/ p # Machine /\ at[p] = "claimed" /\ at'[p] = "shown"
    PROVE  PairingInv'
<1>0. /\ Machine \in Parties /\ Other \in Parties /\ Clients \subseteq Parties
      /\ on \in [Parties -> Nat]
  BY DEF Parties, PairingInv, PairTypeOK
<1>1. Ends' BY <1>0 DEF PairingInv, Ends, Same, OnLink
<1>2. Unsaid'
  <2> SUFFICES ASSUME NEW p \in Clients \cup {Other}, at'[p] \in Linked, Machine \in links'[on[p]].ends
               PROVE  /\ at'[p] = "linked" => links'[on[p]].claim = None
                      /\ links'[on[p]].proof = None
    BY DEF Unsaid
  <2>1. p \in Parties /\ at[p] \in Linked /\ (at'[p] = "linked" => at[p] = "linked")
    BY <1>0 DEF Linked, OnLink
  <2>2. on[p] \in DOMAIN links BY <2>1 DEF PairingInv, Ends, Linked, OnLink
  <2> QED BY <2>1, <2>2 DEF PairingInv, Unsaid, Same
<1>3. Said' BY DEF PairingInv, Said, Same
<1>4. Shown'
  <2>1. at'[Machine] \in OnLink => at'[Machine] = at[Machine] /\ on[Machine] \in DOMAIN links
    BY <1>0 DEF PairingInv, Ends, OnLink
  <2> QED BY <2>1 DEF PairingInv, Shown, Same, OnLink
<1>5. Records' BY DEF PairingInv, Records, PinnedMeant, Same
<1> QED BY <1>1, <1>2, <1>3, <1>4, <1>5 DEF PairingInv

\* Joining a room waits in it, or makes a fresh link of the two.
LEMMA JoinsStep ==
    ASSUME PairingInv, NEW p \in Parties, NEW c \in 1 .. MaxCodes, Joins(p, c),
           codes' \in 0 .. MaxCodes, UNCHANGED <<gate, pins, stored>>
    PROVE  PairingInv'
<1>0. /\ Machine \in Parties /\ Other \in Parties /\ Clients \subseteq Parties
      /\ on \in [Parties -> Nat] /\ DOMAIN at = Parties
      /\ room \in [1 .. MaxCodes -> Parties \cup {None}]
      /\ links \in Seq(LinkRecords) /\ Len(links) <= MaxLinks /\ MaxLinks \in Nat
  BY PairingAssumption DEF Parties, PairingInv, PairTypeOK
<1>1. CASE room[c] = None
  <2>1. room' = [room EXCEPT ![c] = p] /\ at' = [at EXCEPT ![p] = "waiting"] /\ UNCHANGED <<links, on>>
    BY <1>1 DEF Joins, Goto
  <2>2. PairTypeOK' BY <1>0, <2>1 DEF PairingInv, PairTypeOK
  <2>3. \A k \in DOMAIN links : Same(k) BY <2>1 DEF Same
  <2>4. \A q \in Parties : at'[q] = at[q] \/ at'[q] \notin OnLink BY <1>0, <2>1 DEF OnLink
  <2> QED BY <2>1, <2>2, <2>3, <2>4, QuietStep
<1>2. CASE room[c] # None
  <2> DEFINE q == room[c]
             n == Len(links) + 1
             fresh == [ends |-> {p, q}, claim |-> None, info |-> None, proof |-> None, up |-> TRUE]
  <2>0. q \in Parties BY <1>0, <1>2
  <2>1. /\ Len(links) < MaxLinks
        /\ room' = [room EXCEPT ![c] = None]
        /\ links' = Append(links, fresh)
        /\ on' = [on EXCEPT ![p] = n, ![q] = n]
        /\ at' = [at EXCEPT ![p] = "linked", ![q] = "linked"]
    BY <1>2 DEF Joins
  <2>2. fresh \in LinkRecords BY <2>0 DEF LinkRecords
  <2>3. /\ links' \in Seq(LinkRecords) /\ Len(links') = n /\ DOMAIN links' = DOMAIN links \cup {n}
        /\ n \notin DOMAIN links /\ n \in Nat /\ n # 0 /\ links'[n] = fresh
        /\ \A k \in DOMAIN links : links'[k] = links[k]
    <3> HIDE DEF fresh
    <3> QED BY <1>0, <2>1, <2>2
  <2>4. /\ links'[n].ends = {p, q} /\ links'[n].claim = None /\ links'[n].info = None
        /\ links'[n].proof = None
    BY <2>3
  <2>5. \A r \in Parties : /\ on'[r] = IF r \in {p, q} THEN n ELSE on[r]
                           /\ at'[r] = IF r \in {p, q} THEN "linked" ELSE at[r]
    BY <1>0, <2>0, <2>1
  <2>6. PairTypeOK'
    <3>1. on' \in [Parties -> Nat] /\ DOMAIN at' = Parties BY <1>0, <2>0, <2>1, <2>3
    <3>2. room' \in [1 .. MaxCodes -> Parties \cup {None}] BY <1>0, <2>1
    <3>3. Len(links') <= MaxLinks BY <1>0, <2>1, <2>3
    <3> QED BY <3>1, <3>2, <3>3, <2>3 DEF PairTypeOK
  <2> HIDE DEF q, n, fresh
  <2>7. Ends'
    <3>1. \A l \in DOMAIN links' : \E a, b \in Parties : links'[l].ends = {a, b}
      BY <2>0, <2>3, <2>4 DEF PairingInv, Ends
    <3>2. \A r \in Parties : on'[r] # 0 => on'[r] \in DOMAIN links' /\ r \in links'[on'[r]].ends
      BY <2>3, <2>4, <2>5 DEF PairingInv, Ends
    <3>3. \A r \in Parties : at'[r] \in OnLink => on'[r] # 0
      BY <2>3, <2>5 DEF PairingInv, Ends
    <3> QED BY <3>1, <3>2, <3>3 DEF Ends
  <2>8. Unsaid'
    <3> SUFFICES ASSUME NEW r \in Clients \cup {Other}, at'[r] \in Linked, Machine \in links'[on'[r]].ends
                 PROVE  /\ at'[r] = "linked" => links'[on'[r]].claim = None
                        /\ links'[on'[r]].proof = None
      BY DEF Unsaid
    <3>1. CASE r \in {p, q} BY <3>1, <1>0, <2>4, <2>5
    <3>2. CASE r \notin {p, q}
      <4>1. on'[r] = on[r] /\ at'[r] = at[r] BY <3>2, <1>0, <2>5
      <4>2. on[r] \in DOMAIN links BY <4>1, <1>0 DEF PairingInv, Ends, Linked, OnLink
      <4> QED BY <4>1, <4>2, <2>3 DEF PairingInv, Unsaid
    <3> QED BY <3>1, <3>2
  <2>9. Said' BY <2>3, <2>4, PairingAssumption DEF PairingInv, Said
  <2>10. Shown'
    <3>1. at'[Machine] \in {"shown", "proved"} =>
             /\ on'[Machine] = on[Machine] /\ at'[Machine] = at[Machine] /\ on[Machine] \in DOMAIN links
      BY <1>0, <2>5 DEF PairingInv, Ends, OnLink
    <3> QED BY <3>1, <2>3 DEF PairingInv, Shown
  <2>11. Records' BY <2>3 DEF PairingInv, Records, PinnedMeant
  <2> QED BY <2>6, <2>7, <2>8, <2>9, <2>10, <2>11 DEF PairingInv
<1> QED BY <1>1, <1>2

-----------------------------------------------------------------------------
(* The messages and the confirmations.                                     *)

\* With the machine at one end of a link there is one other party on it.
LEMMA OneOther ==
    ASSUME PairingInv, NEW p \in Clients \cup {Other}, NEW q \in Clients \cup {Other},
           on[p] # 0, on[q] = on[p], Machine \in links[on[p]].ends
    PROVE  p = q
<1>1. p \in Parties /\ q \in Parties /\ p # Machine /\ q # Machine BY PairingAssumption DEF Parties
<1>2. on[p] \in DOMAIN links /\ p \in links[on[p]].ends /\ q \in links[on[p]].ends
  BY <1>1 DEF PairingInv, Ends
<1>3. PICK a, b \in Parties : links[on[p]].ends = {a, b} BY <1>2 DEF PairingInv, Ends
<1> QED BY <1>1, <1>2, <1>3

\* A claim: the party that writes it finds none on a link with the machine, so the machine
\* has not read one.
LEMMA ClaimStep ==
    ASSUME PairingInv, NEW p \in Clients \cup {Other}, NEW v \in Parties,
           at[p] = "linked", Write(on[p], "claim", v), Goto(p, "claimed"),
           p # Other => v = p,
           UNCHANGED <<on, codes, room, gate, pins, stored>>
    PROVE  PairingInv'
<1>0. /\ Machine \in Parties /\ Other \in Parties /\ Clients \subseteq Parties /\ p \in Parties
      /\ on \in [Parties -> Nat] /\ DOMAIN at = Parties /\ PairTypeOK
      /\ p # Machine /\ None \notin Parties /\ Other \notin Clients
  BY PairingAssumption DEF Parties, PairingInv, PairTypeOK
<1> DEFINE l == on[p]
<1>1. l \in DOMAIN links /\ p \in links[l].ends /\ l # 0 BY <1>0 DEF PairingInv, Ends, OnLink
<1>2. Writes(l, "claim", v) BY <1>0, <1>1, WritesClaim
<1> HIDE DEF l
<1>3. /\ links' \in Seq(LinkRecords) /\ Len(links') = Len(links) /\ DOMAIN links' = DOMAIN links
      /\ \A k \in DOMAIN links : /\ links'[k].ends = links[k].ends
                                 /\ links'[k].claim = IF k = l THEN v ELSE links[k].claim
                                 /\ links'[k].info = links[k].info
                                 /\ links'[k].proof = links[k].proof
  BY <1>2 DEF Writes
<1>4. \A r \in Parties : at'[r] = IF r = p THEN "claimed" ELSE at[r] BY <1>0 DEF Goto
<1>5. PairTypeOK' BY <1>0, <1>3 DEF PairTypeOK, Goto
<1>6. Machine \in links[l].ends => links[l].claim = None BY <1>1 DEF PairingInv, Unsaid, Linked, l
<1>7. Ends'
  <2>1. \A k \in DOMAIN links' : \E a, b \in Parties : links'[k].ends = {a, b}
    BY <1>3 DEF PairingInv, Ends
  <2>2. \A r \in Parties : on'[r] # 0 => on'[r] \in DOMAIN links' /\ r \in links'[on'[r]].ends
    BY <1>3 DEF PairingInv, Ends
  <2>3. \A r \in Parties : at'[r] \in OnLink => on'[r] # 0
    BY <1>1, <1>4 DEF PairingInv, Ends, l
  <2> QED BY <2>1, <2>2, <2>3 DEF Ends
<1>8. Unsaid'
  <2> SUFFICES ASSUME NEW r \in Clients \cup {Other}, at'[r] \in Linked, Machine \in links'[on[r]].ends
               PROVE  /\ at'[r] = "linked" => links'[on[r]].claim = None
                      /\ links'[on[r]].proof = None
    BY DEF Unsaid
  <2>1. at[r] \in Linked /\ on[r] \in DOMAIN links /\ on[r] # 0
    BY <1>0, <1>1, <1>4 DEF PairingInv, Ends, OnLink, Linked
  <2>2. Machine \in links[on[r]].ends BY <2>1, <1>3
  <2>3. links'[on[r]].proof = None BY <2>1, <2>2, <1>3 DEF PairingInv, Unsaid
  <2>4. CASE r = p BY <2>3, <2>4, <1>0, <1>4
  <2>5. CASE r # p
    <3>1. on[r] # l BY <2>1, <2>2, <2>5, OneOther DEF l
    <3> QED BY <3>1, <2>1, <2>2, <2>3, <2>5, <1>0, <1>3, <1>4 DEF PairingInv, Unsaid
  <2> QED BY <2>4, <2>5
<1>9. Said'
  <2> SUFFICES ASSUME NEW k \in DOMAIN links
               PROVE  /\ links'[k].claim # None /\ Other \notin links'[k].ends
                            => links'[k].claim \in links'[k].ends \cap Clients
                      /\ links'[k].info = Machine => Machine \in links'[k].ends
    BY <1>3 DEF Said
  <2> QED BY <1>1, <1>3 DEF PairingInv, Said
<1>10. Shown'
  <2>1. at'[Machine] \in {"shown", "proved"} =>
           /\ at'[Machine] = at[Machine] /\ on[Machine] \in DOMAIN links /\ on[Machine] # l
    <3>1. at'[Machine] = at[Machine] BY <1>0, <1>4
    <3>2. at[Machine] \in {"shown", "proved"} =>
             /\ on[Machine] \in DOMAIN links /\ Machine \in links[on[Machine]].ends
             /\ links[on[Machine]].claim # None
      BY <1>0 DEF PairingInv, Ends, OnLink, Shown
    <3> QED BY <3>1, <3>2, <1>6
  <2> QED BY <2>1, <1>3 DEF PairingInv, Shown
<1>11. Records' BY <1>3 DEF PairingInv, Records, PinnedMeant
<1> QED BY <1>5, <1>7, <1>8, <1>9, <1>10, <1>11 DEF PairingInv

\* The machine's keys, or those of the other party, which on a link with the machine finds
\* no claim to answer.
LEMMA InfoStep ==
    ASSUME PairingInv, NEW p \in {Machine, Other}, at[p] = "linked",
           links[on[p]].claim # None, Write(on[p], "info", p),
           Goto(p, IF p = Machine THEN "shown" ELSE "away"),
           UNCHANGED <<on, codes, room, gate, pins, stored>>
    PROVE  PairingInv'
<1>0. /\ Machine \in Parties /\ Other \in Parties /\ Clients \subseteq Parties /\ p \in Parties
      /\ on \in [Parties -> Nat] /\ DOMAIN at = Parties /\ PairTypeOK
      /\ Machine \notin Clients /\ Machine # Other /\ Other \notin Clients
  BY PairingAssumption DEF Parties, PairingInv, PairTypeOK
<1> DEFINE l == on[p]
<1>1. l \in DOMAIN links /\ p \in links[l].ends /\ l # 0 BY <1>0 DEF PairingInv, Ends, OnLink
<1>2. Writes(l, "info", p) BY <1>0, <1>1, WritesInfo
<1> HIDE DEF l
<1>3. /\ links' \in Seq(LinkRecords) /\ Len(links') = Len(links) /\ DOMAIN links' = DOMAIN links
      /\ \A k \in DOMAIN links : /\ links'[k].ends = links[k].ends
                                 /\ links'[k].claim = links[k].claim
                                 /\ links'[k].info = IF k = l THEN p ELSE links[k].info
                                 /\ links'[k].proof = links[k].proof
  BY <1>2 DEF Writes
<1>4. \A r \in Parties : at'[r] = IF r = p THEN (IF p = Machine THEN "shown" ELSE "away") ELSE at[r]
  BY <1>0 DEF Goto
<1>5. PairTypeOK' BY <1>0, <1>3 DEF PairTypeOK, Goto
<1>6. p = Other => Machine \notin links[l].ends BY DEF PairingInv, Unsaid, Linked, l
<1>7. Ends'
  <2>1. \A k \in DOMAIN links' : \E a, b \in Parties : links'[k].ends = {a, b}
    BY <1>3 DEF PairingInv, Ends
  <2>2. \A r \in Parties : on'[r] # 0 => on'[r] \in DOMAIN links' /\ r \in links'[on'[r]].ends
    BY <1>3 DEF PairingInv, Ends
  <2>3. \A r \in Parties : at'[r] \in OnLink => on'[r] # 0
    BY <1>1, <1>4 DEF PairingInv, Ends, l
  <2> QED BY <2>1, <2>2, <2>3 DEF Ends
<1>8. Unsaid'
  <2> SUFFICES ASSUME NEW r \in Clients \cup {Other}, at'[r] \in Linked, Machine \in links'[on[r]].ends
               PROVE  /\ at'[r] = "linked" => links'[on[r]].claim = None
                      /\ links'[on[r]].proof = None
    BY DEF Unsaid
  <2>1. at'[r] = at[r] BY <1>0, <1>4 DEF Linked
  <2>2. on[r] \in DOMAIN links BY <2>1, <1>0 DEF PairingInv, Ends, OnLink, Linked
  <2> QED BY <2>1, <2>2, <1>3 DEF PairingInv, Unsaid
<1>9. Said'
  <2> SUFFICES ASSUME NEW k \in DOMAIN links
               PROVE  /\ links'[k].claim # None /\ Other \notin links'[k].ends
                            => links'[k].claim \in links'[k].ends \cap Clients
                      /\ links'[k].info = Machine => Machine \in links'[k].ends
    BY <1>3 DEF Said
  <2> QED BY <1>1, <1>3 DEF PairingInv, Said
<1>10. Shown'
  <2>1. CASE p = Machine BY <2>1, <1>0, <1>1, <1>3, <1>4 DEF Shown, l
  <2>2. CASE p = Other
    <3>1. at'[Machine] = at[Machine] BY <2>2, <1>0, <1>4
    <3>2. at[Machine] \in {"shown", "proved"} => on[Machine] \in DOMAIN links /\ on[Machine] # l
      BY <2>2, <1>0, <1>6 DEF PairingInv, Ends, OnLink
    <3> QED BY <3>1, <3>2, <1>3 DEF PairingInv, Shown
  <2> QED BY <2>1, <2>2
<1>11. Records'
  <2>1. \A k \in DOMAIN links : links[k].info = Machine => links'[k].info = Machine
    BY <1>0, <1>3, <1>6 DEF PairingInv, Said
  <2> QED BY <2>1, <1>3 DEF PairingInv, Records, PinnedMeant
<1> QED BY <1>5, <1>7, <1>8, <1>9, <1>10, <1>11 DEF PairingInv

\* A claim on a link names a party, and a link is one of those the relay made.
LEMMA ClaimOnLink ==
    ASSUME PairTypeOK, NEW l \in DOMAIN links, links[l].claim # None
    PROVE  links[l].claim \in Parties /\ l \in 1 .. MaxLinks
<1>1. links[l] \in LinkRecords BY DEF PairTypeOK
<1>2. links[l].claim \in Parties BY <1>1 DEF LinkRecords
<1>3. l \in 1 .. Len(links) /\ Len(links) \in Nat /\ Len(links) <= MaxLinks BY DEF PairTypeOK
<1>4. MaxLinks \in Nat BY PairingAssumption
<1>5. l \in 1 .. MaxLinks BY <1>3, <1>4
<1> QED BY <1>2, <1>5

\* A proof: the party that writes it finds none on a link with the machine, so nobody was
\* pinned there.  Whoever compared the numbers stores the machine it spoke with.
LEMMA ProofStep ==
    ASSUME PairingInv, NEW p \in Clients \cup {Other}, at[p] \in {"claimed", "shown"},
           (\E v \in Proofs : Write(on[p], "proof", v)) \/ UNCHANGED links,
           at' \in {[at EXCEPT ![p] = "paired"], [at EXCEPT ![p] = "failed"]},
           \/ UNCHANGED stored
           \/ /\ p \in Clients
              /\ stored' = stored \cup {[client |-> p, link |-> on[p]]}
              /\ gate[p] = "compare" => links[on[p]].info = Machine,
           UNCHANGED <<on, codes, room, gate, pins>>
    PROVE  PairingInv'
<1>0. /\ Machine \in Parties /\ Other \in Parties /\ Clients \subseteq Parties /\ p \in Parties
      /\ on \in [Parties -> Nat] /\ DOMAIN at = Parties /\ PairTypeOK
      /\ p # Machine /\ links \in Seq(LinkRecords) /\ Len(links) <= MaxLinks /\ MaxLinks \in Nat
  BY PairingAssumption DEF Parties, PairingInv, PairTypeOK
<1> DEFINE l == on[p]
<1>1. l \in DOMAIN links /\ p \in links[l].ends /\ l # 0 BY <1>0 DEF PairingInv, Ends, OnLink
<1>2. /\ links' \in Seq(LinkRecords) /\ Len(links') = Len(links) /\ DOMAIN links' = DOMAIN links
      /\ \A k \in DOMAIN links : /\ links'[k].ends = links[k].ends
                                 /\ links'[k].claim = links[k].claim
                                 /\ links'[k].info = links[k].info
                                 /\ k # l => links'[k].proof = links[k].proof
  <2>1. CASE UNCHANGED links BY <2>1, <1>0
  <2>2. CASE \E v \in Proofs : Write(on[p], "proof", v)
    <3>1. PICK v \in Proofs : Write(on[p], "proof", v) BY <2>2
    <3>2. Writes(l, "proof", v) BY <3>1, <1>0, <1>1, WritesProof
    <3> QED BY <3>2 DEF Writes
  <2> QED BY <2>1, <2>2
<1> HIDE DEF l
<1>3. /\ DOMAIN at' = Parties
      /\ \A r \in Parties : IF r = p THEN at'[r] \notin OnLink ELSE at'[r] = at[r]
  BY <1>0 DEF OnLink
<1>4. PairTypeOK' BY <1>0, <1>2, <1>3 DEF PairTypeOK
<1>5. Machine \in links[l].ends => links[l].proof = None BY DEF PairingInv, Unsaid, Linked, l
<1>6. Ends'
  <2>1. \A k \in DOMAIN links' : \E a, b \in Parties : links'[k].ends = {a, b}
    BY <1>2 DEF PairingInv, Ends
  <2>2. \A r \in Parties : on'[r] # 0 => on'[r] \in DOMAIN links' /\ r \in links'[on'[r]].ends
    BY <1>2 DEF PairingInv, Ends
  <2>3. \A r \in Parties : at'[r] \in OnLink => on'[r] # 0
    BY <1>3 DEF PairingInv, Ends
  <2> QED BY <2>1, <2>2, <2>3 DEF Ends
<1>7. Unsaid'
  <2> SUFFICES ASSUME NEW r \in Clients \cup {Other}, at'[r] \in Linked, Machine \in links'[on[r]].ends
               PROVE  /\ at'[r] = "linked" => links'[on[r]].claim = None
                      /\ links'[on[r]].proof = None
    BY DEF Unsaid
  <2>1. r # p /\ at'[r] = at[r] BY <1>0, <1>3 DEF Linked, OnLink
  <2>2. on[r] \in DOMAIN links /\ on[r] # 0 BY <2>1, <1>0, <1>1 DEF PairingInv, Ends, OnLink, Linked
  <2>3. Machine \in links[on[r]].ends BY <2>2, <1>2
  <2>4. on[r] # l BY <2>1, <2>2, <2>3, OneOther DEF l
  <2> QED BY <2>1, <2>2, <2>3, <2>4, <1>2 DEF PairingInv, Unsaid
<1>8. Said' BY <1>2 DEF PairingInv, Said
<1>9. Shown'
  <2>1. at'[Machine] = at[Machine] BY <1>0, <1>3
  <2>2. at[Machine] \in {"shown", "proved"} => on[Machine] \in DOMAIN links /\ Machine \in links[on[Machine]].ends
    BY <1>0 DEF PairingInv, Ends, OnLink
  <2>3. at[Machine] = "proved" => on[Machine] # l
    <3> SUFFICES ASSUME at[Machine] = "proved", on[Machine] = l PROVE FALSE
      OBVIOUS
    <3>1. links[l].proof = None BY <1>5, <2>2
    <3>2. links[l].claim # None /\ links[l].proof = [owner |-> links[l].claim, link |-> l]
      BY DEF PairingInv, Shown
    <3>3. links[l].claim \in Parties /\ l \in 1 .. MaxLinks
      BY <3>2, <1>0, <1>1, ClaimOnLink
    <3> QED BY <3>1, <3>2, <3>3, PairingAssumption DEF Parties
  <2> QED BY <2>1, <2>2, <2>3, <1>2 DEF PairingInv, Shown
<1>10. Records'
  <2>1. ASSUME NEW pin \in pins PROVE pin.link \in DOMAIN links /\ Machine \in links[pin.link].ends /\ pin.link # l
    <3>1. /\ pin.link \in DOMAIN links /\ Machine \in links[pin.link].ends
          /\ links[pin.link].proof = [owner |-> pin.owner, link |-> pin.link]
          /\ links[pin.link].proof # None
      BY DEF PairingInv, Records, PinnedMeant
    <3> QED BY <3>1, <1>5
  <2>2. \A m \in stored' : \/ m \in stored
                           \/ /\ p \in Clients
                              /\ m = [client |-> p, link |-> l]
                              /\ gate[p] = "compare" => links[l].info = Machine
    BY DEF l
  <2>3. stored' \subseteq [client : Clients, link : 1 .. MaxLinks]
    <3>1. l \in 1 .. MaxLinks BY <1>0, <1>1
    <3> QED BY <3>1, <2>2 DEF PairingInv, Records
  <2>4. ASSUME NEW m \in stored'
        PROVE  m.link \in DOMAIN links' /\ (gate[m.client] = "compare" => links'[m.link].info = Machine)
    BY <2>2, <1>1, <1>2 DEF PairingInv, Records, PinnedMeant
  <2>5. ASSUME NEW pin \in pins
        PROVE  /\ pin.link \in DOMAIN links' /\ Machine \in links'[pin.link].ends
               /\ links'[pin.link].proof = [owner |-> pin.owner, link |-> pin.link]
               /\ links'[pin.link].proof # None
               /\ gate[Machine] = "compare" =>
                     links'[pin.link].ends = {Machine, pin.owner} /\ pin.owner \in Clients
    BY <2>1, <1>2 DEF PairingInv, Records, PinnedMeant
  <2> QED BY <2>3, <2>4, <2>5 DEF PairingInv, Records, PinnedMeant
<1> QED BY <1>4, <1>6, <1>7, <1>8, <1>9, <1>10 DEF PairingInv

\* The proof is verified against the claim.
LEMMA ProvedStep ==
    ASSUME PairingInv, Proved
    PROVE  PairingInv'
<1>0. /\ Machine \in Parties /\ Clients \cup {Other} \subseteq Parties \ {Machine}
      /\ DOMAIN at = Parties /\ at' = [at EXCEPT ![Machine] = "proved"] /\ at[Machine] = "shown"
      /\ UNCHANGED <<on, codes, room, links, stored, pins, gate>>
  BY PairingAssumption DEF Parties, PairingInv, PairTypeOK, Proved, Goto
<1>1. PairTypeOK' BY <1>0 DEF PairingInv, PairTypeOK
<1>2. Ends' BY <1>0 DEF PairingInv, Ends, OnLink
<1>3. Unsaid'
  <2>1. \A p \in Clients \cup {Other} : at'[p] = at[p] BY <1>0
  <2> QED BY <2>1, <1>0 DEF PairingInv, Unsaid
<1>4. Said' /\ Records' BY <1>0 DEF PairingInv, Said, Records, PinnedMeant
<1>5. Shown' BY <1>0 DEF PairingInv, Shown, Proved, Link
<1> QED BY <1>1, <1>2, <1>3, <1>4, <1>5 DEF PairingInv

\* The operator agrees and the owner is pinned: a device in hand on the machine's link is its
\* other end, and the claim is that end's.
LEMMA PinsStep ==
    ASSUME PairingInv, Pins
    PROVE  PairingInv'
<1> DEFINE l == on[Machine]
           pin == [owner |-> links[l].claim, link |-> l]
<1>0. /\ Machine \in Parties /\ Clients \cup {Other} \subseteq Parties \ {Machine}
      /\ Other \notin Clients /\ Other \in Parties
      /\ on \in [Parties -> Nat] /\ DOMAIN at = Parties /\ at[Machine] = "proved"
      /\ UNCHANGED <<on, codes, room, links, stored, gate>>
      /\ links \in Seq(LinkRecords) /\ Len(links) <= MaxLinks /\ MaxLinks \in Nat
  BY PairingAssumption DEF Parties, PairingInv, PairTypeOK, Pins
<1>1. /\ at' \in {[at EXCEPT ![Machine] = "paired"], [at EXCEPT ![Machine] = "failed"]}
      /\ pins' = pins \/ pins' = pins \cup {pin}
  BY DEF Pins, Goto, Link
<1>2. l \in DOMAIN links /\ Machine \in links[l].ends BY <1>0 DEF PairingInv, Ends, OnLink
<1>3. links[l].claim # None /\ links[l].proof = pin BY <1>0 DEF PairingInv, Shown
<1>4. links[l].claim \in Parties /\ l \in 1 .. MaxLinks BY <1>2, <1>3, ClaimOnLink DEF PairingInv
<1>5. gate[Machine] = "compare" =>
         links[l].ends = {Machine, links[l].claim} /\ links[l].claim \in Clients
  <2> SUFFICES ASSUME gate[Machine] = "compare"
               PROVE  links[l].ends = {Machine, links[l].claim} /\ links[l].claim \in Clients
    OBVIOUS
  <2>1. PICK c \in Clients : on[c] = l BY DEF Pins, OperatorAgrees
  <2>2. c \in links[l].ends /\ c # Machine
    <3>1. on[c] # 0 BY <2>1, <1>0 DEF PairingInv, Ends, OnLink
    <3> QED BY <3>1, <2>1, <1>0 DEF PairingInv, Ends
  <2>3. PICK a, b \in Parties : links[l].ends = {a, b} BY <1>2 DEF PairingInv, Ends
  <2>4. links[l].ends = {Machine, c} BY <2>2, <2>3, <1>2
  <2>5. Other \notin links[l].ends BY <2>4, <1>0
  <2>6. links[l].claim \in links[l].ends \cap Clients BY <2>5, <1>2, <1>3 DEF PairingInv, Said
  <2> QED BY <2>4, <2>6, <1>0
<1>6. PairTypeOK' BY <1>0, <1>1 DEF PairingInv, PairTypeOK
<1>7. Ends' BY <1>0, <1>1 DEF PairingInv, Ends, OnLink
<1>8. Unsaid'
  <2>1. \A p \in Clients \cup {Other} : at'[p] = at[p] BY <1>0, <1>1
  <2> QED BY <2>1, <1>0 DEF PairingInv, Unsaid
<1>9. Said' BY <1>0 DEF PairingInv, Said
<1>10. Shown'
  <2>1. at'[Machine] \notin {"shown", "proved"} BY <1>0, <1>1
  <2> QED BY <2>1 DEF Shown
<1>11. Records'
  <2>1. pin.owner = links[l].claim /\ pin.link = l OBVIOUS
  <2>2. links[l].proof # None BY <1>3, <1>4, PairingAssumption DEF Parties
  <2>3. ASSUME NEW q \in pins'
        PROVE  /\ q.link \in DOMAIN links /\ Machine \in links[q.link].ends
               /\ links[q.link].proof = [owner |-> q.owner, link |-> q.link]
               /\ links[q.link].proof # None
               /\ gate[Machine] = "compare" => links[q.link].ends = {Machine, q.owner} /\ q.owner \in Clients
    <3>1. CASE q \in pins BY <3>1 DEF PairingInv, Records, PinnedMeant
    <3>2. CASE q = pin BY <3>2, <2>1, <2>2, <1>2, <1>3, <1>5
    <3> QED BY <3>1, <3>2, <1>1
  <2> QED BY <2>3, <1>0 DEF PairingInv, Records, PinnedMeant
<1> QED BY <1>6, <1>7, <1>8, <1>9, <1>10, <1>11 DEF PairingInv

-----------------------------------------------------------------------------
(* Every step.                                                             *)

\* Every action keeps the invariant.
LEMMA PairingStep ==
    ASSUME PairingInv, [PairingNext]_pairingVars
    PROVE  PairingInv'
<1>0. /\ Machine \in Parties /\ Other \in Parties /\ Clients \subseteq Parties
      /\ Clients \cup {Other} \subseteq Parties \ {Machine} /\ Other \notin Clients
      /\ on \in [Parties -> Nat] /\ DOMAIN at = Parties /\ PairTypeOK
      /\ codes \in 0 .. MaxCodes /\ MaxCodes \in Nat /\ MaxLinks \in Nat
      /\ links \in Seq(LinkRecords) /\ Len(links) <= MaxLinks
      /\ room \in [1 .. MaxCodes -> Parties \cup {None}]
  BY PairingAssumption DEF Parties, PairingInv, PairTypeOK
<1>u. UNCHANGED links => \A k \in DOMAIN links : Same(k) BY DEF Same
<1>g. ASSUME NEW p \in Parties, NEW where, Goto(p, where), UNCHANGED <<on, codes, room, links>>
      PROVE  PairTypeOK' /\ \A q \in Parties : at'[q] = IF q = p THEN where ELSE at[q]
  BY <1>0, <1>g DEF PairTypeOK, Goto
<1>1. ASSUME PrintsCode PROVE PairingInv'
  <2>1. codes + 1 \in 1 .. MaxCodes /\ codes' \in 0 .. MaxCodes BY <1>0, <1>1 DEF PrintsCode
  <2>2. Joins(Machine, codes + 1) /\ UNCHANGED <<gate, pins, stored>> BY <1>1 DEF PrintsCode
  <2> QED BY <2>1, <2>2, <1>0, JoinsStep
<1>2. ASSUME SendsInfo PROVE PairingInv'
  <2>1. /\ at[Machine] = "linked" /\ links[on[Machine]].claim # None
        /\ Write(on[Machine], "info", Machine) /\ Goto(Machine, "shown")
        /\ UNCHANGED <<on, codes, room, gate, pins, stored>>
    BY <1>2 DEF SendsInfo, Link
  <2> QED BY <2>1, InfoStep
<1>3. ASSUME Proved PROVE PairingInv' BY <1>3, ProvedStep
<1>4. ASSUME NotProved PROVE PairingInv'
  <2>1. Goto(Machine, "failed") /\ UNCHANGED <<on, codes, room, links, gate, pins, stored>>
    BY <1>4 DEF NotProved
  <2>2. PairTypeOK' /\ \A q \in Parties : at'[q] = IF q = Machine THEN "failed" ELSE at[q]
    BY <2>1, <1>0, <1>g
  <2> QED BY <2>1, <2>2, <1>u, QuietStep DEF OnLink
<1>5. ASSUME Pins PROVE PairingInv' BY <1>5, PinsStep
<1>6. ASSUME OperatorRefuses PROVE PairingInv'
  <2>1. Goto(Machine, "refused") /\ UNCHANGED <<on, codes, room, links, gate, pins, stored>>
    BY <1>6 DEF OperatorRefuses
  <2>2. PairTypeOK' /\ \A q \in Parties : at'[q] = IF q = Machine THEN "refused" ELSE at[q]
    BY <2>1, <1>0, <1>g
  <2> QED BY <2>1, <2>2, <1>u, QuietStep DEF OnLink
<1>7. ASSUME NEW c \in Clients, GetsCode(c) PROVE PairingInv'
  <2>1. PICK k \in 1 .. codes : Joins(c, k) BY <1>7 DEF GetsCode
  <2>2. k \in 1 .. MaxCodes /\ codes' \in 0 .. MaxCodes /\ c \in Parties BY <1>0, <1>7 DEF GetsCode
  <2> QED BY <1>7, <2>1, <2>2, JoinsStep DEF GetsCode
<1>8. ASSUME NEW c \in Clients, SendsClaim(c) PROVE PairingInv'
  <2>1. /\ at[c] = "linked" /\ Write(on[c], "claim", c) /\ Goto(c, "claimed")
        /\ UNCHANGED <<on, codes, room, gate, pins, stored>>
    BY <1>8 DEF SendsClaim
  <2> QED BY <2>1, <1>0, ClaimStep
<1>9. ASSUME NEW c \in Clients, GetsInfo(c) PROVE PairingInv'
  <2>1. at[c] = "claimed" /\ Goto(c, "shown") /\ UNCHANGED <<on, codes, room, links, gate, pins, stored>>
    BY <1>9 DEF GetsInfo
  <2>2. PairTypeOK' /\ \A q \in Parties : at'[q] = IF q = c THEN "shown" ELSE at[q]
    BY <2>1, <1>0, <1>g
  <2>3. c # Machine BY <1>0
  <2> QED BY <2>1, <2>2, <2>3, <1>u, QuietStep
<1>10. ASSUME NEW c \in Clients, Confirms(c) PROVE PairingInv'
  <2>0. c \in Parties /\ at[c] = "shown" /\ UNCHANGED <<on, codes, room, gate, pins>>
    BY <1>0, <1>10 DEF Confirms
  <2>1. on[c] \in DOMAIN links BY <2>0 DEF PairingInv, Ends, OnLink
  <2>2. [owner |-> c, link |-> on[c]] \in Proofs BY <1>0, <2>0, <2>1 DEF Proofs
  <2>3. (\E v \in Proofs : Write(on[c], "proof", v)) \/ UNCHANGED links
    BY <1>10, <2>2 DEF Confirms
  <2>4. /\ at' \in {[at EXCEPT ![c] = "paired"], [at EXCEPT ![c] = "failed"]}
        /\ UNCHANGED stored \/ stored' = stored \cup {[client |-> c, link |-> on[c]]}
    BY <1>10 DEF Confirms, Goto
  <2>5. gate[c] = "compare" => links[on[c]].info = Machine
    BY <1>10 DEF Confirms, Agrees, PairingInv, Shown
  <2> QED BY <2>0, <2>3, <2>4, <2>5, ProofStep
<1>11. ASSUME NEW c \in Clients, Refuses(c) PROVE PairingInv'
  <2>1. Goto(c, "refused") /\ UNCHANGED <<on, codes, room, links, gate, pins, stored>>
    BY <1>11 DEF Refuses
  <2>2. PairTypeOK' /\ \A q \in Parties : at'[q] = IF q = c THEN "refused" ELSE at[q]
    BY <2>1, <1>0, <1>g
  <2> QED BY <2>1, <2>2, <1>u, QuietStep DEF OnLink
<1>12. ASSUME OtherJoins PROVE PairingInv'
  <2>1. PICK k \in 1 .. codes : Joins(Other, k) BY <1>12 DEF OtherJoins
  <2>2. k \in 1 .. MaxCodes /\ codes' \in 0 .. MaxCodes BY <1>0, <1>12 DEF OtherJoins
  <2> QED BY <1>0, <1>12, <2>1, <2>2, JoinsStep DEF OtherJoins
<1>13. ASSUME OtherClaims PROVE PairingInv'
  <2>1. PICK v \in Clients \cup {Other} : Write(on[Other], "claim", v) BY <1>13 DEF OtherClaims
  <2>2. v \in Parties BY <1>0
  <2>3. at[Other] = "linked" /\ Goto(Other, "claimed") /\ UNCHANGED <<on, codes, room, gate, pins, stored>>
    BY <1>13 DEF OtherClaims
  <2> QED BY <2>1, <2>2, <2>3, ClaimStep
<1>14. ASSUME OtherAnswers PROVE PairingInv'
  <2>1. /\ at[Other] = "linked" /\ links[on[Other]].claim # None
        /\ Write(on[Other], "info", Other) /\ Goto(Other, "away")
        /\ UNCHANGED <<on, codes, room, gate, pins, stored>>
    BY <1>14 DEF OtherAnswers, Link
  <2>2. Other # Machine BY <1>0
  <2> QED BY <2>1, <2>2, InfoStep
<1>15. ASSUME OtherProves PROVE PairingInv'
  <2>0. at[Other] = "claimed" /\ Goto(Other, "paired") /\ UNCHANGED <<on, codes, room, gate, pins, stored>>
    BY <1>15 DEF OtherProves
  <2>1. on[Other] \in DOMAIN links BY <1>0, <2>0 DEF PairingInv, Ends, OnLink
  <2>2. [owner |-> Other, link |-> on[Other]] \in Proofs BY <1>0, <2>1 DEF Proofs
  <2>3. PICK k \in DOMAIN links :
           Write(on[Other], "proof", IF links[k].proof # None THEN links[k].proof
                                     ELSE [owner |-> Other, link |-> on[Other]])
    BY <1>15 DEF OtherProves
  <2>4. links[k].proof \in Proofs \cup {None}
    <3>1. links[k] \in LinkRecords BY <1>0
    <3> QED BY <3>1 DEF LinkRecords
  <2>5. \E v \in Proofs : Write(on[Other], "proof", v) BY <2>2, <2>3, <2>4
  <2> QED BY <2>0, <2>5, ProofStep DEF Goto
<1>16. ASSUME LinkLost PROVE PairingInv'
  <2>1. PICK l \in DOMAIN links : links' = [links EXCEPT ![l].up = FALSE] BY <1>16 DEF LinkLost
  <2>2. UNCHANGED <<at, on, codes, room, gate, pins, stored>> BY <1>16 DEF LinkLost
  <2>3. /\ links' \in Seq(LinkRecords) /\ Len(links') = Len(links) /\ DOMAIN links' = DOMAIN links
        /\ \A k \in DOMAIN links : Same(k)
    BY <2>1, <1>0, DownIsQuiet
  <2>4. PairTypeOK' BY <2>2, <2>3, <1>0 DEF PairTypeOK
  <2> QED BY <2>2, <2>3, <2>4, QuietStep
<1>17. ASSUME Minute PROVE PairingInv'
  <2>1. UNCHANGED <<at, on, codes, room, links, gate, pins, stored>> BY <1>17 DEF Minute
  <2>2. PairTypeOK' BY <2>1, <1>0 DEF PairTypeOK
  <2> QED BY <2>1, <2>2, <1>u, QuietStep
<1>18. ASSUME NEW p \in Parties, Fails(p) PROVE PairingInv'
  <2>1. Goto(p, "failed") /\ UNCHANGED <<on, codes, room, links, gate, pins, stored>>
    BY <1>18 DEF Fails
  <2>2. PairTypeOK' /\ \A q \in Parties : at'[q] = IF q = p THEN "failed" ELSE at[q]
    BY <2>1, <1>g
  <2> QED BY <2>1, <2>2, <1>u, QuietStep DEF OnLink
<1>19. ASSUME NEW p \in Parties, RoomTimeout(p) PROVE PairingInv'
  <2>1. /\ UNCHANGED <<on, codes, links, gate, pins, stored>>
        /\ room' = [room EXCEPT ![code[p]] = None]
        /\ at' = [at EXCEPT ![p] = IF p = Other THEN "away" ELSE "nobody"]
    BY <1>19 DEF RoomTimeout, Goto
  <2>2. room' \in [1 .. MaxCodes -> Parties \cup {None}] BY <2>1, <1>0
  <2>3. PairTypeOK' BY <2>1, <2>2, <1>0 DEF PairTypeOK
  <2>4. \A q \in Parties : at'[q] = at[q] \/ at'[q] \notin OnLink BY <2>1, <1>0 DEF OnLink
  <2> QED BY <2>1, <2>3, <2>4, <1>u, QuietStep
<1>20. ASSUME NEW p \in Parties, WindowOver(p) PROVE PairingInv'
  <2>1. /\ UNCHANGED <<on, codes, room, gate, pins, stored>>
        /\ at' = [at EXCEPT ![p] = "failed"]
        /\ links' = [links EXCEPT ![on[p]].up = FALSE]
        /\ at[p] \in {"linked", "claimed", "shown"}
    BY <1>20 DEF WindowOver, Goto, Receiving
  <2>2. on[p] \in DOMAIN links BY <2>1 DEF PairingInv, Ends, OnLink
  <2>3. /\ links' \in Seq(LinkRecords) /\ Len(links') = Len(links) /\ DOMAIN links' = DOMAIN links
        /\ \A k \in DOMAIN links : Same(k)
    BY <2>1, <2>2, <1>0, DownIsQuiet
  <2>4. PairTypeOK' BY <2>1, <2>3, <1>0 DEF PairTypeOK
  <2>5. \A q \in Parties : at'[q] = at[q] \/ at'[q] \notin OnLink BY <2>1, <1>0 DEF OnLink
  <2> QED BY <2>1, <2>3, <2>4, <2>5, QuietStep
<1>21. ASSUME UNCHANGED pairingVars PROVE PairingInv'
  <2>1. UNCHANGED <<at, on, codes, room, links, gate, pins, stored>> BY <1>21 DEF pairingVars
  <2>2. PairTypeOK' BY <2>1, <1>0 DEF PairTypeOK
  <2> QED BY <2>1, <2>2, <1>u, QuietStep
<1> QED
  BY <1>1, <1>2, <1>3, <1>4, <1>5, <1>6, <1>7, <1>8, <1>9, <1>10, <1>11, <1>12, <1>13, <1>14,
     <1>15, <1>16, <1>17, <1>18, <1>19, <1>20, <1>21 DEF PairingNext

\* Nobody is linked and nothing is pinned at first.
LEMMA PairingStart ==
    ASSUME PairingInit
    PROVE  PairingInv
<1>1. PairTypeOK BY PairingAssumption DEF PairingInit, PairTypeOK
<1>2. Ends /\ Unsaid /\ Said /\ Shown
  BY DEF PairingInit, Ends, Unsaid, Said, Shown, OnLink, Linked, Parties
<1>3. Records BY DEF PairingInit, Records, PinnedMeant
<1> QED BY <1>1, <1>2, <1>3 DEF PairingInv

\* pairInitiate, pairRespond, StartedResponder.Finish: however parties join, leave and answer,
\* an owner is pinned only over the handshake it proved itself on; where the operator compares
\* the numbers, that owner is the device in hand with nobody between; and where the person at
\* a client compares them, the machine stored is the one that printed the code.
THEOREM PinsAreMeant == PairingSpec => []PinnedMeant
<1>1. PairingInit => PairingInv BY PairingStart
<1>2. PairingInv /\ [PairingNext]_pairingVars => PairingInv' BY PairingStep
<1>3. PairingInv => PinnedMeant BY DEF PairingInv, Records
<1> QED BY <1>1, <1>2, <1>3, PTL DEF PairingSpec

-----------------------------------------------------------------------------
(* Share, for any number of shares, machines and names.                    *)
(*                                                                         *)
(* The owner's command only goes forward, and the machine's ack comes      *)
(* before anything the guest hears: every place after the ack knows that   *)
(* the grant was installed at the machine that was resolved (Learned).  A  *)
(* share can be revoked only once it has a record, and a record is written *)
(* after the ack: no grant arrives late at the machine that was asked      *)
(* (Revoked).  A join between its two writes either sees no sweep or is    *)
(* counted as crossed by one (Swept).                                      *)

Delivered == {"telling", "shared", "guest_gone"}
Sent == {"delivering", "unconfirmed"} \cup Delivered
OwnerAt == {"idle", "room", "asked", "nothing"} \cup Sent
GuestAt == {"away", "waiting", "left", "told", "storing", "joined"}

ShareShape ==
    /\ opc \in [Gids -> OwnerAt]
    /\ DOMAIN target = Gids
    /\ inbox \in [Gids -> {"none", "sent", "acked"}]
    /\ shares \in [Gids -> {"none", "live", "revoked"}]
    /\ DOMAIN kept = Gids
    /\ gpc \in [Gids -> GuestAt]
    /\ rpc \in [Gids -> {"idle", "sent", "acked"}]
    /\ DOMAIN asked = Gids

\* A grant is sent once the owner agreed, and what follows the ack has been acknowledged;
\* a grant in force is of a window that is open.
Learned ==
    /\ \A g \in Gids :
          /\ inbox[g] # "none" => opc[g] \in Sent
          /\ inbox[g] = "acked" => [gid |-> g, at |-> target[g]] \in known
          /\ opc[g] \in Delivered => inbox[g] = "acked"
          /\ gpc[g] \in {"told", "storing", "joined"} => opc[g] = "shared"
          /\ g \in grants => gpc[g] = "joined"
    /\ grants \subseteq Gids
    /\ \A i \in installed : \E g \in Gids : i = [gid |-> g, at |-> target[g]] /\ inbox[g] = "acked"

\* A revocation is of a share that was acknowledged, and where it was answered the grant is gone.
Revoked ==
    \A g \in Gids :
        /\ shares[g] # "none" => inbox[g] = "acked"
        /\ rpc[g] # "idle" => shares[g] # "none"
        /\ rpc[g] = "acked" \/ shares[g] = "revoked" => [gid |-> g, at |-> asked[g]] \notin installed

\* Another share that was made took the name.
Displaced(g) == \E h \in Gids : opc[h] # "idle" /\ kept[h] = kept[g] /\ target[h] # target[g]

\* A join that no sweep crossed: its grant is stored, the sweep that runs has found it, and
\* its machine is listed under the name it was shared under.
Swept ==
    \A g \in Gids :
        (gpc[g] \in {"storing", "joined"} /\ g \notin closed \cup crossed) =>
            /\ sweep # <<>> => gpc[g] = "joined" /\ g \in sweep[1]
            /\ gpc[g] = "joined" => g \in grants
            /\ [id |-> target[g], name |-> kept[g]] \in entries \/ Displaced(g)

ShareInv == ShareShape /\ Learned /\ Revoked /\ Swept

\* Every place and record of a share stays one of its kinds.
LEMMA ShapeStep ==
    ASSUME ShareShape, [ShareNext]_shareVars
    PROVE  ShareShape'
<1> USE DEF ShareShape, OwnerAt, Sent, Delivered, GuestAt
<1>1. ASSUME Rename PROVE ShareShape'
  BY <1>1 DEF Rename, owner, agent, joins, revoke
<1>2. ASSUME SweepReads PROVE ShareShape'
  BY <1>2 DEF SweepReads, owner, agent, joins, revoke
<1>3. ASSUME SweepRemoves PROVE ShareShape'
  BY <1>3 DEF SweepRemoves, owner, agent, joins, revoke
<1>4. ASSUME NEW x \in Gids, WindowCloses(x) PROVE ShareShape'
  BY <1>4 DEF WindowCloses, owner, agent, joins, revoke
<1>5. ASSUME NEW x \in Gids, Invite(x) PROVE ShareShape'
  BY <1>5 DEF Invite, owner, agent, joins, revoke, Owner
<1>6. ASSUME NEW x \in Gids, Declined(x) PROVE ShareShape'
  BY <1>6 DEF Declined, owner, agent, joins, revoke, Owner
<1>7. ASSUME NEW x \in Gids, Agreed(x) PROVE ShareShape'
  BY <1>7 DEF Agreed, owner, agent, joins, revoke, Owner
<1>8. ASSUME NEW x \in Gids, MachineAdds(x) PROVE ShareShape'
  BY <1>8 DEF MachineAdds, owner, agent, joins, revoke
<1>9. ASSUME NEW x \in Gids, Acknowledged(x) PROVE ShareShape'
  BY <1>9 DEF Acknowledged, owner, agent, joins, revoke, Owner
<1>10. ASSUME NEW x \in Gids, Unconfirmed(x) PROVE ShareShape'
  BY <1>10 DEF Unconfirmed, owner, agent, joins, revoke, Owner
<1>11. ASSUME NEW x \in Gids, Tells(x) PROVE ShareShape'
  BY <1>11 DEF Tells, owner, agent, joins, revoke, Owner, Guest
<1>12. ASSUME NEW x \in Gids, Join(x) PROVE ShareShape'
  BY <1>12 DEF Join, owner, agent, joins, revoke, Owner, Guest
<1>13. ASSUME NEW x \in Gids, Leaves(x) PROVE ShareShape'
  BY <1>13 DEF Leaves, owner, agent, joins, revoke, Guest
<1>14. ASSUME NEW x \in Gids, StoresMachine(x) PROVE ShareShape'
  BY <1>14 DEF StoresMachine, owner, agent, joins, revoke, Guest
<1>15. ASSUME NEW x \in Gids, StoresGrant(x) PROVE ShareShape'
  BY <1>15 DEF StoresGrant, owner, agent, joins, revoke, Guest
<1>16. ASSUME NEW x \in Gids, RevokeSends(x) PROVE ShareShape'
  BY <1>16 DEF RevokeSends, owner, agent, joins, revoke, Revoking
<1>17. ASSUME NEW x \in Gids, MachineRevokes(x) PROVE ShareShape'
  BY <1>17 DEF MachineRevokes, owner, agent, joins, revoke, Revoking
<1>18. ASSUME NEW x \in Gids, RevokeUnconfirmed(x) PROVE ShareShape'
  BY <1>18 DEF RevokeUnconfirmed, owner, agent, joins, revoke, Revoking
<1>19. ASSUME NEW x \in Gids, MarksRevoked(x) PROVE ShareShape'
  BY <1>19 DEF MarksRevoked, owner, agent, joins, revoke, Revoking
<1>20. CASE UNCHANGED shareVars
  BY <1>20 DEF shareVars, owner, agent, joins, revoke
<1> QED
  BY <1>1, <1>2, <1>3, <1>4, <1>5, <1>6, <1>7, <1>8, <1>9, <1>10, <1>11, <1>12, <1>13, <1>14, <1>15, <1>16, <1>17, <1>18, <1>19, <1>20 DEF ShareNext

\* MachineAdds: only its answer takes a share past delivering, and only the owner's word gives
\* the guest its grant.
LEMMA LearnedStep ==
    ASSUME ShareShape, Learned, [ShareNext]_shareVars
    PROVE  Learned'
<1> USE DEF ShareShape, Learned, OwnerAt, Sent, Delivered, GuestAt
<1>1. ASSUME Rename PROVE Learned'
  BY <1>1 DEF Rename, owner, agent, joins, revoke
<1>2. ASSUME SweepReads PROVE Learned'
  BY <1>2 DEF SweepReads, owner, agent, joins, revoke
<1>3. ASSUME SweepRemoves PROVE Learned'
  <2>1. UNCHANGED <<opc, target, inbox, known, gpc, grants, installed>>
    BY <1>3 DEF SweepRemoves, owner, agent
  <2> QED
    BY <2>1
<1>4. ASSUME NEW x \in Gids, WindowCloses(x) PROVE Learned'
  BY <1>4 DEF WindowCloses, owner, agent, joins, revoke
<1>5. ASSUME NEW x \in Gids, Invite(x) PROVE Learned'
  <2>1. PICK m : target' = [target EXCEPT ![x] = m]
    BY <1>5 DEF Invite
  <2>2. /\ opc[x] = "idle" /\ opc' = [opc EXCEPT ![x] = "room"]
        /\ UNCHANGED <<inbox, known, gpc, grants, installed>>
    BY <1>5 DEF Invite, Owner, agent, joins
  <2>3. \A g \in Gids : inbox[g] = "acked" => target'[g] = target[g]
    BY <2>1, <2>2
  <2>4. \A i \in installed : \E g \in Gids : i = [gid |-> g, at |-> target'[g]] /\ inbox[g] = "acked"
    BY <2>3
  <2>5. \A g \in Gids : inbox[g] = "acked" => [gid |-> g, at |-> target'[g]] \in known
    BY <2>3
  <2>6. \A g \in Gids : opc'[g] = IF g = x THEN "room" ELSE opc[g]
    BY <2>2
  <2>7. \A g \in Gids :
            /\ inbox[g] # "none" => opc'[g] \in Sent
            /\ opc'[g] \in Delivered => inbox[g] = "acked"
            /\ gpc[g] \in {"told", "storing", "joined"} => opc'[g] = "shared"
            /\ g \in grants => gpc[g] = "joined"
    BY <2>2, <2>6
  <2> HIDE DEF ShareShape, Sent, Delivered
  <2> QED
    BY <2>2, <2>4, <2>5, <2>7 DEF Learned
<1>6. ASSUME NEW x \in Gids, Declined(x) PROVE Learned'
  BY <1>6 DEF Declined, owner, agent, joins, revoke, Owner
<1>7. ASSUME NEW x \in Gids, Agreed(x) PROVE Learned'
  BY <1>7 DEF Agreed, owner, agent, joins, revoke, Owner
<1>8. ASSUME NEW x \in Gids, MachineAdds(x) PROVE Learned'
  BY <1>8 DEF MachineAdds, owner, agent, joins, revoke
<1>9. ASSUME NEW x \in Gids, Acknowledged(x) PROVE Learned'
  BY <1>9 DEF Acknowledged, owner, agent, joins, revoke, Owner
<1>10. ASSUME NEW x \in Gids, Unconfirmed(x) PROVE Learned'
  BY <1>10 DEF Unconfirmed, owner, agent, joins, revoke, Owner
<1>11. ASSUME NEW x \in Gids, Tells(x) PROVE Learned'
  BY <1>11 DEF Tells, owner, agent, joins, revoke, Owner, Guest
<1>12. ASSUME NEW x \in Gids, Join(x) PROVE Learned'
  BY <1>12 DEF Join, owner, agent, joins, revoke, Owner, Guest
<1>13. ASSUME NEW x \in Gids, Leaves(x) PROVE Learned'
  BY <1>13 DEF Leaves, owner, agent, joins, revoke, Guest
<1>14. ASSUME NEW x \in Gids, StoresMachine(x) PROVE Learned'
  BY <1>14 DEF StoresMachine, owner, agent, joins, revoke, Guest
<1>15. ASSUME NEW x \in Gids, StoresGrant(x) PROVE Learned'
  BY <1>15 DEF StoresGrant, owner, agent, joins, revoke, Guest
<1>16. ASSUME NEW x \in Gids, RevokeSends(x) PROVE Learned'
  BY <1>16 DEF RevokeSends, owner, agent, joins, revoke, Revoking
<1>17. ASSUME NEW x \in Gids, MachineRevokes(x) PROVE Learned'
  BY <1>17 DEF MachineRevokes, owner, agent, joins, revoke, Revoking
<1>18. ASSUME NEW x \in Gids, RevokeUnconfirmed(x) PROVE Learned'
  BY <1>18 DEF RevokeUnconfirmed, owner, agent, joins, revoke, Revoking
<1>19. ASSUME NEW x \in Gids, MarksRevoked(x) PROVE Learned'
  BY <1>19 DEF MarksRevoked, owner, agent, joins, revoke, Revoking
<1>20. CASE UNCHANGED shareVars
  BY <1>20 DEF shareVars, owner, agent, joins, revoke
<1> QED
  BY <1>1, <1>2, <1>3, <1>4, <1>5, <1>6, <1>7, <1>8, <1>9, <1>10, <1>11, <1>12, <1>13, <1>14, <1>15, <1>16, <1>17, <1>18, <1>19, <1>20 DEF ShareNext

\* revokeGrantHandler: no later step gives the machine that was asked the grant back.
LEMMA RevokedStep ==
    ASSUME ShareShape, Learned, Revoked, [ShareNext]_shareVars
    PROVE  Revoked'
<1> USE DEF ShareShape, Learned, Revoked, OwnerAt, Sent, Delivered, GuestAt
<1>1. ASSUME Rename PROVE Revoked'
  BY <1>1 DEF Rename, owner, agent, joins, revoke
<1>2. ASSUME SweepReads PROVE Revoked'
  BY <1>2 DEF SweepReads, owner, agent, joins, revoke
<1>3. ASSUME SweepRemoves PROVE Revoked'
  BY <1>3 DEF SweepRemoves, owner, agent, joins, revoke
<1>4. ASSUME NEW x \in Gids, WindowCloses(x) PROVE Revoked'
  BY <1>4 DEF WindowCloses, owner, agent, joins, revoke
<1>5. ASSUME NEW x \in Gids, Invite(x) PROVE Revoked'
  BY <1>5 DEF Invite, owner, agent, joins, revoke, Owner
<1>6. ASSUME NEW x \in Gids, Declined(x) PROVE Revoked'
  BY <1>6 DEF Declined, owner, agent, joins, revoke, Owner
<1>7. ASSUME NEW x \in Gids, Agreed(x) PROVE Revoked'
  <2>1. inbox[x] = "none"
    BY <1>7 DEF Agreed
  <2>2. \A g \in Gids : inbox[g] = "acked" => inbox'[g] = "acked"
    BY <1>7, <2>1 DEF Agreed
  <2>3. UNCHANGED <<shares, rpc, asked, installed>>
    BY <1>7 DEF Agreed, agent, revoke
  <2> QED
    BY <2>2, <2>3
<1>8. ASSUME NEW x \in Gids, MachineAdds(x) PROVE Revoked'
  BY <1>8 DEF MachineAdds, owner, agent, joins, revoke
<1>9. ASSUME NEW x \in Gids, Acknowledged(x) PROVE Revoked'
  BY <1>9 DEF Acknowledged, owner, agent, joins, revoke, Owner
<1>10. ASSUME NEW x \in Gids, Unconfirmed(x) PROVE Revoked'
  BY <1>10 DEF Unconfirmed, owner, agent, joins, revoke, Owner
<1>11. ASSUME NEW x \in Gids, Tells(x) PROVE Revoked'
  BY <1>11 DEF Tells, owner, agent, joins, revoke, Owner, Guest
<1>12. ASSUME NEW x \in Gids, Join(x) PROVE Revoked'
  BY <1>12 DEF Join, owner, agent, joins, revoke, Owner, Guest
<1>13. ASSUME NEW x \in Gids, Leaves(x) PROVE Revoked'
  BY <1>13 DEF Leaves, owner, agent, joins, revoke, Guest
<1>14. ASSUME NEW x \in Gids, StoresMachine(x) PROVE Revoked'
  BY <1>14 DEF StoresMachine, owner, agent, joins, revoke, Guest
<1>15. ASSUME NEW x \in Gids, StoresGrant(x) PROVE Revoked'
  BY <1>15 DEF StoresGrant, owner, agent, joins, revoke, Guest
<1>16. ASSUME NEW x \in Gids, RevokeSends(x) PROVE Revoked'
  BY <1>16 DEF RevokeSends, owner, agent, joins, revoke, Revoking
<1>17. ASSUME NEW x \in Gids, MachineRevokes(x) PROVE Revoked'
  BY <1>17 DEF MachineRevokes, owner, agent, joins, revoke, Revoking
<1>18. ASSUME NEW x \in Gids, RevokeUnconfirmed(x) PROVE Revoked'
  BY <1>18 DEF RevokeUnconfirmed, owner, agent, joins, revoke, Revoking
<1>19. ASSUME NEW x \in Gids, MarksRevoked(x) PROVE Revoked'
  BY <1>19 DEF MarksRevoked, owner, agent, joins, revoke, Revoking
<1>20. CASE UNCHANGED shareVars
  BY <1>20 DEF shareVars, owner, agent, joins, revoke
<1> QED
  BY <1>1, <1>2, <1>3, <1>4, <1>5, <1>6, <1>7, <1>8, <1>9, <1>10, <1>11, <1>12, <1>13, <1>14, <1>15, <1>16, <1>17, <1>18, <1>19, <1>20 DEF ShareNext

\* AddMachine replaces an entry of its name only, and SweepGuestState keeps the entries of the
\* grants it found live: a join it did not cross is one of them.
LEMMA SweptStep ==
    ASSUME ShareShape, Learned, Swept, [ShareNext]_shareVars
    PROVE  Swept'
<1> USE DEF ShareShape, Learned, Swept, Displaced, OwnerAt, Sent, Delivered, GuestAt
<1>1. ASSUME Rename PROVE Swept'
  BY <1>1 DEF Rename, owner, agent, joins, revoke
<1>2. ASSUME SweepReads PROVE Swept'
  BY <1>2 DEF SweepReads, owner, agent, joins, revoke
<1>3. ASSUME SweepRemoves PROVE Swept'
  BY <1>3 DEF SweepRemoves, owner, agent, joins, revoke
<1>4. ASSUME NEW x \in Gids, WindowCloses(x) PROVE Swept'
  BY <1>4 DEF WindowCloses, owner, agent, joins, revoke
<1>5. ASSUME NEW x \in Gids, Invite(x) PROVE Swept'
  <2>1. /\ opc[x] = "idle" /\ opc' = [opc EXCEPT ![x] = "room"]
        /\ UNCHANGED <<gpc, closed, crossed, sweep, grants, entries>>
    BY <1>5 DEF Invite, Owner, agent, joins
  <2>2. \A g \in Gids : g # x => opc'[g] = opc[g] /\ target'[g] = target[g] /\ kept'[g] = kept[g]
    BY <1>5 DEF Invite, Owner
  <2>3. \A g \in Gids : opc[g] # "idle" => opc'[g] # "idle" /\ target'[g] = target[g] /\ kept'[g] = kept[g]
    BY <2>1, <2>2
  <2>4. \A g \in Gids : gpc[g] \in {"storing", "joined"} => opc[g] # "idle"
    OBVIOUS
  <2>5. ASSUME NEW g \in Gids, opc[g] # "idle", Displaced(g) PROVE Displaced(g)'
    BY <2>3, <2>5
  <2>6. ASSUME NEW g \in Gids, gpc[g] \in {"storing", "joined"}, g \notin closed \cup crossed
        PROVE  [id |-> target'[g], name |-> kept'[g]] \in entries \/ Displaced(g)'
    <3> HIDE DEF Displaced
    <3> QED
      BY <2>3, <2>4, <2>5, <2>6
  <2> HIDE DEF Displaced, ShareShape, Learned
  <2> QED
    BY <2>1, <2>6
<1>6. ASSUME NEW x \in Gids, Declined(x) PROVE Swept'
  BY <1>6 DEF Declined, owner, agent, joins, revoke, Owner
<1>7. ASSUME NEW x \in Gids, Agreed(x) PROVE Swept'
  BY <1>7 DEF Agreed, owner, agent, joins, revoke, Owner
<1>8. ASSUME NEW x \in Gids, MachineAdds(x) PROVE Swept'
  BY <1>8 DEF MachineAdds, owner, agent, joins, revoke
<1>9. ASSUME NEW x \in Gids, Acknowledged(x) PROVE Swept'
  BY <1>9 DEF Acknowledged, owner, agent, joins, revoke, Owner
<1>10. ASSUME NEW x \in Gids, Unconfirmed(x) PROVE Swept'
  BY <1>10 DEF Unconfirmed, owner, agent, joins, revoke, Owner
<1>11. ASSUME NEW x \in Gids, Tells(x) PROVE Swept'
  BY <1>11 DEF Tells, owner, agent, joins, revoke, Owner, Guest
<1>12. ASSUME NEW x \in Gids, Join(x) PROVE Swept'
  BY <1>12 DEF Join, owner, agent, joins, revoke, Owner, Guest
<1>13. ASSUME NEW x \in Gids, Leaves(x) PROVE Swept'
  BY <1>13 DEF Leaves, owner, agent, joins, revoke, Guest
<1>14. ASSUME NEW x \in Gids, StoresMachine(x) PROVE Swept'
  <2> DEFINE mine == [id |-> target[x], name |-> kept[x]]
  <2>1. gpc[x] = "told" /\ opc[x] = "shared"
    BY <1>14 DEF StoresMachine
  <2>2. UNCHANGED <<opc, target, kept, closed, sweep, grants>>
    BY <1>14 DEF StoresMachine, owner, agent
  <2>3. \A g \in Gids : g # x => gpc'[g] = gpc[g]
    BY <1>14 DEF StoresMachine, Guest
  <2>4. gpc'[x] # "joined" /\ (gpc'[x] = "storing" => mine \in entries')
    BY <1>14 DEF StoresMachine, Guest
  <2>5. crossed \subseteq crossed' /\ (sweep # <<>> => x \in crossed')
    BY <1>14 DEF StoresMachine
  <2>6. \A g \in Gids : Displaced(g) => Displaced(g)'
    BY <2>2
  <2>7. ASSUME NEW g \in Gids, [id |-> target[g], name |-> kept[g]] \in entries
        PROVE  [id |-> target[g], name |-> kept[g]] \in entries' \/ Displaced(g)'
    <3>1. CASE kept[g] # kept[x]
      BY <3>1, <2>7, <1>14 DEF StoresMachine
    <3>2. CASE kept[g] = kept[x] /\ target[g] # target[x]
      BY <3>2, <2>1, <2>2
    <3>3. CASE kept[g] = kept[x] /\ target[g] = target[x]
      BY <3>3, <2>7, <1>14 DEF StoresMachine
    <3> QED
      BY <3>1, <3>2, <3>3
  <2>8. ASSUME NEW g \in Gids, gpc'[g] \in {"storing", "joined"}, g \notin closed \cup crossed'
        PROVE  /\ sweep # <<>> => gpc'[g] = "joined" /\ g \in sweep[1]
               /\ gpc'[g] = "joined" => g \in grants
               /\ [id |-> target[g], name |-> kept[g]] \in entries' \/ Displaced(g)'
    <3>1. CASE g = x
      BY <3>1, <2>4, <2>5, <2>8
    <3>2. CASE g # x
      <4>1. gpc[g] \in {"storing", "joined"} /\ g \notin closed \cup crossed /\ gpc'[g] = gpc[g]
        BY <3>2, <2>3, <2>5, <2>8
      <4> HIDE DEF Displaced
      <4> QED
        BY <4>1, <2>6, <2>7
    <3> QED
      BY <3>1, <3>2
  <2> HIDE DEF Displaced
  <2> QED
    BY <2>2, <2>8
<1>15. ASSUME NEW x \in Gids, StoresGrant(x) PROVE Swept'
  BY <1>15 DEF StoresGrant, owner, agent, joins, revoke, Guest
<1>16. ASSUME NEW x \in Gids, RevokeSends(x) PROVE Swept'
  BY <1>16 DEF RevokeSends, owner, agent, joins, revoke, Revoking
<1>17. ASSUME NEW x \in Gids, MachineRevokes(x) PROVE Swept'
  BY <1>17 DEF MachineRevokes, owner, agent, joins, revoke, Revoking
<1>18. ASSUME NEW x \in Gids, RevokeUnconfirmed(x) PROVE Swept'
  BY <1>18 DEF RevokeUnconfirmed, owner, agent, joins, revoke, Revoking
<1>19. ASSUME NEW x \in Gids, MarksRevoked(x) PROVE Swept'
  BY <1>19 DEF MarksRevoked, owner, agent, joins, revoke, Revoking
<1>20. CASE UNCHANGED shareVars
  BY <1>20 DEF shareVars, owner, agent, joins, revoke
<1> QED
  BY <1>1, <1>2, <1>3, <1>4, <1>5, <1>6, <1>7, <1>8, <1>9, <1>10, <1>11, <1>12, <1>13, <1>14, <1>15, <1>16, <1>17, <1>18, <1>19, <1>20 DEF ShareNext

\* shareResolved, cmdShareRevoke, cmdJoin and SweepGuestState: whatever is lost, fails or
\* overlaps, the machine learns of a grant before its guest does, a record is marked revoked
\* only where the grant has ended, and a guest that joined finds the machine in its list.
THEOREM SharesStaySound == ShareSpec => []SharesSound
<1>1. ShareInit => ShareInv
  <2> SUFFICES ASSUME ShareInit PROVE ShareInv
    OBVIOUS
  <2>1. ShareShape
    BY DEF ShareInit, ShareShape, OwnerAt, GuestAt
  <2>2. Learned
    BY DEF ShareInit, Learned, Delivered
  <2>3. Revoked /\ Swept
    BY DEF ShareInit, Revoked, Swept
  <2> QED
    BY <2>1, <2>2, <2>3 DEF ShareInv
<1>2. ShareInv /\ [ShareNext]_shareVars => ShareInv'
  BY ShapeStep, LearnedStep, RevokedStep, SweptStep DEF ShareInv
<1>3. ShareInv => SharesSound
  <2> SUFFICES ASSUME ShareInv PROVE SharesSound
    OBVIOUS
  <2>1. AgentLearnsFirst
    BY DEF ShareInv, ShareShape, Learned, AgentLearnsFirst, Held, InForce, Sent, Delivered
  <2>2. RevokedWhereAsked
    BY DEF ShareInv, ShareShape, Learned, Revoked, RevokedWhereAsked, InForce
  <2>3. JoinedIsListed
    BY DEF ShareInv, ShareShape, Swept, Displaced, JoinedIsListed
  <2> QED
    BY <2>1, <2>2, <2>3 DEF SharesSound
<1> QED
  BY <1>1, <1>2, <1>3, PTL DEF ShareSpec
=============================================================================
