--------------------------- MODULE RelayBrokerProofs ---------------------------
(***************************************************************************)
(* What the broker guarantees for any number of slots, agents and          *)
(* browsers, whatever the agents send and in whichever order the           *)
(* goroutines of handleAgent and handleAttach run, and what its bounded    *)
(* tables guarantee (ProofStore, FlapCounter, RateLimiter) whatever they   *)
(* are asked.                                                              *)
(***************************************************************************)
EXTENDS RelayBroker, FlapCounter, RateLimiter, FiniteSetTheorems, NaturalsInduction,
        WellFoundedInduction, TLAPS

\* What the broker sends is a message.
LEMMA MessageTypes ==
    /\ \A k \in {"offline", "timeout", "revoked", "capacity"} : Error(k) \in Message
    /\ \A c \in Conns : Answer(c) \in Message
BY DEF Error, Answer, Message

\* notify leaves the other queues alone and appends to this one, or not.
LEMMA NotifyQueues ==
    ASSUME TypeOK, NEW b \in Browsers, NEW m \in Message, Notify(b, m)
    PROVE  /\ bOut' \in [Browsers -> Seq(Message)]
           /\ \A d \in Browsers : d # b => bOut'[d] = bOut[d]
           /\ bOut'[b] \in {bOut[b], Append(bOut[b], m)}
<1>1. bOut \in [Browsers -> Seq(Message)] /\ bOut[b] \in Seq(Message)
  BY DEF TypeOK
<1>2. Append(bOut[b], m) \in Seq(Message)
  BY <1>1
<1>3. bOut' = bOut \/ bOut' = [bOut EXCEPT ![b] = Append(bOut[b], m)]
  BY Zenon DEF Notify
<1> QED
  BY <1>1, <1>2, <1>3

\* notify with close keeps the types of both channels ...
LEMMA CloseTypes ==
    ASSUME TypeOK, NEW b \in Browsers, NEW m \in Message, NotifyAndClose(b, m)
    PROVE  bOut' \in [Browsers -> Seq(Message)] /\ bDone' \subseteq Browsers
BY NotifyQueues DEF NotifyAndClose, TypeOK

\* ... and so does agentSend.
LEMMA SendTypes ==
    ASSUME TypeOK, NEW c, NEW b \in Browsers, AgentSend(c, b)
    PROVE  bOut' \in [Browsers -> Seq(Message)] /\ bDone' \subseteq Browsers
BY CloseTypes, MessageTypes DEF AgentSend, chanVars, TypeOK

USE DEF agentVars, tearVars, mapVars, chanVars, attachVars

\* An attach that went past its lookup, and its reader, captured an agent.
Captured ==
    \A b \in Browsers :
        (bPc[b] \in {"binding", "notify", "serving"} \/ rPc[b] # "off") => bAgent[b] \in Conns

\* Every step of the broker keeps the types of its variables.
LEMMA TypeStep ==
    ASSUME TypeOK, Captured, [Next]_vars
    PROVE  TypeOK'
<1> USE BrokerAssumption
<1>1. ASSUME NEW c \in Conns, AgentCheck(c) PROVE TypeOK'
  BY <1>1 DEF AgentCheck, TypeOK
<1>2. ASSUME NEW c \in Conns, AgentRefused(c) PROVE TypeOK'
  BY <1>2 DEF AgentRefused, TypeOK
<1>3. ASSUME NEW c \in Conns, AgentRegister(c) PROVE TypeOK'
  BY <1>3 DEF AgentRegister, TypeOK
<1>4. ASSUME NEW c \in Conns, AgentReadError(c) PROVE TypeOK'
  BY <1>4 DEF AgentReadError, TypeOK
<1>4a. ASSUME NEW c \in Conns, AgentLeave(c) PROVE TypeOK'
  BY <1>4a DEF AgentLeave, TypeOK
<1>5. ASSUME NEW c \in Conns, NEW b \in Browsers, AgentAnswer(c, b) PROVE TypeOK'
  <2>1. bOut' \in [Browsers -> Seq(Message)] /\ bDone' \subseteq Browsers
    BY <1>5, CloseTypes, MessageTypes DEF AgentAnswer
  <2> QED
    BY <1>5, <2>1 DEF AgentAnswer, TypeOK
<1>6. ASSUME NEW c \in Conns, TeardownSnapshot(c) PROVE TypeOK'
  BY <1>6 DEF TeardownSnapshot, TypeOK
<1>6a. ASSUME NEW c \in Conns, TeardownClose(c) PROVE TypeOK'
  BY <1>6a DEF TeardownClose, TypeOK
<1>7. ASSUME NEW c \in Conns, NEW b \in Browsers, TeardownFail(c, b) PROVE TypeOK'
  <2>1. bOut' \in [Browsers -> Seq(Message)] /\ bDone' \subseteq Browsers
    BY <1>7, CloseTypes, MessageTypes DEF TeardownFail
  <2> QED
    BY <1>7, <2>1 DEF TeardownFail, TypeOK
<1>8. ASSUME NEW s \in Slots, Revoke(s) PROVE TypeOK'
  BY <1>8 DEF Revoke, TypeOK
<1>9. ASSUME NEW b \in Browsers, NEW s \in Slots, AttachLookup(b, s) PROVE TypeOK'
  <2>1. CASE \E k \in {"revoked", "offline"} : Refuse(b, k) /\ UNCHANGED bAgent
    BY <1>9, <2>1, MessageTypes DEF AttachLookup, Refuse, TypeOK
  <2>2. CASE /\ bAgent' = [bAgent EXCEPT ![b] = agents[s]]
             /\ bPc' = [bPc EXCEPT ![b] = "binding"]
             /\ UNCHANGED got
    BY <1>9, <2>2 DEF AttachLookup, TypeOK
  <2> QED
    BY <1>9, <2>1, <2>2 DEF AttachLookup
<1>10. ASSUME NEW b \in Browsers, AttachBind(b) PROVE TypeOK'
  <2>1. CASE \E k \in {"capacity", "offline"} : Refuse(b, k) /\ UNCHANGED <<sessions, timer>>
    BY <1>10, <2>1, MessageTypes DEF AttachBind, Refuse, TypeOK
  <2>2. CASE /\ sessions' = [sessions EXCEPT ![bAgent[b]] = @ \cup {b}]
             /\ timer' = timer \cup {b}
             /\ bPc' = [bPc EXCEPT ![b] = "notify"]
             /\ UNCHANGED got
    BY <1>10, <2>2 DEF AttachBind, TypeOK
  <2> QED
    BY <1>10, <2>1, <2>2 DEF AttachBind
<1>11. ASSUME NEW b \in Browsers, AttachNotify(b) PROVE TypeOK'
  <2>1. bOut' \in [Browsers -> Seq(Message)] /\ bDone' \subseteq Browsers
    BY <1>11, SendTypes DEF AttachNotify
  <2> QED
    BY <1>11, <2>1 DEF AttachNotify, TypeOK
<1>12. ASSUME NEW b \in Browsers, BrowserOffer(b) PROVE TypeOK'
  BY <1>12 DEF BrowserOffer, TypeOK
<1>13. ASSUME NEW b \in Browsers, OfferLookup(b) PROVE TypeOK'
  <2> DEFINE found == agents[aSlot[bAgent[b]]]
  <2>1. CASE found = NoConn /\ NotifyAndClose(b, Error("offline")) /\ UNCHANGED rAgent
             /\ rPc' = [rPc EXCEPT ![b] = "stopped"]
    <3>1. bOut' \in [Browsers -> Seq(Message)] /\ bDone' \subseteq Browsers
      BY <2>1, CloseTypes, MessageTypes
    <3> QED
      BY <1>13, <2>1, <3>1 DEF OfferLookup, TypeOK
  <2>2. CASE found # NoConn /\ rAgent' = [rAgent EXCEPT ![b] = found] /\ UNCHANGED chanVars
             /\ rPc' = [rPc EXCEPT ![b] = "send"]
    <3>1. found \in Conns
      BY <1>13, <2>2 DEF OfferLookup, TypeOK, Captured
    <3> QED
      BY <1>13, <2>2, <3>1 DEF OfferLookup, TypeOK
  <2> QED
    BY <1>13, <2>1, <2>2 DEF OfferLookup
<1>14. ASSUME NEW b \in Browsers, OfferSend(b) PROVE TypeOK'
  <2>1. bOut' \in [Browsers -> Seq(Message)] /\ bDone' \subseteq Browsers
    BY <1>14, SendTypes DEF OfferSend
  <2> QED
    BY <1>14, <2>1 DEF OfferSend, TypeOK
<1>15. ASSUME NEW b \in Browsers, DeadlineFires(b) PROVE TypeOK'
  <2>1. bOut' \in [Browsers -> Seq(Message)] /\ bDone' \subseteq Browsers
    BY <1>15, CloseTypes, MessageTypes DEF DeadlineFires
  <2> QED
    BY <1>15, <2>1 DEF DeadlineFires, TypeOK
<1>16. ASSUME NEW b \in Browsers, BrowserDies(b) \/ BrowserReadError(b) PROVE TypeOK'
  BY <1>16 DEF BrowserDies, BrowserReadError, TypeOK
<1>17. ASSUME NEW b \in Browsers, BrowserWrite(b) PROVE TypeOK'
  <2>1. bOut[b] \in Seq(Message) /\ bOut[b] # <<>>
    BY <1>17 DEF BrowserWrite, TypeOK
  <2>2. Head(bOut[b]) \in Message /\ Tail(bOut[b]) \in Seq(Message) /\ <<>> \in Seq(Message)
    BY <2>1
  <2>3. CASE b \in alive
    <3>1. /\ got' = [got EXCEPT ![b] = IF @ = {} THEN {Head(bOut[b])} ELSE @]
          /\ bOut' = [bOut EXCEPT ![b] = Tail(@)]
          /\ UNCHANGED <<sessions, timer, bDone, bPc, rPc, rAgent>>
      BY <1>17, <2>3 DEF BrowserWrite
    <3>2. got' \in [Browsers -> SUBSET Message]
      BY <2>2, <3>1 DEF TypeOK
    <3>3. bOut' \in [Browsers -> Seq(Message)]
      BY <2>2, <3>1 DEF TypeOK
    <3> QED
      BY <1>17, <3>1, <3>2, <3>3 DEF BrowserWrite, TypeOK
  <2>4. CASE b \notin alive
    <3>1. Finish(b) /\ bOut' = [bOut EXCEPT ![b] = <<>>] /\ UNCHANGED got
      BY <1>17, <2>4 DEF BrowserWrite
    <3> QED
      BY <1>17, <2>2, <3>1 DEF BrowserWrite, Finish, TypeOK
  <2> QED
    BY <2>3, <2>4
<1>18. ASSUME NEW b \in Browsers, BrowserClose(b) PROVE TypeOK'
  BY <1>18 DEF BrowserClose, Finish, TypeOK
<1>19. CASE UNCHANGED vars
  BY <1>19 DEF vars, TypeOK
<1> QED
  BY <1>1, <1>2, <1>3, <1>4, <1>4a, <1>5, <1>6, <1>6a, <1>7, <1>8, <1>9, <1>10, <1>11, <1>12, <1>13,
     <1>14, <1>15, <1>16, <1>17, <1>18, <1>19 DEF Next, AgentStep, BrowserStep

-----------------------------------------------------------------------------
(* Who changes what.                                                       *)

\* Only a registration, a leaving agent and a revocation touch the tables of s.mu.
LEMMA MapSteps ==
    ASSUME [Next]_vars
    PROVE  \/ UNCHANGED <<agents, proofs, revoked, aSlot, aProof>>
           \/ \E c \in Conns : AgentRegister(c) \/ AgentLeave(c)
           \/ \E s \in Slots : Revoke(s)
BY DEF Next, AgentStep, BrowserStep, vars, AgentCheck, AgentRefused, AgentReadError, AgentAnswer,
       TeardownSnapshot, TeardownClose, TeardownFail, AttachLookup, AttachBind, AttachNotify,
       BrowserOffer, OfferLookup, OfferSend, DeadlineFires, BrowserDies, BrowserReadError,
       BrowserWrite, BrowserClose

\* Only a teardown, a bind and the end of an attach touch the bound sessions.
LEMMA SessionSteps ==
    ASSUME [Next]_vars
    PROVE  \/ UNCHANGED sessions
           \/ \E c \in Conns : TeardownSnapshot(c)
           \/ \E b \in Browsers : AttachBind(b) \/ Finish(b)
BY DEF Next, AgentStep, BrowserStep, vars, AgentCheck, AgentRefused, AgentRegister,
       AgentReadError, AgentLeave, AgentAnswer, Revoke,
       TeardownClose, TeardownFail, AttachLookup, AttachNotify,
       BrowserOffer, OfferLookup, OfferSend, DeadlineFires, BrowserDies, BrowserReadError,
       BrowserWrite, BrowserClose

\* The agent an attach captured is set once, by the lookup of an idle attach.
LEMMA CaptureSteps ==
    ASSUME [Next]_vars
    PROVE  \/ UNCHANGED bAgent
           \/ \E b \in Browsers, s \in Slots : AttachLookup(b, s)
BY DEF Next, AgentStep, BrowserStep, vars, AgentCheck, AgentRefused, AgentRegister,
       AgentReadError, AgentLeave, AgentAnswer, Revoke, TeardownSnapshot,
       TeardownClose, TeardownFail, AttachBind, AttachNotify,
       BrowserOffer, OfferLookup, OfferSend, DeadlineFires, BrowserDies, BrowserReadError,
       BrowserWrite, BrowserClose

\* A capture lasts as long as the attach.
LEMMA CapturedStep ==
    ASSUME TypeOK, Captured, [Next]_vars
    PROVE  Captured'
<1> USE BrokerAssumption
<1>1. ASSUME NEW b \in Browsers, NEW s \in Slots, AttachLookup(b, s) PROVE Captured'
  <2>1. CASE UNCHANGED bAgent
    BY <1>1, <2>1 DEF AttachLookup, Refuse, TypeOK, Captured
  <2>2. CASE /\ agents[s] \in Conns
             /\ bAgent' = [bAgent EXCEPT ![b] = agents[s]]
             /\ bPc' = [bPc EXCEPT ![b] = "binding"]
    BY <1>1, <2>2 DEF AttachLookup, TypeOK, Captured
  <2> QED
    BY <1>1, <2>1, <2>2 DEF AttachLookup, TypeOK
<1>2. ASSUME NEW b \in Browsers, AttachBind(b) PROVE Captured'
  BY <1>2 DEF AttachBind, Refuse, TypeOK, Captured
<1>3. ASSUME NEW b \in Browsers, AttachNotify(b) PROVE Captured'
  BY <1>3 DEF AttachNotify, TypeOK, Captured
<1>4. ASSUME NEW b \in Browsers, BrowserOffer(b) \/ OfferLookup(b) \/ OfferSend(b)
      PROVE Captured'
  BY <1>4 DEF BrowserOffer, OfferLookup, OfferSend, TypeOK, Captured
<1>5. ASSUME NEW b \in Browsers, BrowserReadError(b) PROVE Captured'
  BY <1>5 DEF BrowserReadError, TypeOK, Captured
<1>6. ASSUME NEW b \in Browsers, BrowserWrite(b) \/ BrowserClose(b) PROVE Captured'
  BY <1>6 DEF BrowserWrite, BrowserClose, Finish, TypeOK, Captured
<1>7. CASE UNCHANGED <<bPc, bAgent, rPc>>
  BY <1>7 DEF Captured
<1> QED
  BY <1>1, <1>2, <1>3, <1>4, <1>5, <1>6, <1>7
  DEF Next, AgentStep, BrowserStep, vars, AgentCheck, AgentRefused, AgentRegister,
      AgentReadError, AgentLeave, AgentAnswer, Revoke, TeardownSnapshot, TeardownClose,
      TeardownFail, DeadlineFires, BrowserDies

\* The variables keep their types in every reachable state.
THEOREM TypeCorrect == Spec => []TypeOK
<1>1. Init => TypeOK /\ Captured
  BY DEF Init, TypeOK, Captured
<1>2. TypeOK /\ Captured /\ [Next]_vars => (TypeOK /\ Captured)'
  BY TypeStep, CapturedStep
<1> QED
  BY <1>1, <1>2, PTL DEF Spec

-----------------------------------------------------------------------------
(* Registration.                                                           *)

\* No machine is both revoked and registered (postRevocation against handleAgent): the
\* re-check under s.mu and the tombstone with the removed slot are each one critical section.
THEOREM NeverRevokedAndLive == Spec => []RevokedNotLive
<1>1. Init => RevokedNotLive
  BY DEF Init, RevokedNotLive
<1>2. TypeOK /\ RevokedNotLive /\ [Next]_vars => RevokedNotLive'
  <2> SUFFICES ASSUME TypeOK, RevokedNotLive, [Next]_vars PROVE RevokedNotLive'
    OBVIOUS
  <2>1. CASE UNCHANGED <<agents, proofs, revoked, aSlot, aProof>>
    BY <2>1 DEF RevokedNotLive
  <2>2. ASSUME NEW c \in Conns, AgentRegister(c) PROVE RevokedNotLive'
    BY <2>2 DEF AgentRegister, MayRegister, RevokedNotLive, TypeOK
  <2>3. ASSUME NEW c \in Conns, AgentLeave(c) PROVE RevokedNotLive'
    BY <2>3 DEF AgentLeave, RevokedNotLive, TypeOK
  <2>4. ASSUME NEW s \in Slots, Revoke(s) PROVE RevokedNotLive'
    BY <2>4 DEF Revoke, RevokedNotLive, TypeOK
  <2> QED
    BY <2>1, <2>2, <2>3, <2>4, MapSteps
<1> QED
  BY <1>1, <1>2, TypeCorrect, PTL DEF Spec

\* Once a slot has learned a proof only agents presenting it hold the slot: handleAgent
\* checks the proof again where it takes the slot, and learns it in that same step.
THEOREM ProofOwnsSlot == Spec => []SlotOwnedByProof
<1> USE BrokerAssumption
<1>1. Init => SlotOwnedByProof
  BY DEF Init, SlotOwnedByProof
<1>2. TypeOK /\ SlotOwnedByProof /\ [Next]_vars => SlotOwnedByProof'
  <2> SUFFICES ASSUME TypeOK, SlotOwnedByProof, [Next]_vars PROVE SlotOwnedByProof'
    OBVIOUS
  <2>1. CASE UNCHANGED <<agents, proofs, revoked, aSlot, aProof>>
    BY <2>1 DEF SlotOwnedByProof
  <2>2. ASSUME NEW c \in Conns, AgentRegister(c) PROVE SlotOwnedByProof'
    BY <2>2 DEF AgentRegister, MayRegister, ProofOK, SlotOwnedByProof, TypeOK
  <2>3. ASSUME NEW c \in Conns, AgentLeave(c) PROVE SlotOwnedByProof'
    BY <2>3 DEF AgentLeave, SlotOwnedByProof, TypeOK
  <2>4. ASSUME NEW s \in Slots, Revoke(s) PROVE SlotOwnedByProof'
    BY <2>4 DEF Revoke, SlotOwnedByProof, TypeOK
  <2> QED
    BY <2>1, <2>2, <2>3, <2>4, MapSteps
<1> QED
  BY <1>1, <1>2, TypeCorrect, PTL DEF Spec

-----------------------------------------------------------------------------
(* Answers.                                                                *)

\* notify adds at most its message to what its browser is sent, and nothing elsewhere.
LEMMA NotifySent ==
    ASSUME TypeOK, NEW b \in Browsers, NEW m \in Message, Notify(b, m), UNCHANGED got
    PROVE  \A d \in Browsers : \A x \in Sent(d)' : x \in Sent(d) \/ (d = b /\ x = m)
<1>1. /\ bOut' \in [Browsers -> Seq(Message)]
      /\ \A d \in Browsers : d # b => bOut'[d] = bOut[d]
      /\ bOut'[b] \in {bOut[b], Append(bOut[b], m)}
  BY NotifyQueues
<1>2. ASSUME NEW d \in Browsers, d # b PROVE Sent(d)' = Sent(d)
  BY <1>1, <1>2 DEF Sent
<1>3. ASSUME NEW x \in Sent(b)', x # m PROVE x \in Sent(b)
  <2>1. CASE bOut'[b] = bOut[b]
    BY <1>3, <2>1 DEF Sent
  <2>2. CASE bOut'[b] = Append(bOut[b], m) /\ x \notin got[b]
    <3>1. bOut[b] \in Seq(Message)
      BY DEF TypeOK
    <3>2. PICK i \in DOMAIN Append(bOut[b], m) : x = Append(bOut[b], m)[i]
      BY <1>3, <2>2 DEF Sent
    <3>3. i \in DOMAIN bOut[b] /\ x = bOut[b][i]
      BY <1>3, <3>1, <3>2
    <3> QED
      BY <3>3 DEF Sent
  <2> QED
    BY <1>1, <2>1, <2>2 DEF Sent
<1> QED
  BY <1>2, <1>3

\* agentSend tells the browser at most that the agent is offline.
LEMMA SendSent ==
    ASSUME TypeOK, NEW c, NEW b \in Browsers, AgentSend(c, b), UNCHANGED got
    PROVE  \A d \in Browsers : \A x \in Sent(d)' : x \in Sent(d) \/ x.kind # "answer"
<1>1. CASE UNCHANGED chanVars
  BY <1>1 DEF Sent
<1>2. CASE NotifyAndClose(b, Error("offline"))
  BY <1>2, NotifySent, MessageTypes DEF NotifyAndClose, Error
<1> QED
  BY <1>1, <1>2 DEF AgentSend

\* An answer that is new to a browser comes from an agent the browser is bound to.
OwnAnswersOnly ==
    \A d \in Browsers : \A x \in Sent(d)' :
        \/ x \in Sent(d)
        \/ x.kind # "answer"
        \/ \E c \in Conns : x = Answer(c) /\ d \in sessions[c]

\* No step sends a browser an answer of an agent it is not bound to.
LEMMA AnswerSteps ==
    ASSUME TypeOK, [Next]_vars
    PROVE  OwnAnswersOnly
<1>1. ASSUME NEW c \in Conns, NEW b \in Browsers, AgentAnswer(c, b) PROVE OwnAnswersOnly
  <2>1. UNCHANGED got /\ Notify(b, Answer(c)) /\ Answer(c) \in Message /\ b \in sessions[c]
    BY <1>1, MessageTypes DEF AgentAnswer, NotifyAndClose
  <2> QED
    BY <2>1, NotifySent DEF OwnAnswersOnly
<1>2. ASSUME NEW c \in Conns, NEW b \in Browsers, TeardownFail(c, b) PROVE OwnAnswersOnly
  <2>1. UNCHANGED got /\ Notify(b, Error("offline")) /\ Error("offline") \in Message
    BY <1>2, MessageTypes DEF TeardownFail, NotifyAndClose
  <2> QED
    BY <2>1, NotifySent DEF OwnAnswersOnly, Error
<1>3. ASSUME NEW b \in Browsers, DeadlineFires(b) PROVE OwnAnswersOnly
  <2>1. UNCHANGED got /\ Notify(b, Error("timeout")) /\ Error("timeout") \in Message
    BY <1>3, MessageTypes DEF DeadlineFires, NotifyAndClose
  <2> QED
    BY <2>1, NotifySent DEF OwnAnswersOnly, Error
<1>4. ASSUME NEW b \in Browsers, AttachNotify(b) PROVE OwnAnswersOnly
  BY <1>4, SendSent DEF AttachNotify, OwnAnswersOnly
<1>5. ASSUME NEW b \in Browsers, OfferSend(b) PROVE OwnAnswersOnly
  BY <1>5, SendSent DEF OfferSend, OwnAnswersOnly
<1>6. ASSUME NEW b \in Browsers, OfferLookup(b) PROVE OwnAnswersOnly
  <2>1. CASE UNCHANGED chanVars
    BY <1>6, <2>1 DEF OfferLookup, OwnAnswersOnly, Sent
  <2>2. CASE NotifyAndClose(b, Error("offline"))
    BY <1>6, <2>2, NotifySent, MessageTypes DEF OfferLookup, NotifyAndClose, OwnAnswersOnly, Error
  <2> QED
    BY <1>6, <2>1, <2>2 DEF OfferLookup
<1>7. ASSUME NEW b \in Browsers, NEW k \in {"offline", "revoked", "capacity"},
             Refuse(b, k), UNCHANGED bOut
      PROVE  OwnAnswersOnly
  BY <1>7 DEF Refuse, OwnAnswersOnly, Sent, Error, TypeOK
<1>8. ASSUME NEW b \in Browsers, BrowserWrite(b) PROVE OwnAnswersOnly
  <2>1. bOut[b] \in Seq(Message) /\ bOut[b] # <<>> /\ bOut \in [Browsers -> Seq(Message)]
        /\ got \in [Browsers -> SUBSET Message]
    BY <1>8 DEF BrowserWrite, TypeOK
  <2>2. Head(bOut[b]) \in Sent(b)
    BY <2>1 DEF Sent
  <2>3. \A d \in Browsers : got'[d] \subseteq Sent(d)
    BY <1>8, <2>1, <2>2 DEF BrowserWrite, Sent
  <2>4. ASSUME NEW d \in Browsers, NEW i \in DOMAIN bOut'[d]
        PROVE bOut'[d][i] \in Sent(d)
    <3>1. CASE d # b
      BY <1>8, <2>1, <3>1 DEF BrowserWrite, Sent
    <3>2. CASE d = b /\ bOut' = [bOut EXCEPT ![b] = <<>>]
      BY <2>1, <3>2
    <3>3. CASE d = b /\ bOut' = [bOut EXCEPT ![b] = Tail(@)]
      <4>1. bOut'[b] = Tail(bOut[b]) /\ i \in 1 .. Len(Tail(bOut[b]))
        BY <2>1, <3>3
      <4>2. i + 1 \in DOMAIN bOut[b] /\ Tail(bOut[b])[i] = bOut[b][i + 1]
        BY <2>1, <4>1
      <4> QED
        BY <3>3, <4>1, <4>2 DEF Sent
    <3> QED
      BY <1>8, <3>1, <3>2, <3>3 DEF BrowserWrite
  <2> QED
    BY <2>3, <2>4 DEF OwnAnswersOnly, Sent
<1>9. CASE UNCHANGED <<bOut, got>>
  BY <1>9 DEF OwnAnswersOnly, Sent
<1>10. ASSUME NEW b \in Browsers, NEW s \in Slots, AttachLookup(b, s) PROVE OwnAnswersOnly
  BY <1>7, <1>9, <1>10 DEF AttachLookup
<1>11. ASSUME NEW b \in Browsers, AttachBind(b) PROVE OwnAnswersOnly
  BY <1>7, <1>9, <1>11 DEF AttachBind
<1> QED
  BY <1>1, <1>2, <1>3, <1>4, <1>5, <1>6, <1>8, <1>9, <1>10, <1>11
  DEF Next, AgentStep, BrowserStep, vars, AgentCheck, AgentRefused, AgentRegister,
      AgentReadError, AgentLeave, Revoke, TeardownSnapshot, TeardownClose,
      BrowserOffer, BrowserDies, BrowserReadError, BrowserClose

\* A session in an agent's table captured that agent, an attach that looked nothing up
\* captured none, and what it was answered comes from the agent it captured.
Routed ==
    /\ \A c \in Conns : \A b \in sessions[c] : bAgent[b] = c
    /\ \A b \in Browsers : bPc[b] = "idle" => bAgent[b] = NoConn
    /\ \A b \in Browsers : \A m \in Sent(b) : m.kind = "answer" => m.from \in Conns /\ m.from = bAgent[b]

\* The routing invariant holds initially and in every step, with the types and captures.
LEMMA RoutedStep ==
    ASSUME TypeOK, Captured, Routed, [Next]_vars
    PROVE  Routed'
<1> USE BrokerAssumption
<1>1. \A b \in Browsers : bPc[b] # "idle" => bAgent'[b] = bAgent[b]
  <2>1. CASE UNCHANGED bAgent
    BY <2>1
  <2>2. ASSUME NEW b \in Browsers, NEW s \in Slots, AttachLookup(b, s)
        PROVE \A d \in Browsers : bPc[d] # "idle" => bAgent'[d] = bAgent[d]
    BY <2>2 DEF AttachLookup, TypeOK
  <2> QED
    BY <2>1, <2>2, CaptureSteps
<1>2. \A b \in Browsers : bPc'[b] = "idle" => bPc[b] = "idle" /\ bAgent'[b] = bAgent[b]
  <2>1. ASSUME NEW b \in Browsers, NEW s \in Slots, AttachLookup(b, s)
        PROVE \A d \in Browsers : bPc'[d] = "idle" => bPc[d] = "idle" /\ bAgent'[d] = bAgent[d]
    BY <2>1 DEF AttachLookup, Refuse, TypeOK
  <2>2. ASSUME NEW b \in Browsers, BrowserStep(b)
        PROVE \A d \in Browsers : bPc'[d] = "idle" => bPc[d] = "idle" /\ bAgent'[d] = bAgent[d]
    <3>1. UNCHANGED bAgent /\ bPc' \in {bPc, [bPc EXCEPT ![b] = "ended"], [bPc EXCEPT ![b] = "notify"],
                        [bPc EXCEPT ![b] = "serving"]}
      BY <2>2 DEF BrowserStep, AttachBind, Refuse, AttachNotify, OfferLookup, OfferSend,
                  BrowserReadError, BrowserWrite, BrowserClose, Finish
    <3> QED
      BY <3>1 DEF TypeOK
  <2>3. CASE UNCHANGED <<bPc, bAgent>>
    BY <2>3
  <2> QED
    BY <2>1, <2>2, <2>3
    DEF Next, AgentStep, vars, AgentCheck, AgentRefused, AgentRegister,
        AgentReadError, AgentLeave, AgentAnswer, Revoke, TeardownSnapshot, TeardownClose,
        TeardownFail, BrowserOffer, DeadlineFires, BrowserDies
<1>3. \A c \in Conns : \A b \in sessions[c] : bPc[b] # "idle" /\ bAgent'[b] = c
  BY <1>1 DEF Routed, TypeOK
<1>4. \A c \in Conns : \A b \in sessions'[c] : bAgent'[b] = c
  <2>1. CASE UNCHANGED sessions
    BY <1>3, <2>1
  <2>2. ASSUME NEW c \in Conns, TeardownSnapshot(c)
        PROVE \A a \in Conns : \A b \in sessions'[a] : bAgent'[b] = a
    BY <1>3, <2>2 DEF TeardownSnapshot, TypeOK
  <2>3. ASSUME NEW b \in Browsers, AttachBind(b)
        PROVE \A a \in Conns : \A d \in sessions'[a] : bAgent'[d] = a
    <3>1. UNCHANGED bAgent /\ bPc[b] = "binding"
      BY <2>3 DEF AttachBind
    <3>2. sessions' \in {sessions, [sessions EXCEPT ![bAgent[b]] = @ \cup {b}]}
      BY <2>3 DEF AttachBind
    <3>3. DOMAIN sessions = Conns /\ bAgent[b] \in Conns
      BY <3>1 DEF Captured, TypeOK
    <3>4. \A a \in Conns : \A d \in sessions'[a] : d \in sessions[a] \/ (d = b /\ a = bAgent[b])
      BY <3>2, <3>3
    <3> QED
      BY <1>3, <3>1, <3>4
  <2>4. ASSUME NEW b \in Browsers, Finish(b)
        PROVE \A a \in Conns : \A d \in sessions'[a] : bAgent'[d] = a
    BY <1>3, <2>4 DEF Finish, TypeOK
  <2> QED
    BY <2>1, <2>2, <2>3, <2>4, SessionSteps
<1>5. \A b \in Browsers : \A m \in Sent(b)' :
         m.kind = "answer" => m.from \in Conns /\ m.from = bAgent'[b]
  <2> SUFFICES ASSUME NEW b \in Browsers, NEW m \in Sent(b)', m.kind = "answer"
               PROVE  m.from \in Conns /\ m.from = bAgent'[b]
    OBVIOUS
  <2>1. CASE m \in Sent(b)
    BY <1>1, <2>1 DEF Routed
  <2>2. CASE m \notin Sent(b)
    BY <1>3, <2>2, AnswerSteps DEF OwnAnswersOnly, Answer
  <2> QED
    BY <2>1, <2>2
<1> QED
  BY <1>2, <1>4, <1>5 DEF Routed

\* An answer only ever reaches the session of the agent that sent it (agentConn.session),
\* whatever sessions agents claim to answer and however often a slot changes hands.
THEOREM AnswersRouted == Spec => []AnswerFromOwnAgent
<1>1. Init => TypeOK /\ Captured /\ Routed
  BY DEF Init, TypeOK, Captured, Routed, Sent
<1>2. TypeOK /\ Captured /\ Routed /\ [Next]_vars => (TypeOK /\ Captured /\ Routed)'
  BY TypeStep, CapturedStep, RoutedStep
<1>3. Routed => AnswerFromOwnAgent
  BY DEF Routed, AnswerFromOwnAgent
<1> QED
  BY <1>1, <1>2, <1>3, PTL DEF Spec

-----------------------------------------------------------------------------
(* Sessions and how they end.                                              *)

\* Every agent's table of sessions is finite and within the cap.
Capped == \A c \in Conns : IsFiniteSet(sessions[c]) /\ Cardinality(sessions[c]) <= MaxSessions

\* bind refuses at the cap, and a session leaves the table it is in.
LEMMA CappedStep ==
    ASSUME TypeOK, Captured, Capped, [Next]_vars
    PROVE  Capped'
<1> USE BrokerAssumption
<1>0. Capped /\ sessions \in [Conns -> SUBSET Browsers]
  BY DEF TypeOK
<1>1. CASE UNCHANGED sessions
  BY <1>0, <1>1 DEF Capped
<1>2. ASSUME NEW c \in Conns, TeardownSnapshot(c) PROVE Capped'
  <2>1. sessions' = [sessions EXCEPT ![c] = {}]
    BY <1>2 DEF TeardownSnapshot
  <2> QED
    BY <1>0, <2>1, FS_EmptySet DEF Capped
<1>3. ASSUME NEW b \in Browsers, AttachBind(b) PROVE Capped'
  <2> DEFINE c == bAgent[b]
  <2>1. c \in Conns
    BY <1>3 DEF AttachBind, Captured
  <2>2. CASE UNCHANGED sessions
    BY <1>1, <2>2
  <2>3. CASE /\ ~(Cardinality(sessions[c]) >= MaxSessions)
             /\ sessions' = [sessions EXCEPT ![c] = @ \cup {b}]
    <3>1. IsFiniteSet(sessions[c]) /\ Cardinality(sessions[c]) \in Nat
      BY <1>0, <2>1, FS_CardinalityType DEF Capped
    <3>2. IsFiniteSet(sessions[c] \cup {b})
          /\ Cardinality(sessions[c] \cup {b}) \in {Cardinality(sessions[c]), Cardinality(sessions[c]) + 1}
      BY <3>1, FS_AddElement
    <3>3. Cardinality(sessions[c] \cup {b}) <= MaxSessions
      BY <2>3, <3>1, <3>2
    <3> QED
      BY <1>0, <2>1, <2>3, <3>2, <3>3 DEF Capped
  <2> QED
    BY <1>3, <2>2, <2>3 DEF AttachBind
<1>4. ASSUME NEW b \in Browsers, Finish(b) PROVE Capped'
  <2> DEFINE c == bAgent[b]
  <2>1. sessions' = [sessions EXCEPT ![c] = @ \ {b}]
    BY <1>4 DEF Finish
  <2>2. CASE c \in Conns
    <3>1. IsFiniteSet(sessions[c]) /\ Cardinality(sessions[c]) \in Nat
          /\ Cardinality(sessions[c]) <= MaxSessions
      BY <1>0, <2>2, FS_CardinalityType DEF Capped
    <3>2. IsFiniteSet(sessions[c] \ {b})
          /\ Cardinality(sessions[c] \ {b}) \in {Cardinality(sessions[c]), Cardinality(sessions[c]) - 1}
      BY <3>1, FS_RemoveElement
    <3>3. Cardinality(sessions[c] \ {b}) <= MaxSessions
      BY <3>1, <3>2
    <3> QED
      BY <1>0, <2>1, <2>2, <3>2, <3>3 DEF Capped
  <2>3. CASE c \notin Conns
    BY <1>0, <2>1, <2>3 DEF Capped
  <2> QED
    BY <2>2, <2>3
<1> QED
  BY <1>1, <1>2, <1>3, <1>4, SessionSteps

\* Whoever closes done has queued a message, found the queue full or found the browser gone.
Reason(b) == bPc[b] = "ended" \/ bOut[b] # <<>> \/ got[b] # {} \/ b \notin alive

\* A closed session has its reason, and one that ended with its socket up was told it.
Explained ==
    /\ \A b \in bDone : Reason(b)
    /\ ToldWhy

\* notify followed by close leaves a reason behind.
LEMMA CloseReason ==
    ASSUME TypeOK, Explained, NEW b \in Browsers, NEW m \in Message, NotifyAndClose(b, m),
           UNCHANGED <<got, alive>>,
           \A d \in Browsers : bPc'[d] = "ended" <=> bPc[d] = "ended"
    PROVE  Explained'
<1> USE BrokerAssumption
<1>1. ASSUME NEW d \in bDone', d # b PROVE Reason(d)'
  BY <1>1, NotifyQueues DEF NotifyAndClose, Explained, Reason, TypeOK
<1>2. Reason(b)'
  <2>1. bOut[b] \in Seq(Message) /\ bOut \in [Browsers -> Seq(Message)]
    BY DEF TypeOK
  <2>2. Append(bOut[b], m) # <<>>
    BY <2>1
  <2>3. CASE bOut' = [bOut EXCEPT ![b] = Append(@, m)]
    BY <2>1, <2>2, <2>3 DEF Reason
  <2>4. CASE b \in bDone /\ UNCHANGED bOut
    BY <2>4 DEF Explained, Reason
  <2>5. CASE got[b] # {}
    BY <2>5 DEF Reason
  <2>6. CASE Len(bOut[b]) >= BrowserOutCap /\ UNCHANGED bOut
    <3>1. bOut[b] # <<>>
      BY <2>1, <2>6
    <3> QED
      BY <2>6, <3>1 DEF Reason
  <2> QED
    BY <2>3, <2>4, <2>5, <2>6, Zenon DEF NotifyAndClose, Notify
<1> QED
  BY <1>1, <1>2 DEF Explained, ToldWhy

\* agentSend closes with a reason or not at all.
LEMMA SendReason ==
    ASSUME TypeOK, Explained, NEW c, NEW b \in Browsers, AgentSend(c, b),
           UNCHANGED <<got, alive>>,
           \A d \in Browsers : bPc'[d] = "ended" <=> bPc[d] = "ended"
    PROVE  Explained'
<1>1. CASE UNCHANGED chanVars
  BY <1>1 DEF Explained, Reason, ToldWhy, TypeOK
<1>2. CASE NotifyAndClose(b, Error("offline"))
  BY <1>2, CloseReason, MessageTypes
<1> QED
  BY <1>1, <1>2 DEF AgentSend

\* No step ends an attach, or closes its done channel, without a reason.
LEMMA ExplainedStep ==
    ASSUME TypeOK, Explained, [Next]_vars
    PROVE  Explained'
<1>1. ASSUME NEW c \in Conns, NEW b \in Browsers, AgentAnswer(c, b) PROVE Explained'
  BY <1>1, CloseReason, MessageTypes DEF AgentAnswer
<1>2. ASSUME NEW c \in Conns, NEW b \in Browsers, TeardownFail(c, b) PROVE Explained'
  BY <1>2, CloseReason, MessageTypes DEF TeardownFail
<1>3. ASSUME NEW b \in Browsers, DeadlineFires(b) PROVE Explained'
  BY <1>3, CloseReason, MessageTypes DEF DeadlineFires
<1>4. ASSUME NEW b \in Browsers, AttachNotify(b) PROVE Explained'
  <2>1. \A d \in Browsers : bPc'[d] = "ended" <=> bPc[d] = "ended"
    BY <1>4 DEF AttachNotify, TypeOK
  <2> QED
    BY <1>4, <2>1, SendReason DEF AttachNotify
<1>5. ASSUME NEW b \in Browsers, OfferSend(b) PROVE Explained'
  BY <1>5, SendReason DEF OfferSend
<1>6. CASE UNCHANGED <<bPc, bOut, got, alive, bDone>>
  BY <1>6 DEF Explained, Reason, ToldWhy
<1>7. ASSUME NEW b \in Browsers, OfferLookup(b) PROVE Explained'
  BY <1>6, <1>7, CloseReason, MessageTypes DEF OfferLookup
<1>8. ASSUME NEW b \in Browsers, NEW k, Refuse(b, k), UNCHANGED <<bOut, alive, bDone>>
      PROVE  Explained'
  BY <1>8 DEF Refuse, Explained, Reason, ToldWhy, TypeOK
<1>9. ASSUME NEW b \in Browsers, NEW p \in {"binding", "notify"}, bPc[b] # "ended",
             bPc' = [bPc EXCEPT ![b] = p], UNCHANGED <<bOut, got, alive, bDone>>
      PROVE  Explained'
  BY <1>9 DEF Explained, Reason, ToldWhy, TypeOK
<1>10. ASSUME NEW b \in Browsers, NEW s \in Slots, AttachLookup(b, s) PROVE Explained'
  BY <1>8, <1>9, <1>10 DEF AttachLookup
<1>11. ASSUME NEW b \in Browsers, AttachBind(b) PROVE Explained'
  BY <1>8, <1>9, <1>11 DEF AttachBind
<1>12. ASSUME NEW b \in Browsers, BrowserDies(b) PROVE Explained'
  BY <1>12 DEF BrowserDies, Explained, Reason, ToldWhy, TypeOK
<1>13. ASSUME NEW b \in Browsers, BrowserReadError(b) PROVE Explained'
  BY <1>13 DEF BrowserReadError, Explained, Reason, ToldWhy, TypeOK
<1>14. ASSUME NEW b \in Browsers, BrowserWrite(b) PROVE Explained'
  <2>1. CASE b \in alive
    <3>1. /\ got' = [got EXCEPT ![b] = IF @ = {} THEN {Head(bOut[b])} ELSE @]
          /\ bOut' = [bOut EXCEPT ![b] = Tail(@)]
          /\ UNCHANGED <<bDone, bPc, alive>>
      BY <1>14, <2>1 DEF BrowserWrite
    <3>2. got'[b] # {} /\ \A d \in Browsers : d # b => got'[d] = got[d] /\ bOut'[d] = bOut[d]
      BY <3>1 DEF TypeOK
    <3> QED
      BY <3>1, <3>2 DEF Explained, Reason, ToldWhy, TypeOK
  <2>2. CASE b \notin alive
    <3>1. /\ Finish(b) /\ UNCHANGED <<got, alive>>
          /\ bOut' = [bOut EXCEPT ![b] = <<>>]
      BY <1>14, <2>2 DEF BrowserWrite
    <3>2. bPc'[b] = "ended" /\ bDone' = bDone \cup {b}
          /\ \A d \in Browsers : d # b => bPc'[d] = bPc[d] /\ bOut'[d] = bOut[d]
      BY <3>1 DEF Finish, TypeOK
    <3> QED
      BY <2>2, <3>1, <3>2 DEF Explained, Reason, ToldWhy, TypeOK
  <2> QED
    BY <2>1, <2>2
<1>15. ASSUME NEW b \in Browsers, BrowserClose(b) PROVE Explained'
  BY <1>15 DEF BrowserClose, Finish, Explained, Reason, ToldWhy, TypeOK
<1> QED
  BY <1>1, <1>2, <1>3, <1>4, <1>5, <1>6, <1>7, <1>10, <1>11, <1>12, <1>13, <1>14, <1>15
  DEF Next, AgentStep, BrowserStep, vars, AgentCheck, AgentRefused, AgentRegister,
      AgentReadError, AgentLeave, Revoke, TeardownSnapshot, TeardownClose, BrowserOffer

\* handleAttach, for any caps and any number of browsers: no agent ever has more sessions
\* than maxAgentSessions, and a browser that is up when its attach ends was told why.
THEOREM SessionsCappedAndTold == Spec => []SessionsTold
<1> DEFINE Inv == TypeOK /\ Captured /\ Capped /\ Explained
<1>1. Init => Inv
  BY FS_EmptySet, BrokerAssumption DEF Init, TypeOK, Captured, Capped, Explained, ToldWhy
<1>2. Inv /\ [Next]_vars => Inv'
  BY TypeStep, CapturedStep, CappedStep, ExplainedStep
<1>3. Inv => SessionsTold
  BY DEF Capped, Explained, SessionsTold, SessionsBounded
<1> QED
  BY <1>1, <1>2, <1>3, PTL DEF Spec

-----------------------------------------------------------------------------
(* The bounded tables.                                                     *)

\* A full table that gives up one entry for another stays within its bound.
LEMMA OneForAnother ==
    ASSUME NEW S, IsFiniteSet(S), NEW n \in Nat, Cardinality(S) <= n, NEW v, NEW k,
           k \notin S, v \in S \/ Cardinality(S) < n
    PROVE  IsFiniteSet((S \ {v}) \cup {k}) /\ Cardinality((S \ {v}) \cup {k}) <= n
<1>1. Cardinality(S) \in Nat
  BY FS_CardinalityType
<1>2. IsFiniteSet(S \ {v}) /\ Cardinality(S \ {v}) = IF v \in S THEN Cardinality(S) - 1 ELSE Cardinality(S)
  BY FS_RemoveElement
<1>3. k \notin S \ {v}
  OBVIOUS
<1>4. /\ IsFiniteSet((S \ {v}) \cup {k})
      /\ Cardinality((S \ {v}) \cup {k}) = Cardinality(S \ {v}) + 1
  BY <1>2, <1>3, FS_AddElement
<1> QED
  BY <1>1, <1>2, <1>4

-----------------------------------------------------------------------------
(* ProofStore.                                                             *)

\* The clocks of the entries tell which slot was used before which.
Recency ==
    /\ \A k \in Known : entries[k].seen <= clock
    /\ \A j, k \in Known : j # k => entries[j].seen # entries[k].seen
    /\ \A j, k \in Known : entries[j].seen < entries[k].seen => <<j, k>> \in older

\* A call of ok on a known slot, and a call of learn on an unknown one.
Uses(k) ==
    /\ clock < MaxClock /\ k \in Known
    /\ entries' = Refreshed(k) /\ clock' = clock + 1 /\ older' = Touched(k, k)

Learns(k, v, x) ==
    /\ clock < MaxClock /\ entries[k] = NoEntry /\ Evicted(k, v)
    /\ entries' = [entries EXCEPT ![v] = NoEntry, ![k] = [secret |-> x, seen |-> clock + 1]]
    /\ clock' = clock + 1 /\ older' = Touched(v, k)

\* What a step does to the store.
LEMMA StoreActs ==
    ASSUME StoreTypeOK, [StoreNext]_storeVars
    PROVE  /\ live' \subseteq Keys
           /\ \/ UNCHANGED <<entries, clock, older>>
              \/ \E k \in Keys : Uses(k)
              \/ \E k \in Keys, v \in Keys, x \in Secrets : Learns(k, v, x)
<1>1. CASE UNCHANGED storeVars
  BY <1>1 DEF StoreTypeOK, storeVars
<1>2. ASSUME NEW k \in Keys, NEW x, Renew(k, x) \/ Check(k)
      PROVE  live' \subseteq Keys /\ Uses(k)
  BY <1>2 DEF Renew, Check, Uses, Known, StoreTypeOK
<1>3. ASSUME NEW k \in Keys, NEW x, RegisterUnstored(k, x) \/ Depart(k)
      PROVE  live' \subseteq Keys /\ UNCHANGED <<entries, clock, older>>
  BY <1>3 DEF RegisterUnstored, Depart, StoreTypeOK
<1>4. ASSUME NEW k \in Keys, NEW x, Learn(k, x)
      PROVE  live' \subseteq Keys /\ x \in Secrets /\ \E v \in Keys : Learns(k, v, x)
  BY <1>4 DEF Learn, Learns, StoreTypeOK
<1> QED
  BY <1>1, <1>2, <1>3, <1>4 DEF StoreNext

\* A slot that is used becomes the most recent one; the others keep their order.
LEMMA UseStep ==
    ASSUME StoreTypeOK, Recency, NEW k \in Keys, Uses(k), live' \subseteq Keys
    PROVE  /\ StoreTypeOK' /\ Recency'
           /\ \A j \in Known : entries'[j] # NoEntry /\ entries'[j].secret = entries[j].secret
<1>1. /\ entries \in [Keys -> Entry \cup {NoEntry}] /\ clock \in 0 .. MaxClock
      /\ older \subseteq Keys \X Keys /\ Known \subseteq Keys
      /\ entries[k] \in Entry /\ clock + 1 \in 0 .. MaxClock
  BY ProofAssumption DEF StoreTypeOK, Uses, Known
<1>2. entries' = [entries EXCEPT ![k] = [secret |-> entries[k].secret, seen |-> clock + 1]]
  <2>1. entries' = [entries EXCEPT ![k] = [entries[k] EXCEPT !.seen = clock + 1]]
    BY DEF Uses, Refreshed
  <2>2. [entries[k] EXCEPT !.seen = clock + 1] = [secret |-> entries[k].secret, seen |-> clock + 1]
    BY <1>1 DEF Entry
  <2> QED
    BY <2>1, <2>2
<1>3. [secret |-> entries[k].secret, seen |-> clock + 1] \in Entry
  BY <1>1 DEF Entry
<1>4. \A e \in Entry : e # NoEntry /\ e.seen \in Nat
  BY ProofAssumption DEF Entry
<1>5. Known' = Known
  BY <1>1, <1>2, <1>3, <1>4 DEF Known
<1>6. /\ \A j \in Known : entries[j] \in Entry
      /\ \A j \in Known : entries'[j] = IF j = k THEN [secret |-> entries[k].secret, seen |-> clock + 1] ELSE entries[j]
  BY <1>1, <1>2 DEF Known
<1>7. \A j \in Known : entries'[j].seen = IF j = k THEN clock + 1 ELSE entries[j].seen
  BY <1>6
<1>8. \A i, j \in Known : (<<i, j>> \in older /\ i # k /\ j # k) \/ (i # k /\ j = k) => <<i, j>> \in older'
  BY DEF Uses, Touched
<1>9. /\ \A j \in Known : entries[j].seen \in Nat /\ entries[j].seen <= clock
      /\ clock \in Nat /\ clock' = clock + 1
  BY <1>1, <1>4, <1>6, ProofAssumption DEF Recency, Uses
<1>10. StoreTypeOK'
  <2>1. older' \subseteq Keys \X Keys
    BY <1>1 DEF Uses, Touched
  <2>2. Cardinality(Known') <= MaxProofs
    BY <1>5 DEF StoreTypeOK
  <2>3. entries' \in [Keys -> Entry \cup {NoEntry}] /\ clock' \in 0 .. MaxClock
    BY <1>1, <1>2, <1>3 DEF Uses
  <2> QED
    BY <2>1, <2>2, <2>3 DEF StoreTypeOK
<1>11. Recency'
  <2>1. \A j \in Known : entries'[j].seen <= clock'
    BY <1>7, <1>9
  <2>2. \A i, j \in Known : i # j => entries'[i].seen # entries'[j].seen
    BY <1>7, <1>9 DEF Recency
  <2>3. \A i, j \in Known : entries'[i].seen < entries'[j].seen => <<i, j>> \in older'
    BY <1>7, <1>8, <1>9 DEF Recency
  <2> QED
    BY <1>5, <2>1, <2>2, <2>3 DEF Recency
<1> QED
  BY <1>6, <1>3, <1>4, <1>10, <1>11

\* A slot that is learned becomes the most recent one, and only the one used before all
\* others leaves.
LEMMA LearnStep ==
    ASSUME StoreTypeOK, Recency, NEW k \in Keys, NEW v \in Keys, NEW x \in Secrets,
           Learns(k, v, x), live' \subseteq Keys
    PROVE  /\ StoreTypeOK' /\ Recency'
           /\ \A j \in Known : \/ j = v /\ \A i \in Known \ {j} : <<j, i>> \in older
                               \/ entries'[j] = entries[j]
<1> DEFINE e == [secret |-> x, seen |-> clock + 1]
<1>1. /\ entries \in [Keys -> Entry \cup {NoEntry}] /\ clock \in 0 .. MaxClock
      /\ older \subseteq Keys \X Keys /\ Known \subseteq Keys
      /\ clock + 1 \in 0 .. MaxClock /\ e \in Entry
      /\ k \notin Known
  BY ProofAssumption DEF StoreTypeOK, Learns, Known, Entry
<1>2. \A f \in Entry : f # NoEntry /\ f.seen \in Nat
  BY ProofAssumption DEF Entry
<1>3. /\ DOMAIN entries' = Keys
      /\ \A j \in Keys : entries'[j] = IF j = k THEN e ELSE IF j = v THEN NoEntry ELSE entries[j]
  BY <1>1 DEF Learns
<1> HIDE DEF e
<1>4. Known' = (Known \ {v}) \cup {k}
  BY <1>1, <1>2, <1>3 DEF Known
<1>5. \A j \in Known : entries[j] \in Entry /\ entries[j].seen \in Nat /\ entries[j].seen <= clock
  BY <1>1, <1>2 DEF Known, Recency
<1>6. \A j \in Known' : entries'[j].seen = IF j = k THEN clock + 1 ELSE entries[j].seen
  BY <1>1, <1>3, <1>4 DEF e
<1>7. v \in Known \/ (v = k /\ Cardinality(Known) < MaxProofs)
  <2>1. IsFiniteSet(Known)
    BY <1>1, ProofAssumption, FS_Subset
  <2>2. Cardinality(Known) \in Nat
    BY <2>1, FS_CardinalityType
  <2> QED
    BY <2>2, ProofAssumption DEF Learns, Evicted
<1>8. \A i, j \in Known' : (i # k /\ j # k /\ <<i, j>> \in older) \/ (i # k /\ j = k) => <<i, j>> \in older'
  BY <1>4 DEF Learns, Touched
<1>9. StoreTypeOK'
  <2>1. older' \subseteq Keys \X Keys
    BY <1>1 DEF Learns, Touched
  <2>2. Cardinality(Known') <= MaxProofs
    <3>1. IsFiniteSet(Known)
      BY <1>1, ProofAssumption, FS_Subset
    <3>2. Cardinality(Known) <= MaxProofs /\ MaxProofs \in Nat
      BY ProofAssumption DEF StoreTypeOK
    <3> QED
      BY <1>1, <1>4, <1>7, <3>1, <3>2, OneForAnother
  <2>3. entries' \in [Keys -> Entry \cup {NoEntry}]
    BY <1>1 DEF Learns, e
  <2>4. clock' \in 0 .. MaxClock
    BY <1>1 DEF Learns
  <2> QED
    BY <2>1, <2>2, <2>3, <2>4 DEF StoreTypeOK
<1>10. Recency'
  <2>0. clock' = clock + 1 /\ clock \in Nat /\ \A j \in Known' : j = k \/ j \in Known
    BY <1>1, <1>4, ProofAssumption DEF Learns
  <2>1. \A j \in Known' : entries'[j].seen <= clock'
    BY <1>5, <1>6, <2>0
  <2>2. \A i, j \in Known' : i # j => entries'[i].seen # entries'[j].seen
    BY <1>5, <1>6, <2>0 DEF Recency
  <2>3. \A i, j \in Known' : entries'[i].seen < entries'[j].seen => <<i, j>> \in older'
    BY <1>5, <1>6, <1>8, <2>0 DEF Recency
  <2> QED
    BY <2>1, <2>2, <2>3 DEF Recency
<1>11. ASSUME NEW j \in Known, j = v PROVE \A i \in Known \ {j} : <<j, i>> \in older
  <2>1. \A i \in Known : entries[j].seen <= entries[i].seen
    BY <1>1, <1>7, <1>11 DEF Learns, Evicted
  <2> QED
    BY <1>5, <2>1 DEF Recency
<1> QED
  BY <1>1, <1>3, <1>9, <1>10, <1>11

\* One step of the store.
LEMMA StoreStep ==
    ASSUME StoreTypeOK, Recency, [StoreNext]_storeVars
    PROVE  /\ StoreTypeOK' /\ Recency'
           /\ \A k \in Keys : (entries[k] # NoEntry /\ entries'[k] # NoEntry)
                                  => entries'[k].secret = entries[k].secret
           /\ \A k \in Keys : (entries[k] # NoEntry /\ entries'[k] = NoEntry)
                                  => \A j \in Known \ {k} : <<k, j>> \in older
<1>1. CASE UNCHANGED <<entries, clock, older>>
  BY <1>1, StoreActs DEF StoreTypeOK, Recency, Known
<1>2. ASSUME NEW k \in Keys, Uses(k)
      PROVE  /\ StoreTypeOK' /\ Recency'
             /\ \A j \in Known : entries'[j] # NoEntry /\ entries'[j].secret = entries[j].secret
  BY <1>2, StoreActs, UseStep
<1>3. ASSUME NEW k \in Keys, NEW v \in Keys, NEW x \in Secrets, Learns(k, v, x)
      PROVE  /\ StoreTypeOK' /\ Recency'
             /\ \A j \in Known : \/ j = v /\ \A i \in Known \ {j} : <<j, i>> \in older
                                 \/ entries'[j] = entries[j]
             /\ entries'[v] = NoEntry \/ v = k
  <2>1. entries'[v] = NoEntry \/ v = k
    BY <1>3 DEF Learns, StoreTypeOK
  <2> QED
    BY <1>3, <2>1, StoreActs, LearnStep
<1>4. ASSUME NEW k \in Keys, NEW v \in Keys, NEW x \in Secrets, Learns(k, v, x), NEW j \in Keys, entries[j] # NoEntry
      PROVE  /\ entries'[j] # NoEntry => entries'[j].secret = entries[j].secret
             /\ entries'[j] = NoEntry => \A i \in Known \ {j} : <<j, i>> \in older
  <2>1. j \in Known /\ j # k
    BY <1>4 DEF Known, Learns
  <2> QED
    BY <1>3, <1>4, <2>1
<1>5. ASSUME NEW k \in Keys, Uses(k), NEW j \in Keys, entries[j] # NoEntry
      PROVE  entries'[j] # NoEntry /\ entries'[j].secret = entries[j].secret
  BY <1>2, <1>5 DEF Known
<1> QED
  BY <1>1, <1>2, <1>3, <1>4, <1>5, StoreActs

\* A set of positions has a first one.
LEMMA FirstPosition ==
    ASSUME NEW S \in SUBSET Nat, S # {}
    PROVE  \E a \in S : \A b \in S : a <= b
<1>1. IsWellFoundedOn(OpToRel(<, Nat), Nat)
  BY NatLessThanWellFounded
<1>2. PICK a \in S : \A b \in S : ~(<<b, a>> \in OpToRel(<, Nat))
  BY <1>1, WFMin
<1>3. \A b, c \in Nat : b < c => <<b, c>> \in OpToRel(<, Nat)
  BY Zenon DEF OpToRel
<1>4. \A b \in S : ~(b < a)
  BY <1>2, <1>3
<1> QED
  BY <1>4

-----------------------------------------------------------------------------
(* FlapCounter.                                                            *)

\* Times in the order they were noted.
InTimeOrder(h) == \A i, j \in DOMAIN h : i <= j => h[i] <= h[j]

\* record's comment on its loop: of stamps in the order of time, the survivors are a
\* suffix.
LEMMA SurvivorsAreSuffix ==
    ASSUME NEW q \in Seq(FlapTimes), InTimeOrder(q), time \in FlapTimes
    PROVE  \E m \in 0 .. Len(q) :
               /\ \A i \in 1 .. m : q[i] + FlapWindow <= time
               /\ \A i \in (m + 1) .. Len(q) : q[i] + FlapWindow > time
               /\ Kept(q) = [k \in 1 .. (Len(q) - m) |-> q[m + k]]
<1> DEFINE n == Len(q)
           I == {i \in DOMAIN q : q[i] + FlapWindow > time}
<1>0. /\ n \in Nat /\ DOMAIN q = 1 .. n /\ FlapWindow \in Nat /\ time \in Nat
      /\ \A i \in 1 .. n : q[i] \in Nat
  BY FlapAssumption DEF FlapTimes
<1>1. \E m \in 0 .. n : I = (m + 1) .. n
  <2>1. CASE I = {}
    <3>1. I = (n + 1) .. n
      BY <1>0, <2>1
    <3> QED
      BY <1>0, <3>1
  <2>2. CASE I # {}
    <3>1. I \in SUBSET Nat
      BY <1>0
    <3>2. PICK a \in I : \A b \in I : a <= b
      BY <2>2, <3>1, FirstPosition
    <3>3. ASSUME NEW i \in a .. n PROVE i \in I
      <4>1. i \in 1 .. n /\ a \in 1 .. n /\ a <= i
        BY <1>0, <3>2
      <4>2. q[a] <= q[i] /\ q[a] + FlapWindow > time
        BY <1>0, <3>2, <4>1 DEF InTimeOrder
      <4> QED
        BY <1>0, <4>1, <4>2
    <3>4. I = a .. n
      BY <1>0, <3>1, <3>2, <3>3
    <3>5. a - 1 \in 0 .. n /\ (a - 1) + 1 = a
      BY <1>0, <3>2
    <3> QED
      BY <3>4, <3>5
  <2> QED
    BY <2>1, <2>2
<1>2. PICK m \in 0 .. n : I = (m + 1) .. n
  BY <1>1
<1>3. Cardinality(I) = n - m
  <2>1. m + 1 \in Int /\ n \in Int
    BY <1>0
  <2>2. Cardinality((m + 1) .. n) = IF m + 1 > n THEN 0 ELSE n - (m + 1) + 1
    BY <2>1, FS_Interval
  <2> HIDE DEF I, n
  <2> QED
    BY <1>0, <1>2, <2>2
<1>4. ASSUME NEW i \in I PROVE Cardinality({j \in I : j <= i}) = i - m
  <2>1. {j \in I : j <= i} = (m + 1) .. i /\ i \in Int /\ i >= m + 1
    BY <1>0, <1>2
  <2> QED
    <3>1. m + 1 \in Int
      BY <1>0
    <3>2. Cardinality((m + 1) .. i) = IF m + 1 > i THEN 0 ELSE i - (m + 1) + 1
      BY <2>1, <3>1, FS_Interval
    <3>3. (IF m + 1 > i THEN 0 ELSE i - (m + 1) + 1) = i - m
      BY <1>0, <2>1
    <3> HIDE DEF I
    <3> QED
      BY <2>1, <3>2, <3>3, Zenon
<1>5. ASSUME NEW k \in 1 .. (n - m)
      PROVE  (CHOOSE i \in I : Cardinality({j \in I : j <= i}) = k) = m + k
  <2>1. m + k \in I
    BY <1>0, <1>2
  <2>2. \A i \in I : i \in Int /\ (Cardinality({j \in I : j <= i}) = k <=> i = m + k)
    <3>1. \A i \in I : i \in Int
      BY <1>0
    <3>2. \A i \in I : Cardinality({j \in I : j <= i}) = i - m
      BY <1>4
    <3> HIDE DEF I
    <3> QED
      BY <1>0, <3>1, <3>2
  <2> HIDE DEF I
  <2> QED
    BY <2>1, <2>2
<1>6. Kept(q) = [k \in 1 .. (n - m) |-> q[m + k]]
  <2>1. Kept(q) = Sublist(q, I)
    BY DEF Kept
  <2> HIDE DEF I
  <2> QED
    BY <1>3, <1>5, <2>1 DEF Sublist
<1>7. \A i \in 1 .. m : q[i] + FlapWindow <= time
  <2>1. ASSUME NEW i \in 1 .. m PROVE i \in 1 .. n /\ i \notin I
    BY <1>0, <1>2
  <2> QED
    BY <1>0, <2>1
<1>8. \A i \in (m + 1) .. n : q[i] + FlapWindow > time
  BY <1>2
<1> QED
  BY <1>6, <1>7, <1>8

\* What a tracked slot keeps of its history: a suffix of it, and what is missing is out
\* of the window.
Remembers(h, q, t) ==
    /\ h \in Seq(FlapTimes) /\ q \in Seq(FlapTimes) /\ q # <<>>
    /\ Len(q) <= Len(h)
    /\ \A i \in 1 .. Len(q) : q[i] = h[(Len(h) - Len(q)) + i]
    /\ InTimeOrder(h)
    /\ \A i \in DOMAIN h : h[i] <= t
    /\ \A i \in 1 .. (Len(h) - Len(q)) : h[i] + FlapWindow <= t

\* A slot that is replaced for the first time since it is tracked.
LEMMA RemembersFirst ==
    ASSUME time \in FlapTimes
    PROVE  Remembers(<<time>>, <<time>>, time)
  BY DEF Remembers, InTimeOrder, FlapTimes

\* What is out of the window stays out of it.
LEMMA RemembersLater ==
    ASSUME NEW h, NEW q, NEW t \in Nat, Remembers(h, q, t)
    PROVE  Remembers(h, q, t + 1)
<1>1. \A i \in DOMAIN h : h[i] \in Nat
  BY FlapAssumption DEF Remembers, FlapTimes
<1>2. DOMAIN h = 1 .. Len(h) /\ Len(h) \in Nat /\ Len(q) \in Nat
  BY DEF Remembers
<1>3. \A i \in DOMAIN h : h[i] <= t + 1
  BY <1>1 DEF Remembers
<1>4. \A i \in 1 .. (Len(h) - Len(q)) : h[i] + FlapWindow <= t + 1
  <2>1. ASSUME NEW i \in 1 .. (Len(h) - Len(q)) PROVE h[i] + FlapWindow <= t + 1
    <3>1. i \in DOMAIN h /\ h[i] + FlapWindow <= t
      BY <1>2 DEF Remembers
    <3>2. h[i] \in Nat /\ FlapWindow \in Nat
      BY <1>1, <3>1, FlapAssumption
    <3> QED
      BY <3>1, <3>2
  <2> QED
    BY <2>1
<1> QED
  BY <1>3, <1>4 DEF Remembers

\* The positions of the history that are in the window.
Recent(h, t) == {i \in DOMAIN h : h[i] <= t /\ t < h[i] + FlapWindow}

\* record: the stamps it keeps are the suffix again, and their number is the number of
\* replacements in the window.
LEMMA RemembersNext ==
    ASSUME NEW h, NEW q, time \in FlapTimes, Remembers(h, q, time)
    PROVE  LET r == Append(Kept(q), time)
               g == Append(h, time)
           IN  Remembers(g, r, time) /\ Len(r) = Cardinality(Recent(g, time))
<1> DEFINE r == Append(Kept(q), time)
           g == Append(h, time)
           lost == Len(h) - Len(q)
<1>0. /\ time \in Nat /\ FlapWindow \in Nat \ {0} /\ FlapTimes \subseteq Nat
      /\ h \in Seq(FlapTimes) /\ q \in Seq(FlapTimes)
      /\ Len(h) \in Nat /\ Len(q) \in Nat /\ lost \in Nat
      /\ DOMAIN h = 1 .. Len(h) /\ DOMAIN q = 1 .. Len(q)
      /\ \A i \in 1 .. Len(h) : h[i] \in Nat /\ h[i] <= time
  BY FlapAssumption DEF FlapTimes, Remembers
<1>1. \A i \in 1 .. Len(q) : q[i] = h[lost + i] /\ lost + i \in 1 .. Len(h)
  BY <1>0 DEF Remembers
<1>2. InTimeOrder(q)
  <2>1. ASSUME NEW i \in 1 .. Len(q), NEW j \in 1 .. Len(q), i <= j PROVE q[i] <= q[j]
    <3>1. lost + i <= lost + j
      BY <1>0, <2>1
    <3> QED
      BY <1>0, <1>1, <3>1 DEF Remembers, InTimeOrder
  <2> QED
    BY <1>0, <2>1 DEF InTimeOrder
<1>3. PICK m \in 0 .. Len(q) :
               /\ \A i \in 1 .. m : q[i] + FlapWindow <= time
               /\ \A i \in (m + 1) .. Len(q) : q[i] + FlapWindow > time
               /\ Kept(q) = [k \in 1 .. (Len(q) - m) |-> q[m + k]]
  BY <1>0, <1>2, SurvivorsAreSuffix
<1> DEFINE l == Len(q) - m
<1>4. l \in Nat /\ Kept(q) \in Seq(FlapTimes) /\ Len(Kept(q)) = l
  BY <1>0, <1>3
<1>5. /\ r \in Seq(FlapTimes) /\ Len(r) = l + 1 /\ DOMAIN r = 1 .. (l + 1)
      /\ \A i \in 1 .. l : r[i] = Kept(q)[i]
      /\ r[l + 1] = time
  BY <1>4
<1>6. /\ g \in Seq(FlapTimes) /\ Len(g) = Len(h) + 1 /\ DOMAIN g = 1 .. (Len(h) + 1)
      /\ \A i \in 1 .. Len(h) : g[i] = h[i]
      /\ g[Len(h) + 1] = time
  BY <1>0
<1> HIDE DEF r, g
<1>7. Len(g) - Len(r) = lost + m /\ lost + m \in Nat /\ lost + m + l = Len(h)
  BY <1>0, <1>5, <1>6
<1>8. ASSUME NEW i \in 1 .. (l + 1) PROVE r[i] = g[lost + m + i]
  <2>1. CASE i = l + 1
    <3>1. lost + m + i = Len(h) + 1
      BY <1>0, <1>4, <1>7, <2>1
    <3> QED
      BY <1>5, <1>6, <2>1, <3>1
  <2>2. CASE i \in 1 .. l
    <3>1. m + i \in 1 .. Len(q) /\ r[i] = q[m + i]
      BY <1>0, <1>3, <1>5, <2>2
    <3>2. q[m + i] = h[lost + (m + i)] /\ lost + (m + i) \in 1 .. Len(h)
      BY <1>1, <3>1
    <3>3. lost + (m + i) = lost + m + i
      BY <1>0, <3>1
    <3> QED
      BY <1>6, <3>1, <3>2, <3>3
  <2> QED
    BY <1>4, <2>1, <2>2
<1>9. ASSUME NEW i \in 1 .. (lost + m) PROVE g[i] + FlapWindow <= time
  <2>1. i \in 1 .. Len(h) /\ g[i] = h[i]
    BY <1>0, <1>6
  <2>2. CASE i <= lost
    BY <1>0, <2>1, <2>2 DEF Remembers
  <2>3. CASE i > lost
    <3>1. i - lost \in 1 .. m /\ i - lost \in 1 .. Len(q) /\ lost + (i - lost) = i
      BY <1>0, <2>3
    <3> QED
      BY <1>1, <1>3, <2>1, <3>1
  <2> QED
    BY <1>0, <2>2, <2>3
<1>10. ASSUME NEW i \in (lost + m + 1) .. Len(g) PROVE g[i] <= time /\ time < g[i] + FlapWindow
  <2>1. CASE i = Len(g)
    BY <1>0, <1>6, <2>1
  <2>2. CASE i # Len(g)
    <3>1. i - lost \in (m + 1) .. Len(q) /\ i - lost \in 1 .. Len(q) /\ lost + (i - lost) = i
          /\ i \in 1 .. Len(h)
      BY <1>0, <1>6, <1>7, <2>2
    <3>2. g[i] = q[i - lost]
      BY <1>1, <1>6, <3>1
    <3>3. g[i] <= time
      BY <1>0, <1>6, <3>1
    <3>4. q[i - lost] \in Nat /\ q[i - lost] + FlapWindow > time
      BY <1>0, <1>3, <1>1, <3>1
    <3> QED
      BY <1>0, <3>2, <3>3, <3>4
  <2> QED
    BY <2>1, <2>2
<1>11. InTimeOrder(g)
  <2>1. ASSUME NEW i \in 1 .. (Len(h) + 1), NEW j \in 1 .. (Len(h) + 1), i <= j PROVE g[i] <= g[j]
    <3>1. CASE j = Len(h) + 1
      BY <1>0, <1>6, <3>1
    <3>2. CASE j # Len(h) + 1
      <4>1. i \in 1 .. Len(h) /\ j \in 1 .. Len(h)
        BY <1>0, <2>1, <3>2
      <4> QED
        BY <1>0, <1>6, <2>1, <4>1 DEF Remembers, InTimeOrder
    <3> QED
      BY <3>1, <3>2
  <2> QED
    BY <1>6, <2>1 DEF InTimeOrder
<1>12. Remembers(g, r, time)
  <2>1. r # <<>> /\ Len(r) <= Len(g)
    BY <1>4, <1>5, <1>6, <1>7
  <2>2. \A i \in 1 .. Len(r) : r[i] = g[(Len(g) - Len(r)) + i]
    BY <1>5, <1>7, <1>8
  <2>3. \A i \in DOMAIN g : g[i] <= time
    BY <1>0, <1>6
  <2>4. \A i \in 1 .. (Len(g) - Len(r)) : g[i] + FlapWindow <= time
    BY <1>7, <1>9
  <2> QED
    BY <1>5, <1>6, <1>11, <2>1, <2>2, <2>3, <2>4 DEF Remembers
<1>13. Cardinality(Recent(g, time)) = Len(r)
  <2>1. ASSUME NEW i \in 1 .. Len(g), i \notin (lost + m + 1) .. Len(g) PROVE ~(time < g[i] + FlapWindow)
    <3>1. i \in 1 .. (lost + m)
      BY <1>0, <1>6, <1>7, <2>1
    <3>2. g[i] \in Nat
      BY <1>0, <1>6, <2>1
    <3> QED
      BY <1>0, <1>9, <3>1, <3>2
  <2>2. \A i \in (lost + m + 1) .. Len(g) : i \in 1 .. Len(g)
    BY <1>0, <1>6, <1>7
  <2>3. Recent(g, time) = (lost + m + 1) .. Len(g)
    BY <1>6, <1>10, <2>1, <2>2 DEF Recent
  <2>4. lost + m + 1 \in Int /\ Len(g) \in Int /\ Len(g) - (lost + m + 1) + 1 = Len(r) /\ ~(lost + m + 1 > Len(g))
    BY <1>4, <1>5, <1>6, <1>7
  <2> QED
    BY <2>3, <2>4, FS_Interval
<1> QED
  BY <1>12, <1>13 DEF r, g

\* Every tracked slot remembers.
Tracking ==
    /\ time \in FlapTimes
    /\ DOMAIN stamps = Keys
    /\ alarm \in [Keys -> BOOLEAN]
    /\ happened \in [Keys -> Seq(FlapTimes)]
    /\ Cardinality(Tracked) <= MaxSlots
    /\ \A k \in Tracked : Remembers(happened[k], stamps[k], time)

\* The last stamp is the last replacement.
LEMMA LastRemembered ==
    ASSUME NEW h, NEW q, NEW t, Remembers(h, q, t)
    PROVE  Last(q) = Last(h)
<1>1. Len(q) \in Nat /\ Len(h) \in Nat /\ Len(q) >= 1
  BY DEF Remembers
<1>2. q[Len(q)] = h[(Len(h) - Len(q)) + Len(q)]
  BY <1>1 DEF Remembers
<1> QED
  BY <1>1, <1>2 DEF Last

\* The clock of the counter moves on.
LEMMA FlapTickStep ==
    ASSUME Tracking, FlapTick
    PROVE  Tracking'
<1>1. time \in Nat /\ time' = time + 1 /\ time' \in FlapTimes
  BY FlapAssumption DEF Tracking, FlapTick, FlapTimes
<1>2. UNCHANGED <<stamps, alarm, happened>> /\ Tracked' = Tracked
  BY DEF FlapTick, Tracked
<1>3. \A k \in Tracked : Remembers(happened[k], stamps[k], time')
  BY <1>1, RemembersLater DEF Tracking
<1> QED
  BY <1>1, <1>2, <1>3 DEF Tracking

\* Whoever is not tracked is told apart.
LEMMA StampsTracked ==
    ASSUME NEW q \in Seq(FlapTimes)
    PROVE  q # NoSlot
<1>1. FlapTimes \subseteq Nat
  BY FlapAssumption DEF FlapTimes
<1>2. Len(q) \in Nat /\ q \in [1 .. Len(q) -> FlapTimes]
  OBVIOUS
<1>3. q \in [1 .. Len(q) -> Nat]
  BY <1>1, <1>2
<1>4. q \in Seq(Nat)
  BY <1>2, <1>3
<1> QED
  BY <1>4, FlapAssumption

\* A tracked slot is replaced: the alarm is raised by the replacements in the window.
LEMMA RecordStep ==
    ASSUME Tracking, NEW k \in Keys, Record(k)
    PROVE  /\ Tracking' /\ Tracked' = Tracked
           /\ \A j \in Keys \ {k} : stamps'[j] = stamps[j]
           /\ alarm'[k] <=> Cardinality(Recent(happened'[k], time')) > Threshold
<1> DEFINE q == Append(Kept(stamps[k]), time)
           g == Append(happened[k], time)
<1>1. time \in FlapTimes /\ k \in Tracked /\ Remembers(happened[k], stamps[k], time)
  BY DEF Tracking, Record, Tracked
<1>2. Remembers(g, q, time) /\ Len(q) = Cardinality(Recent(g, time))
  BY <1>1, RemembersNext
<1>3. /\ time' = time
      /\ stamps' = [stamps EXCEPT ![k] = q]
      /\ happened' = [happened EXCEPT ![k] = g]
      /\ alarm' = [alarm EXCEPT ![k] = Len(q) > Threshold]
  BY DEF Record, Recorded
<1> HIDE DEF q, g
<1>4. q \in Seq(FlapTimes) /\ q # NoSlot /\ g \in Seq(FlapTimes)
  BY <1>2, StampsTracked DEF Remembers
<1>5. /\ DOMAIN stamps' = Keys /\ happened' \in [Keys -> Seq(FlapTimes)] /\ alarm' \in [Keys -> BOOLEAN]
      /\ stamps'[k] = q /\ happened'[k] = g /\ (alarm'[k] <=> Len(q) > Threshold)
      /\ \A j \in Keys \ {k} : stamps'[j] = stamps[j] /\ happened'[j] = happened[j]
  <2>1. k \in DOMAIN stamps /\ k \in DOMAIN happened /\ k \in DOMAIN alarm
        /\ DOMAIN stamps = Keys /\ happened \in [Keys -> Seq(FlapTimes)] /\ alarm \in [Keys -> BOOLEAN]
    BY DEF Tracking
  <2>2. DOMAIN stamps' = Keys /\ stamps'[k] = q /\ \A j \in Keys \ {k} : stamps'[j] = stamps[j]
    BY <1>3, <2>1
  <2>3. /\ happened' \in [Keys -> Seq(FlapTimes)] /\ happened'[k] = g
        /\ \A j \in Keys \ {k} : happened'[j] = happened[j]
    BY <1>3, <1>4, <2>1
  <2>4. alarm' \in [Keys -> BOOLEAN] /\ (alarm'[k] <=> Len(q) > Threshold)
    <3>1. (Len(q) > Threshold) \in BOOLEAN
      OBVIOUS
    <3>2. alarm' \in [Keys -> BOOLEAN] /\ alarm'[k] = (Len(q) > Threshold)
      BY <1>3, <2>1, <3>1, Zenon
    <3> QED
      BY <3>2
  <2> QED
    BY <2>2, <2>3, <2>4
<1>6. Tracked' = Tracked
  BY <1>1, <1>4, <1>5 DEF Tracked
<1>7. \A j \in Tracked : Remembers(happened'[j], stamps'[j], time')
  <2>1. \A j \in Tracked : j \in Keys
    BY DEF Tracked
  <2> QED
    BY <1>2, <1>3, <1>5, <2>1 DEF Tracking
<1>8. Tracking'
  BY <1>1, <1>3, <1>5, <1>6, <1>7 DEF Tracking
<1> QED
  BY <1>2, <1>3, <1>5, <1>6, <1>8

\* A slot enters the table, where there is room or in the place of a quietest one.
Enters(k, v) ==
    /\ k \notin Tracked
    /\ Quietest(v) \/ (v = k /\ Cardinality(Tracked) < MaxSlots)
    /\ time' = time
    /\ alarm' = [alarm EXCEPT ![k] = 1 > Threshold]
    /\ stamps' = [stamps EXCEPT ![v] = NoSlot, ![k] = <<time>>]
    /\ happened' = [happened EXCEPT ![v] = <<>>, ![k] = <<time>>]

\* A slot enters the counter, in a free place or in that of the quietest one.
LEMMA EntersStep ==
    ASSUME Tracking, NEW k \in Keys, NEW v \in Keys, Enters(k, v)
    PROVE  /\ Tracking'
           /\ \A j \in Tracked \ {v} : stamps'[j] = stamps[j]
           /\ \A j \in Keys : stamps'[j] \notin {stamps[j], NoSlot} => j = k
           /\ alarm'[k] <=> Cardinality(Recent(happened'[k], time')) > Threshold
           /\ Quietest(v) \/ v \notin Tracked
<1>1. /\ time \in FlapTimes /\ Remembers(<<time>>, <<time>>, time) /\ <<time>> \in Seq(FlapTimes)
      /\ <<time>> # NoSlot /\ <<>> \in Seq(FlapTimes)
  <2>1. time \in FlapTimes
    BY DEF Tracking
  <2>2. <<time>> \in Seq(FlapTimes) /\ <<>> \in Seq(FlapTimes)
    BY <2>1
  <2> QED
    BY <2>1, <2>2, RemembersFirst, StampsTracked
<1>2. /\ DOMAIN stamps' = Keys /\ happened' \in [Keys -> Seq(FlapTimes)] /\ alarm' \in [Keys -> BOOLEAN]
      /\ stamps'[k] = <<time>> /\ happened'[k] = <<time>> /\ (alarm'[k] <=> 1 > Threshold)
      /\ v # k => stamps'[v] = NoSlot
      /\ \A j \in Keys \ {k, v} : stamps'[j] = stamps[j] /\ happened'[j] = happened[j]
  <2>1. k \in DOMAIN stamps /\ k \in DOMAIN happened /\ k \in DOMAIN alarm
        /\ DOMAIN stamps = Keys /\ happened \in [Keys -> Seq(FlapTimes)] /\ alarm \in [Keys -> BOOLEAN]
    BY DEF Tracking
  <2>2. /\ DOMAIN stamps' = Keys /\ stamps'[k] = <<time>>
        /\ v # k => stamps'[v] = NoSlot
        /\ \A j \in Keys \ {k, v} : stamps'[j] = stamps[j]
    BY <2>1, Zenon DEF Enters
  <2>3. /\ happened' \in [Keys -> Seq(FlapTimes)] /\ happened'[k] = <<time>>
        /\ \A j \in Keys \ {k, v} : happened'[j] = happened[j]
    BY <1>1, <2>1 DEF Enters
  <2>4. alarm' \in [Keys -> BOOLEAN] /\ (alarm'[k] <=> 1 > Threshold)
    <3>1. (1 > Threshold) \in BOOLEAN
      OBVIOUS
    <3>2. alarm' \in [Keys -> BOOLEAN] /\ alarm'[k] = (1 > Threshold)
      BY <2>1, <3>1, Zenon DEF Enters
    <3> QED
      BY <3>2
  <2> QED
    BY <2>2, <2>3, <2>4
<1>3. Tracked' = (Tracked \ {v}) \cup {k}
  BY <1>1, <1>2 DEF Tracked, Enters
<1>4. Cardinality(Tracked') <= MaxSlots
  <2>1. Tracked \in SUBSET Keys
    BY DEF Tracked
  <2>2. IsFiniteSet(Tracked)
    BY <2>1, ProofAssumption, FS_Subset
  <2>3. v \in Tracked \/ Cardinality(Tracked) < MaxSlots
    BY DEF Enters, Quietest
  <2>4. Cardinality(Tracked) <= MaxSlots /\ MaxSlots \in Nat /\ k \notin Tracked
    BY FlapAssumption DEF Tracking, Enters
  <2> QED
    BY <1>3, <2>2, <2>3, <2>4, OneForAnother
<1>5. \A j \in Tracked' : Remembers(happened'[j], stamps'[j], time')
  <2>1. \A j \in Tracked' : j = k \/ (j \in Tracked /\ j \in Keys \ {k, v})
    BY <1>3 DEF Tracked, Enters
  <2> QED
    BY <1>1, <1>2, <2>1 DEF Tracking, Enters
<1>6. Tracking'
  BY <1>1, <1>2, <1>4, <1>5 DEF Tracking, Enters
<1>7. Cardinality(Recent(happened'[k], time')) = 1
  <2>1. time \in Nat /\ FlapWindow \in Nat \ {0}
    BY FlapAssumption, <1>1 DEF FlapTimes
  <2>2. Recent(<<time>>, time) = {1}
    BY <2>1 DEF Recent
  <2> QED
    <3>1. Cardinality({1}) = 1
      BY FS_Singleton
    <3> QED
      BY <1>2, <2>2, <3>1 DEF Enters
<1>8. \A j \in Tracked \ {v} : j \in Keys \ {k, v}
  BY DEF Tracked, Enters
<1>9. Quietest(v) \/ v \notin Tracked
  BY DEF Enters
<1>10. \A j \in Keys : stamps'[j] \notin {stamps[j], NoSlot} => j = k
  BY <1>2
<1> QED
  BY <1>2, <1>6, <1>7, <1>8, <1>9, <1>10

\* What a step does to the counter.
LEMMA FlapActs ==
    ASSUME Tracking, [FlapNext]_flapVars
    PROVE  \/ UNCHANGED flapVars
           \/ FlapTick
           \/ \E k \in Keys : Record(k)
           \/ \E k \in Keys, v \in Keys : Enters(k, v)
<1>1. Len(<<time>>) = 1
  OBVIOUS
<1>2. ASSUME NEW k \in Keys, RecordNew(k) PROVE Enters(k, k)
  <2>1. stamps' = [stamps EXCEPT ![k] = <<time>>] /\ happened' = [happened EXCEPT ![k] = <<time>>]
    BY <1>2 DEF RecordNew
  <2>2. /\ stamps' = [stamps EXCEPT ![k] = NoSlot, ![k] = <<time>>]
        /\ happened' = [happened EXCEPT ![k] = <<>>, ![k] = <<time>>]
    BY <2>1 DEF Tracking
  <2> QED
    BY <1>1, <1>2, <2>2 DEF RecordNew, Recorded, Enters, Tracked
<1>3. ASSUME NEW k \in Keys, RecordEvicting(k) PROVE \E v \in Keys : Enters(k, v)
  BY <1>1, <1>3 DEF RecordEvicting, Recorded, Enters, Tracked
<1> QED
  BY <1>2, <1>3 DEF FlapNext

\* One step of the counter.
LEMMA FlapStep ==
    ASSUME Tracking, [FlapNext]_flapVars
    PROVE  /\ Tracking'
           /\ \A k \in Tracked : stamps'[k] = NoSlot =>
                  \A j \in Tracked : Last(happened[k]) <= Last(happened[j])
           /\ \A k \in Keys : (stamps'[k] # stamps[k] /\ stamps'[k] # NoSlot) =>
                  (alarm'[k] <=> Cardinality(Recent(happened'[k], time')) > Threshold)
<1>1. CASE UNCHANGED flapVars
  BY <1>1 DEF flapVars, Tracking, Tracked
<1>2. CASE FlapTick
  <2>1. stamps' = stamps
    BY <1>2 DEF FlapTick
  <2> QED
    BY <1>2, <2>1, FlapTickStep DEF Tracked
<1>3. ASSUME NEW k \in Keys, Record(k)
      PROVE  /\ Tracking'
             /\ \A j \in Tracked : stamps'[j] # NoSlot
             /\ \A j \in Keys : stamps'[j] # stamps[j] => j = k
             /\ alarm'[k] <=> Cardinality(Recent(happened'[k], time')) > Threshold
  BY <1>3, RecordStep DEF Tracked
<1>4. ASSUME NEW k \in Keys, NEW v \in Keys, Enters(k, v)
      PROVE  /\ Tracking'
             /\ \A j \in Tracked : stamps'[j] = NoSlot =>
                    \A i \in Tracked : Last(happened[j]) <= Last(happened[i])
             /\ \A j \in Keys : stamps'[j] \notin {stamps[j], NoSlot} => j = k
             /\ alarm'[k] <=> Cardinality(Recent(happened'[k], time')) > Threshold
  <2>1. ASSUME NEW j \in Tracked, stamps'[j] = NoSlot, NEW i \in Tracked
        PROVE  Last(happened[j]) <= Last(happened[i])
    <3>1. j = v
      BY <1>4, <2>1, EntersStep DEF Tracked
    <3>2. Last(stamps[j]) <= Last(stamps[i])
      BY <1>4, <3>1, EntersStep DEF Quietest
    <3> QED
      BY <3>2, LastRemembered DEF Tracking
  <2> QED
    BY <1>4, <2>1, EntersStep
<1> QED
  BY <1>1, <1>2, <1>3, <1>4, FlapActs

\* The empty store.
LEMMA StoreInitially ==
    ASSUME StoreInit
    PROVE  StoreTypeOK /\ Recency
<1>1. Known = {}
  BY DEF StoreInit, Known
<1>2. Cardinality(Known) <= MaxProofs
  BY <1>1, FS_EmptySet, ProofAssumption
<1> QED
  BY <1>1, <1>2, ProofAssumption DEF StoreInit, StoreTypeOK, Recency

\* The counter that tracks no slot.
LEMMA FlapInitially ==
    ASSUME FlapInit
    PROVE  Tracking
<1>1. Tracked = {}
  BY DEF FlapInit, Tracked
<1>2. Cardinality(Tracked) <= MaxSlots
  BY <1>1, FS_EmptySet, FlapAssumption
<1>3. <<>> \in Seq(FlapTimes) /\ 1 \in FlapTimes
  BY FlapAssumption DEF FlapTimes
<1> QED
  BY <1>1, <1>2, <1>3 DEF FlapInit, Tracking

\* proofStore and flapCounter, for any number of slots and proofs and any sizes of the
\* tables: a full store forgets the slot used before all others, a proof that is not
\* forgotten sticks, a full counter forgets a slot replaced no later than any other, and the
\* alarm is raised exactly when the replacements within the window exceed the threshold.
THEOREM TablesStaySound == StoreSpec /\ FlapSpec => TablesSound
<1>1. StoreInit => StoreTypeOK /\ Recency
  BY StoreInitially
<1>2. StoreTypeOK /\ Recency /\ [StoreNext]_storeVars => (StoreTypeOK /\ Recency)'
  BY StoreStep
<1>3. StoreTypeOK /\ Recency /\ [StoreNext]_storeVars =>
        /\ [\A k \in Keys : (entries[k] # NoEntry /\ entries'[k] # NoEntry)
                                => entries'[k].secret = entries[k].secret]_storeVars
        /\ [\A k \in Keys : (entries[k] # NoEntry /\ entries'[k] = NoEntry)
                                => \A j \in Known \ {k} : <<k, j>> \in older]_storeVars
  BY StoreStep
<1>4. FlapInit => Tracking
  BY FlapInitially
<1>5. Tracking /\ [FlapNext]_flapVars => Tracking'
  BY FlapStep
<1>6. \A k \in Keys : ReferenceCount(k)' = Cardinality(Recent(happened'[k], time'))
  BY DEF ReferenceCount, Recent
<1>7. Tracking /\ [FlapNext]_flapVars =>
        /\ [\A k \in Tracked : stamps'[k] = NoSlot =>
                \A j \in Tracked : Last(happened[k]) <= Last(happened[j])]_flapVars
        /\ [\A k \in Keys : (stamps'[k] # stamps[k] /\ stamps'[k] # NoSlot) =>
                (alarm'[k] <=> ReferenceCount(k)' > Threshold)]_flapVars
  BY <1>6, FlapStep
<1>8. StoreSpec => ProofSticks /\ EvictsLeastRecent
  BY <1>1, <1>2, <1>3, PTL DEF StoreSpec, ProofSticks, EvictsLeastRecent
<1>9. FlapSpec => ForgetsQuietest /\ AlarmExact
  BY <1>4, <1>5, <1>7, PTL DEF FlapSpec, ForgetsQuietest, AlarmExact
<1> QED
  BY <1>8, <1>9 DEF TablesSound


-----------------------------------------------------------------------------
(* RateLimiter.                                                            *)

\* The admissions h of an entry whose window began at s and has counted n, at time t:
\* the last n are not before s, the others were let in by readings before s, and all
\* but Limit of those by readings before the window before.
Round(h, n, s, t) ==
    /\ h \in Seq(Nat) /\ n \in 1 .. Limit /\ n <= Len(h) /\ s \in Nat /\ s <= t
    /\ \A i \in DOMAIN h :
          /\ h[i] <= t /\ h[i] < s + Window + Lag
          /\ i > Len(h) - n => h[i] >= s
          /\ i <= Len(h) - n => h[i] < s + Lag
          /\ i <= Len(h) - n - Limit => h[i] + Window < s + Lag

\* Twice the limit of admissions apart is a window less the lag apart.
Spread(h) == \A i, j \in DOMAIN h : j >= i + 2 * Limit => h[j] + Lag > h[i] + Window

\* The first request of an address.
LEMMA RoundOpens ==
    ASSUME NEW t \in Nat, NEW a \in Nat, a <= t, t <= a + Lag
    PROVE  Round(<<t>>, 1, a, t) /\ Spread(<<t>>)
<1>1. <<t>> \in Seq(Nat) /\ Len(<<t>>) = 1 /\ DOMAIN <<t>> = {1} /\ <<t>>[1] = t
  OBVIOUS
<1>2. 1 \in 1 .. Limit /\ Lag \in Nat /\ Window \in Nat \ {0} /\ Limit \in Nat \ {0}
  BY RateAssumption
<1> DEFINE h == <<t>>
<1> HIDE DEF h
<1>3. Round(h, 1, a, t)
  BY <1>1, <1>2 DEF Round, h
<1>4. Spread(h)
  BY <1>1, <1>2 DEF Spread, h
<1> QED
  BY <1>3, <1>4 DEF h

\* A request that starts the window again.
LEMMA RoundRestarts ==
    ASSUME NEW h, NEW n, NEW s, NEW t \in Nat, Round(h, n, s, t), Spread(h),
           NEW a \in Nat, a <= t, t <= a + Lag, a >= s + Window
    PROVE  Round(Append(h, t), 1, a, t) /\ Spread(Append(h, t))
<1> DEFINE g == Append(h, t)
<1>1. Lag \in Nat /\ Window \in Nat \ {0} /\ Limit \in Nat \ {0}
  BY RateAssumption
<1>2. h \in Seq(Nat) /\ Len(h) \in Nat /\ DOMAIN h = 1 .. Len(h) /\ \A i \in 1 .. Len(h) : h[i] \in Nat
  BY DEF Round
<1>3. /\ g \in Seq(Nat) /\ Len(g) = Len(h) + 1 /\ DOMAIN g = 1 .. (Len(h) + 1) /\ g[Len(h) + 1] = t
      /\ \A i \in 1 .. Len(h) : g[i] = h[i]
  BY <1>2
<1> HIDE DEF g
<1>4. n \in 1 .. Limit /\ n <= Len(h) /\ s \in Nat /\ s <= t
  BY DEF Round
<1>5. ASSUME NEW i \in 1 .. Len(h)
      PROVE  /\ g[i] \in Nat /\ g[i] <= t /\ g[i] < a + Lag
             /\ i <= Len(h) - Limit => g[i] + Window < a + Lag
  <2>1. /\ h[i] \in Nat /\ h[i] <= t /\ h[i] < s + Window + Lag
        /\ i <= Len(h) - n => h[i] < s + Lag
    BY <1>2 DEF Round
  <2>2. g[i] = h[i]
    BY <1>3
  <2>3. h[i] < a + Lag
    BY <1>1, <1>4, <2>1
  <2>4. ASSUME i <= Len(h) - Limit PROVE h[i] + Window < a + Lag
    <3>1. i <= Len(h) - n
      BY <1>1, <1>2, <1>4, <2>4
    <3> QED
      BY <1>1, <1>4, <2>1, <3>1
  <2> QED
    BY <2>1, <2>2, <2>3, <2>4
<1>6. Round(g, 1, a, t)
  <2>1. ASSUME NEW i \in 1 .. (Len(h) + 1)
        PROVE  /\ g[i] <= t /\ g[i] < a + Window + Lag
               /\ i > Len(g) - 1 => g[i] >= a
               /\ i <= Len(g) - 1 => g[i] < a + Lag
               /\ i <= Len(g) - 1 - Limit => g[i] + Window < a + Lag
    <3>1. CASE i = Len(h) + 1
      BY <1>1, <1>2, <1>3, <3>1
    <3>2. CASE i # Len(h) + 1
      <4>1. i \in 1 .. Len(h)
        BY <1>2, <3>2
      <4> QED
        BY <1>1, <1>2, <1>3, <1>5, <4>1
    <3> QED
      BY <3>1, <3>2
  <2>2. 1 \in 1 .. Limit /\ 1 <= Len(g)
    BY <1>1, <1>2, <1>3
  <2> QED
    BY <1>3, <2>1, <2>2 DEF Round
<1>7. ASSUME NEW i \in 1 .. (Len(h) + 1), NEW j \in 1 .. (Len(h) + 1), j >= i + 2 * Limit
      PROVE  g[j] + Lag > g[i] + Window
  <2>1. i \in 1 .. Len(h) /\ i <= Len(h) - Limit
    BY <1>1, <1>2, <1>7
  <2>2. CASE j = Len(h) + 1
    <3>1. g[j] = t /\ g[i] \in Nat /\ g[i] + Window < a + Lag
      BY <1>3, <1>5, <2>1, <2>2
    <3> QED
      BY <1>1, <3>1
  <2>3. CASE j # Len(h) + 1
    <3>1. j \in 1 .. Len(h)
      BY <1>2, <2>3
    <3> QED
      BY <1>2, <1>3, <1>7, <2>1, <3>1 DEF Spread
  <2> QED
    BY <2>2, <2>3
<1>8. Spread(g)
  BY <1>3, <1>7 DEF Spread
<1> QED
  BY <1>6, <1>8 DEF g

\* A request that is counted in the window.
LEMMA RoundCounts ==
    ASSUME NEW h, NEW n, NEW s, NEW t \in Nat, Round(h, n, s, t), Spread(h),
           NEW a \in Nat, a <= t, t <= a + Lag, ~(a >= s + Window), n < Limit
    PROVE  Round(Append(h, t), n + 1, s, t) /\ Spread(Append(h, t))
<1> DEFINE g == Append(h, t)
<1>1. Lag \in Nat /\ Window \in Nat \ {0} /\ Limit \in Nat \ {0}
  BY RateAssumption
<1>2. h \in Seq(Nat) /\ Len(h) \in Nat /\ DOMAIN h = 1 .. Len(h) /\ \A i \in 1 .. Len(h) : h[i] \in Nat
  BY DEF Round
<1>3. /\ g \in Seq(Nat) /\ Len(g) = Len(h) + 1 /\ DOMAIN g = 1 .. (Len(h) + 1) /\ g[Len(h) + 1] = t
      /\ \A i \in 1 .. Len(h) : g[i] = h[i]
  BY <1>2
<1> HIDE DEF g
<1>4. n \in 1 .. Limit /\ n <= Len(h) /\ s \in Nat /\ s <= t
  BY DEF Round
<1>5. Len(g) - (n + 1) = Len(h) - n
  BY <1>2, <1>3, <1>4
<1>6. Round(g, n + 1, s, t)
  <2>1. ASSUME NEW i \in 1 .. (Len(h) + 1)
        PROVE  /\ g[i] <= t /\ g[i] < s + Window + Lag
               /\ i > Len(h) - n => g[i] >= s
               /\ i <= Len(h) - n => g[i] < s + Lag
               /\ i <= Len(h) - n - Limit => g[i] + Window < s + Lag
    <3>1. CASE i = Len(h) + 1
      BY <1>1, <1>2, <1>3, <1>4, <3>1
    <3>2. CASE i # Len(h) + 1
      <4>1. i \in 1 .. Len(h)
        BY <1>2, <3>2
      <4> QED
        BY <1>2, <1>3, <4>1 DEF Round
    <3> QED
      BY <3>1, <3>2
  <2>2. n + 1 \in 1 .. Limit /\ n + 1 <= Len(g)
    BY <1>1, <1>2, <1>3, <1>4
  <2> QED
    BY <1>3, <1>4, <1>5, <2>1, <2>2 DEF Round
<1>7. ASSUME NEW i \in 1 .. (Len(h) + 1), NEW j \in 1 .. (Len(h) + 1), j >= i + 2 * Limit
      PROVE  g[j] + Lag > g[i] + Window
  <2>1. i \in 1 .. Len(h) /\ i <= Len(h) - n - Limit
    BY <1>1, <1>2, <1>4, <1>7
  <2>2. CASE j = Len(h) + 1
    <3>1. g[j] = t /\ g[i] = h[i] /\ h[i] \in Nat /\ h[i] + Window < s + Lag
      BY <1>2, <1>3, <2>1, <2>2 DEF Round
    <3> QED
      BY <1>1, <1>4, <3>1
  <2>3. CASE j # Len(h) + 1
    <3>1. j \in 1 .. Len(h)
      BY <1>2, <2>3
    <3> QED
      BY <1>2, <1>3, <1>7, <2>1, <3>1 DEF Spread
  <2> QED
    BY <2>2, <2>3
<1>8. Spread(g)
  BY <1>3, <1>7 DEF Spread
<1> QED
  BY <1>6, <1>8 DEF g

\* Of admissions that are spread, no more than twice the limit are in a window less the lag.
LEMMA SpreadCounted ==
    ASSUME NEW h \in Seq(Nat), Spread(h), NEW t \in Nat, Lag <= Window
    PROVE  Cardinality({i \in DOMAIN h : h[i] \in t .. (t + Window - Lag)}) <= 2 * Limit
<1> DEFINE S == {i \in DOMAIN h : h[i] \in t .. (t + Window - Lag)}
<1>1. Lag \in Nat /\ Window \in Nat /\ Limit \in Nat
  BY RateAssumption
<1>2. Len(h) \in Nat /\ DOMAIN h = 1 .. Len(h) /\ \A i \in 1 .. Len(h) : h[i] \in Nat
  OBVIOUS
<1>3. CASE S = {}
  <2>1. Cardinality(S) = 0
    BY <1>3, FS_EmptySet
  <2> QED
    BY <1>1, <2>1
<1>4. CASE S # {}
  <2>1. S \in SUBSET Nat
    BY <1>2
  <2>2. PICK a \in S : \A b \in S : a <= b
    BY <1>4, <2>1, FirstPosition
  <2> DEFINE z == a + 2 * Limit - 1
  <2>3. ASSUME NEW b \in S PROVE b \in a .. z
    <3>1. a \in 1 .. Len(h) /\ b \in 1 .. Len(h) /\ a <= b
      BY <1>2, <2>2, <2>3
    <3>2. ~(h[b] + Lag > h[a] + Window)
      BY <1>1, <1>2, <3>1, <2>2, <2>3
    <3>3. ~(b >= a + 2 * Limit)
      BY <1>2, <3>1, <3>2 DEF Spread
    <3> QED
      BY <1>1, <3>1, <3>3
  <2>4. a \in Int /\ z \in Int /\ z - a + 1 <= 2 * Limit
    BY <1>1, <2>1, <2>2
  <2> HIDE DEF z, S
  <2>5. IsFiniteSet(a .. z) /\ Cardinality(a .. z) = IF a > z THEN 0 ELSE z - a + 1
    BY <2>4, FS_Interval
  <2>6. S \in SUBSET (a .. z)
    BY <2>3
  <2>7. Cardinality(S) \in Nat /\ Cardinality(S) <= Cardinality(a .. z)
    BY <2>5, <2>6, FS_Subset, FS_CardinalityType
  <2>8. Cardinality(S) <= 2 * Limit
    BY <1>1, <2>4, <2>5, <2>7
  <2> QED
    BY <2>8 DEF S
<1> QED
  BY <1>3, <1>4

\* A window that is used up has counted Limit admissions since it began.
LEMMA RoundFull ==
    ASSUME NEW h, NEW n, NEW s, NEW t \in Nat, Round(h, n, s, t), n >= Limit, NEW from \in Nat, from <= s
    PROVE  Cardinality({i \in DOMAIN h : h[i] \in from .. t}) >= Limit
<1> DEFINE S == {i \in DOMAIN h : h[i] \in from .. t}
           l == Len(h)
<1>1. Limit \in Nat \ {0} /\ n = Limit /\ n <= l /\ s \in Nat
  BY RateAssumption DEF Round
<1>2. l \in Nat /\ DOMAIN h = 1 .. l /\ \A i \in 1 .. l : h[i] \in Nat
  BY DEF Round
<1>3. ASSUME NEW i \in (l - Limit + 1) .. l PROVE i \in S
  <2>1. i \in 1 .. l /\ i > l - n
    BY <1>1, <1>2
  <2>2. h[i] \in Nat /\ h[i] <= t /\ h[i] >= s
    BY <1>2, <2>1 DEF Round
  <2> QED
    BY <1>1, <1>2, <2>1, <2>2
<1>4. IsFiniteSet(S)
  <2>1. IsFiniteSet(1 .. l) /\ S \in SUBSET (1 .. l)
    BY <1>2, FS_Interval
  <2> QED
    BY <2>1, FS_Subset
<1>5. (l - Limit + 1) .. l \in SUBSET S
  BY <1>3
<1>6. Cardinality((l - Limit + 1) .. l) <= Cardinality(S)
  BY <1>4, <1>5, FS_Subset
<1>7. Cardinality((l - Limit + 1) .. l) = Limit
  <2>1. l - Limit + 1 \in Int /\ l \in Int /\ ~(l - Limit + 1 > l) /\ l - (l - Limit + 1) + 1 = Limit
    BY <1>1, <1>2
  <2> QED
    BY <2>1, FS_Interval
<1>8. Cardinality(S) \in Nat
  BY <1>4, FS_CardinalityType
<1> HIDE DEF S
<1> QED
  BY <1>1, <1>6, <1>7, <1>8 DEF S

\* What is known of a table whose calls are under way.
LimiterInv ==
    /\ LimiterTypeOK /\ IsFiniteSet(Counted)
    /\ \A c \in Calls : pending[c] # Idle => pending[c].at <= wall /\ wall <= pending[c].at + Lag
    /\ \A k \in Counted : Round(admitted[k], windows[k].count, windows[k].start, wall)
    /\ \A k \in Addresses : Spread(admitted[k]) /\ (k \in Counted \/ admitted[k] = <<>>)

Counters == [count : 1 .. Limit, start : LimiterTimes, seen : 0 .. LimiterClock]

\* An entry is not the absence of one.
LEMMA CountersSeen ==
    /\ \A e \in Counters : e # Unseen /\ e.count \in Nat /\ e.start \in Nat
    /\ LimiterTimes \subseteq Nat /\ \A h \in Seq(LimiterTimes) : h \in Seq(Nat)
<1>1. LimiterTimes \subseteq Nat /\ 1 .. Limit \subseteq Nat /\ 0 .. LimiterClock \subseteq Nat
  BY RateAssumption DEF LimiterTimes
<1>2. ASSUME NEW e \in Counters PROVE e # Unseen /\ e.count \in Nat /\ e.start \in Nat
  BY <1>1, RateAssumption DEF Counters
<1>3. ASSUME NEW h \in Seq(LimiterTimes) PROVE h \in Seq(Nat)
  <2>1. Len(h) \in Nat /\ h \in [1 .. Len(h) -> LimiterTimes]
    OBVIOUS
  <2>2. h \in [1 .. Len(h) -> Nat]
    BY <1>1, <2>1
  <2> QED
    BY <2>1, <2>2
<1> QED
  BY <1>1, <1>2, <1>3

\* A later time changes nothing that is known of the admissions.
LEMMA RoundLater ==
    ASSUME NEW h, NEW n, NEW s, NEW t \in Nat, Round(h, n, s, t)
    PROVE  Round(h, n, s, t + 1)
<1>1. \A i \in DOMAIN h : h[i] \in Nat /\ s \in Nat
  BY DEF Round
<1>2. \A i \in DOMAIN h : h[i] <= t + 1
  BY <1>1 DEF Round
<1>3. s <= t + 1
  BY DEF Round
<1> QED
  BY <1>2, <1>3 DEF Round

\* The clock moves: no reading is older than the lag.
LEMMA LimiterTickStep ==
    ASSUME LimiterInv, LimiterTick
    PROVE  LimiterInv'
<1>1. wall \in Nat /\ wall' = wall + 1 /\ wall' \in LimiterTimes
  BY RateAssumption DEF LimiterInv, LimiterTypeOK, LimiterTick, LimiterTimes
<1>2. UNCHANGED <<windows, ticks, pending, admitted>> /\ Counted' = Counted
  BY DEF LimiterTick, Counted
<1>3. LimiterTypeOK'
  BY <1>1, <1>2 DEF LimiterInv, LimiterTypeOK
<1>4. \A k \in Counted : Round(admitted[k], windows[k].count, windows[k].start, wall')
  BY <1>1, RoundLater DEF LimiterInv
<1>5. ASSUME NEW c \in Calls, pending[c] # Idle PROVE pending[c].at <= wall' /\ wall' <= pending[c].at + Lag
  <2>1. pending[c].at \in Nat
    BY <1>5, CountersSeen DEF LimiterInv, LimiterTypeOK
  <2>2. pending[c].at <= wall /\ wall < pending[c].at + Lag
    BY <1>5 DEF LimiterInv, LimiterTick
  <2> QED
    BY <1>1, <2>1, <2>2, RateAssumption
<1> QED
  BY <1>2, <1>3, <1>4, <1>5 DEF LimiterInv

\* A call reads the clock before it takes the lock.
LEMMA ReadClockStep ==
    ASSUME LimiterInv, NEW c \in Calls, NEW k \in Addresses, ReadClock(c, k)
    PROVE  LimiterInv'
<1>1. UNCHANGED <<wall, windows, ticks, admitted>> /\ Counted' = Counted
  BY DEF ReadClock, Counted
<1>2. /\ pending \in [Calls -> [key : Addresses, at : LimiterTimes] \cup {Idle}]
      /\ pending' = [pending EXCEPT ![c] = [key |-> k, at |-> wall]] /\ wall \in LimiterTimes
  BY DEF ReadClock, LimiterInv, LimiterTypeOK
<1>3. pending' \in [Calls -> [key : Addresses, at : LimiterTimes] \cup {Idle}]
  BY <1>2
<1>4. LimiterTypeOK'
  BY <1>1, <1>3 DEF LimiterInv, LimiterTypeOK
<1>5. wall \in Nat /\ Lag \in Nat
  BY <1>2, CountersSeen, RateAssumption
<1>6. ASSUME NEW d \in Calls, pending'[d] # Idle PROVE pending'[d].at <= wall /\ wall <= pending'[d].at + Lag
  <2>1. CASE d = c
    <3>1. pending'[d] = [key |-> k, at |-> wall]
      BY <1>2, <2>1
    <3> QED
      BY <1>5, <3>1
  <2>2. CASE d # c
    <3>1. pending'[d] = pending[d]
      BY <1>2, <2>2
    <3> QED
      BY <1>6, <3>1 DEF LimiterInv
  <2> QED
    BY <2>1, <2>2
<1> QED
  BY <1>1, <1>4, <1>6 DEF LimiterInv

\* What a call that holds the lock knows, and what it does to the calls.
LEMMA LockedActs ==
    ASSUME LimiterInv, NEW c \in Calls, Locked(c)
    PROVE  /\ pending[c].key \in Addresses /\ pending[c].at \in LimiterTimes /\ pending[c].at \in Nat
           /\ pending[c].at <= wall /\ wall <= pending[c].at + Lag
           /\ wall' = wall /\ wall \in Nat /\ wall \in LimiterTimes
           /\ ticks + 1 \in 0 .. LimiterClock /\ ticks' \in 0 .. LimiterClock
           /\ pending' \in [Calls -> [key : Addresses, at : LimiterTimes] \cup {Idle}]
           /\ \A d \in Calls : pending'[d] = Idle \/ pending'[d] = pending[d]
           /\ \A d \in Calls : d # c => pending'[d] = pending[d]
<1>1. pending \in [Calls -> [key : Addresses, at : LimiterTimes] \cup {Idle}] /\ pending[c] # Idle
  BY DEF LimiterInv, LimiterTypeOK, Locked
<1>2. pending[c].key \in Addresses /\ pending[c].at \in LimiterTimes /\ pending[c].at \in Nat
  BY <1>1, CountersSeen
<1>3. pending' = [pending EXCEPT ![c] = Idle]
  BY DEF Locked
<1>4. /\ pending' \in [Calls -> [key : Addresses, at : LimiterTimes] \cup {Idle}]
      /\ \A d \in Calls : pending'[d] = Idle \/ pending'[d] = pending[d]
      /\ \A d \in Calls : d # c => pending'[d] = pending[d]
  BY <1>1, <1>3
<1>5. ticks \in 0 .. LimiterClock /\ ticks < LimiterClock /\ ticks' = ticks + 1 /\ LimiterClock \in Nat
  BY RateAssumption DEF LimiterInv, LimiterTypeOK, Locked
<1>6. wall' = wall /\ wall \in LimiterTimes /\ wall \in Nat
  BY CountersSeen DEF LimiterInv, LimiterTypeOK, Locked
<1>7. pending[c].at <= wall /\ wall <= pending[c].at + Lag
  BY <1>1 DEF LimiterInv
<1>8. ticks + 1 \in 0 .. LimiterClock /\ ticks' \in 0 .. LimiterClock
  BY <1>5
<1> QED
  BY <1>2, <1>4, <1>6, <1>7, <1>8

\* A call on an address that has an entry.
LEMMA EntryStep ==
    ASSUME LimiterInv, NEW c \in Calls, Locked(c), NEW k \in Counted,
           NEW e \in Counters, windows' = [windows EXCEPT ![k] = e],
           NEW h \in Seq(LimiterTimes), admitted' = [admitted EXCEPT ![k] = h],
           Round(h, e.count, e.start, wall), Spread(h)
    PROVE  LimiterInv'
<1>1. /\ windows \in [Addresses -> Counters \cup {Unseen}] /\ admitted \in [Addresses -> Seq(LimiterTimes)]
      /\ k \in Addresses
  BY DEF LimiterInv, LimiterTypeOK, Counters, Counted
<1>2. /\ windows' \in [Addresses -> Counters \cup {Unseen}] /\ windows'[k] = e
      /\ \A j \in Addresses \ {k} : windows'[j] = windows[j]
  BY <1>1
<1>3. /\ admitted' \in [Addresses -> Seq(LimiterTimes)] /\ admitted'[k] = h
      /\ \A j \in Addresses \ {k} : admitted'[j] = admitted[j]
  BY <1>1
<1>4. Counted' = Counted
  BY <1>1, <1>2, CountersSeen DEF Counted
<1>5. LimiterTypeOK'
  BY <1>2, <1>3, <1>4, LockedActs DEF LimiterInv, LimiterTypeOK, Counters
<1>6. \A j \in Counted : Round(admitted'[j], windows'[j].count, windows'[j].start, wall')
  <2>1. ASSUME NEW j \in Counted PROVE Round(admitted'[j], windows'[j].count, windows'[j].start, wall)
    <3>1. CASE j = k
      BY <1>2, <1>3, <3>1
    <3>2. CASE j # k
      <4>1. j \in Addresses \ {k}
        BY <3>2 DEF Counted
      <4> QED
        BY <1>2, <1>3, <4>1 DEF LimiterInv
    <3> QED
      BY <3>1, <3>2
  <2> QED
    BY <2>1, LockedActs
<1>7. \A j \in Addresses : Spread(admitted'[j]) /\ (j \in Counted \/ admitted'[j] = <<>>)
  <2>1. ASSUME NEW j \in Addresses PROVE Spread(admitted'[j]) /\ (j \in Counted \/ admitted'[j] = <<>>)
    <3>1. CASE j = k
      BY <1>3, <3>1
    <3>2. CASE j # k
      BY <1>3, <3>2 DEF LimiterInv
    <3> QED
      BY <3>1, <3>2
  <2> QED
    BY <2>1
<1>8. \A d \in Calls : pending'[d] # Idle => pending'[d].at <= wall' /\ wall' <= pending'[d].at + Lag
  BY LockedActs DEF LimiterInv
<1> QED
  BY <1>4, <1>5, <1>6, <1>7, <1>8 DEF LimiterInv

\* An address gets an entry, where there is room or in the place of the least recent one.
Opens(c, v) ==
    LET k == pending[c].key IN
    /\ Locked(c)
    /\ k \notin Counted
    /\ LeastSeen(v) \/ (v = k /\ Cardinality(Counted) < MaxEntries)
    /\ windows' = [windows EXCEPT ![v] = Unseen, ![k] = Fresh(pending[c].at)]
    /\ admitted' = [admitted EXCEPT ![v] = <<>>, ![k] = <<wall>>]

\* An address gets an entry, in a free place or in that of the one seen longest ago.
LEMMA OpensStep ==
    ASSUME LimiterInv, NEW c \in Calls, NEW v \in Addresses, Opens(c, v)
    PROVE  LimiterInv' /\ admitted' # admitted
<1> DEFINE k == pending[c].key
           e == Fresh(pending[c].at)
<1>0. Locked(c)
  BY DEF Opens
<1>1. /\ windows \in [Addresses -> Counters \cup {Unseen}] /\ admitted \in [Addresses -> Seq(LimiterTimes)]
      /\ k \in Addresses /\ k \notin Counted /\ admitted[k] = <<>>
  BY <1>0, LockedActs DEF LimiterInv, LimiterTypeOK, Counters, Counted, Opens
<1>2. e \in Counters /\ e.count = 1 /\ e.start = pending[c].at
  BY <1>0, LockedActs, RateAssumption DEF Fresh, Counters
<1>3. <<wall>> \in Seq(LimiterTimes) /\ <<>> \in Seq(LimiterTimes) /\ <<wall>> # <<>>
  BY <1>0, LockedActs
<1>4. Round(<<wall>>, e.count, e.start, wall) /\ Spread(<<wall>>) /\ Spread(<<>>)
  <2>1. Round(<<wall>>, 1, pending[c].at, wall) /\ Spread(<<wall>>)
    BY <1>0, LockedActs, RoundOpens
  <2>2. Spread(<<>>)
    BY DEF Spread
  <2> QED
    BY <1>2, <2>1, <2>2
<1>5. /\ windows' = [windows EXCEPT ![v] = Unseen, ![k] = e]
      /\ admitted' = [admitted EXCEPT ![v] = <<>>, ![k] = <<wall>>]
      /\ LeastSeen(v) \/ (v = k /\ Cardinality(Counted) < MaxEntries)
  BY DEF Opens
<1> HIDE DEF k, e
<1>6. /\ windows' \in [Addresses -> Counters \cup {Unseen}] /\ windows'[k] = e
      /\ v # k => windows'[v] = Unseen
      /\ \A j \in Addresses \ {k, v} : windows'[j] = windows[j]
  BY <1>1, <1>2, <1>5
<1>7. /\ admitted' \in [Addresses -> Seq(LimiterTimes)] /\ admitted'[k] = <<wall>>
      /\ v # k => admitted'[v] = <<>>
      /\ \A j \in Addresses \ {k, v} : admitted'[j] = admitted[j]
  BY <1>1, <1>3, <1>5
<1>8. Counted' = (Counted \ {v}) \cup {k}
  BY <1>1, <1>2, <1>6, CountersSeen DEF Counted
<1>9. IsFiniteSet(Counted') /\ Cardinality(Counted') <= MaxEntries
  <2>1. IsFiniteSet(Counted) /\ Cardinality(Counted) <= MaxEntries /\ MaxEntries \in Nat
    BY RateAssumption DEF LimiterInv, LimiterTypeOK
  <2>2. v \in Counted \/ Cardinality(Counted) < MaxEntries
    BY <1>5 DEF LeastSeen
  <2> QED
    BY <1>1, <1>8, <2>1, <2>2, OneForAnother
<1>10. LimiterTypeOK'
  BY <1>0, <1>6, <1>7, <1>9, LockedActs DEF LimiterInv, LimiterTypeOK, Counters
<1>11. \A j \in Counted' : Round(admitted'[j], windows'[j].count, windows'[j].start, wall')
  <2>1. \A j \in Counted' : j = k \/ (j \in Counted /\ j \in Addresses \ {k, v})
    BY <1>1, <1>8 DEF Counted
  <2>2. wall' = wall
    BY <1>0, LockedActs
  <2>3. \A j \in Counted : Round(admitted[j], windows[j].count, windows[j].start, wall)
    BY DEF LimiterInv
  <2> QED
    BY <1>4, <1>6, <1>7, <2>1, <2>2, <2>3
<1>12. \A j \in Addresses : Spread(admitted'[j]) /\ (j \in Counted' \/ admitted'[j] = <<>>)
  <2>1. \A j \in Addresses : Spread(admitted[j]) /\ (j \in Counted \/ admitted[j] = <<>>)
    BY DEF LimiterInv
  <2>2. ASSUME NEW j \in Addresses PROVE Spread(admitted'[j]) /\ (j \in Counted' \/ admitted'[j] = <<>>)
    <3>1. CASE j = k
      BY <1>4, <1>7, <1>8, <3>1
    <3>2. CASE j = v /\ j # k
      BY <1>4, <1>7, <3>2
    <3>3. CASE j \notin {k, v}
      BY <1>7, <1>8, <2>1, <3>3
    <3> QED
      BY <3>1, <3>2, <3>3
  <2> QED
    BY <2>2
<1>13. \A d \in Calls : pending'[d] # Idle => pending'[d].at <= wall' /\ wall' <= pending'[d].at + Lag
  BY <1>0, LockedActs DEF LimiterInv
<1>14. admitted' # admitted
  BY <1>1, <1>3, <1>7
<1> QED
  BY <1>9, <1>10, <1>11, <1>12, <1>13, <1>14 DEF LimiterInv

\* What a call finds that has an entry.
LEMMA EntryActs ==
    ASSUME LimiterInv, NEW c \in Calls, Locked(c), windows[pending[c].key] # Unseen
    PROVE  LET k == pending[c].key IN
           /\ k \in Counted /\ windows[k] \in Counters
           /\ admitted[k] \in Seq(LimiterTimes) /\ Spread(admitted[k])
           /\ Round(admitted[k], windows[k].count, windows[k].start, wall)
           /\ Append(admitted[k], wall) \in Seq(LimiterTimes) /\ Append(admitted[k], wall) # admitted[k]
           /\ k \in DOMAIN admitted /\ admitted = [admitted EXCEPT ![k] = admitted[k]]
<1> DEFINE k == pending[c].key
<1>1. k \in Addresses /\ wall \in LimiterTimes
  BY LockedActs
<1>2. k \in Counted /\ windows[k] \in Counters
  BY <1>1 DEF Counted, LimiterInv, LimiterTypeOK, Counters
<1>3. admitted \in [Addresses -> Seq(LimiterTimes)]
  BY DEF LimiterInv, LimiterTypeOK
<1>4. admitted[k] \in Seq(LimiterTimes) /\ Spread(admitted[k])
  BY <1>1, <1>3 DEF LimiterInv
<1>5. Round(admitted[k], windows[k].count, windows[k].start, wall)
  BY <1>2 DEF LimiterInv
<1>6. Append(admitted[k], wall) \in Seq(LimiterTimes) /\ Len(Append(admitted[k], wall)) = Len(admitted[k]) + 1
      /\ Len(admitted[k]) \in Nat
  BY <1>1, <1>4
<1>7. Append(admitted[k], wall) # admitted[k]
  BY <1>6
<1>8. admitted = [admitted EXCEPT ![k] = admitted[k]]
  BY <1>1, <1>3
<1> QED
  BY <1>1, <1>2, <1>3, <1>4, <1>5, <1>6, <1>7, <1>8

\* A window that is over starts again.
LEMMA RestartStep ==
    ASSUME LimiterInv, NEW c \in Calls, AllowRestart(c)
    PROVE  LimiterInv' /\ admitted' # admitted
<1> DEFINE k == pending[c].key
           e == Fresh(pending[c].at)
           h == Append(admitted[k], wall)
<1>1. Locked(c) /\ windows[k] # Unseen /\ pending[c].at >= windows[k].start + Window
  BY DEF AllowRestart, Expired
<1>2. windows' = [windows EXCEPT ![k] = e] /\ admitted' = [admitted EXCEPT ![k] = h]
  BY DEF AllowRestart, Admit
<1>3. e \in Counters /\ e.count = 1 /\ e.start = pending[c].at
  BY <1>1, LockedActs, RateAssumption DEF Fresh, Counters
<1>4. Round(h, 1, pending[c].at, wall) /\ Spread(h)
  BY <1>1, LockedActs, EntryActs, RoundRestarts
<1>5. k \in Counted /\ h \in Seq(LimiterTimes) /\ h # admitted[k] /\ k \in DOMAIN admitted
  BY <1>1, EntryActs
<1> HIDE DEF k, e, h
<1>6. LimiterInv'
  BY <1>1, <1>2, <1>3, <1>4, <1>5, EntryStep
<1> QED
  BY <1>2, <1>5, <1>6

\* A request is counted in the window.
LEMMA CountedStep ==
    ASSUME LimiterInv, NEW c \in Calls, AllowCounted(c)
    PROVE  LimiterInv' /\ admitted' # admitted
<1> DEFINE k == pending[c].key
           n == windows[k].count
           e == [count |-> n + 1, start |-> windows[k].start, seen |-> ticks + 1]
           h == Append(admitted[k], wall)
<1>1. Locked(c) /\ windows[k] # Unseen /\ ~(pending[c].at >= windows[k].start + Window) /\ n < Limit
  BY DEF AllowCounted, Expired
<1>2. k \in Counted /\ h \in Seq(LimiterTimes) /\ h # admitted[k] /\ k \in DOMAIN admitted
      /\ windows[k] \in Counters /\ windows \in [Addresses -> Counters \cup {Unseen}] /\ k \in Addresses
  BY <1>1, EntryActs DEF LimiterInv, LimiterTypeOK, Counters, Counted
<1>3. windows' = [windows EXCEPT ![k] = e]
  <2>1. windows' = [windows EXCEPT ![k].count = n + 1, ![k].seen = ticks + 1]
    BY DEF AllowCounted
  <2>2. windows' = [windows EXCEPT ![k] = [[windows[k] EXCEPT !.count = n + 1] EXCEPT !.seen = ticks + 1]]
    BY <1>2, <2>1
  <2>3. ASSUME NEW r \in Counters, NEW x, NEW y
        PROVE  [[r EXCEPT !.count = x] EXCEPT !.seen = y] = [count |-> x, start |-> r.start, seen |-> y]
    <3> DEFINE q == [r EXCEPT !.count = x]
    <3>1. q = [count |-> x, start |-> r.start, seen |-> r.seen]
      BY DEF Counters
    <3> HIDE DEF q
    <3>2. [q EXCEPT !.seen = y] = [count |-> x, start |-> r.start, seen |-> y]
      BY <3>1
    <3> QED
      BY <3>2 DEF q
  <2>4. [[windows[k] EXCEPT !.count = n + 1] EXCEPT !.seen = ticks + 1] = e
    BY <1>2, <2>3
  <2> QED
    BY <2>2, <2>4
<1>4. admitted' = [admitted EXCEPT ![k] = h]
  BY DEF AllowCounted, Admit
<1>5. e \in Counters /\ e.count = n + 1 /\ e.start = windows[k].start
  <2>1. n \in 1 .. Limit /\ windows[k].start \in LimiterTimes
    BY <1>2 DEF Counters
  <2>2. n + 1 \in 1 .. Limit
    BY <1>1, <2>1, RateAssumption
  <2>3. ticks + 1 \in 0 .. LimiterClock
    BY <1>1, LockedActs
  <2> HIDE DEF n, k
  <2> QED
    BY <2>1, <2>2, <2>3 DEF Counters
<1>6. Round(h, n + 1, windows[k].start, wall) /\ Spread(h)
  BY <1>1, LockedActs, EntryActs, RoundCounts
<1> HIDE DEF k, n, e, h
<1>7. LimiterInv'
  BY <1>1, <1>2, <1>3, <1>4, <1>5, <1>6, EntryStep
<1> QED
  BY <1>2, <1>4, <1>7

\* A request is denied: the window holds its limit.
LEMMA DenyStep ==
    ASSUME LimiterInv, NEW c \in Calls, Deny(c)
    PROVE  /\ LimiterInv'
           /\ AdmittedIn(pending[c].key, IF wall > Window + Lag THEN wall - Window - Lag ELSE 0, wall) >= Limit
<1> DEFINE k == pending[c].key
           e == [count |-> windows[k].count, start |-> windows[k].start, seen |-> ticks + 1]
           h == admitted[k]
           from == IF wall > Window + Lag THEN wall - Window - Lag ELSE 0
<1>1. /\ Locked(c) /\ windows[k] # Unseen /\ ~(pending[c].at >= windows[k].start + Window)
      /\ windows[k].count >= Limit
  BY DEF Deny, Expired
<1>2. k \in Counted /\ h \in Seq(LimiterTimes) /\ Spread(h) /\ windows[k] \in Counters
      /\ Round(h, windows[k].count, windows[k].start, wall) /\ admitted = [admitted EXCEPT ![k] = h]
  BY <1>1, EntryActs
<1>3. windows' = [windows EXCEPT ![k] = e]
  <2>1. windows' = [windows EXCEPT ![k] = [windows[k] EXCEPT !.seen = ticks + 1]]
    BY DEF Deny
  <2>2. [windows[k] EXCEPT !.seen = ticks + 1] = e
    BY <1>2 DEF Counters
  <2> QED
    BY <2>1, <2>2
<1>4. admitted' = [admitted EXCEPT ![k] = h]
  BY <1>2 DEF Deny
<1>5. e \in Counters /\ e.count = windows[k].count /\ e.start = windows[k].start
  BY <1>1, <1>2, LockedActs DEF Counters
<1>6. windows[k].start \in Nat /\ wall \in Nat /\ pending[c].at \in Nat /\ wall <= pending[c].at + Lag
      /\ Window \in Nat /\ Lag \in Nat
  BY <1>1, <1>2, LockedActs, CountersSeen, RateAssumption
<1>7. from \in Nat /\ from <= windows[k].start
  BY <1>1, <1>6
<1> HIDE DEF from
<1>8. Cardinality({i \in DOMAIN h : h[i] \in from .. wall}) >= Limit
  BY <1>1, <1>2, <1>6, <1>7, RoundFull
<1>9. AdmittedIn(k, from, wall) >= Limit
  BY <1>8 DEF AdmittedIn
<1> HIDE DEF k, e, h
<1>10. LimiterInv'
  BY <1>1, <1>2, <1>3, <1>4, <1>5, EntryStep
<1> QED
  BY <1>9, <1>10 DEF k, from

\* One step of the limiter.
LEMMA LimiterStep ==
    ASSUME LimiterInv, [LimiterNext]_limiterVars
    PROVE  /\ LimiterInv'
           /\ \A c \in Calls : (pending[c] # Idle /\ pending'[c] = Idle /\ admitted' = admitted) =>
                  AdmittedIn(pending[c].key, IF wall > Window + Lag THEN wall - Window - Lag ELSE 0, wall) >= Limit
<1>1. CASE UNCHANGED limiterVars
  BY <1>1 DEF limiterVars, LimiterInv, LimiterTypeOK, Counted
<1>2. CASE LimiterTick
  BY <1>2, LimiterTickStep DEF LimiterTick
<1>3. ASSUME NEW c \in Calls, NEW k \in Addresses, ReadClock(c, k)
      PROVE  LimiterInv' /\ \A d \in Calls : pending[d] # Idle => pending'[d] = pending[d]
  BY <1>3, ReadClockStep DEF ReadClock, LimiterInv, LimiterTypeOK
<1>4. ASSUME NEW c \in Calls, AllowNew(c) \/ AllowEvicting(c)
      PROVE  LimiterInv' /\ admitted' # admitted
  <2> DEFINE k == pending[c].key
  <2>1. k \in Addresses /\ windows \in [Addresses -> Counters \cup {Unseen}] /\ DOMAIN admitted = Addresses
    BY <1>4, LockedActs DEF AllowNew, AllowEvicting, LimiterInv, LimiterTypeOK, Counters
  <2>2. CASE AllowNew(c)
    <3>1. /\ windows' = [windows EXCEPT ![k] = Unseen, ![k] = Fresh(pending[c].at)]
          /\ admitted' = [admitted EXCEPT ![k] = <<>>, ![k] = <<wall>>]
      BY <2>1, <2>2 DEF AllowNew
    <3>2. Opens(c, k)
      BY <2>2, <3>1 DEF AllowNew, Opens, Counted
    <3> QED
      BY <2>1, <3>2, OpensStep
  <2>3. CASE AllowEvicting(c)
    <3>1. \E v \in Addresses : Opens(c, v)
      BY <2>3 DEF AllowEvicting, Opens, Counted
    <3> QED
      BY <3>1, OpensStep
  <2> QED
    BY <1>4, <2>2, <2>3
<1>5. ASSUME NEW c \in Calls, AllowRestart(c) \/ AllowCounted(c)
      PROVE  LimiterInv' /\ admitted' # admitted
  BY <1>5, RestartStep, CountedStep
<1>6. ASSUME NEW c \in Calls, Deny(c)
      PROVE  /\ LimiterInv'
             /\ AdmittedIn(pending[c].key, IF wall > Window + Lag THEN wall - Window - Lag ELSE 0, wall) >= Limit
             /\ \A d \in Calls : d # c => pending'[d] = pending[d]
  BY <1>6, DenyStep, LockedActs DEF Deny
<1> QED
  BY <1>1, <1>2, <1>3, <1>4, <1>5, <1>6 DEF LimiterNext, limiterVars

\* The limiter that has seen no address.
LEMMA LimiterInitially ==
    ASSUME LimiterInit
    PROVE  LimiterInv
<1>0. Counted = {}
  BY DEF LimiterInit, Counted
<1>1. Counted = {} /\ IsFiniteSet(Counted) /\ Cardinality(Counted) <= MaxEntries
  BY <1>0, FS_EmptySet, RateAssumption
<1>2. Spread(<<>>) /\ <<>> \in Seq(LimiterTimes)
  BY DEF Spread
<1>3. LimiterTypeOK
  BY <1>1, <1>2, RateAssumption DEF LimiterInit, LimiterTypeOK, LimiterTimes
<1> QED
  BY <1>1, <1>2, <1>3 DEF LimiterInit, LimiterInv

\* requestLimiter.allow, for any number of calls, addresses and entries, any limit, window
\* and lag: while its entry lives an address is admitted at most twice the limit within a
\* window less the lag, and a request is denied only when the window is used up.
THEOREM LimitsStayExact == LimiterSpec => LimitsExact
<1>1. LimiterInit => LimiterInv
  BY LimiterInitially
<1>2. LimiterInv /\ [LimiterNext]_limiterVars => LimiterInv'
  BY LimiterStep
<1>3. LimiterInv => AdmittedAtMostTwice
  <2> SUFFICES ASSUME LimiterInv, NEW k \in Addresses, NEW t \in LimiterTimes, Lag <= Window
               PROVE  AdmittedIn(k, t, t + Window - Lag) <= 2 * Limit
    BY DEF AdmittedAtMostTwice
  <2>1. admitted[k] \in Seq(Nat) /\ Spread(admitted[k]) /\ t \in Nat
    BY CountersSeen DEF LimiterInv, LimiterTypeOK
  <2> QED
    BY <2>1, SpreadCounted DEF AdmittedIn
<1>4. LimiterInv /\ [LimiterNext]_limiterVars =>
        [\A c \in Calls :
          (pending[c] # Idle /\ pending'[c] = Idle /\ admitted' = admitted) =>
              AdmittedIn(pending[c].key, IF wall > Window + Lag THEN wall - Window - Lag ELSE 0, wall)
                  >= Limit]_limiterVars
  BY LimiterStep
<1>5. LimiterSpec => []AdmittedAtMostTwice
  BY <1>1, <1>2, <1>3, PTL DEF LimiterSpec
<1>6. LimiterSpec => DeniedOnlyAtLimit
  BY <1>1, <1>2, <1>4, PTL DEF LimiterSpec, DeniedOnlyAtLimit
<1> QED
  BY <1>5, <1>6 DEF LimitsExact

\* The types of the three tables, and with them their bounds: whatever registers, is
\* replaced or asks, none of them ever holds more entries than the relay allows it.
THEOREM TablesTypeCorrect ==
    StoreSpec /\ FlapSpec /\ LimiterSpec => [](StoreTypeOK /\ FlapTypeOK /\ LimiterTypeOK)
<1>1. StoreSpec => []StoreTypeOK
  BY StoreInitially, StoreStep, PTL DEF StoreSpec
<1>2. Tracking => FlapTypeOK
  BY DEF Tracking, FlapTypeOK, Remembers
<1>3. FlapSpec => []FlapTypeOK
  BY <1>2, FlapInitially, FlapStep, PTL DEF FlapSpec
<1>4. LimiterInv => LimiterTypeOK
  BY DEF LimiterInv
<1>5. LimiterSpec => []LimiterTypeOK
  BY <1>4, LimiterInitially, LimiterStep, PTL DEF LimiterSpec
<1> QED
  BY <1>1, <1>3, <1>5, PTL
=============================================================================
