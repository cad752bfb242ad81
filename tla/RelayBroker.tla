------------------------------ MODULE RelayBroker ------------------------------
(***************************************************************************)
(* The relay's SDP broker: go/internal/signal/server.go.                   *)
(*                                                                         *)
(* A Conn is one call of handleAgent (one agent control socket, with its   *)
(* agentConn), a Browser one call of handleAttach (one attach socket, with *)
(* its browserConn).  Both run a main goroutine that ends as the socket's  *)
(* writer, and a reader goroutine; attach sessions also have a deadline    *)
(* timer.  Steps interleave wherever the code takes or releases s.mu or    *)
(* ac.mu, or communicates on a channel.                                    *)
(*                                                                         *)
(* Messages are abstracted to what the properties tell apart: the kind of  *)
(* message a browser is sent and the agent an answer comes from.  The      *)
(* agent's own queue is left out: whether it has room depends on how fast  *)
(* the agent reads, so a send to it may succeed or fail at any time.  What *)
(* agents and browsers send is unconstrained: an agent may answer any      *)
(* session at any time (once: a repeated answer adds nothing).             *)
(* The number of slots stays below the proof store's capacity, so no       *)
(* learned proof is evicted (ProofStore covers eviction).                  *)
(***************************************************************************)
EXTENDS Naturals, Sequences, FiniteSets

CONSTANTS
    Slots,         \* owner|machine keys
    Conns,         \* agent sockets
    Browsers,      \* attach sockets; each is one session
    Proofs,        \* registration secrets an agent may present
    NoConn,        \* nil *agentConn
    NoProof,       \* no proof learned for a slot
    MaxAgents,     \* Server.maxAgents
    MaxSessions,   \* Server.maxAgentSessions
    BrowserOutCap  \* capacity of browserConn.out

ASSUME BrokerAssumption ==
    /\ NoConn \notin Conns
    /\ NoProof \notin Proofs
    /\ MaxAgents \in Nat \ {0}
    /\ MaxSessions \in Nat \ {0}
    /\ BrowserOutCap \in Nat \ {0}

VARIABLES
    agents,    \* slot -> live agentConn or NoConn      (s.mu)
    proofs,    \* slot -> learned proof                  (s.mu)
    revoked,   \* slots with a tombstone                 (s.mu)
    aPc,       \* conn -> control state of handleAgent
    aSlot,     \* conn -> slot it registers
    aProof,    \* conn -> proof it presents
    sessions,  \* conn -> browsers bound to it           (ac.mu)
    mustTear,  \* conns some goroutine is about to tear down
    torn,      \* conn -> progress of teardown's once body
    bound,     \* conn -> browsers teardown still has to fail
    aDone,     \* conns whose done channel is closed
    bPc,       \* browser -> control state of handleAttach
    bAgent,    \* browser -> agentConn captured at lookup
    rPc,       \* browser -> control state of its reader
    rAgent,    \* browser -> agent the reader looked up for the offer
    timer,     \* browsers whose signalDeadline is armed
    alive,     \* browsers whose socket is up
    bDone,     \* browsers whose done channel is closed
    bOut,      \* browser -> messages queued for it
    got        \* browser -> the first message written to its socket after
               \*   "ready", as a set; clients act on that one and leave

agentVars == <<aPc, aSlot, aProof>>
tearVars == <<mustTear, torn, bound, aDone>>
mapVars == <<agents, proofs, revoked>>
chanVars == <<bDone, bOut>>
attachVars == <<bPc, bAgent, rPc, rAgent, timer, alive, got>>
vars == <<mapVars, agentVars, sessions, tearVars, chanVars, attachVars>>

Message == [kind : {"answer", "offline", "timeout", "revoked", "capacity"},
            from : Conns \cup {NoConn}]
Error(k) == [kind |-> k, from |-> NoConn]
Answer(c) == [kind |-> "answer", from |-> c]

TypeOK ==
    /\ agents \in [Slots -> Conns \cup {NoConn}]
    /\ proofs \in [Slots -> Proofs \cup {NoProof}]
    /\ revoked \subseteq Slots
    /\ aPc \in [Conns -> {"idle", "accepted", "serving", "gone", "rejected"}]
    /\ aSlot \in [Conns -> Slots]
    /\ aProof \in [Conns -> Proofs]
    /\ sessions \in [Conns -> SUBSET Browsers]
    /\ mustTear \subseteq Conns
    /\ torn \in [Conns -> {"no", "cleared", "closed"}]
    /\ bound \in [Conns -> SUBSET Browsers]
    /\ aDone \subseteq Conns
    /\ bPc \in [Browsers -> {"idle", "binding", "notify", "serving", "ended"}]
    /\ bAgent \in [Browsers -> Conns \cup {NoConn}]
    /\ rPc \in [Browsers -> {"off", "reading", "lookup", "send", "offered", "stopped"}]
    /\ rAgent \in [Browsers -> Conns \cup {NoConn}]
    /\ timer \subseteq Browsers
    /\ alive \subseteq Browsers
    /\ bDone \subseteq Browsers
    /\ bOut \in [Browsers -> Seq(Message)]
    /\ got \in [Browsers -> SUBSET Message]

Init ==
    /\ agents = [s \in Slots |-> NoConn]
    /\ proofs = [s \in Slots |-> NoProof]
    /\ revoked = {}
    /\ aPc = [c \in Conns |-> "idle"]
    /\ aSlot \in [Conns -> Slots]
    /\ aProof \in [Conns -> Proofs]
    /\ sessions = [c \in Conns |-> {}]
    /\ mustTear = {}
    /\ torn = [c \in Conns |-> "no"]
    /\ bound = [c \in Conns |-> {}]
    /\ aDone = {}
    /\ bPc = [b \in Browsers |-> "idle"]
    /\ bAgent = [b \in Browsers |-> NoConn]
    /\ rPc = [b \in Browsers |-> "off"]
    /\ rAgent = [b \in Browsers |-> NoConn]
    /\ timer = {}
    /\ alive = Browsers
    /\ bDone = {}
    /\ bOut = [b \in Browsers |-> <<>>]
    /\ got = [b \in Browsers |-> {}]

-----------------------------------------------------------------------------
(* Channel operations.                                                     *)

\* browserConn.notify: the select takes any ready case; the timeout stands for
\* a queue that stays full.
Notify(b, m) ==
    \/ /\ Len(bOut[b]) < BrowserOutCap
       /\ bPc[b] # "ended"  \* nobody reads the queue any more
       /\ got[b] = {}       \* what follows the first message is not told apart
       /\ bOut' = [bOut EXCEPT ![b] = Append(@, m)]
    \/ b \in bDone /\ UNCHANGED bOut
    \/ got[b] # {} /\ UNCHANGED bOut
    \/ Len(bOut[b]) >= BrowserOutCap /\ UNCHANGED bOut

\* browserConn.fail, and the notify + close of an answer: the closer that
\* closes done first has queued its message before.
NotifyAndClose(b, m) ==
    /\ Notify(b, m)
    /\ bDone' = bDone \cup {b}

\* What b has been sent, written or queued.
Sent(b) == got[b] \cup {bOut[b][i] : i \in DOMAIN bOut[b]}

\* agentSend to agent c, on behalf of b: the message is queued, also when c is
\* already torn down, or the send is given up because c or b is done or c's
\* queue stays full; then the browser is failed.
AgentSend(c, b) ==
    \/ UNCHANGED chanVars
    \/ NotifyAndClose(b, Error("offline"))

-----------------------------------------------------------------------------
(* handleAgent.                                                            *)

ProofOK(s, x) == proofs[s] = NoProof \/ proofs[s] = x

\* The checks before the WebSocket is accepted.
AgentCheck(c) ==
    /\ aPc[c] = "idle"
    /\ aPc' = [aPc EXCEPT ![c] = IF aSlot[c] \in revoked \/ ~ProofOK(aSlot[c], aProof[c])
                                 THEN "rejected" ELSE "accepted"]
    /\ UNCHANGED <<mapVars, aSlot, aProof, sessions, tearVars, chanVars, attachVars>>

\* Slots with a live agent, as a new registration of slot s counts them.
Full(s) == agents[s] = NoConn /\ Cardinality({t \in Slots : agents[t] # NoConn}) >= MaxAgents

\* Mutant: registration trusts the checks made before the accept.
MayRegisterUnchecked(c) == ~Full(aSlot[c])

\* The re-check under s.mu after the accept.
MayRegister(c) ==
    /\ aSlot[c] \notin revoked
    /\ ProofOK(aSlot[c], aProof[c])
    /\ ~Full(aSlot[c])

AgentRefused(c) ==
    /\ aPc[c] = "accepted"
    /\ ~MayRegister(c)
    /\ aPc' = [aPc EXCEPT ![c] = "rejected"]
    /\ UNCHANGED <<mapVars, aSlot, aProof, sessions, tearVars, chanVars, attachVars>>

\* Mutant: the replaced agent is not torn down.
AgentRegisterKeepsPrevious(c) ==
    LET s == aSlot[c] IN
    /\ aPc[c] = "accepted"
    /\ MayRegister(c)
    /\ agents' = [agents EXCEPT ![s] = c]
    /\ proofs' = [proofs EXCEPT ![s] = IF @ = NoProof THEN aProof[c] ELSE @]
    /\ aPc' = [aPc EXCEPT ![c] = "serving"]
    /\ UNCHANGED <<revoked, aSlot, aProof, sessions, tearVars, chanVars, attachVars>>

\* The registration itself; the goroutine goes on to tear the previous agent
\* of the slot down.
AgentRegister(c) ==
    LET s == aSlot[c] IN
    /\ aPc[c] = "accepted"
    /\ MayRegister(c)
    /\ agents' = [agents EXCEPT ![s] = c]
    /\ proofs' = [proofs EXCEPT ![s] = IF @ = NoProof THEN aProof[c] ELSE @]
    /\ mustTear' = IF agents[s] = NoConn THEN mustTear ELSE mustTear \cup {agents[s]}
    /\ aPc' = [aPc EXCEPT ![c] = "serving"]
    /\ UNCHANGED <<revoked, aSlot, aProof, sessions, torn, bound, aDone,
                   chanVars, attachVars>>

\* The reader's Read fails: the agent's socket died.
AgentReadError(c) ==
    /\ aPc[c] = "serving"
    /\ c \notin mustTear
    /\ mustTear' = mustTear \cup {c}
    /\ UNCHANGED <<mapVars, agentVars, sessions, torn, bound, aDone, chanVars, attachVars>>

\* Mutant: the answer is routed by a session table shared by all agents.
AgentAnswerAnySession(c, b) ==
    /\ aPc[c] = "serving"
    /\ \E d \in Conns : b \in sessions[d]
    /\ Answer(c) \notin Sent(b)
    /\ NotifyAndClose(b, Answer(c))
    /\ UNCHANGED <<mapVars, agentVars, sessions, tearVars, attachVars>>

\* The reader routes an answer through this agent's own bound sessions; any
\* other answer is dropped.
AgentAnswer(c, b) ==
    /\ aPc[c] = "serving"
    /\ b \in sessions[c]
    /\ Answer(c) \notin Sent(b)
    /\ NotifyAndClose(b, Answer(c))
    /\ UNCHANGED <<mapVars, agentVars, sessions, tearVars, attachVars>>

\* writeUntil returned (done closed, or a write failed): the deferred function
\* removes the slot if it is still this agent's, then tears it down.
AgentLeave(c) ==
    /\ aPc[c] = "serving"
    /\ agents' = [agents EXCEPT ![aSlot[c]] = IF @ = c THEN NoConn ELSE @]
    /\ mustTear' = mustTear \cup {c}
    /\ aPc' = [aPc EXCEPT ![c] = "gone"]
    /\ UNCHANGED <<proofs, revoked, aSlot, aProof, sessions, torn, bound,
                   aDone, chanVars, attachVars>>

-----------------------------------------------------------------------------
(* agentConn.teardown, run once whoever calls it.                          *)

TeardownSnapshot(c) ==
    /\ c \in mustTear
    /\ torn[c] = "no"
    /\ bound' = [bound EXCEPT ![c] = sessions[c]]
    /\ sessions' = [sessions EXCEPT ![c] = {}]
    /\ torn' = [torn EXCEPT ![c] = "cleared"]
    /\ UNCHANGED <<mapVars, agentVars, mustTear, aDone, chanVars, attachVars>>

\* close(ac.done), after ac.mu was released.
TeardownClose(c) ==
    /\ torn[c] = "cleared"
    /\ aDone' = aDone \cup {c}
    /\ torn' = [torn EXCEPT ![c] = "closed"]
    /\ UNCHANGED <<mapVars, agentVars, sessions, mustTear, bound, chanVars, attachVars>>

TeardownFail(c, b) ==
    /\ torn[c] = "closed"
    /\ b \in bound[c]
    /\ NotifyAndClose(b, Error("offline"))
    /\ bound' = [bound EXCEPT ![c] = @ \ {b}]
    /\ UNCHANGED <<mapVars, agentVars, sessions, mustTear, torn, aDone, attachVars>>

\* postRevocation's critical section and the teardown it then runs; the
\* durability of the tombstone is RelayRevocations.
Revoke(s) ==
    /\ s \notin revoked
    /\ revoked' = revoked \cup {s}
    /\ agents' = [agents EXCEPT ![s] = NoConn]
    /\ mustTear' = IF agents[s] = NoConn THEN mustTear ELSE mustTear \cup {agents[s]}
    /\ UNCHANGED <<proofs, agentVars, sessions, torn, bound, aDone, chanVars, attachVars>>

-----------------------------------------------------------------------------
(* handleAttach.                                                           *)

\* writeSignalErrorAndClose: the attach ends with an error before it is bound.
Refuse(b, k) ==
    /\ got' = [got EXCEPT ![b] = @ \cup (IF b \in alive THEN {Error(k)} ELSE {})]
    /\ bPc' = [bPc EXCEPT ![b] = "ended"]

\* Tombstone and live agent are looked up together.
AttachLookup(b, s) ==
    /\ bPc[b] = "idle"
    /\ \/ /\ s \in revoked
          /\ Refuse(b, "revoked")
          /\ UNCHANGED bAgent
       \/ /\ s \notin revoked
          /\ agents[s] = NoConn
          /\ Refuse(b, "offline")
          /\ UNCHANGED bAgent
       \/ /\ s \notin revoked
          /\ agents[s] # NoConn
          /\ bAgent' = [bAgent EXCEPT ![b] = agents[s]]
          /\ bPc' = [bPc EXCEPT ![b] = "binding"]
          /\ UNCHANGED got
    /\ UNCHANGED <<mapVars, agentVars, sessions, tearVars, chanVars, rPc, rAgent,
                   timer, alive>>

\* Mutant: no deadline is armed until the first offer arrives.
AttachBindNoDeadline(b) ==
    LET c == bAgent[b] IN
    /\ bPc[b] = "binding"
    /\ IF c \in aDone \/ Cardinality(sessions[c]) >= MaxSessions
       THEN /\ Refuse(b, IF c \in aDone THEN "offline" ELSE "capacity")
            /\ UNCHANGED sessions
       ELSE /\ sessions' = [sessions EXCEPT ![c] = @ \cup {b}]
            /\ bPc' = [bPc EXCEPT ![b] = "notify"]
            /\ UNCHANGED got
    /\ UNCHANGED <<mapVars, agentVars, tearVars, chanVars, bAgent, rPc, rAgent, timer, alive>>

\* Mutant: the session cap is off by one.
AttachBindOverCap(b) ==
    LET c == bAgent[b] IN
    /\ bPc[b] = "binding"
    /\ IF c \in aDone \/ Cardinality(sessions[c]) > MaxSessions
       THEN /\ Refuse(b, IF c \in aDone THEN "offline" ELSE "capacity")
            /\ UNCHANGED <<sessions, timer>>
       ELSE /\ sessions' = [sessions EXCEPT ![c] = @ \cup {b}]
            /\ timer' = timer \cup {b}
            /\ bPc' = [bPc EXCEPT ![b] = "notify"]
            /\ UNCHANGED got
    /\ UNCHANGED <<mapVars, agentVars, tearVars, chanVars, bAgent, rPc, rAgent, alive>>

\* agentConn.bind under ac.mu, then the deadline for the first offer.
AttachBind(b) ==
    LET c == bAgent[b] IN
    /\ bPc[b] = "binding"
    /\ IF c \in aDone \/ Cardinality(sessions[c]) >= MaxSessions
       THEN /\ Refuse(b, IF c \in aDone THEN "offline" ELSE "capacity")
            /\ UNCHANGED <<sessions, timer>>
       ELSE /\ sessions' = [sessions EXCEPT ![c] = @ \cup {b}]
            /\ timer' = timer \cup {b}
            /\ bPc' = [bPc EXCEPT ![b] = "notify"]
            /\ UNCHANGED got
    /\ UNCHANGED <<mapVars, agentVars, tearVars, chanVars, bAgent, rPc, rAgent, alive>>

\* Tell the agent, start the reader and go on as the writer.
AttachNotify(b) ==
    /\ bPc[b] = "notify"
    /\ AgentSend(bAgent[b], b)
    /\ bPc' = [bPc EXCEPT ![b] = "serving"]
    /\ rPc' = [rPc EXCEPT ![b] = "reading"]
    /\ UNCHANGED <<mapVars, aPc, aSlot, aProof, sessions, tearVars, bAgent, rAgent,
                   timer, alive, got>>

\* The reader takes the first offer of the socket: offered.Do resets the
\* deadline, which re-arms it even if it has fired.  Later offers are ignored.
BrowserOffer(b) ==
    /\ rPc[b] = "reading"
    /\ b \in alive
    /\ timer' = timer \cup {b}
    /\ rPc' = [rPc EXCEPT ![b] = "lookup"]
    /\ UNCHANGED <<mapVars, agentVars, sessions, tearVars, chanVars, bPc, bAgent,
                   rAgent, alive, got>>

\* The slot's live agent is looked up again for the offer.
OfferLookup(b) ==
    LET live == agents[aSlot[bAgent[b]]] IN
    /\ rPc[b] = "lookup"
    /\ \/ /\ live = NoConn
          /\ NotifyAndClose(b, Error("offline"))
          /\ rPc' = [rPc EXCEPT ![b] = "stopped"]
          /\ UNCHANGED rAgent
       \/ /\ live # NoConn
          /\ rAgent' = [rAgent EXCEPT ![b] = live]
          /\ rPc' = [rPc EXCEPT ![b] = "send"]
          /\ UNCHANGED chanVars
    /\ UNCHANGED <<mapVars, agentVars, sessions, tearVars, bPc, bAgent, timer, alive, got>>

OfferSend(b) ==
    /\ rPc[b] = "send"
    /\ AgentSend(rAgent[b], b)
    /\ rPc' = [rPc EXCEPT ![b] = IF b \in bDone' THEN "stopped" ELSE "offered"]
    /\ rAgent' = [rAgent EXCEPT ![b] = NoConn]
    /\ UNCHANGED <<mapVars, agentVars, sessions, tearVars, bPc, bAgent, timer, alive, got>>

\* signalDeadline fires (firstOfferTimeout or offerAnswerTimeout).
DeadlineFires(b) ==
    /\ b \in timer
    /\ timer' = timer \ {b}
    /\ NotifyAndClose(b, Error("timeout"))
    /\ UNCHANGED <<mapVars, agentVars, sessions, tearVars, bPc, bAgent, rPc, rAgent,
                   alive, got>>

\* The browser goes away.
BrowserDies(b) ==
    /\ b \in alive
    /\ bPc[b] \notin {"idle", "ended"}
    /\ alive' = alive \ {b}
    /\ UNCHANGED <<mapVars, agentVars, sessions, tearVars, chanVars, bPc, bAgent, rPc,
                   rAgent, timer, got>>

\* The reader notices and closes done.
BrowserReadError(b) ==
    /\ rPc[b] \in {"reading", "offered"}
    /\ b \notin alive
    /\ bDone' = bDone \cup {b}
    /\ rPc' = [rPc EXCEPT ![b] = "stopped"]
    /\ UNCHANGED <<mapVars, agentVars, sessions, tearVars, bOut, bPc, bAgent, rAgent,
                   timer, alive, got>>

\* handleAttach returns: its deferred calls stop the deadline, unbind the
\* session from the agent it was bound to and close done; cancelling the read
\* context ends the reader (whatever it still does, nobody sees).
Finish(b) ==
    /\ sessions' = [sessions EXCEPT ![bAgent[b]] = @ \ {b}]
    /\ timer' = timer \ {b}
    /\ bDone' = bDone \cup {b}
    /\ rPc' = [rPc EXCEPT ![b] = "stopped"]
    /\ rAgent' = [rAgent EXCEPT ![b] = NoConn]
    /\ bPc' = [bPc EXCEPT ![b] = "ended"]

\* The writer takes one message from the queue; a failed write ends the attach.
BrowserWrite(b) ==
    /\ bPc[b] = "serving"
    /\ bOut[b] # <<>>
    /\ \/ /\ b \in alive
          /\ got' = [got EXCEPT ![b] = IF @ = {} THEN {Head(bOut[b])} ELSE @]
          /\ bOut' = [bOut EXCEPT ![b] = Tail(@)]
          /\ UNCHANGED <<sessions, timer, bDone, bPc, rPc, rAgent>>
       \/ /\ b \notin alive
          /\ Finish(b)
          /\ bOut' = [bOut EXCEPT ![b] = <<>>]
          /\ UNCHANGED got
    /\ UNCHANGED <<mapVars, agentVars, tearVars, bAgent, alive>>

\* Mutant: the writer returns on done without flushing its queue.
BrowserCloseNoFlush(b) ==
    /\ bPc[b] = "serving"
    /\ b \in bDone
    /\ Finish(b)
    /\ bOut' = [bOut EXCEPT ![b] = <<>>]
    /\ UNCHANGED <<mapVars, agentVars, tearVars, bAgent, alive, got>>

\* done is closed and the queue flushed: the writer closes the socket.
BrowserClose(b) ==
    /\ bPc[b] = "serving"
    /\ b \in bDone
    /\ bOut[b] = <<>>
    /\ Finish(b)
    /\ UNCHANGED <<mapVars, agentVars, tearVars, bOut, bAgent, alive, got>>

-----------------------------------------------------------------------------

AgentStep(c) ==
    \/ AgentCheck(c)
    \/ AgentRefused(c)
    \/ AgentRegister(c)
    \/ TeardownSnapshot(c)
    \/ TeardownClose(c)
    \/ \E b \in Browsers : TeardownFail(c, b)
    \/ c \in aDone /\ AgentLeave(c)

BrowserStep(b) ==
    \/ AttachBind(b)
    \/ AttachNotify(b)
    \/ OfferLookup(b)
    \/ OfferSend(b)
    \/ BrowserReadError(b)
    \/ BrowserWrite(b)
    \/ BrowserClose(b)

Next ==
    \/ \E c \in Conns :
          \/ AgentStep(c)
          \/ AgentReadError(c)
          \/ AgentLeave(c)
          \/ \E b \in Browsers : AgentAnswer(c, b)
    \/ \E s \in Slots : Revoke(s)
    \/ \E b \in Browsers :
          \/ BrowserStep(b)
          \/ \E s \in Slots : AttachLookup(b, s)
          \/ BrowserOffer(b)
          \/ DeadlineFires(b)
          \/ BrowserDies(b)

\* Goroutines are scheduled and timers fire; what agents and browsers do
\* (connecting, offering, answering, dying) is not assumed to happen.
Fairness ==
    /\ \A c \in Conns : WF_vars(AgentStep(c))
    /\ \A b \in Browsers : WF_vars(BrowserStep(b)) /\ WF_vars(DeadlineFires(b))

Spec == Init /\ [][Next]_vars
FairSpec == Spec /\ Fairness

-----------------------------------------------------------------------------

\* An answer only ever reaches a session bound to the agent that sent it, even
\* when agents answer sessions they never saw (agentConn.session).
AnswerFromOwnAgent ==
    \A b \in Browsers :
        \A m \in Sent(b) : m.kind = "answer" => m.from = bAgent[b]

\* No machine is both revoked and registered, although the tombstone is first
\* checked before the WebSocket accept and may arrive during it.
RevokedNotLive == \A s \in revoked : agents[s] = NoConn

\* Once a slot has learned a registration proof, only agents presenting it hold
\* the slot, although two first registrations may pass the first check together.
SlotOwnedByProof ==
    \A s \in Slots : agents[s] # NoConn =>
        aSlot[agents[s]] = s /\ aProof[agents[s]] = proofs[s]

\* No agent ever has more bound sessions than maxAgentSessions.
SessionsBounded == \A c \in Conns : Cardinality(sessions[c]) <= MaxSessions

\* A browser whose socket is up when its attach ends was told why: the message
\* queued before done was closed is flushed before the socket is.
ToldWhy == \A b \in Browsers : (bPc[b] = "ended" /\ b \in alive) => got[b] # {}

\* handleAttach: an agent has as many sessions as it may have and no more, and a
\* browser that is up when its attach ends was told why, the one over the cap too.
SessionsTold == SessionsBounded /\ ToldWhy

\* Every attach ends: with an answer, an error or the browser's departure, even
\* if the agent is replaced, revoked or dies while the session is being bound.
AttachEnds == \A b \in Browsers : bPc[b] # "idle" ~> bPc[b] = "ended"

\* An agent that lost its slot (replaced or revoked) does not stay connected.
LoserLeaves ==
    \A c \in Conns :
        (aPc[c] = "serving" /\ agents[aSlot[c]] # c) ~> aPc[c] = "gone"

\* handleAttach and handleAgent: nobody hangs, neither a browser on an agent that is
\* gone nor an agent on a slot that is not its own.
NobodyHangs == AttachEnds /\ LoserLeaves

\* When a teardown has run to its end no browser is left bound to that agent, so
\* none hangs on a dead one.
NoOrphanedSession ==
    \A c \in Conns : (torn[c] = "closed" /\ bound[c] = {}) =>
        \A b \in sessions[c] : b \in bDone
=============================================================================
