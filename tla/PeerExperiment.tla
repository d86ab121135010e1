--------------------------- MODULE PeerExperiment ---------------------------
(***************************************************************************)
(* The WebRTC test of two browser pages (public/peer.js), from the moment  *)
(* their RTCDataChannel is being set up: the offerer sends Blocks blocks,  *)
(* the answerer echoes each, and complete, complete-ack and receipt settle *)
(* what both report.  A page is one thread: an action is one event with    *)
(* the microtasks that follow it, up to the next await of getStats() or of *)
(* an answer.  Timers are untimed: one that is armed may fire at any time. *)
(***************************************************************************)
EXTENDS Naturals, FiniteSets, PeerRole

CONSTANT Blocks   \* BLOCKS

ASSUME PeerAssumption == Blocks \in Nat \ {0}

VARIABLES
  page,  \* per role: the Experiment of that page
  wire   \* per role: the messages on their way to it

vars == <<page, wire>>

\* at: where sendPayload or receiveComplete waits; peer: the evidence complete brought.
\* For the properties: disorder, that a check of the order of messages failed.
NewPage ==
  [channel |-> "connecting", opening |-> FALSE, at |-> "idle", blocks |-> 0,
   evidence |-> FALSE, peer |-> FALSE, verdict |-> FALSE, outcome |-> "none",
   timer |-> FALSE, ended |-> FALSE, disorder |-> FALSE]

\* The channel is ordered and reliable; a set shows this because the protocol never has
\* two messages on the way to one page, which InOrder checks.
Message(type, index, evidence) == [type |-> type, index |-> index, evidence |-> evidence]
Plain(type) == Message(type, 0, FALSE)

Init ==
  /\ page = [r \in Role |-> NewPage]
  /\ wire = [r \in Role |-> {}]

Becomes(r, p) == page' = [page EXCEPT ![r] = p]
Sends(r, messages) == wire' = [wire EXCEPT ![Peer(r)] = @ \cup messages]
Answers(r, m, messages) == wire' = [wire EXCEPT ![r] = @ \ {m}, ![Peer(r)] = @ \cup messages]

-----------------------------------------------------------------------------
(* fail, cleanup, complete *)

Cleanup(p) ==
  [p EXCEPT !.ended = TRUE, !.channel = "closed", !.at = "finished", !.opening = FALSE]

\* Slip: an event after success still reports a failure.
Fail_Late(p) == IF p.ended THEN p ELSE Cleanup([p EXCEPT !.outcome = "failed"])

Fail(p) ==
  IF p.ended \/ p.outcome = "done" THEN p ELSE Cleanup([p EXCEPT !.outcome = "failed"])

\* Slip: the answerer counts on the receipt to be cleaned up.
Timer_Receipt(r) == r = "offerer"

\* The 500 ms of the offerer, the 5 s of the answerer.
Timer(r) == r \in Role

Complete(r, p, evidence) ==
  [p EXCEPT !.outcome = "done", !.verdict = p.evidence /\ evidence, !.at = "finished",
            !.timer = Timer(r)]

-----------------------------------------------------------------------------
(* The channel opens *)

Opens(r) ==
  /\ page[r].channel = "connecting"
  /\ Becomes(r, [page[r] EXCEPT !.channel = "open", !.opening = TRUE])
  /\ UNCHANGED wire

\* Slip: both pages call out.
SaysReady_Both(r) == TRUE

SaysReady(r) == r = "answerer"

\* open(), after its snapshot
Opened(r) ==
  /\ page[r].opening
  /\ Becomes(r, [page[r] EXCEPT !.opening = FALSE])
  /\ Sends(r, IF SaysReady(r) THEN {Plain("ready")} ELSE {})

-----------------------------------------------------------------------------
(* onData: a message that answers what the page awaits resolves it *)

\* dataQueue: while receiveComplete awaits its snapshot nothing else is handled.
Receives(r, m) ==
  /\ m \in wire[r] /\ page[r].channel = "open"
  /\ ~(r = "answerer" /\ page[r].at = "finishing")

\* Slip: the echo of the last block is not awaited.
LastEcho_Early(n) == n + 1 >= Blocks

LastEcho(n) == n = Blocks

Data(n) == Message("data", n, FALSE)

senderReady(m) ==
  LET p == page["offerer"]
  IN  /\ m.type = "ready" /\ p.at = "idle"
      /\ Becomes("offerer", [p EXCEPT !.at = "starting"])
      /\ Answers("offerer", m, {})

Echoed(m) ==
  LET p == page["offerer"]
      n == p.blocks + 1
  IN  /\ m.type = "echo" /\ p.at = "echo" /\ m.index = p.blocks
      /\ Becomes("offerer", [p EXCEPT !.blocks = n, !.at = IF LastEcho(n) THEN "finishing" ELSE @])
      /\ Answers("offerer", m, IF n < Blocks THEN {Data(n)} ELSE {})

Confirmed(m) ==
  LET p == page["offerer"]
  IN  /\ m.type = "complete-ack" /\ p.at = "confirming"
      /\ Becomes("offerer", Complete("offerer", p, m.evidence))
      /\ Answers("offerer", m, {Plain("receipt")})

echoBlock(m) ==
  LET p == page["answerer"]
  IN  /\ m.type = "data" /\ m.index = p.blocks /\ p.blocks < Blocks
      /\ Becomes("answerer", [p EXCEPT !.blocks = @ + 1])
      /\ Answers("answerer", m, {Message("echo", m.index, FALSE)})

receiveComplete(m) ==
  LET p == page["answerer"]
  IN  /\ m.type = "complete" /\ p.blocks = Blocks
      /\ Becomes("answerer", [p EXCEPT !.at = "finishing", !.peer = m.evidence])
      /\ Answers("answerer", m, {})

Receipt(m) ==
  LET p == page["answerer"]
  IN  /\ m.type = "receipt" /\ p.outcome = "done"
      /\ Becomes("answerer", Cleanup(p))
      /\ Answers("answerer", m, {})

Expected(r, m) ==
  LET p == page[r]
  IN  IF r = "offerer"
      THEN \/ m.type = "ready" /\ p.at = "idle"
           \/ m.type = "echo" /\ p.at = "echo" /\ m.index = p.blocks
           \/ m.type = "complete-ack" /\ p.at = "confirming"
      ELSE \/ m.type = "data" /\ m.index = p.blocks /\ p.blocks < Blocks
           \/ m.type = "complete" /\ p.blocks = Blocks
           \/ m.type = "receipt" /\ p.outcome = "done"

Unexpected(r, m) ==
  /\ ~Expected(r, m)
  /\ Becomes(r, Fail([page[r] EXCEPT !.disorder = TRUE]))
  /\ Answers(r, m, {})

onData(r) ==
  \E m \in wire[r] :
    /\ Receives(r, m)
    /\ \/ r = "offerer" /\ (senderReady(m) \/ Echoed(m) \/ Confirmed(m))
       \/ r = "answerer" /\ (echoBlock(m) \/ receiveComplete(m) \/ Receipt(m))
       \/ Unexpected(r, m)

-----------------------------------------------------------------------------
(* The snapshots of sendPayload and receiveComplete *)

PayloadStarts ==
  LET p == page["offerer"]
  IN  /\ p.at = "starting"
      /\ Becomes("offerer", [p EXCEPT !.at = "echo"])
      /\ Sends("offerer", {Data(0)})

\* pathEvidence: what the two snapshots and the candidates are worth.
PayloadSent ==
  LET p == page["offerer"]
  IN  /\ p.at = "finishing"
      /\ \E evidence \in BOOLEAN :
           /\ Becomes("offerer", [p EXCEPT !.at = "confirming", !.evidence = evidence])
           /\ Sends("offerer", {Message("complete", Blocks, evidence)})

PayloadReceived ==
  LET p == page["answerer"]
  IN  /\ p.at = "finishing"
      /\ \E evidence \in BOOLEAN :
           /\ Becomes("answerer", Complete("answerer", [p EXCEPT !.evidence = evidence], p.peer))
           /\ Sends("answerer", {Message("complete-ack", Blocks, evidence)})

-----------------------------------------------------------------------------
(* Timers, the user and the network *)

\* The deadline, the timer of an exchange, a change of the selected path during the
\* transfer, a failed RTCPeerConnection or WebSocket, the user's stop.
GivesUp(r) ==
  /\ ~page[r].ended /\ page[r].outcome = "none"
  /\ Becomes(r, Fail(page[r]))
  /\ UNCHANGED wire

CleanupTimer(r) ==
  /\ page[r].timer /\ ~page[r].ended
  /\ Becomes(r, Cleanup(page[r]))
  /\ UNCHANGED wire

\* The user starts or joins another room: cleanup without a report.
Leaves(r) ==
  /\ ~page[r].ended
  /\ Becomes(r, Cleanup(page[r]))
  /\ UNCHANGED wire

\* channel.onclose, channel.onerror: the peer closed, or the transport broke.
ChannelCloses(r) ==
  /\ page[r].channel = "open"
  /\ Becomes(r, Fail([page[r] EXCEPT !.channel = "closed"]))
  /\ UNCHANGED wire

\* What a page sent before it closed may never arrive.
Undelivered(r) ==
  /\ page[Peer(r)].channel = "closed" /\ wire[r] # {}
  /\ wire' = [wire EXCEPT ![r] = {}]
  /\ UNCHANGED page

Next ==
  \/ PayloadStarts \/ PayloadSent \/ PayloadReceived
  \/ \E r \in Role :
       \/ Opens(r) \/ Opened(r) \/ onData(r)
       \/ GivesUp(r) \/ CleanupTimer(r) \/ Leaves(r) \/ ChannelCloses(r) \/ Undelivered(r)

Spec == Init /\ [][Next]_vars

\* Timers fire: the deadline of a page without an outcome, the clean-up after success.
TimesOut(r) == GivesUp(r) \/ CleanupTimer(r)

FairSpec == Spec /\ \A r \in Role : WF_vars(TimesOut(r))

-----------------------------------------------------------------------------
Experiment ==
  [channel : {"connecting", "open", "closed"}, opening : BOOLEAN,
   at : {"idle", "starting", "echo", "finishing", "confirming", "finished"},
   blocks : 0..Blocks, evidence : BOOLEAN, peer : BOOLEAN, verdict : BOOLEAN,
   outcome : {"none", "done", "failed"}, timer : BOOLEAN, ended : BOOLEAN,
   disorder : BOOLEAN]

Messages ==
  [type : {"ready", "data", "echo", "complete", "complete-ack", "receipt"},
   index : 0..Blocks, evidence : BOOLEAN]

\* An experiment that has ended holds no channel, and one without an outcome has lost
\* its channel only by ending.
TypeOK ==
  /\ page \in [Role -> Experiment]
  /\ wire \in [Role -> SUBSET Messages]
  /\ \A r \in Role :
       /\ page[r].ended => page[r].channel = "closed"
       /\ page[r].channel = "closed" => page[r].ended \/ page[r].outcome = "done"

\* Success on either page means that all blocks went both ways (peer.js:155-158, 197),
\* also on the answerer, which reports before it hears of the offerer again.
SuccessMeansEchoed ==
  \A r \in Role : page[r].outcome = "done" => \A s \in Role : page[s].blocks = Blocks

\* Between two such pages no check of the order of messages ever fails (peer.js:143,
\* 175-181, 185-197), whatever is timed out, closed or lost: one message at a
\* time is on the way, and the page it reaches is waiting for it.
InOrder == \A r \in Role : ~page[r].disorder /\ Cardinality(wire[r]) <= 1

Outcome == [r \in Role |-> page[r].outcome]
Verdict == [r \in Role |-> page[r].verdict]

Agreement == INSTANCE PeerAgreement WITH outcome <- Outcome, verdict <- Verdict

\* The pages report as PeerAgreement says: once, the offerer's success after the
\* answerer's, with the same verdict, although either may time out at any moment and the
\* last messages may be lost.
ImplementsAgreement == Agreement!Spec

\* Each experiment ends and frees its connection, without the peer's help.
ExperimentsEnd == \A r \in Role : <>page[r].ended
=============================================================================
