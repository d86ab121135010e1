----------------------------- MODULE PeerProofs -----------------------------
(* Theorems about the browser experiment, for every number of blocks. *)
EXTENDS PeerExperiment, FiniteSetTheorems, TLAPS

\* A page's own record: how its outcome goes with where it stands.
OutcomeInv ==
  \A r \in Role :
    /\ page[r].outcome = "failed" => page[r].ended
    /\ page[r].outcome # "none" => page[r].at = "finished"

\* The offerer has sent complete with this evidence, and nothing of it changes any more.
Brought(evidence) ==
  /\ page["offerer"].at \in {"confirming", "finished"}
  /\ page["offerer"].blocks = Blocks
  /\ page["offerer"].evidence = evidence

\* From the last echo to the answerer's success.
CompleteInv ==
  /\ page["offerer"].at \in {"idle", "starting", "echo"} => page["offerer"].blocks < Blocks
  /\ page["offerer"].at \in {"finishing", "confirming"} => page["offerer"].blocks = Blocks
  /\ \A m \in wire["answerer"] :
       m.type = "complete" =>
         /\ Brought(m.evidence) /\ m.index = Blocks
         /\ page["answerer"].at # "finishing" /\ page["answerer"].outcome # "done"
  /\ page["answerer"].at = "finishing" =>
       Brought(page["answerer"].peer) /\ page["answerer"].blocks = Blocks
  /\ page["answerer"].outcome = "done" =>
       /\ page["answerer"].blocks = Blocks
       /\ \E evidence \in BOOLEAN :
            /\ Brought(evidence)
            /\ page["answerer"].verdict = (page["answerer"].evidence /\ evidence)

\* From there to the offerer's.
AckInv ==
  /\ \A m \in wire["offerer"] :
       m.type = "complete-ack" =>
         page["answerer"].outcome = "done" /\ m.evidence = page["answerer"].evidence
  /\ page["offerer"].outcome = "done" =>
       /\ page["answerer"].outcome = "done"
       /\ page["offerer"].verdict = page["answerer"].verdict

PeerInv == TypeOK /\ OutcomeInv /\ CompleteInv /\ AckInv

-----------------------------------------------------------------------------
LEMMA InitInv == Init => PeerInv
BY PeerAssumption
   DEF Init, PeerInv, TypeOK, OutcomeInv, CompleteInv, AckInv, NewPage, Experiment, Messages, Role,
       Brought

LEMMA Roles == \A r \in Role : Peer(r) \in Role /\ Peer(r) # r /\ Peer(Peer(r)) = r
BY DEF Role, Peer

-----------------------------------------------------------------------------
(* Types: what each action makes of a page, and what it sends *)

\* The last conjunct of TypeOK, for one page.
Closed(p) ==
  /\ p.ended => p.channel = "closed"
  /\ p.channel = "closed" => p.ended \/ p.outcome = "done"

\* What an action leaves as it is in the record of a page.
SameChannel(p, q) == q.ended = p.ended /\ q.channel = p.channel
SameWork(p, q) == q.blocks = p.blocks /\ q.evidence = p.evidence /\ q.peer = p.peer
SameReport(p, q) == q.outcome = p.outcome /\ q.verdict = p.verdict

\* What fail and cleanup do to it.
Quits(p, q) ==
  /\ SameWork(p, q) /\ q.verdict = p.verdict
  /\ q.at = p.at \/ q.at = "finished"
  /\ \/ q.outcome = p.outcome
     \/ p.outcome = "none" /\ q.outcome = "failed" /\ q.ended /\ q.at = "finished"
  /\ p.ended => q.ended

LEMMA PageBecomes ==
  ASSUME page \in [Role -> Experiment], NEW r \in Role, NEW q, Becomes(r, q)
  PROVE  page'[r] = q /\ \A s \in Role : s # r => page'[s] = page[s]
BY DEF Becomes

LEMMA PageTyped ==
  ASSUME TypeOK, NEW r \in Role, NEW q \in Experiment, Becomes(r, q), Closed(q),
         wire' \in [Role -> SUBSET Messages]
  PROVE  TypeOK'
<1>1. page' \in [Role -> Experiment]
  BY DEF TypeOK, Becomes
<1>2. \A s \in Role : page'[s] = IF s = r THEN q ELSE page[s]
  BY PageBecomes DEF TypeOK
<1>3. \A s \in Role : Closed(page'[s])
  BY <1>2 DEF TypeOK, Closed
<1>4. QED BY <1>1, <1>3 DEF TypeOK, Closed

LEMMA WireTyped ==
  ASSUME TypeOK, NEW r \in Role, NEW m, NEW sent \in SUBSET Messages,
         Sends(r, sent) \/ Answers(r, m, sent)
  PROVE  wire' \in [Role -> SUBSET Messages]
BY Roles DEF TypeOK, Sends, Answers

LEMMA MessageTyped ==
  ASSUME NEW type \in {"ready", "data", "echo", "complete", "complete-ack", "receipt"},
         NEW index \in 0..Blocks, NEW evidence \in BOOLEAN
  PROVE  Message(type, index, evidence) \in Messages
BY DEF Message, Messages

LEMMA OpenedShape ==
  ASSUME NEW p \in Experiment
  PROVE  LET q == [p EXCEPT !.opening = FALSE]
         IN  /\ q \in Experiment /\ q.at = p.at
             /\ SameChannel(p, q) /\ SameWork(p, q) /\ SameReport(p, q)
BY DEF Experiment, SameChannel, SameWork, SameReport

LEMMA CompleteShape ==
  ASSUME NEW r \in Role, NEW p \in Experiment, NEW evidence \in BOOLEAN
  PROVE  LET q == Complete(r, p, evidence)
         IN  /\ q \in Experiment /\ q.at = "finished" /\ q.outcome = "done"
             /\ q.verdict = (p.evidence /\ evidence) /\ SameChannel(p, q) /\ SameWork(p, q)
BY DEF Experiment, SameChannel, SameWork, Complete, Timer

LEMMA CleanupShape ==
  ASSUME NEW p \in Experiment
  PROVE  LET q == Cleanup(p)
         IN  /\ q \in Experiment /\ q.at = "finished" /\ q.channel = "closed" /\ q.ended
             /\ SameWork(p, q) /\ SameReport(p, q)
BY DEF Experiment, SameWork, SameReport, Cleanup

LEMMA FailedShape ==
  ASSUME NEW p \in Experiment
  PROVE  LET q == [p EXCEPT !.outcome = "failed"]
         IN  /\ q \in Experiment /\ q.at = p.at /\ q.outcome = "failed" /\ q.verdict = p.verdict
             /\ SameChannel(p, q) /\ SameWork(p, q)
BY DEF Experiment, SameChannel, SameWork

LEMMA DisorderShape ==
  ASSUME NEW p \in Experiment
  PROVE  LET q == [p EXCEPT !.disorder = TRUE]
         IN  /\ q \in Experiment /\ q.at = p.at
             /\ SameChannel(p, q) /\ SameWork(p, q) /\ SameReport(p, q)
BY DEF Experiment, SameChannel, SameWork, SameReport

LEMMA ClosesShape ==
  ASSUME NEW p \in Experiment
  PROVE  LET q == [p EXCEPT !.channel = "closed"]
         IN  /\ q \in Experiment /\ q.at = p.at /\ q.channel = "closed" /\ q.ended = p.ended
             /\ SameWork(p, q) /\ SameReport(p, q)
BY DEF Experiment, SameWork, SameReport

\* The fields the invariants are about are booleans and outcomes.
LEMMA Fields ==
  ASSUME NEW p \in Experiment
  PROVE  /\ p.ended \in BOOLEAN /\ p.evidence \in BOOLEAN /\ p.peer \in BOOLEAN
         /\ p.verdict \in BOOLEAN /\ p.outcome \in {"none", "done", "failed"}
         /\ p.blocks \in 0..Blocks
BY DEF Experiment

LEMMA FailShape ==
  ASSUME NEW p \in Experiment
  PROVE  /\ Fail(p) \in Experiment /\ Quits(p, Fail(p))
         /\ Closed(p) \/ ~p.ended => Closed(Fail(p))
<1>1. CASE p.ended \/ p.outcome = "done"
  <2>1. Fail(p) = p BY <1>1 DEF Fail
  <2>2. Quits(p, p) BY Fields DEF Quits, SameWork
  <2>3. Closed(p) \/ ~p.ended => Closed(p) BY <1>1, Fields DEF Closed
  <2>4. QED BY <2>1, <2>2, <2>3
<1>2. CASE ~(p.ended \/ p.outcome = "done")
  <2> DEFINE f == [p EXCEPT !.outcome = "failed"]
  <2>1. Fail(p) = Cleanup(f)
    BY <1>2 DEF Fail
  <2>2. p.outcome \in {"none", "failed"}
    BY <1>2, Fields
  <2>3. f \in Experiment /\ f.at = p.at /\ f.outcome = "failed" /\ f.verdict = p.verdict /\ SameWork(p, f)
    BY FailedShape
  <2> HIDE DEF f
  <2>4. /\ Fail(p) \in Experiment /\ Fail(p).at = "finished" /\ Fail(p).channel = "closed"
        /\ Fail(p).ended /\ SameWork(f, Fail(p)) /\ SameReport(f, Fail(p))
    BY <2>1, <2>3, CleanupShape
  <2>5. QED BY <2>2, <2>3, <2>4 DEF Quits, SameWork, SameReport, Closed
<1>3. QED BY <1>1, <1>2

\* fail and cleanup, from every place they are called.
LEMMA QuitSteps ==
  ASSUME NEW p \in Experiment, Closed(p), NEW q,
         \/ q = Fail(p)
         \/ q = Fail([p EXCEPT !.disorder = TRUE])
         \/ q = Cleanup(p)
         \/ p.channel = "open" /\ q = Fail([p EXCEPT !.channel = "closed"])
  PROVE  q \in Experiment /\ Quits(p, q) /\ Closed(q)
<1>2. CASE q = Fail(p)
  BY <1>2, FailShape
<1>3. CASE q = Fail([p EXCEPT !.disorder = TRUE])
  <2> DEFINE d == [p EXCEPT !.disorder = TRUE]
  <2>1. /\ d \in Experiment /\ d.at = p.at
        /\ SameChannel(p, d) /\ SameWork(p, d) /\ SameReport(p, d)
    BY DisorderShape
  <2> HIDE DEF d
  <2>2. Closed(d)
    BY <2>1 DEF Closed, SameChannel, SameReport
  <2>3. q \in Experiment /\ Quits(d, q) /\ Closed(q)
    BY <1>3, <2>1, <2>2, FailShape DEF d
  <2>4. Quits(p, q)
    BY <2>1, <2>3 DEF Quits, SameChannel, SameWork, SameReport
  <2>5. QED BY <2>3, <2>4
<1>4. CASE q = Cleanup(p)
  BY <1>4, CleanupShape, Fields DEF Quits, Closed, SameReport
<1>5. CASE p.channel = "open" /\ q = Fail([p EXCEPT !.channel = "closed"])
  <2> DEFINE d == [p EXCEPT !.channel = "closed"]
  <2>1. /\ d \in Experiment /\ d.at = p.at /\ d.ended = p.ended
        /\ SameWork(p, d) /\ SameReport(p, d)
    BY ClosesShape
  <2> HIDE DEF d
  <2>2. ~d.ended
    BY <1>5, <2>1 DEF Closed
  <2>3. q \in Experiment /\ Quits(d, q) /\ Closed(q)
    BY <1>5, <2>1, <2>2, FailShape DEF d
  <2>4. Quits(p, q)
    BY <2>1, <2>3 DEF Quits, SameWork, SameReport
  <2>5. QED BY <2>3, <2>4
<1>6. QED BY <1>2, <1>3, <1>4, <1>5

-----------------------------------------------------------------------------
(* The invariant, step by step *)

LEMMA StaysClosed ==
  ASSUME NEW p, NEW q, Closed(p), q.ended = p.ended, q.channel = p.channel,
         p.outcome = "done" => q.outcome = "done"
  PROVE  Closed(q)
BY DEF Closed

\* What fail and cleanup leave of it, whatever messages go with them.
LEMMA QuitKeeps ==
  ASSUME PeerInv, NEW r \in Role, NEW q \in Experiment, Becomes(r, q), Quits(page[r], q),
         Closed(q), \A s \in Role : wire'[s] \subseteq wire[s], wire' \in [Role -> SUBSET Messages]
  PROVE  PeerInv'
<1> USE DEF PeerInv
<1>1. TypeOK'
  BY PageTyped
<1>2. page'[r] = q /\ \A s \in Role : s # r => page'[s] = page[s]
  BY PageBecomes DEF TypeOK
<1>3. \A s \in Role : Quits(page[s], page'[s])
  <2>1. \A s \in Role : Quits(page[s], page[s])
    BY Fields DEF TypeOK, Quits, SameWork
  <2>2. QED BY <1>2, <2>1
<1>4. Quits(page["offerer"], page'["offerer"]) /\ Quits(page["answerer"], page'["answerer"])
  BY <1>3 DEF Role
<1>5. wire'["offerer"] \subseteq wire["offerer"] /\ wire'["answerer"] \subseteq wire["answerer"]
  BY DEF Role
<1>6. OutcomeInv'
  BY <1>3 DEF OutcomeInv, Quits
<1>7. \A evidence : Brought(evidence) => Brought(evidence)'
  BY <1>4 DEF Brought, Quits, SameWork
<1>8. CompleteInv'
  BY <1>4, <1>5, <1>7 DEF CompleteInv, Quits, SameWork
<1>9. AckInv'
  BY <1>4, <1>5 DEF AckInv, Quits, SameWork
<1>10. QED BY <1>1, <1>6, <1>8, <1>9

\* An exchange that is not about the end of the experiment.
Underway(at) == at \in {"idle", "starting", "echo"}
Passing(m) == m.type # "complete" /\ m.type # "complete-ack"

LEMMA QuietKeeps ==
  ASSUME PeerInv, NEW r \in Role, NEW q \in Experiment, Becomes(r, q), Closed(q),
         SameWork(page[r], q), SameReport(page[r], q), q.ended = page[r].ended,
         q.at = page[r].at \/ (Underway(page[r].at) /\ Underway(q.at)),
         \A s \in Role : \A m \in wire'[s] : m \in wire[s] \/ Passing(m),
         wire' \in [Role -> SUBSET Messages]
  PROVE  PeerInv'
<1> USE DEF PeerInv
<1>1. TypeOK'
  BY PageTyped
<1>2. page'[r] = q /\ \A s \in Role : s # r => page'[s] = page[s]
  BY PageBecomes DEF TypeOK
<1> DEFINE Unmoved(s) ==
      /\ SameWork(page[s], page'[s]) /\ SameReport(page[s], page'[s])
      /\ page'[s].ended = page[s].ended
      /\ page'[s].at = page[s].at \/ (Underway(page[s].at) /\ Underway(page'[s].at))
<1>3. \A s \in Role : Unmoved(s)
  BY <1>2 DEF SameWork, SameReport
<1>4. Unmoved("offerer") /\ Unmoved("answerer")
  BY <1>3 DEF Role
<1>5. /\ \A m \in wire'["offerer"] : m \in wire["offerer"] \/ Passing(m)
      /\ \A m \in wire'["answerer"] : m \in wire["answerer"] \/ Passing(m)
  BY DEF Role
<1>6. OutcomeInv'
  BY <1>3 DEF OutcomeInv, SameReport, Underway
<1>7. \A evidence : Brought(evidence) => Brought(evidence)'
  BY <1>4 DEF Brought, SameWork, Underway
<1>8. CompleteInv'
  BY <1>4, <1>5, <1>7 DEF CompleteInv, SameWork, SameReport, Passing, Underway
<1>9. AckInv'
  BY <1>4, <1>5 DEF AckInv, SameWork, SameReport, Passing
<1>10. QED BY <1>1, <1>6, <1>8, <1>9

LEMMA EchoedKeeps ==
  ASSUME PeerInv, NEW m \in wire["offerer"], Echoed(m)
  PROVE  PeerInv'
<1> USE DEF PeerInv
<1> DEFINE p == page["offerer"]
           n == p.blocks + 1
           at == IF LastEcho(n) THEN "finishing" ELSE p.at
           q == [p EXCEPT !.blocks = n, !.at = at]
           sent == IF n < Blocks THEN {Data(n)} ELSE {}
<1>1. p \in Experiment /\ m \in Messages /\ Closed(p) /\ "offerer" \in Role
  BY DEF TypeOK, Role, Closed
<1>2. p.at = "echo" /\ Becomes("offerer", q) /\ Answers("offerer", m, sent)
  BY DEF Echoed
<1>3. n \in 0..Blocks /\ p.blocks \in 0..Blocks
  BY <1>1, <1>2, Fields, PeerAssumption DEF CompleteInv
<1>4. at \in {"echo", "finishing"}
  BY <1>2
<1>5. at \in {"idle", "starting", "echo", "finishing", "confirming", "finished"}
  BY <1>4
<1>6. sent \in SUBSET Messages /\ \A x \in sent : Passing(x)
  BY <1>3 DEF Data, Message, Messages, Passing
<1>7. at = "finishing" => n = Blocks
  BY <1>2 DEF LastEcho
<1>8. at = "echo" => n < Blocks
  BY <1>3, PeerAssumption DEF LastEcho
<1> HIDE DEF at, n
<1>9. /\ q \in Experiment /\ q.at = at /\ q.blocks = n /\ q.evidence = p.evidence
      /\ q.peer = p.peer /\ SameChannel(p, q) /\ SameReport(p, q)
  <2> HIDE DEF p
  <2>1. QED BY ONLY <1>1, <1>3, <1>5 DEF Experiment, SameChannel, SameReport
<1> HIDE DEF q
<1>10. wire' \in [Role -> SUBSET Messages]
  BY <1>1, <1>2, <1>6, WireTyped
<1>11. Closed(q)
  BY <1>1, <1>9, StaysClosed DEF SameChannel, SameReport
<1>12. TypeOK'
  BY <1>1, <1>2, <1>9, <1>10, <1>11, PageTyped
<1>13. page'["offerer"] = q /\ page'["answerer"] = page["answerer"]
  BY <1>1, <1>2, PageBecomes DEF TypeOK, Role
<1>14. /\ \A x \in wire'["answerer"] : x \in wire["answerer"] \/ Passing(x)
       /\ wire'["offerer"] \subseteq wire["offerer"]
  BY <1>2, <1>6 DEF Answers, Peer, TypeOK, Role
<1>15. \A evidence : ~Brought(evidence)
  BY <1>2 DEF Brought
<1>16. OutcomeInv'
  BY <1>2, <1>9, <1>13 DEF OutcomeInv, SameChannel, SameReport, Role
<1>17. CompleteInv'
  BY <1>4, <1>7, <1>8, <1>9, <1>13, <1>14, <1>15 DEF CompleteInv, Passing
<1>18. AckInv'
  BY <1>9, <1>13, <1>14 DEF AckInv, SameReport
<1>19. QED BY <1>12, <1>16, <1>17, <1>18

LEMMA EchoKeeps ==
  ASSUME PeerInv, NEW m \in wire["answerer"], echoBlock(m)
  PROVE  PeerInv'
<1> USE DEF PeerInv
<1> DEFINE p == page["answerer"]
           n == p.blocks + 1
           q == [p EXCEPT !.blocks = n]
           sent == {Message("echo", m.index, FALSE)}
<1>1. p \in Experiment /\ m \in Messages /\ Closed(p) /\ "answerer" \in Role
  BY DEF TypeOK, Role, Closed
<1>2. p.blocks < Blocks /\ Becomes("answerer", q) /\ Answers("answerer", m, sent)
  BY DEF echoBlock
<1>3. n \in 0..Blocks /\ p.blocks # Blocks
  BY <1>1, <1>2, Fields, PeerAssumption
<1>4. sent \in SUBSET Messages /\ \A x \in sent : Passing(x)
  <2>1. m.index \in 0..Blocks
    BY <1>1 DEF Messages
  <2>2. QED BY <2>1 DEF Message, Messages, Passing
<1> HIDE DEF n
<1>5. /\ q \in Experiment /\ q.at = p.at
      /\ SameChannel(p, q) /\ SameReport(p, q)
  <2> HIDE DEF p
  <2>1. QED BY ONLY <1>1, <1>3 DEF Experiment, SameChannel, SameReport
<1> HIDE DEF q
<1>6. wire' \in [Role -> SUBSET Messages]
  BY <1>1, <1>2, <1>4, WireTyped
<1>7. Closed(q)
  BY <1>1, <1>5, StaysClosed DEF SameChannel, SameReport
<1>8. TypeOK'
  BY <1>1, <1>2, <1>5, <1>6, <1>7, PageTyped
<1>9. page'["answerer"] = q /\ page'["offerer"] = page["offerer"]
  BY <1>1, <1>2, PageBecomes DEF TypeOK, Role
<1>10. /\ \A x \in wire'["offerer"] : x \in wire["offerer"] \/ Passing(x)
       /\ wire'["answerer"] \subseteq wire["answerer"]
  BY <1>2, <1>4 DEF Answers, Peer, TypeOK, Role
<1>11. p.at # "finishing" /\ p.outcome # "done"
  BY <1>3 DEF CompleteInv
<1>12. OutcomeInv'
  BY <1>5, <1>9 DEF OutcomeInv, SameChannel, SameReport, Role
<1>13. \A evidence : Brought(evidence)' <=> Brought(evidence)
  BY <1>9 DEF Brought
<1>14. CompleteInv'
  BY <1>5, <1>9, <1>10, <1>11, <1>13 DEF CompleteInv, SameReport
<1>15. AckInv'
  BY <1>5, <1>9, <1>10, <1>11 DEF AckInv, SameReport, Passing
<1>16. QED BY <1>8, <1>12, <1>14, <1>15

\* The last block has been echoed: complete goes out with the offerer's evidence.
LEMMA SentKeeps ==
  ASSUME PeerInv, PayloadSent
  PROVE  PeerInv'
<1> USE DEF PeerInv
<1> DEFINE p == page["offerer"]
<1>1. p \in Experiment /\ Closed(p) /\ "offerer" \in Role
  BY DEF TypeOK, Role, Closed
<1>2. PICK evidence \in BOOLEAN :
        /\ Becomes("offerer", [p EXCEPT !.at = "confirming", !.evidence = evidence])
        /\ Sends("offerer", {Message("complete", Blocks, evidence)})
  BY DEF PayloadSent
<1>3. p.at = "finishing" /\ p.blocks = Blocks
  BY DEF PayloadSent, CompleteInv
<1> DEFINE q == [p EXCEPT !.at = "confirming", !.evidence = evidence]
           sent == {Message("complete", Blocks, evidence)}
<1>4. sent \in SUBSET Messages
  BY MessageTyped, PeerAssumption
<1>5. /\ q \in Experiment /\ q.at = "confirming" /\ q.evidence = evidence /\ q.blocks = p.blocks
      /\ SameChannel(p, q) /\ SameReport(p, q)
  <2> HIDE DEF p
  <2>1. QED BY ONLY <1>1 DEF Experiment, SameChannel, SameReport
<1>6. Becomes("offerer", q) /\ Sends("offerer", sent)
  BY <1>2
<1> HIDE DEF q
<1>7. wire' \in [Role -> SUBSET Messages]
  BY <1>1, <1>4, <1>6, WireTyped
<1>8. Closed(q)
  BY <1>1, <1>5, StaysClosed DEF SameChannel, SameReport
<1>9. TypeOK'
  BY <1>1, <1>5, <1>6, <1>7, <1>8, PageTyped
<1>10. page'["offerer"] = q /\ page'["answerer"] = page["answerer"]
  BY <1>1, <1>6, PageBecomes DEF TypeOK, Role
<1>11. /\ \A x \in wire'["answerer"] : x \in wire["answerer"] \/ x = Message("complete", Blocks, evidence)
       /\ wire'["offerer"] = wire["offerer"]
  BY <1>6 DEF Sends, Peer, TypeOK, Role
<1>12. \A e : ~Brought(e)
  BY <1>3 DEF Brought
<1>13. Brought(evidence)'
  BY <1>3, <1>5, <1>10 DEF Brought
<1>14. /\ page["answerer"].at # "finishing" /\ page["answerer"].outcome # "done"
       /\ \A x \in wire["answerer"] : x.type # "complete"
  BY <1>12 DEF CompleteInv
<1>15. OutcomeInv'
  BY <1>3, <1>5, <1>10 DEF OutcomeInv, SameChannel, SameReport, Role
<1>16. CompleteInv'
  BY <1>3, <1>5, <1>10, <1>11, <1>13, <1>14 DEF CompleteInv, Message
<1>17. AckInv'
  BY <1>5, <1>10, <1>11, <1>14 DEF AckInv, SameReport
<1>18. QED BY <1>9, <1>15, <1>16, <1>17

\* complete arrives; no other is on its way.
LEMMA ReceivedKeeps ==
  ASSUME PeerInv, NEW m \in wire["answerer"], receiveComplete(m), page["answerer"].channel = "open"
  PROVE  PeerInv'
<1> USE DEF PeerInv
<1> DEFINE p == page["answerer"]
           q == [p EXCEPT !.at = "finishing", !.peer = m.evidence]
<1>1. p \in Experiment /\ m \in Messages /\ m.evidence \in BOOLEAN /\ Closed(p) /\ "answerer" \in Role
  BY DEF TypeOK, Role, Closed, Messages
<1>2. m.type = "complete" /\ p.blocks = Blocks /\ Becomes("answerer", q) /\ Answers("answerer", m, {})
  BY DEF receiveComplete
<1>3. Brought(m.evidence) /\ m.index = Blocks /\ p.outcome = "none"
  BY <1>1, <1>2, Fields DEF CompleteInv, OutcomeInv, Closed, Role
<1>4. /\ q \in Experiment /\ q.at = "finishing" /\ q.peer = m.evidence /\ q.blocks = p.blocks
      /\ SameChannel(p, q) /\ SameReport(p, q)
  <2> HIDE DEF p
  <2>1. QED BY ONLY <1>1 DEF Experiment, SameChannel, SameReport
<1> HIDE DEF q
<1>5. wire' \in [Role -> SUBSET Messages]
  BY <1>1, <1>2, WireTyped
<1>6. Closed(q)
  BY <1>1, <1>4, StaysClosed DEF SameChannel, SameReport
<1>7. TypeOK'
  BY <1>1, <1>2, <1>4, <1>5, <1>6, PageTyped
<1>8. page'["answerer"] = q /\ page'["offerer"] = page["offerer"]
  BY <1>1, <1>2, PageBecomes DEF TypeOK, Role
<1>9. wire'["answerer"] = wire["answerer"] \ {m} /\ wire'["offerer"] = wire["offerer"]
  BY <1>2 DEF Answers, Peer, TypeOK, Role
<1>10. \A x \in wire["answerer"] : x.type = "complete" => x = m
  <2>1. SUFFICES ASSUME NEW x \in wire["answerer"], x.type = "complete" PROVE x = m
    OBVIOUS
  <2>2. x.index = m.index /\ x.evidence = m.evidence
    BY <1>3, <2>1 DEF CompleteInv, Brought
  <2>3. x \in Messages
    BY <2>1 DEF TypeOK, Role
  <2>4. QED BY <1>1, <1>2, <2>1, <2>2, <2>3 DEF Messages
<1>11. Brought(m.evidence)'
  BY <1>3, <1>8 DEF Brought
<1>12. OutcomeInv'
  BY <1>3, <1>4, <1>8 DEF OutcomeInv, SameChannel, SameReport, Role
<1>13. CompleteInv'
  BY <1>2, <1>3, <1>4, <1>8, <1>9, <1>10, <1>11 DEF CompleteInv, SameReport
<1>14. AckInv'
  BY <1>3, <1>4, <1>8, <1>9 DEF AckInv, SameReport
<1>15. QED BY <1>7, <1>12, <1>13, <1>14

\* The answerer reports success, and says so.
LEMMA ReportedKeeps ==
  ASSUME PeerInv, PayloadReceived
  PROVE  /\ PeerInv'
         /\ page'["offerer"] = page["offerer"] /\ page["answerer"].outcome = "none"
         /\ page'["answerer"].outcome = "done" /\ page'["answerer"].verdict \in BOOLEAN
<1> USE DEF PeerInv
<1> DEFINE p == page["answerer"]
<1>1. p \in Experiment /\ Closed(p) /\ p.peer \in BOOLEAN /\ "answerer" \in Role
  BY Fields DEF TypeOK, Role, Closed
<1>2. PICK evidence \in BOOLEAN :
        /\ Becomes("answerer", Complete("answerer", [p EXCEPT !.evidence = evidence], p.peer))
        /\ Sends("answerer", {Message("complete-ack", Blocks, evidence)})
  BY DEF PayloadReceived
<1>3. p.at = "finishing"
  BY DEF PayloadReceived
<1> DEFINE e == [p EXCEPT !.evidence = evidence]
           q == Complete("answerer", e, p.peer)
           sent == {Message("complete-ack", Blocks, evidence)}
<1>4. sent \in SUBSET Messages
  BY MessageTyped, PeerAssumption
<1>5. e \in Experiment /\ e.evidence = evidence /\ e.blocks = p.blocks /\ SameChannel(p, e)
  <2> HIDE DEF p
  <2>1. QED BY ONLY <1>1 DEF Experiment, SameChannel
<1> HIDE DEF e
<1>6. /\ q \in Experiment /\ q.at = "finished" /\ q.outcome = "done"
      /\ q.verdict = (evidence /\ p.peer) /\ SameChannel(e, q) /\ SameWork(e, q)
  BY <1>1, <1>5, CompleteShape
<1>7. Becomes("answerer", q) /\ Sends("answerer", sent)
  BY <1>2 DEF e
<1> HIDE DEF q
<1>8. wire' \in [Role -> SUBSET Messages]
  BY <1>1, <1>4, <1>7, WireTyped
<1>9. Closed(q) /\ q.ended = p.ended /\ q.blocks = p.blocks /\ q.evidence = evidence
  BY <1>1, <1>5, <1>6 DEF SameChannel, SameWork, Closed
<1>10. TypeOK'
  BY <1>1, <1>6, <1>7, <1>8, <1>9, PageTyped
<1>11. page'["answerer"] = q /\ page'["offerer"] = page["offerer"]
  BY <1>1, <1>7, PageBecomes DEF TypeOK, Role
<1>12. /\ \A x \in wire'["offerer"] : x \in wire["offerer"] \/ x = Message("complete-ack", Blocks, evidence)
       /\ wire'["answerer"] = wire["answerer"]
  BY <1>7 DEF Sends, Peer, TypeOK, Role
<1>13. p.outcome = "none" /\ page["offerer"].outcome # "done"
  BY <1>3 DEF OutcomeInv, AckInv, Role
<1>14. /\ Brought(p.peer) /\ p.blocks = Blocks
       /\ \A x \in wire["answerer"] : x.type # "complete"
       /\ \A x \in wire["offerer"] : x.type # "complete-ack"
  BY <1>3, <1>13 DEF CompleteInv, AckInv
<1>15. \A v : Brought(v) => Brought(v)'
  BY <1>11 DEF Brought
<1>16. OutcomeInv'
  BY <1>6, <1>9, <1>11 DEF OutcomeInv, Role
<1>17. CompleteInv'
  BY <1>1, <1>6, <1>9, <1>11, <1>12, <1>14, <1>15 DEF CompleteInv
<1>18. AckInv'
  BY <1>6, <1>9, <1>11, <1>12, <1>13, <1>14 DEF AckInv, Message
<1>19. q.verdict \in BOOLEAN
  BY <1>6, Fields
<1>20. QED BY <1>6, <1>10, <1>11, <1>13, <1>16, <1>17, <1>18, <1>19

\* The offerer reports success after the answerer, and reaches the same verdict.
LEMMA ConfirmedKeeps ==
  ASSUME PeerInv, NEW m \in wire["offerer"], Confirmed(m)
  PROVE  /\ PeerInv'
         /\ page["offerer"].outcome = "none"
         /\ page'["offerer"].outcome = "done" /\ page["answerer"].outcome = "done"
         /\ page'["offerer"].verdict = page["answerer"].verdict
         /\ page'["answerer"] = page["answerer"]
<1> USE DEF PeerInv
<1> DEFINE p == page["offerer"]
           q == Complete("offerer", p, m.evidence)
<1>1. /\ p \in Experiment /\ m \in Messages /\ m.evidence \in BOOLEAN /\ Closed(p) /\ "offerer" \in Role
      /\ page["answerer"].evidence \in BOOLEAN
  BY Fields DEF TypeOK, Role, Closed, Messages
<1>2. /\ m.type = "complete-ack" /\ p.at = "confirming"
      /\ Becomes("offerer", q) /\ Answers("offerer", m, {Plain("receipt")})
  BY DEF Confirmed
<1>3. p.blocks = Blocks /\ page["answerer"].outcome = "done" /\ m.evidence = page["answerer"].evidence
  BY <1>2 DEF CompleteInv, AckInv
<1>4. /\ q \in Experiment /\ q.at = "finished" /\ q.outcome = "done"
      /\ q.verdict = (p.evidence /\ m.evidence) /\ SameChannel(p, q) /\ SameWork(p, q)
  BY <1>1, CompleteShape
<1> HIDE DEF q
<1>5. {Plain("receipt")} \in SUBSET Messages
  BY PeerAssumption DEF Plain, Message, Messages
<1>6. wire' \in [Role -> SUBSET Messages]
  BY <1>1, <1>2, <1>5, WireTyped
<1>7. Closed(q) /\ q.ended = p.ended /\ q.blocks = p.blocks /\ q.evidence = p.evidence
  BY <1>1, <1>4 DEF SameChannel, SameWork, Closed
<1>8. TypeOK'
  BY <1>1, <1>2, <1>4, <1>6, <1>7, PageTyped
<1>9. page'["offerer"] = q /\ page'["answerer"] = page["answerer"]
  BY <1>1, <1>2, PageBecomes DEF TypeOK, Role
<1>10. /\ \A x \in wire'["answerer"] : x \in wire["answerer"] \/ x = Plain("receipt")
       /\ wire'["offerer"] = wire["offerer"] \ {m}
  BY <1>2 DEF Answers, Peer, TypeOK, Role
<1>11. /\ page["answerer"].verdict = (page["answerer"].evidence /\ p.evidence)
       /\ \A x \in wire["answerer"] : x.type # "complete"
       /\ page["answerer"].at # "finishing" /\ Brought(p.evidence)
  BY <1>3 DEF CompleteInv, OutcomeInv, Brought, Role
<1>12. \A v : Brought(v) => Brought(v)'
  BY <1>4, <1>7, <1>9 DEF Brought
<1>13. page["answerer"].verdict = q.verdict
  BY <1>1, <1>3, <1>4, <1>11
<1>14. OutcomeInv'
  BY <1>4, <1>9 DEF OutcomeInv, Role
<1>15. CompleteInv'
  BY <1>1, <1>3, <1>4, <1>9, <1>10, <1>11, <1>12, Fields DEF CompleteInv, Plain, Message
<1>16. AckInv'
  BY <1>3, <1>4, <1>9, <1>10, <1>13 DEF AckInv
<1>17. p.outcome = "none"
  BY <1>2 DEF OutcomeInv, Role
<1>18. QED BY <1>3, <1>4, <1>8, <1>9, <1>13, <1>14, <1>15, <1>16, <1>17

-----------------------------------------------------------------------------
(* What a step does to the outcomes and verdicts *)

AgreementStep == [Agreement!Next]_<<Outcome, Verdict>>

LEMMA ReportsStutter ==
  ASSUME \A s \in Role : SameReport(page[s], page'[s])
  PROVE  AgreementStep
<1>1. Outcome' = Outcome /\ Verdict' = Verdict
  BY DEF Outcome, Verdict, SameReport
<1>2. QED BY <1>1 DEF AgreementStep

LEMMA ReportsFail ==
  ASSUME NEW r \in Role, \A s \in Role : s # r => page'[s] = page[s],
         page[r].outcome = "none", page'[r].outcome = "failed", page'[r].verdict = page[r].verdict
  PROVE  AgreementStep
<1>1. Outcome[r] = "none" /\ Outcome' = [Outcome EXCEPT ![r] = "failed"]
  BY DEF Outcome
<1>2. Verdict' = Verdict
  BY DEF Verdict
<1>3. Agreement!Fail(r)
  BY <1>1, <1>2 DEF Agreement!Fail, Agreement!Reports
<1>4. QED BY <1>3 DEF AgreementStep, Agreement!Next, Agreement!Role, Role

LEMMA ReportsQuit ==
  ASSUME PeerInv, NEW r \in Role, NEW q, Becomes(r, q), Quits(page[r], q)
  PROVE  AgreementStep
<1>1. page'[r] = q /\ \A s \in Role : s # r => page'[s] = page[s]
  BY PageBecomes DEF PeerInv, TypeOK
<1>2. CASE q.outcome = page[r].outcome
  BY <1>1, <1>2, ReportsStutter DEF Quits, SameReport
<1>3. CASE q.outcome # page[r].outcome
  BY <1>1, <1>3, ReportsFail DEF Quits
<1>4. QED BY <1>2, <1>3

LEMMA ReportsSame ==
  ASSUME PeerInv, NEW r \in Role, NEW q, Becomes(r, q), SameReport(page[r], q)
  PROVE  AgreementStep
<1>1. page'[r] = q /\ \A s \in Role : s # r => page'[s] = page[s]
  BY PageBecomes DEF PeerInv, TypeOK
<1>2. QED BY <1>1, ReportsStutter DEF SameReport

LEMMA ReportsConfirm ==
  ASSUME page'["offerer"] = page["offerer"], page["answerer"].outcome = "none",
         page'["answerer"].outcome = "done", page'["answerer"].verdict \in BOOLEAN
  PROVE  AgreementStep
<1> DEFINE good == page'["answerer"].verdict
<1>1. Outcome["answerer"] = "none" /\ Outcome' = [Outcome EXCEPT !["answerer"] = "done"]
  BY DEF Outcome, Role
<1>2. Verdict' = [Verdict EXCEPT !["answerer"] = good]
  BY DEF Verdict, Role
<1>3. Agreement!Confirm
  BY <1>1, <1>2 DEF Agreement!Confirm, Agreement!Reports
<1>4. QED BY <1>3 DEF AgreementStep, Agreement!Next

LEMMA ReportsAgree ==
  ASSUME page'["answerer"] = page["answerer"], page["offerer"].outcome = "none",
         page'["offerer"].outcome = "done", page["answerer"].outcome = "done",
         page'["offerer"].verdict = page["answerer"].verdict
  PROVE  AgreementStep
<1>1. /\ Outcome["answerer"] = "done" /\ Outcome["offerer"] = "none"
      /\ Outcome' = [Outcome EXCEPT !["offerer"] = "done"]
  BY DEF Outcome, Role
<1>2. Verdict' = [Verdict EXCEPT !["offerer"] = Verdict["answerer"]]
  BY DEF Verdict, Role
<1>3. QED BY <1>1, <1>2 DEF AgreementStep, Agreement!Next, Agreement!Agree, Agreement!Reports

-----------------------------------------------------------------------------
(* All steps *)

LEMMA QuitStep ==
  ASSUME PeerInv, NEW r \in Role, NEW q, Becomes(r, q),
         \/ q = Fail(page[r])
         \/ q = Fail([page[r] EXCEPT !.disorder = TRUE])
         \/ q = Cleanup(page[r])
         \/ page[r].channel = "open" /\ q = Fail([page[r] EXCEPT !.channel = "closed"]),
         \A s \in Role : wire'[s] \subseteq wire[s], wire' \in [Role -> SUBSET Messages]
  PROVE  PeerInv' /\ AgreementStep
<1>1. page[r] \in Experiment /\ Closed(page[r])
  BY DEF PeerInv, TypeOK, Closed
<1>2. q \in Experiment /\ Quits(page[r], q) /\ Closed(q)
  BY <1>1, QuitSteps
<1>3. QED BY <1>2, QuitKeeps, ReportsQuit

LEMMA QuietStep ==
  ASSUME PeerInv, NEW r \in Role, NEW q \in Experiment, Becomes(r, q), Closed(q),
         SameWork(page[r], q), SameReport(page[r], q), q.ended = page[r].ended,
         q.at = page[r].at \/ (Underway(page[r].at) /\ Underway(q.at)),
         NEW sent \in SUBSET Messages, \A m \in sent : Passing(m), NEW m,
         Sends(r, sent) \/ Answers(r, m, sent)
  PROVE  PeerInv' /\ AgreementStep
<1>1. wire' \in [Role -> SUBSET Messages]
  BY WireTyped DEF PeerInv
<1>2. \A s \in Role : \A x \in wire'[s] : x \in wire[s] \/ Passing(x)
  BY Roles DEF Sends, Answers, PeerInv, TypeOK
<1>3. QED BY <1>1, <1>2, QuietKeeps, ReportsSame

LEMMA OpeningStep ==
  ASSUME PeerInv, NEW r \in Role, Opens(r) \/ Opened(r)
  PROVE  PeerInv' /\ AgreementStep
<1> DEFINE p == page[r]
<1>1. p \in Experiment /\ Closed(p)
  BY DEF PeerInv, TypeOK, Closed
<1>2. CASE Opens(r)
  <2> DEFINE q == [p EXCEPT !.channel = "open", !.opening = TRUE]
  <2>1. p.channel = "connecting" /\ Becomes(r, q) /\ wire' = wire
    BY <1>2 DEF Opens
  <2>2. /\ q \in Experiment /\ q.at = p.at /\ q.channel = "open" /\ q.ended = p.ended
        /\ SameWork(p, q) /\ SameReport(p, q)
    <3> HIDE DEF p
    <3>1. QED BY ONLY <1>1 DEF Experiment, SameWork, SameReport
  <2> HIDE DEF q
  <2>3. Closed(q)
    BY <1>1, <2>1, <2>2, Fields DEF Closed
  <2>4. wire' \in [Role -> SUBSET Messages] /\ \A s \in Role : \A m \in wire'[s] : m \in wire[s]
    BY <2>1 DEF PeerInv, TypeOK
  <2>5. QED BY <2>1, <2>2, <2>3, <2>4, QuietKeeps, ReportsSame
<1>3. CASE Opened(r)
  <2> DEFINE q == [p EXCEPT !.opening = FALSE]
             sent == IF SaysReady(r) THEN {Plain("ready")} ELSE {}
  <2>1. Becomes(r, q) /\ Sends(r, sent)
    BY <1>3 DEF Opened
  <2>2. /\ q \in Experiment /\ q.at = p.at
        /\ SameChannel(p, q) /\ SameWork(p, q) /\ SameReport(p, q)
    BY <1>1, OpenedShape
  <2> HIDE DEF q
  <2>3. sent \in SUBSET Messages /\ \A m \in sent : Passing(m)
    BY PeerAssumption DEF Plain, Message, Messages, Passing
  <2>4. Closed(q)
    BY <1>1, <2>2 DEF Closed, SameChannel, SameReport
  <2>5. q.ended = page[r].ended
    BY <2>2 DEF SameChannel
  <2> HIDE DEF sent
  <2>6. QED BY <2>1, <2>2, <2>3, <2>4, <2>5, QuietStep
<1>4. QED BY <1>2, <1>3

LEMMA StartingStep ==
  ASSUME PeerInv, NEW at \in {"starting", "echo"}, NEW sent \in SUBSET {Data(0)}, NEW m,
         Underway(page["offerer"].at), Becomes("offerer", [page["offerer"] EXCEPT !.at = at]),
         Sends("offerer", sent) \/ Answers("offerer", m, sent)
  PROVE  PeerInv' /\ AgreementStep
<1> DEFINE p == page["offerer"]
           q == [p EXCEPT !.at = at]
<1>1. p \in Experiment /\ Closed(p) /\ "offerer" \in Role
  BY DEF PeerInv, TypeOK, Closed, Role
<1>2. q \in Experiment /\ q.at = at /\ SameChannel(p, q) /\ SameWork(p, q) /\ SameReport(p, q)
  <2> HIDE DEF p
  <2>1. at \in {"idle", "starting", "echo", "finishing", "confirming", "finished"}
    OBVIOUS
  <2>2. QED BY ONLY <1>1, <2>1 DEF Experiment, SameChannel, SameWork, SameReport
<1>3. Becomes("offerer", q)
  OBVIOUS
<1> HIDE DEF q
<1>4. Closed(q) /\ q.ended = page["offerer"].ended /\ Underway(q.at)
  BY <1>1, <1>2 DEF Closed, SameChannel, SameReport, Underway
<1>5. Data(0) \in Messages /\ Passing(Data(0))
  BY PeerAssumption DEF Data, Message, Messages, Passing
<1>6. sent \in SUBSET Messages /\ \A x \in sent : Passing(x)
  BY <1>5
<1>7. QED BY <1>1, <1>2, <1>3, <1>4, <1>6, QuietStep

LEMMA DataStep ==
  ASSUME PeerInv, NEW r \in Role, onData(r)
  PROVE  PeerInv' /\ AgreementStep
<1>1. PICK m \in wire[r] :
        /\ Receives(r, m)
        /\ \/ r = "offerer" /\ (senderReady(m) \/ Echoed(m) \/ Confirmed(m))
           \/ r = "answerer" /\ (echoBlock(m) \/ receiveComplete(m) \/ Receipt(m))
           \/ Unexpected(r, m)
  BY DEF onData
<1>2. page[r] \in Experiment /\ page[r].channel = "open"
  BY <1>1 DEF PeerInv, TypeOK, Receives
<1>3. CASE r = "offerer" /\ senderReady(m)
  <2>1. /\ Underway(page["offerer"].at) /\ Becomes("offerer", [page["offerer"] EXCEPT !.at = "starting"])
        /\ Answers("offerer", m, {})
    BY <1>3 DEF senderReady, Underway
  <2>2. QED BY <2>1, StartingStep
<1>4. CASE r = "offerer" /\ Echoed(m)
  <2> DEFINE at == IF LastEcho(page[r].blocks + 1) THEN "finishing" ELSE page[r].at
             q == [page[r] EXCEPT !.blocks = page[r].blocks + 1, !.at = at]
  <2>1. PeerInv' BY <1>4, EchoedKeeps
  <2>2. Becomes(r, q) BY <1>4 DEF Echoed
  <2>3. SameReport(page[r], q)
    <3> HIDE DEF at
    <3>1. QED BY <1>2 DEF Experiment, SameReport
  <2> HIDE DEF q
  <2>4. QED BY <2>1, <2>2, <2>3, ReportsSame
<1>5. CASE r = "offerer" /\ Confirmed(m)
  BY <1>5, ConfirmedKeeps, ReportsAgree
<1>6. CASE r = "answerer" /\ echoBlock(m)
  <2> DEFINE q == [page[r] EXCEPT !.blocks = page[r].blocks + 1]
  <2>1. PeerInv' BY <1>6, EchoKeeps
  <2>2. Becomes(r, q) BY <1>6 DEF echoBlock
  <2>3. SameReport(page[r], q) BY <1>2 DEF Experiment, SameReport
  <2> HIDE DEF q
  <2>4. QED BY <2>1, <2>2, <2>3, ReportsSame
<1>7. CASE r = "answerer" /\ receiveComplete(m)
  <2> DEFINE q == [page[r] EXCEPT !.at = "finishing", !.peer = m.evidence]
  <2>1. PeerInv' BY <1>2, <1>7, ReceivedKeeps
  <2>2. Becomes(r, q) BY <1>7 DEF receiveComplete
  <2>3. SameReport(page[r], q) BY <1>2 DEF Experiment, SameReport
  <2> HIDE DEF q
  <2>4. QED BY <2>1, <2>2, <2>3, ReportsSame
<1>8. ASSUME Answers(r, m, {})
      PROVE  (\A s \in Role : wire'[s] \subseteq wire[s]) /\ wire' \in [Role -> SUBSET Messages]
  BY <1>8, Roles DEF Answers, PeerInv, TypeOK
<1>9. CASE r = "answerer" /\ Receipt(m)
  BY <1>8, <1>9, QuitStep DEF Receipt
<1>10. CASE Unexpected(r, m)
  BY <1>8, <1>10, QuitStep DEF Unexpected
<1>11. QED BY <1>1, <1>3, <1>4, <1>5, <1>6, <1>7, <1>9, <1>10

LEMMA EndingStep ==
  ASSUME PeerInv, NEW r \in Role, GivesUp(r) \/ CleanupTimer(r) \/ Leaves(r) \/ ChannelCloses(r)
  PROVE  PeerInv' /\ AgreementStep
<1>1. (\A s \in Role : wire'[s] \subseteq wire[s]) /\ wire' \in [Role -> SUBSET Messages]
  BY DEF GivesUp, CleanupTimer, Leaves, ChannelCloses, PeerInv, TypeOK
<1>2. QED BY <1>1, QuitStep DEF GivesUp, CleanupTimer, Leaves, ChannelCloses

LEMMA UndeliveredStep ==
  ASSUME PeerInv, NEW r \in Role, Undelivered(r) \/ UNCHANGED vars
  PROVE  PeerInv' /\ AgreementStep
<1> USE DEF PeerInv
<1>1. /\ page' = page /\ \A s \in Role : wire'[s] \subseteq wire[s]
      /\ wire' \in [Role -> SUBSET Messages]
  BY DEF Undelivered, vars, TypeOK
<1>2. TypeOK' /\ OutcomeInv'
  BY <1>1 DEF TypeOK, OutcomeInv
<1>3. \A v : Brought(v) => Brought(v)'
  BY <1>1 DEF Brought
<1>4. CompleteInv' /\ AckInv'
  BY <1>1, <1>3 DEF CompleteInv, AckInv, Role
<1>5. AgreementStep
  BY <1>1, ReportsStutter DEF SameReport
<1>6. QED BY <1>2, <1>4, <1>5

LEMMA StepKeeps ==
  ASSUME PeerInv, [Next]_vars
  PROVE  PeerInv' /\ AgreementStep
<1>1. CASE PayloadStarts
  <2>1. /\ Underway(page["offerer"].at) /\ Becomes("offerer", [page["offerer"] EXCEPT !.at = "echo"])
        /\ Sends("offerer", {Data(0)})
    BY <1>1 DEF PayloadStarts, Underway
  <2>2. QED BY <2>1, StartingStep
<1>2. CASE PayloadSent
  <2>1. PICK evidence \in BOOLEAN :
          Becomes("offerer", [page["offerer"] EXCEPT !.at = "confirming", !.evidence = evidence])
    BY <1>2 DEF PayloadSent
  <2> DEFINE q == [page["offerer"] EXCEPT !.at = "confirming", !.evidence = evidence]
  <2>2. page["offerer"] \in Experiment /\ "offerer" \in Role
    BY DEF PeerInv, TypeOK, Role
  <2>3. SameReport(page["offerer"], q) BY <2>2 DEF Experiment, SameReport
  <2>4. Becomes("offerer", q) BY <2>1
  <2> HIDE DEF q
  <2>5. QED BY <1>2, <2>2, <2>3, <2>4, SentKeeps, ReportsSame
<1>3. CASE PayloadReceived
  BY <1>3, ReportedKeeps, ReportsConfirm
<1>4. ASSUME NEW r \in Role, Opens(r) \/ Opened(r) PROVE PeerInv' /\ AgreementStep
  BY <1>4, OpeningStep
<1>5. ASSUME NEW r \in Role, onData(r) PROVE PeerInv' /\ AgreementStep
  BY <1>5, DataStep
<1>6. ASSUME NEW r \in Role, GivesUp(r) \/ CleanupTimer(r) \/ Leaves(r) \/ ChannelCloses(r)
      PROVE  PeerInv' /\ AgreementStep
  BY <1>6, EndingStep
<1>7. ASSUME NEW r \in Role, Undelivered(r) PROVE PeerInv' /\ AgreementStep
  BY <1>7, UndeliveredStep
<1>8. CASE UNCHANGED vars
  BY <1>8, UndeliveredStep DEF Role
<1>9. QED BY <1>1, <1>2, <1>3, <1>4, <1>5, <1>6, <1>7, <1>8 DEF Next

-----------------------------------------------------------------------------
LEMMA Invariance == Spec => []PeerInv
<1>1. PeerInv /\ [Next]_vars => PeerInv'
  BY StepKeeps
<1>2. QED BY InitInv, <1>1, PTL DEF Spec

\* Type correctness of the experiment (TypeOK): a page that has ended holds no channel.
THEOREM PeerTypes == Spec => []TypeOK
<1>1. PeerInv => TypeOK
  BY DEF PeerInv
<1>2. QED BY Invariance, <1>1, PTL

\* A page that reports success has sent, or echoed, every block, and so has the other
\* (peer.js sendPayload, receiveComplete), for any number of blocks.
THEOREM SuccessIsEchoed == Spec => []SuccessMeansEchoed
<1>1. PeerInv => SuccessMeansEchoed
  <2> SUFFICES ASSUME PeerInv PROVE SuccessMeansEchoed
    OBVIOUS
  <2>1. page["answerer"].outcome = "done" => page["answerer"].blocks = Blocks /\ page["offerer"].blocks = Blocks
    BY DEF PeerInv, CompleteInv, Brought
  <2>2. page["offerer"].outcome = "done" => page["answerer"].outcome = "done"
    BY DEF PeerInv, AckInv
  <2>3. QED BY <2>1, <2>2 DEF SuccessMeansEchoed, Role
<1>2. QED BY Invariance, <1>1, PTL

\* The two pages implement PeerAgreement (ImplementsAgreement): each reports once, the
\* offerer reports success only after the answerer and with its verdict, whatever is
\* timed out, closed or lost in between (peer.js receiveComplete, complete, fail).
THEOREM PagesAgree == Spec => ImplementsAgreement
<1>1. Init => Agreement!Init
  BY DEF Init, NewPage, Outcome, Verdict, Agreement!Init, Agreement!Role, Role
<1>2. PeerInv /\ [Next]_vars => [Agreement!Next]_<<Outcome, Verdict>>
  BY StepKeeps DEF AgreementStep
<1>3. QED BY Invariance, <1>1, <1>2, PTL DEF Spec, ImplementsAgreement, Agreement!Spec

-----------------------------------------------------------------------------
(* The order of the messages: who speaks next. *)

\* The offerer waits at this point, with so many blocks echoed, or it is gone; the
\* answerer has echoed so many and waits for the next message, or it is gone.
OffererAt(at, n) ==
  page["offerer"].ended \/ (page["offerer"].at = at /\ page["offerer"].blocks = n)

AnswererAt(n) ==
  \/ page["answerer"].ended
  \/ page["answerer"].at = "idle" /\ page["answerer"].blocks = n /\ page["answerer"].outcome = "none"

Through(r) == page[r].ended \/ page[r].outcome = "done"

Silent == \A r \in Role : wire[r] = {}
Uncalled == page["answerer"].channel = "connecting" \/ page["answerer"].opening

\* What a message on its way says of both pages.
ToOfferer(m) ==
  \/ m.type = "ready" /\ OffererAt("idle", 0) /\ AnswererAt(0)
  \/ m.type = "echo" /\ OffererAt("echo", m.index) /\ AnswererAt(m.index + 1)
  \/ m.type = "complete-ack" /\ OffererAt("confirming", Blocks) /\ Through("answerer")

ToAnswerer(m) ==
  \/ m.type = "data" /\ m.index < Blocks /\ OffererAt("echo", m.index) /\ AnswererAt(m.index)
  \/ m.type = "complete" /\ OffererAt("confirming", Blocks) /\ AnswererAt(Blocks)
  \/ m.type = "receipt" /\ Through("offerer") /\ Through("answerer")

\* One message is on the way, or one page is at work, or both wait: the next message
\* comes from whoever the last one was for.
OneSpeaks ==
  /\ \A r \in Role : \A m, n \in wire[r] : m = n
  /\ wire["offerer"] = {} \/ wire["answerer"] = {}
  /\ \A m \in wire["offerer"] : ToOfferer(m)
  /\ \A m \in wire["answerer"] : ToAnswerer(m)
  /\ Uncalled => Silent /\ OffererAt("idle", 0) /\ AnswererAt(0)
  /\ page["offerer"].at = "starting" => Silent /\ page["offerer"].blocks = 0 /\ AnswererAt(0)
  /\ page["offerer"].at = "finishing" => Silent /\ AnswererAt(Blocks)
  /\ page["answerer"].at = "finishing" => Silent /\ OffererAt("confirming", Blocks)

Settled ==
  \A r \in Role :
    /\ ~page[r].disorder
    /\ page[r].ended => page[r].at = "finished"
    /\ page[r].opening => page[r].channel # "connecting" /\ ~page[r].ended

Ordered == OneSpeaks /\ Settled

LEMMA TwoRoles ==
  ASSUME NEW r \in Role
  PROVE  \/ r = "offerer" /\ Peer(r) = "answerer"
         \/ r = "answerer" /\ Peer(r) = "offerer"
BY DEF Role, Peer

LEMMA InitOrdered == Init => Ordered
BY DEF Init, NewPage, Ordered, OneSpeaks, Settled, Silent, Uncalled, OffererAt, AnswererAt, Role

\* A page that falls silent leaves everything in order, whatever is lost with it.
LEMMA GoneKeeps ==
  ASSUME PeerInv, Ordered, NEW r \in Role, NEW q, Becomes(r, q),
         q.ended, q.at = "finished", ~q.opening, q.channel # "connecting", q.disorder = page[r].disorder,
         \A s \in Role : wire'[s] \subseteq wire[s]
  PROVE  Ordered'
<1>1. page'[r] = q /\ \A s \in Role : s # r => page'[s] = page[s]
  BY PageBecomes DEF PeerInv, TypeOK
<1>2. Settled'
  BY <1>1 DEF Ordered, Settled
<1>3. /\ wire'["offerer"] \subseteq wire["offerer"] /\ wire'["answerer"] \subseteq wire["answerer"]
      /\ Silent => Silent'
  BY DEF Role, Silent
<1>4. CASE r = "offerer"
  <2>1. page'["offerer"] = q /\ page'["answerer"] = page["answerer"]
    BY <1>1, <1>4 DEF Role
  <2>2. /\ \A at, n : OffererAt(at, n)'
        /\ \A n : AnswererAt(n) => AnswererAt(n)'
        /\ Through("offerer")' /\ (Through("answerer") => Through("answerer")')
    BY <2>1 DEF OffererAt, AnswererAt, Through
  <2>3. OneSpeaks'
    BY <1>3, <2>1, <2>2 DEF Ordered, OneSpeaks, Uncalled, ToOfferer, ToAnswerer, Role
  <2>. QED  BY <1>2, <2>3 DEF Ordered
<1>5. CASE r = "answerer"
  <2>1. page'["answerer"] = q /\ page'["offerer"] = page["offerer"]
    BY <1>1, <1>5 DEF Role
  <2>2. /\ \A n : AnswererAt(n)'
        /\ \A at, n : OffererAt(at, n) => OffererAt(at, n)'
        /\ Through("answerer")' /\ (Through("offerer") => Through("offerer")')
    BY <2>1 DEF OffererAt, AnswererAt, Through
  <2>3. OneSpeaks'
    BY <1>3, <2>1, <2>2 DEF Ordered, OneSpeaks, Uncalled, ToOfferer, ToAnswerer, Role
  <2>. QED  BY <1>2, <2>3 DEF Ordered
<1>. QED  BY <1>4, <1>5, TwoRoles

\* So does a page that only opens or loses its channel, or a message that is lost.
SameSpeech(p, q) ==
  /\ q.ended = p.ended /\ q.at = p.at /\ q.blocks = p.blocks /\ q.outcome = p.outcome
  /\ q.disorder = p.disorder

LEMMA SpeechKeeps ==
  ASSUME Ordered, \A s \in Role : SameSpeech(page[s], page'[s]),
         \A s \in Role : wire'[s] \subseteq wire[s],
         \A s \in Role : page'[s].opening => page'[s].channel # "connecting" /\ ~page'[s].ended,
         Uncalled' => Uncalled
  PROVE  Ordered'
<1>1. Settled'
  BY DEF Ordered, Settled, SameSpeech
<1>2. /\ wire'["offerer"] \subseteq wire["offerer"] /\ wire'["answerer"] \subseteq wire["answerer"]
      /\ Silent => Silent'
  BY DEF Role, Silent
<1>3. SameSpeech(page["offerer"], page'["offerer"]) /\ SameSpeech(page["answerer"], page'["answerer"])
  BY DEF Role
<1>4. /\ \A at, n : OffererAt(at, n) => OffererAt(at, n)'
      /\ \A n : AnswererAt(n) => AnswererAt(n)'
      /\ Through("offerer") => Through("offerer")'
      /\ Through("answerer") => Through("answerer")'
  BY <1>3 DEF OffererAt, AnswererAt, Through, SameSpeech
<1>5. OneSpeaks'
  BY <1>2, <1>3, <1>4 DEF Ordered, OneSpeaks, ToOfferer, ToAnswerer, Role, SameSpeech
<1>. QED  BY <1>1, <1>5 DEF Ordered

\* What a page leaves as it is when it takes its turn.
SameManner(p, q) ==
  q.ended = p.ended /\ q.opening = p.opening /\ q.channel = p.channel /\ q.disorder = p.disorder

\* The offerer's turn: it is connected and the way is free, it says at most one thing.
LEMMA OffererSpeaks ==
  ASSUME PeerInv, Ordered, NEW q, Becomes("offerer", q), SameManner(page["offerer"], q),
         ~page["offerer"].ended, ~Uncalled, page["answerer"].at # "finishing",
         NEW sent, \A x, y \in sent : x = y,
         wire'["offerer"] = {}, wire'["answerer"] = sent,
         \A m \in sent : ToAnswerer(m)',
         q.at = "starting" => sent = {} /\ q.blocks = 0 /\ AnswererAt(0),
         q.at = "finishing" => sent = {} /\ AnswererAt(Blocks)
  PROVE  Ordered'
<1>1. page'["offerer"] = q /\ page'["answerer"] = page["answerer"]
  BY PageBecomes DEF PeerInv, TypeOK, Role
<1>2. Settled'
  BY <1>1 DEF Ordered, Settled, SameManner, Role
<1>3. sent = {} => Silent'
  BY DEF Silent, Role
<1>4. \A n : AnswererAt(n) => AnswererAt(n)'
  BY <1>1 DEF AnswererAt
<1>5. ~Uncalled'
  BY <1>1 DEF Uncalled
<1>6. OneSpeaks'
  BY <1>1, <1>3, <1>4, <1>5 DEF OneSpeaks, Role
<1>. QED  BY <1>2, <1>6 DEF Ordered

LEMMA AnswererSpeaks ==
  ASSUME PeerInv, Ordered, NEW q, Becomes("answerer", q),
         q.ended = page["answerer"].ended, q.disorder = page["answerer"].disorder,
         ~page["answerer"].ended, q.channel # "connecting", ~q.opening,
         page["offerer"].at \notin {"starting", "finishing"},
         NEW sent, \A x, y \in sent : x = y,
         wire'["answerer"] = {}, wire'["offerer"] = sent,
         \A m \in sent : ToOfferer(m)',
         q.at = "finishing" => sent = {} /\ OffererAt("confirming", Blocks)
  PROVE  Ordered'
<1>1. page'["answerer"] = q /\ page'["offerer"] = page["offerer"]
  BY PageBecomes DEF PeerInv, TypeOK, Role
<1>2. Settled'
  BY <1>1 DEF Ordered, Settled, Role
<1>3. sent = {} => Silent'
  BY DEF Silent, Role
<1>4. \A at, n : OffererAt(at, n) => OffererAt(at, n)'
  BY <1>1 DEF OffererAt
<1>5. ~Uncalled'
  BY <1>1 DEF Uncalled
<1>6. OneSpeaks'
  BY <1>1, <1>3, <1>4, <1>5 DEF OneSpeaks, Role
<1>. QED  BY <1>2, <1>6 DEF Ordered

LEMMA WayAnswered ==
  ASSUME PeerInv, Ordered, NEW r \in Role, NEW m \in wire[r], NEW sent, Answers(r, m, sent)
  PROVE  wire'[r] = {} /\ wire'[Peer(r)] = sent
<1>1. wire[r] \ {m} = {} /\ wire[Peer(r)] = {}
  BY TwoRoles DEF Ordered, OneSpeaks
<1>2. wire' = [wire EXCEPT ![r] = {}, ![Peer(r)] = sent]
  BY <1>1 DEF Answers
<1>. QED  BY <1>2, Roles DEF PeerInv, TypeOK

LEMMA WaySent ==
  ASSUME PeerInv, Silent, NEW r \in Role, NEW sent, Sends(r, sent)
  PROVE  wire'[r] = {} /\ wire'[Peer(r)] = sent
<1>1. wire[r] = {} /\ wire[Peer(r)] = {}
  BY TwoRoles DEF Silent, Role
<1>2. wire' = [wire EXCEPT ![Peer(r)] = sent]
  BY <1>1 DEF Sends
<1>. QED  BY <1>1, <1>2, Roles DEF PeerInv, TypeOK

\* A page with an open channel has not ended.
LEMMA OpenStays ==
  ASSUME PeerInv, NEW r \in Role, page[r].channel = "open"
  PROVE  ~page[r].ended
BY DEF PeerInv, TypeOK

\* Whatever arrives is what the page waits for.
LEMMA OnlyExpected ==
  ASSUME PeerInv, Ordered, NEW r \in Role, NEW m \in wire[r], Receives(r, m)
  PROVE  Expected(r, m)
<1>1. ~page[r].ended
  BY OpenStays DEF Receives
<1>2. CASE r = "offerer"
  <2>1. ToOfferer(m)
    BY <1>2 DEF Ordered, OneSpeaks
  <2>. QED  BY <1>1, <1>2, <2>1 DEF ToOfferer, OffererAt, Expected
<1>3. CASE r = "answerer"
  <2>1. ToAnswerer(m)
    BY <1>3 DEF Ordered, OneSpeaks
  <2>. QED  BY <1>1, <1>3, <2>1 DEF ToAnswerer, AnswererAt, Through, Expected
<1>. QED  BY <1>2, <1>3, TwoRoles

\* With a message on the way to it, the page and its peer wait.
LEMMA Waiting ==
  ASSUME Ordered, NEW r \in Role, NEW m \in wire[r]
  PROVE  /\ ~Uncalled /\ page["answerer"].at # "finishing"
         /\ page["offerer"].at \notin {"starting", "finishing"}
BY DEF Ordered, OneSpeaks, Silent

LEMMA ReadyOrdered ==
  ASSUME PeerInv, Ordered, NEW m \in wire["offerer"], Receives("offerer", m), senderReady(m)
  PROVE  Ordered'
<1> DEFINE p == page["offerer"]
           q == [p EXCEPT !.at = "starting"]
<1>1. p \in Experiment /\ "offerer" \in Role /\ Peer("offerer") = "answerer"
  BY DEF PeerInv, TypeOK, Role, Peer
<1>2. Becomes("offerer", q) /\ Answers("offerer", m, {})
  BY DEF senderReady
<1>3. q.at = "starting" /\ q.blocks = p.blocks /\ SameManner(p, q)
  BY <1>1 DEF Experiment, SameManner
<1>4. ToOfferer(m) /\ m.type = "ready" /\ ~p.ended
  BY <1>1, OpenStays DEF Ordered, OneSpeaks, senderReady, Receives
<1>5. p.blocks = 0 /\ AnswererAt(0)
  BY <1>4 DEF ToOfferer, OffererAt
<1>6. wire'["offerer"] = {} /\ wire'["answerer"] = {}
  BY <1>1, <1>2, WayAnswered
<1>7. ~Uncalled /\ page["answerer"].at # "finishing"
  BY <1>1, Waiting
<1> HIDE DEF q
<1>. QED  BY <1>2, <1>3, <1>4, <1>5, <1>6, <1>7, OffererSpeaks

LEMMA StartsOrdered ==
  ASSUME PeerInv, Ordered, PayloadStarts
  PROVE  Ordered'
<1> DEFINE p == page["offerer"]
           q == [p EXCEPT !.at = "echo"]
           sent == {Data(0)}
<1>1. p \in Experiment /\ "offerer" \in Role /\ Peer("offerer") = "answerer"
  BY DEF PeerInv, TypeOK, Role, Peer
<1>2. p.at = "starting" /\ Becomes("offerer", q) /\ Sends("offerer", sent)
  BY DEF PayloadStarts
<1>3. q.at = "echo" /\ q.blocks = p.blocks /\ SameManner(p, q)
  BY <1>1 DEF Experiment, SameManner
<1>4. Silent /\ p.blocks = 0 /\ AnswererAt(0) /\ ~p.ended /\ ~Uncalled /\ page["answerer"].at # "finishing"
  BY <1>1, <1>2 DEF Ordered, OneSpeaks, Settled, OffererAt
<1>5. wire'["offerer"] = {} /\ wire'["answerer"] = sent
  BY <1>1, <1>2, <1>4, WaySent
<1>6. page'["offerer"] = q /\ page'["answerer"] = page["answerer"]
  BY <1>1, <1>2, PageBecomes DEF PeerInv, TypeOK, Role
<1> HIDE DEF q
<1>7. ToAnswerer(Data(0))'
  <2>1. Data(0).type = "data" /\ Data(0).index = 0
    BY DEF Data, Message
  <2>2. OffererAt("echo", 0)' /\ AnswererAt(0)' /\ 0 < Blocks
    BY <1>3, <1>4, <1>6, PeerAssumption DEF OffererAt, AnswererAt
  <2>. QED  BY <2>1, <2>2 DEF ToAnswerer
<1>. QED  BY <1>2, <1>3, <1>4, <1>5, <1>7, OffererSpeaks

LEMMA EchoedOrdered ==
  ASSUME PeerInv, Ordered, NEW m \in wire["offerer"], Receives("offerer", m), Echoed(m)
  PROVE  Ordered'
<1> DEFINE p == page["offerer"]
           n == p.blocks + 1
           at == IF LastEcho(n) THEN "finishing" ELSE p.at
           q == [p EXCEPT !.blocks = n, !.at = at]
           sent == IF n < Blocks THEN {Data(n)} ELSE {}
<1>1. p \in Experiment /\ "offerer" \in Role /\ Peer("offerer") = "answerer"
  BY DEF PeerInv, TypeOK, Role, Peer
<1>2. p.at = "echo" /\ m.index = p.blocks /\ Becomes("offerer", q) /\ Answers("offerer", m, sent)
  BY DEF Echoed
<1>3. ToOfferer(m) /\ m.type = "echo" /\ ~p.ended
  BY <1>1, OpenStays DEF Ordered, OneSpeaks, Echoed, Receives
<1>4. AnswererAt(n)
  BY <1>2, <1>3 DEF ToOfferer
<1>5. at = "finishing" => n = Blocks /\ sent = {}
  BY <1>2, PeerAssumption DEF LastEcho
<1>6. at \in {"echo", "finishing"} /\ (n < Blocks => at = "echo")
  BY <1>2, PeerAssumption DEF LastEcho
<1>7. wire'["offerer"] = {} /\ wire'["answerer"] = sent
  BY <1>1, <1>2, WayAnswered
<1>8. ~Uncalled /\ page["answerer"].at # "finishing"
  BY <1>1, Waiting
<1>9. page'["offerer"] = q /\ page'["answerer"] = page["answerer"]
  BY <1>1, <1>2, PageBecomes DEF PeerInv, TypeOK, Role
<1> HIDE DEF at, n
<1>10. q.at = at /\ q.blocks = n /\ SameManner(p, q)
  BY <1>1 DEF Experiment, SameManner
<1> HIDE DEF q
<1>11. ASSUME NEW x \in sent PROVE ToAnswerer(x)'
  <2>1. n < Blocks /\ x.type = "data" /\ x.index = n
    BY <1>11 DEF Data, Message
  <2>2. PICK k : k = n
    OBVIOUS
  <2>3. OffererAt("echo", k)' /\ AnswererAt(k)'
    BY <1>4, <1>6, <1>9, <1>10, <2>1, <2>2 DEF OffererAt, AnswererAt
  <2>. QED  BY <2>1, <2>2, <2>3 DEF ToAnswerer
<1>12. \A x, y \in sent : x = y
  OBVIOUS
<1> HIDE DEF sent
<1>. QED  BY <1>2, <1>3, <1>4, <1>5, <1>6, <1>7, <1>8, <1>10, <1>11, <1>12, OffererSpeaks

LEMMA SentOrdered ==
  ASSUME PeerInv, Ordered, PayloadSent
  PROVE  Ordered'
<1>1. PICK evidence \in BOOLEAN :
        /\ Becomes("offerer", [page["offerer"] EXCEPT !.at = "confirming", !.evidence = evidence])
        /\ Sends("offerer", {Message("complete", Blocks, evidence)})
  BY DEF PayloadSent
<1> DEFINE p == page["offerer"]
           q == [p EXCEPT !.at = "confirming", !.evidence = evidence]
           complete == Message("complete", Blocks, evidence)
<1>2. p \in Experiment /\ "offerer" \in Role /\ Peer("offerer") = "answerer" /\ p.at = "finishing"
  BY DEF PeerInv, TypeOK, Role, Peer, PayloadSent
<1>3. q.at = "confirming" /\ q.blocks = p.blocks /\ SameManner(p, q)
  BY <1>2 DEF Experiment, SameManner
<1>4. Silent /\ AnswererAt(Blocks) /\ ~p.ended /\ ~Uncalled /\ page["answerer"].at # "finishing"
  BY <1>2 DEF Ordered, OneSpeaks, Settled, OffererAt
<1>5. wire'["offerer"] = {} /\ wire'["answerer"] = {complete}
  BY <1>1, <1>2, <1>4, WaySent
<1>6. page'["offerer"] = q /\ page'["answerer"] = page["answerer"]
  BY <1>1, <1>2, PageBecomes DEF PeerInv, TypeOK, Role
<1>7. p.blocks = Blocks
  BY <1>2 DEF PeerInv, CompleteInv
<1> HIDE DEF q
<1>8. ToAnswerer(complete)'
  <2>1. complete.type = "complete"
    BY DEF Message
  <2>2. OffererAt("confirming", Blocks)' /\ AnswererAt(Blocks)'
    BY <1>3, <1>4, <1>6, <1>7 DEF OffererAt, AnswererAt
  <2>. QED  BY <2>1, <2>2 DEF ToAnswerer
<1> HIDE DEF complete
<1>. QED  BY <1>1, <1>3, <1>4, <1>5, <1>8, OffererSpeaks DEF q

LEMMA ConfirmedOrdered ==
  ASSUME PeerInv, Ordered, NEW m \in wire["offerer"], Receives("offerer", m), Confirmed(m)
  PROVE  Ordered'
<1> DEFINE p == page["offerer"]
           q == Complete("offerer", p, m.evidence)
<1>1. p \in Experiment /\ "offerer" \in Role /\ Peer("offerer") = "answerer" /\ m \in Messages
  BY DEF PeerInv, TypeOK, Role, Peer
<1>2. Becomes("offerer", q) /\ Answers("offerer", m, {Plain("receipt")})
  BY DEF Confirmed
<1>3. ToOfferer(m) /\ m.type = "complete-ack" /\ ~p.ended
  BY <1>1, OpenStays DEF Ordered, OneSpeaks, Confirmed, Receives
<1>4. Through("answerer")
  BY <1>3 DEF ToOfferer
<1>5. q.at = "finished" /\ q.outcome = "done" /\ SameManner(p, q)
  BY <1>1 DEF Complete, Experiment, SameManner, Timer, Messages
<1>6. wire'["offerer"] = {} /\ wire'["answerer"] = {Plain("receipt")}
  BY <1>1, <1>2, WayAnswered
<1>7. ~Uncalled /\ page["answerer"].at # "finishing"
  BY <1>1, Waiting
<1>8. page'["offerer"] = q /\ page'["answerer"] = page["answerer"]
  BY <1>1, <1>2, PageBecomes DEF PeerInv, TypeOK, Role
<1> HIDE DEF q
<1>9. ToAnswerer(Plain("receipt"))'
  <2>1. Plain("receipt").type = "receipt"
    BY DEF Plain, Message
  <2>2. Through("offerer")' /\ Through("answerer")'
    BY <1>4, <1>5, <1>8 DEF Through
  <2>. QED  BY <2>1, <2>2 DEF ToAnswerer
<1>. QED  BY <1>2, <1>3, <1>5, <1>6, <1>7, <1>9, OffererSpeaks

LEMMA EchoOrdered ==
  ASSUME PeerInv, Ordered, NEW m \in wire["answerer"], Receives("answerer", m), echoBlock(m)
  PROVE  Ordered'
<1> DEFINE p == page["answerer"]
           n == p.blocks + 1
           q == [p EXCEPT !.blocks = n]
           echo == Message("echo", m.index, FALSE)
<1>1. p \in Experiment /\ "answerer" \in Role /\ Peer("answerer") = "offerer" /\ p.channel = "open"
  BY DEF PeerInv, TypeOK, Role, Peer, Receives
<1>2. /\ m.type = "data" /\ m.index = p.blocks /\ m.index + 1 = n
      /\ Becomes("answerer", q) /\ Answers("answerer", m, {echo})
  BY DEF echoBlock
<1>3. ToAnswerer(m) /\ ~p.ended
  BY <1>1, OpenStays DEF Ordered, OneSpeaks
<1>4. OffererAt("echo", m.index) /\ p.at = "idle" /\ p.outcome = "none"
  BY <1>2, <1>3 DEF ToAnswerer, AnswererAt
<1>5. wire'["answerer"] = {} /\ wire'["offerer"] = {echo}
  BY <1>1, <1>2, WayAnswered
<1>6. ~Uncalled /\ page["offerer"].at \notin {"starting", "finishing"}
  BY <1>1, Waiting
<1>7. page'["answerer"] = q /\ page'["offerer"] = page["offerer"]
  BY <1>1, <1>2, PageBecomes DEF PeerInv, TypeOK, Role
<1> HIDE DEF n
<1>8. q.at = p.at /\ q.blocks = n /\ q.outcome = p.outcome /\ SameManner(p, q)
  BY <1>1 DEF Experiment, SameManner
<1> HIDE DEF q
<1>9. ToOfferer(echo)'
  <2>1. echo.type = "echo" /\ echo.index = m.index
    BY DEF Message
  <2>2. OffererAt("echo", m.index)' /\ AnswererAt(m.index + 1)'
    BY <1>2, <1>4, <1>7, <1>8 DEF OffererAt, AnswererAt
  <2>. QED  BY <2>1, <2>2 DEF ToOfferer
<1> HIDE DEF echo
<1>10. q.channel # "connecting" /\ ~q.opening /\ q.ended = p.ended /\ q.disorder = p.disorder /\ q.at # "finishing"
  BY <1>4, <1>6, <1>8 DEF Uncalled, SameManner
<1>. QED  BY <1>2, <1>3, <1>5, <1>6, <1>9, <1>10, AnswererSpeaks

LEMMA CompleteOrdered ==
  ASSUME PeerInv, Ordered, NEW m \in wire["answerer"], Receives("answerer", m), receiveComplete(m)
  PROVE  Ordered'
<1> DEFINE p == page["answerer"]
           q == [p EXCEPT !.at = "finishing", !.peer = m.evidence]
<1>1. p \in Experiment /\ "answerer" \in Role /\ Peer("answerer") = "offerer" /\ p.channel = "open"
  BY DEF PeerInv, TypeOK, Role, Peer, Receives
<1>2. m.type = "complete" /\ Becomes("answerer", q) /\ Answers("answerer", m, {})
  BY DEF receiveComplete
<1>3. ToAnswerer(m) /\ ~p.ended
  BY <1>1, OpenStays DEF Ordered, OneSpeaks
<1>4. OffererAt("confirming", Blocks)
  BY <1>2, <1>3 DEF ToAnswerer
<1>5. wire'["answerer"] = {} /\ wire'["offerer"] = {}
  BY <1>1, <1>2, WayAnswered
<1>6. ~Uncalled /\ page["offerer"].at \notin {"starting", "finishing"}
  BY <1>1, Waiting
<1>7. SameManner(p, q)
  BY <1>1 DEF Experiment, SameManner
<1> HIDE DEF q
<1>8. q.channel # "connecting" /\ ~q.opening /\ q.ended = p.ended /\ q.disorder = p.disorder
  BY <1>6, <1>7 DEF Uncalled, SameManner
<1>. QED  BY <1>2, <1>3, <1>4, <1>5, <1>6, <1>8, AnswererSpeaks

LEMMA ReceivedOrdered ==
  ASSUME PeerInv, Ordered, PayloadReceived
  PROVE  Ordered'
<1>1. PICK evidence \in BOOLEAN :
        /\ Becomes("answerer", Complete("answerer", [page["answerer"] EXCEPT !.evidence = evidence],
                                        page["answerer"].peer))
        /\ Sends("answerer", {Message("complete-ack", Blocks, evidence)})
  BY DEF PayloadReceived
<1> DEFINE p == page["answerer"]
           q == Complete("answerer", [p EXCEPT !.evidence = evidence], p.peer)
           ack == Message("complete-ack", Blocks, evidence)
<1>2. p \in Experiment /\ "answerer" \in Role /\ Peer("answerer") = "offerer" /\ p.at = "finishing"
  BY DEF PeerInv, TypeOK, Role, Peer, PayloadReceived
<1>3. q.at = "finished" /\ q.outcome = "done" /\ SameManner(p, q)
  BY <1>2 DEF Complete, Experiment, SameManner
<1>4. Silent /\ OffererAt("confirming", Blocks) /\ ~p.ended /\ ~Uncalled
  BY <1>2 DEF Ordered, OneSpeaks, Settled, AnswererAt
<1>5. wire'["answerer"] = {} /\ wire'["offerer"] = {ack}
  BY <1>1, <1>2, <1>4, WaySent
<1>6. page'["answerer"] = q /\ page'["offerer"] = page["offerer"]
  BY <1>1, <1>2, PageBecomes DEF PeerInv, TypeOK, Role
<1>7. page["offerer"].at \notin {"starting", "finishing"}
  BY <1>4 DEF OffererAt, Ordered, Settled, Role
<1> HIDE DEF q
<1>8. ToOfferer(ack)'
  <2>1. ack.type = "complete-ack"
    BY DEF Message
  <2>2. OffererAt("confirming", Blocks)' /\ Through("answerer")'
    BY <1>3, <1>4, <1>6 DEF OffererAt, Through
  <2>. QED  BY <2>1, <2>2 DEF ToOfferer
<1> HIDE DEF ack
<1>9. q.channel # "connecting" /\ ~q.opening /\ q.ended = p.ended /\ q.disorder = p.disorder
  BY <1>3, <1>4 DEF Uncalled, SameManner
<1>. QED  BY <1>1, <1>3, <1>4, <1>5, <1>7, <1>8, <1>9, AnswererSpeaks DEF q

\* Cleanup and fail, from every place they are called.
LEMMA EndingOrdered ==
  ASSUME PeerInv, Ordered, NEW r \in Role,
         NEW p, p \in {page[r], [page[r] EXCEPT !.channel = "closed"]},
         \/ Becomes(r, Cleanup(p))
         \/ page[r].outcome = "none" /\ ~page[r].ended /\ Becomes(r, Fail(p)),
         \A s \in Role : wire'[s] \subseteq wire[s]
  PROVE  Ordered'
<1>1. page[r] \in Experiment
  BY DEF PeerInv, TypeOK
<1>2. p \in Experiment /\ p.disorder = page[r].disorder /\ p.outcome = page[r].outcome /\ p.ended = page[r].ended
  BY <1>1 DEF Experiment
<1>3. PICK f \in {p, [p EXCEPT !.outcome = "failed"]} : Becomes(r, Cleanup(f))
  BY <1>2 DEF Fail
<1>4. f \in Experiment /\ f.disorder = p.disorder
  BY <1>2 DEF Experiment
<1> DEFINE q == Cleanup(f)
<1>5. q.ended /\ q.at = "finished" /\ ~q.opening /\ q.channel = "closed" /\ q.disorder = f.disorder
  BY <1>4 DEF Cleanup, Experiment
<1>6. Becomes(r, q)
  BY <1>3
<1> HIDE DEF q
<1>. QED  BY <1>2, <1>4, <1>5, <1>6, GoneKeeps

LEMMA WireKept ==
  ASSUME PeerInv, UNCHANGED wire \/ \E r \in Role : wire' = [wire EXCEPT ![r] = {}]
  PROVE  \A s \in Role : wire'[s] \subseteq wire[s]
BY DEF PeerInv, TypeOK

LEMMA QuitOrdered ==
  ASSUME PeerInv, Ordered, NEW r \in Role,
         GivesUp(r) \/ CleanupTimer(r) \/ Leaves(r) \/ ChannelCloses(r)
  PROVE  Ordered'
<1>1. \A s \in Role : wire'[s] \subseteq wire[s]
  BY WireKept DEF GivesUp, CleanupTimer, Leaves, ChannelCloses
<1>2. CASE GivesUp(r) \/ CleanupTimer(r) \/ Leaves(r)
  BY <1>1, <1>2, EndingOrdered DEF GivesUp, CleanupTimer, Leaves
<1> DEFINE p == [page[r] EXCEPT !.channel = "closed"]
<1>3. page[r] \in Experiment
  BY DEF PeerInv, TypeOK
<1>4. p \in Experiment /\ p.outcome = page[r].outcome /\ p.ended = page[r].ended /\ SameSpeech(page[r], p)
      /\ p.channel = "closed" /\ p.opening = page[r].opening
  BY <1>3 DEF Experiment, SameSpeech
<1>5. CASE ChannelCloses(r) /\ page[r].outcome # "done"
  <2>1. ~page[r].ended
    BY <1>5, OpenStays DEF ChannelCloses
  <2>2. page[r].outcome = "none"
    BY <1>3, <1>5, <2>1, Fields DEF PeerInv, OutcomeInv
  <2>3. Becomes(r, Fail(p))
    BY <1>5 DEF ChannelCloses
  <2>. QED  BY <1>1, <2>1, <2>2, <2>3, EndingOrdered
<1>6. CASE ChannelCloses(r) /\ page[r].outcome = "done"
  <2>1. Becomes(r, p)
    BY <1>4, <1>6 DEF ChannelCloses, Fail
  <2> HIDE DEF p
  <2>2. page'[r] = p /\ \A s \in Role : s # r => page'[s] = page[s]
    BY <2>1, PageBecomes DEF PeerInv, TypeOK
  <2>3. \A s \in Role : SameSpeech(page[s], page'[s])
    BY <1>4, <2>2 DEF SameSpeech
  <2>4. \A s \in Role : page'[s].opening => page'[s].channel # "connecting" /\ ~page'[s].ended
    BY <1>4, <2>2 DEF Ordered, Settled, SameSpeech
  <2>5. Uncalled' => Uncalled
    BY <1>4, <2>2 DEF Uncalled, Role
  <2>. QED  BY <1>1, <2>3, <2>4, <2>5, SpeechKeeps
<1>. QED  BY <1>2, <1>5, <1>6

LEMMA ReceiptOrdered ==
  ASSUME PeerInv, Ordered, NEW m \in wire["answerer"], Receipt(m)
  PROVE  Ordered'
<1>1. "answerer" \in Role /\ Peer("answerer") = "offerer"
  BY DEF Role, Peer
<1>2. Answers("answerer", m, {}) /\ Becomes("answerer", Cleanup(page["answerer"]))
  BY DEF Receipt
<1>3. wire'["answerer"] = {} /\ wire'["offerer"] = {}
  BY <1>1, <1>2, WayAnswered
<1>4. \A s \in Role : wire'[s] \subseteq wire[s]
  BY <1>3 DEF Role
<1>. QED  BY <1>1, <1>2, <1>4, EndingOrdered

LEMMA OpensOrdered ==
  ASSUME PeerInv, Ordered, NEW r \in Role, Opens(r)
  PROVE  Ordered'
<1> DEFINE q == [page[r] EXCEPT !.channel = "open", !.opening = TRUE]
<1>1. page[r] \in Experiment /\ Becomes(r, q) /\ page[r].channel = "connecting"
  BY DEF PeerInv, TypeOK, Opens
<1>2. SameSpeech(page[r], q) /\ q.channel = "open"
  BY <1>1 DEF Experiment, SameSpeech
<1> HIDE DEF q
<1>3. page'[r] = q /\ \A s \in Role : s # r => page'[s] = page[s]
  BY <1>1, PageBecomes DEF PeerInv, TypeOK
<1>4. \A s \in Role : SameSpeech(page[s], page'[s])
  BY <1>2, <1>3 DEF SameSpeech
<1>5. \A s \in Role : page'[s].opening => page'[s].channel # "connecting" /\ ~page'[s].ended
  <2>1. ~page[r].ended
    BY <1>1 DEF PeerInv, TypeOK
  <2>. QED  BY <1>2, <1>3, <2>1 DEF Ordered, Settled, SameSpeech
<1>6. Uncalled' => Uncalled
  BY <1>1, <1>3 DEF Uncalled, Role
<1>7. \A s \in Role : wire'[s] \subseteq wire[s]
  BY WireKept DEF Opens
<1>. QED  BY <1>4, <1>5, <1>6, <1>7, SpeechKeeps

\* open() ends with the call of the answerer, the first message of all.
LEMMA OpenedOrdered ==
  ASSUME PeerInv, Ordered, NEW r \in Role, Opened(r)
  PROVE  Ordered'
<1> DEFINE q == [page[r] EXCEPT !.opening = FALSE]
<1>1. /\ page[r] \in Experiment /\ Becomes(r, q) /\ page[r].opening
      /\ Sends(r, IF SaysReady(r) THEN {Plain("ready")} ELSE {})
  BY DEF PeerInv, TypeOK, Opened
<1>2. SameSpeech(page[r], q) /\ ~q.opening /\ q.channel = page[r].channel
  BY <1>1 DEF Experiment, SameSpeech
<1> HIDE DEF q
<1>3. page'[r] = q /\ \A s \in Role : s # r => page'[s] = page[s]
  BY <1>1, PageBecomes DEF PeerInv, TypeOK
<1>4. CASE r = "offerer"
  <2>1. wire' = [wire EXCEPT ![Peer(r)] = @ \cup {}]
    BY <1>1, <1>4 DEF SaysReady, Sends
  <2>2. \A s \in Role : wire'[s] \subseteq wire[s]
    BY <2>1, Roles DEF PeerInv, TypeOK
  <2>3. \A s \in Role : SameSpeech(page[s], page'[s])
    BY <1>2, <1>3 DEF SameSpeech
  <2>4. \A s \in Role : page'[s].opening => page'[s].channel # "connecting" /\ ~page'[s].ended
    BY <1>2, <1>3 DEF Ordered, Settled
  <2>5. Uncalled' => Uncalled
    BY <1>3, <1>4 DEF Uncalled, Role
  <2>. QED  BY <2>2, <2>3, <2>4, <2>5, SpeechKeeps
<1>5. CASE r = "answerer"
  <2>1. Uncalled /\ Silent /\ OffererAt("idle", 0) /\ AnswererAt(0)
    BY <1>1, <1>5 DEF Uncalled, Ordered, OneSpeaks
  <2>2. Sends("answerer", {Plain("ready")}) /\ "answerer" \in Role /\ Peer("answerer") = "offerer"
    BY <1>1, <1>5 DEF SaysReady, Role, Peer
  <2>3. wire'["answerer"] = {} /\ wire'["offerer"] = {Plain("ready")}
    BY <2>1, <2>2, WaySent
  <2>4. page'["answerer"] = q /\ page'["offerer"] = page["offerer"]
    BY <1>3, <1>5 DEF Role
  <2>5. /\ ~page["answerer"].ended /\ page["answerer"].at # "finishing"
        /\ page["offerer"].at \notin {"starting", "finishing"}
        /\ page["answerer"].channel # "connecting"
    <3>1. page["answerer"].channel # "connecting" /\ ~page["answerer"].ended
      BY <1>1, <1>5 DEF Ordered, Settled
    <3>. QED  BY <1>1, <1>5, <2>1, <3>1 DEF Ordered, Settled, OffererAt, AnswererAt, Role
  <2>6. ToOfferer(Plain("ready"))'
    <3>1. Plain("ready").type = "ready"
      BY DEF Plain, Message
    <3>2. OffererAt("idle", 0)' /\ AnswererAt(0)'
      BY <1>2, <1>5, <2>1, <2>4 DEF OffererAt, AnswererAt, SameSpeech
    <3>. QED  BY <3>1, <3>2 DEF ToOfferer
  <2>7. Becomes("answerer", q) /\ q.ended = page["answerer"].ended /\ q.disorder = page["answerer"].disorder
        /\ q.channel # "connecting" /\ q.at # "finishing"
    BY <1>1, <1>2, <1>5, <2>5 DEF SameSpeech
  <2>. QED  BY <1>2, <2>3, <2>5, <2>6, <2>7, AnswererSpeaks
<1>. QED  BY <1>4, <1>5, TwoRoles

LEMMA StepOrdered ==
  ASSUME PeerInv, Ordered, [Next]_vars
  PROVE  Ordered'
<1>1. CASE PayloadStarts \/ PayloadSent \/ PayloadReceived
  BY <1>1, StartsOrdered, SentOrdered, ReceivedOrdered
<1>2. ASSUME NEW r \in Role, Opens(r) \/ Opened(r) PROVE Ordered'
  BY <1>2, OpensOrdered, OpenedOrdered
<1>3. ASSUME NEW r \in Role, onData(r) PROVE Ordered'
  <2>1. PICK m \in wire[r] :
          /\ Receives(r, m)
          /\ \/ r = "offerer" /\ (senderReady(m) \/ Echoed(m) \/ Confirmed(m))
             \/ r = "answerer" /\ (echoBlock(m) \/ receiveComplete(m) \/ Receipt(m))
             \/ Unexpected(r, m)
    BY <1>3 DEF onData
  <2>2. ~Unexpected(r, m)
    BY <2>1, OnlyExpected DEF Unexpected
  <2>3. CASE r = "offerer" /\ (senderReady(m) \/ Echoed(m) \/ Confirmed(m))
    BY <2>1, <2>3, ReadyOrdered, EchoedOrdered, ConfirmedOrdered
  <2>4. CASE r = "answerer" /\ (echoBlock(m) \/ receiveComplete(m) \/ Receipt(m))
    BY <2>1, <2>4, EchoOrdered, CompleteOrdered, ReceiptOrdered
  <2>. QED  BY <2>1, <2>2, <2>3, <2>4
<1>4. ASSUME NEW r \in Role, GivesUp(r) \/ CleanupTimer(r) \/ Leaves(r) \/ ChannelCloses(r)
      PROVE  Ordered'
  BY <1>4, QuitOrdered
<1>5. CASE UNCHANGED vars \/ \E r \in Role : Undelivered(r)
  <2>1. UNCHANGED page
    BY <1>5 DEF vars, Undelivered
  <2>2. \A s \in Role : wire'[s] \subseteq wire[s]
    BY <1>5, WireKept DEF vars, Undelivered
  <2>3. \A s \in Role : SameSpeech(page[s], page'[s])
    BY <2>1 DEF SameSpeech
  <2>4. (Uncalled' => Uncalled) /\ \A s \in Role : page'[s].opening => page'[s].channel # "connecting" /\ ~page'[s].ended
    BY <2>1 DEF Uncalled, Ordered, Settled
  <2>. QED  BY <2>2, <2>3, <2>4, SpeechKeeps
<1>. QED  BY <1>1, <1>2, <1>3, <1>4, <1>5 DEF Next

\* Between two such pages no check of the order of messages ever fails, for any number of
\* blocks and whatever is timed out, closed or lost: one message at a time is on the way,
\* and the page it reaches is waiting for it (peer.js:143, 175-181, 185-197).
THEOREM MessagesInOrder == Spec => []InOrder
<1>1. PeerInv /\ Ordered /\ [Next]_vars => Ordered'
  BY StepOrdered
<1>2. Ordered => InOrder
  <2> SUFFICES ASSUME Ordered, NEW r \in Role PROVE ~page[r].disorder /\ Cardinality(wire[r]) <= 1
    BY DEF InOrder
  <2>1. CASE wire[r] = {}
    <3>1. Cardinality(wire[r]) = 0
      BY <2>1, FS_EmptySet
    <3>. QED  BY <3>1 DEF Ordered, Settled
  <2>2. ASSUME NEW m \in wire[r] PROVE Cardinality(wire[r]) <= 1
    <3>1. wire[r] = {m}
      BY DEF Ordered, OneSpeaks
    <3>2. Cardinality({m}) = 1
      BY FS_Singleton
    <3>. QED  BY <3>1, <3>2
  <2>. QED  BY <2>1, <2>2 DEF Ordered, Settled
<1>. QED  BY <1>1, <1>2, InitOrdered, Invariance, PTL DEF Spec

=============================================================================
