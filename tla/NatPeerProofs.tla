---------------------------- MODULE NatPeerProofs ----------------------------
(***************************************************************************)
(* Safety of the discovery and of the experiment of two peers behind NATs, *)
(* for any number of addresses and attempts, any windows, deadlines and    *)
(* ages, and any amount of other traffic, rebindings and other paths; and  *)
(* what the parsers read in the responses that the encoders wrote.         *)
(***************************************************************************)
EXTENDS NatPeer, Integers, SequenceTheorems, WellFoundedInduction, TLAPS

-----------------------------------------------------------------------------
(* The discovery *)

LEMMA ProbeConstants ==
  /\ Attempts \in Nat /\ Window \in Nat /\ Backoff \in Nat /\ H3Timeout \in Nat
  /\ Attempts > 0 /\ Window > 0
  <1>1. Attempts \in Nat \ {0} /\ Window \in Nat \ {0} /\ H3Timeout \in Nat \ {0} /\ Backoff \in Nat
    BY ProbeAssumption
  <1> QED
    BY <1>1

\* The steps that the discovery takes, by itself or for its peer.
ProbeNext ==
  \/ BeginStun \/ BeginH3 \/ ProbeTaken \/ Discovers \/ ProbeEnvironment
  \/ (~ProbeDue /\ ProbeTick)

LEMMA ProbeSteps == [Next]_vars => [ProbeNext]_probeVars
  <1> SUFFICES ASSUME [Next]_vars PROVE [ProbeNext]_probeVars
    OBVIOUS
  <1>1. CASE UNCHANGED vars
    BY <1>1 DEF vars
  <1>2. CASE Works
    BY <1>2 DEF Works, ProbeNext, Tick, Due, Dialed, Accepted, Sends, Echoes, Acknowledged, Observed,
       DiscoveryFails, ReadPeer, Expires, Subscribes, Checks, Poll, EventSeen, Completes, Lost
  <1>3. CASE ProbeEnvironment
    BY <1>3 DEF ProbeNext
  <1>4. ASSUME NEW p \in Role, Start(p) \/ Copy(p) \/ StrayOpens(p) \/ StrayCloses(p) \/ Announced(p)
        PROVE  [ProbeNext]_probeVars
    BY <1>4 DEF ProbeNext, Start, Copy, StrayOpens, StrayCloses, Announced
  <1> QED
    BY <1>1, <1>2, <1>3, <1>4 DEF Next

Kinds == {"answer", "error", "unusable"}
Datagram == [kind : Kinds \cup {"foreign"}, bound : Nat, took : Int]
Places == {"idle", "pause", "listen", "h3", "found"} \cup Failures
Run == [at : Places, address : Nat,
        n : Nat, sent : [1..Attempts -> Nat], bound : Nat, rtt : Int, took : Int, seen : Nat]

ProbeTyped ==
  /\ probe \in Run /\ wait \in Nat /\ elapsed \in Nat /\ binding \in Nat
  /\ air \subseteq [kind : Kinds, of : 1..Attempts, bound : Nat]
  /\ inbox \in Seq(Datagram)
  /\ probe.n <= Attempts /\ (In("pause") => probe.n < Attempts)
  /\ heard \in BOOLEAN

LEMMA AllPlaces ==
  /\ {"idle", "pause", "listen", "h3", "found", "rebound"} \subseteq Places /\ Failures \subseteq Places
  /\ {"unsent", "unusable", "rebound", "rejected", "lagged", "silent", "timeout", "portless"} \subseteq Failures
  /\ {"idle", "pause", "listen", "h3", "found"} \cap Failures = {}
  BY DEF Places, Failures, Final

LEMMA IdleRun ==
  /\ Idle \in Run /\ Idle.n = 0 /\ Idle.at = "idle"
  <1>1. Unsent \in [1..Attempts -> Nat]
    BY DEF Unsent
  <1>2. 0 \in Nat /\ 0 \in Int /\ "idle" \in Places
    BY AllPlaces
  <1> QED
    BY <1>1, <1>2 DEF Idle, Run

LEMMA Nothing ==
  /\ 0 \in Nat /\ 0 < Attempts /\ 0 <= Attempts
  /\ {} \subseteq [kind : Kinds, of : 1..Attempts, bound : Nat]
  BY ProbeConstants

LEMMA ProbeStepTyped ==
  ASSUME ProbeTyped, [ProbeNext]_probeVars
  PROVE  ProbeTyped'
  <1> USE DEF ProbeTyped, In, Still
  <1>1. CASE UNCHANGED probeVars
    BY <1>1 DEF probeVars
  <1>2. ASSUME NEW address \in Nat, NEW w \in Nat, NEW where \in {"pause", "h3"},
               Probes(address, where), wait' = w
        PROVE  ProbeTyped'
    <2>1. probe' \in Run /\ probe'.n = 0
      <3>1. probe' = [Idle EXCEPT !.at = where, !.address = address, !.bound = binding]
        BY <1>2 DEF Probes
      <3>2. where \in Places
        BY AllPlaces
      <3> QED
        BY <3>1, <3>2, IdleRun DEF Run
    <2>2. <<>> \in Seq(Datagram)
      OBVIOUS
    <2> QED
      BY <1>2, <2>1, <2>2, Nothing DEF Probes
  <1>3. CASE BeginStun
    BY <1>2, <1>3 DEF BeginStun
  <1>4. CASE BeginH3
    BY <1>2, <1>4, ProbeConstants DEF BeginH3
  <1>5. CASE ProbeTaken
    <2>1. <<>> \in Seq(Datagram)
      OBVIOUS
    <2> QED
      BY <1>5, <2>1, IdleRun, Nothing DEF ProbeTaken
  <1>6. CASE NextAddress
    <2>1. probe.address + 1 \in Nat
      BY DEF Run
    <2> QED
      BY <1>2, <1>6, <2>1 DEF NextAddress
  <1>7. CASE SendRequest
    <2>1. /\ probe' = [probe EXCEPT !.at = "listen", !.n = @ + 1, !.sent[probe.n + 1] = elapsed]
          /\ probe.n < Attempts /\ wait' = Window /\ UNCHANGED <<inbox, elapsed, heard, binding>>
      BY <1>7 DEF SendRequest, Queued
    <2>2. probe' \in Run /\ probe'.n = probe.n + 1 /\ probe'.at = "listen"
      <3>1. PICK m \in Nat : m = probe.n + 1
        BY DEF Run
      <3>2. probe' = [probe EXCEPT !.at = "listen", !.n = m, !.sent[m] = elapsed]
        BY <2>1, <3>1 DEF Run
      <3> QED
        BY <3>1, <3>2, AllPlaces DEF Run
    <2>3. air' \subseteq [kind : Kinds, of : 1..Attempts, bound : Nat]
      <3>1. PICK reply \in {{}, {"answer"}, {"error"}, {"unusable"}} :
              air' = air \cup [kind : reply, of : {probe.n + 1}, bound : {binding}]
        BY <1>7 DEF SendRequest
      <3>2. PICK m \in 1..Attempts : m = probe.n + 1
        <4>1. probe.n \in Nat
          BY DEF Run
        <4> QED
          BY <2>1, <4>1, ProbeConstants
      <3>3. reply \subseteq Kinds
        BY DEF Kinds
      <3>4. air' = air \cup [kind : reply, of : {m}, bound : {binding}]
        BY <3>1, <3>2
      <3> QED
        BY <3>3, <3>4
    <2>4. probe'.n <= Attempts /\ ~In("pause")'
      <3>1. probe.n \in Nat
        BY DEF Run
      <3>2. probe.n < Attempts /\ probe'.n = probe.n + 1
        BY <2>1, <2>2
      <3> HIDE DEF ProbeTyped
      <3>3. probe'.n <= Attempts
        BY <3>1, <3>2, ProbeConstants
      <3> QED
        BY <2>2, <3>3 DEF In
    <2>5. wait' \in Nat
      BY <2>1, ProbeConstants
    <2> QED
      BY <2>1, <2>2, <2>3, <2>4, <2>5
  <1>8. ASSUME NEW why \in Failures, Fail(why), UNCHANGED <<wait, elapsed, air, heard, binding>>,
               inbox' \in Seq(Datagram)
        PROVE  ProbeTyped'
    BY <1>8, ProbeConstants, AllPlaces DEF Fail, Run
  <1>9. ASSUME NEW kind, Reading(kind)
        PROVE  inbox' \in Seq(Datagram) /\ inbox # <<>>
    BY <1>9, HeadTailProperties DEF Reading
  <1>10. CASE SendFails
    BY <1>8, <1>10 DEF SendFails, Failures, Final
  <1>11. CASE Skip
    BY <1>9, <1>11 DEF Skip, Reading
  <1>12. CASE Answered
    <2>1. inbox' \in Seq(Datagram) /\ Head(inbox) \in Datagram
      BY <1>9, <1>12, HeadTailProperties DEF Answered
    <2>2. probe' \in Run /\ probe'.n = probe.n /\ probe'.at \in {"found", "rebound"}
      <3>1. PICK e \in Int : e = elapsed - Origin
        BY DEF Origin
      <3>2. PICK took \in Int, seen \in Nat : took = Head(inbox).took /\ seen = Head(inbox).bound
        BY <2>1 DEF Datagram
      <3>3. \/ probe' = [probe EXCEPT !.at = "found", !.rtt = e, !.took = took, !.seen = seen]
            \/ probe' = [probe EXCEPT !.at = "rebound"]
        BY <1>12, <3>1, <3>2 DEF Answered
      <3> QED
        BY <3>3, AllPlaces DEF Run
    <2> QED
      BY <1>12, <2>1, <2>2 DEF Answered, Reading
  <1>13. CASE Unusable
    BY <1>8, <1>9, <1>13 DEF Unusable, Reading, Failures, Final
  <1>14. CASE Rejected
    BY <1>8, <1>9, <1>14 DEF Rejected, Reading, Failures, Final
  <1>15. CASE Lagged
    BY <1>8, <1>15 DEF Lagged, Failures, Final
  <1>16. CASE WindowCloses
    <2>1. CASE Again
      <3>1. Backoff * probe.n \in Nat
        BY ProbeConstants DEF Run
      <3> QED
        BY <1>16, <2>1, <3>1, AllPlaces DEF WindowCloses, Again, Run
    <2>2. CASE ~Again
      BY <1>8, <1>16, <2>2 DEF WindowCloses, Failures, Final
    <2> QED
      BY <2>1, <2>2
  <1>17. CASE H3Expires
    BY <1>8, <1>17 DEF H3Expires, Failures, Final
  <1>18. ASSUME NEW why \in Failures, H3Ends(why), probe.at = "h3"
        PROVE  ProbeTyped'
    <2>1. PICK address \in Nat : address = probe.address + 1
      BY DEF Run
    <2>2. \/ probe' = [probe EXCEPT !.address = address, !.bound = binding]
          \/ probe' = [probe EXCEPT !.at = why]
      BY <1>18, <2>1 DEF H3Ends
    <2>3. probe' \in Run /\ probe'.n = probe.n /\ probe'.at # "pause"
      BY <1>18, <2>2, AllPlaces DEF Run
    <2> QED
      BY <1>18, <2>3 DEF H3Ends
  <1>19. CASE H3Responds
    <2>1. CASE H3Ends("unusable") \/ H3Ends("rebound")
      BY <1>18, <1>19, <2>1 DEF H3Responds, Failures, Final
    <2>2. ASSUME NEW where \in {"found", "portless"},
                 probe' = [probe EXCEPT !.at = where, !.seen = probe.bound], UNCHANGED inbox, Still
          PROVE  ProbeTyped'
      BY <2>2, AllPlaces DEF Run
    <2> QED
      BY <1>19, <2>1, <2>2 DEF H3Responds
  <1>20. CASE H3Fails
    BY <1>18, <1>20 DEF H3Fails, Failures, Final
  <1>21. CASE Arrive
    <2>1. PICK d \in air : Copies([kind |-> d.kind, bound |-> d.bound, took |-> elapsed - probe.sent[d.of]])
      BY <1>21 DEF Arrive
    <2>2. d.kind \in Kinds /\ d.bound \in Nat /\ elapsed - probe.sent[d.of] \in Int
      <3>1. d.kind \in Kinds /\ d.of \in 1..Attempts /\ d.bound \in Nat
        OBVIOUS
      <3>2. probe.sent[d.of] \in Nat
        BY <3>1 DEF Run
      <3> QED
        BY <3>1, <3>2
    <2>3. inbox' \in Seq(Datagram)
      BY <2>1, <2>2, AppendProperties DEF Copies, Datagram
    <2> QED
      BY <1>21, <2>3 DEF Arrive
  <1>22. CASE Foreign
    <2>1. inbox' \in Seq(Datagram)
      BY <1>22, AppendProperties DEF Foreign, Copies, Datagram
    <2> QED
      BY <1>22, <2>1 DEF Foreign
  <1>23. CASE Rebind
    BY <1>23 DEF Rebind
  <1>24. CASE ~ProbeDue /\ ProbeTick
    BY <1>24 DEF ProbeDue, ProbeTick, probeVars
  <1> QED
    BY <1>1, <1>3, <1>4, <1>5, <1>6, <1>7, <1>10, <1>11, <1>12, <1>13, <1>14, <1>15, <1>16, <1>17,
       <1>19, <1>20, <1>21, <1>22, <1>23, <1>24 DEF ProbeNext, Discovers, ProbeEnvironment

\* An answer that is queued was sent from a binding the probe has had since it began, and
\* has taken no longer than the probe.
Fit(d) == d.kind = "answer" => probe.bound <= d.bound /\ d.bound <= binding /\ d.took <= elapsed
AllFit == \A i \in 1..Len(inbox) : Fit(inbox[i])
HasAnswer == \E i \in 1..Len(inbox) : inbox[i].kind = "answer"

ProbeInv ==
  /\ probe.bound <= binding
  /\ \A d \in air : probe.bound <= d.bound /\ d.bound <= binding
  /\ In("h3") => air = {} /\ inbox = <<>> /\ probe.rtt >= probe.took
  /\ AllFit
  /\ probe.at \in {"pause", "listen"} /\ heard => HasAnswer
  /\ In("listen") /\ heard => wait > 0
  /\ AnswersHeard /\ RttCovers /\ SeenOnBinding

LEMMA ReadingFits ==
  ASSUME ProbeTyped, AllFit, NEW kind, Reading(kind), probe'.bound = probe.bound
  PROVE  /\ AllFit' /\ Fit(Head(inbox)) /\ Head(inbox) \in Datagram
         /\ kind # "answer" /\ HasAnswer => HasAnswer'
  <1> USE DEF ProbeTyped, Reading, Still
  <1>1. /\ inbox # <<>> /\ inbox' = Tail(inbox) /\ Len(inbox) \in Nat \ {0}
        /\ Head(inbox) = inbox[1] /\ inbox[1] \in Datagram
        /\ Len(Tail(inbox)) = Len(inbox) - 1
        /\ \A i \in 1..Len(inbox) - 1 : Tail(inbox)[i] = inbox[i + 1]
    BY HeadTailProperties
  <1>2. Fit(Head(inbox))
    BY <1>1 DEF AllFit
  <1>4. AllFit'
    <2> SUFFICES ASSUME NEW i \in 1..Len(inbox') PROVE Fit(inbox[i])'
      BY DEF AllFit
    <2>1. i + 1 \in 1..Len(inbox) /\ inbox'[i] = inbox[i + 1]
      BY <1>1
    <2> QED
      BY <2>1 DEF AllFit, Fit
  <1>5. ASSUME kind # "answer", HasAnswer
        PROVE  HasAnswer'
    <2>1. PICK i \in 1..Len(inbox) : inbox[i].kind = "answer"
      BY <1>5 DEF HasAnswer
    <2>2. i # 1
      BY <1>1, <1>5, <2>1
    <2>3. i - 1 \in 1..Len(inbox') /\ inbox'[i - 1] = inbox[(i - 1) + 1] /\ (i - 1) + 1 = i
      BY <1>1, <2>2
    <2> QED
      BY <2>1, <2>3 DEF HasAnswer
  <1> QED
    BY <1>1, <1>2, <1>4, <1>5

LEMMA CopiesFit ==
  ASSUME ProbeTyped, AllFit, NEW d \in Datagram, Fit(d), Copies(d), UNCHANGED <<probe, binding, elapsed>>
  PROVE  AllFit' /\ (HasAnswer \/ d.kind = "answer" => HasAnswer')
  <1>1. /\ inbox' = Append(inbox, d) /\ Len(inbox') = Len(inbox) + 1 /\ Len(inbox) \in Nat
        /\ inbox'[Len(inbox) + 1] = d
        /\ \A i \in 1..Len(inbox) : inbox'[i] = inbox[i]
    BY AppendProperties DEF Copies, ProbeTyped
  <1>2. \A i \in 1..Len(inbox') : i \in 1..Len(inbox) \/ i = Len(inbox) + 1
    BY <1>1
  <1>3. \A e : Fit(e) <=> Fit(e)'
    BY DEF Fit
  <1>4. AllFit'
    <2> SUFFICES ASSUME NEW i \in 1..Len(inbox') PROVE Fit(inbox'[i])
      BY DEF AllFit, Fit
    <2> QED
      BY <1>1, <1>2 DEF AllFit
  <1>5. HasAnswer => HasAnswer'
    BY <1>1 DEF HasAnswer
  <1>6. d.kind = "answer" => HasAnswer'
    BY <1>1 DEF HasAnswer
  <1> QED
    BY <1>4, <1>5, <1>6

LEMMA ProbeStepInv ==
  ASSUME ProbeTyped, ProbeInv, [ProbeNext]_probeVars
  PROVE  ProbeInv'
  <1> USE DEF ProbeTyped, ProbeInv, In, Still, AnswersHeard, RttCovers, SeenOnBinding
  <1>1. CASE UNCHANGED probeVars
    BY <1>1 DEF probeVars, AllFit, HasAnswer, Fit
  <1>2. ASSUME NEW address, NEW where \in {"pause", "h3"}, Probes(address, where)
        PROVE  ProbeInv'
    <2>1. /\ probe'.at = where /\ probe'.bound = binding /\ binding' = binding
          /\ probe'.rtt = 0 /\ probe'.took = 0
      BY <1>2 DEF Probes, Idle
    <2>2. air' = {} /\ inbox' = <<>> /\ heard' = FALSE
      BY <1>2 DEF Probes
    <2> QED
      BY <2>1, <2>2 DEF AllFit
  <1>3. CASE BeginStun
    BY <1>2, <1>3 DEF BeginStun
  <1>4. CASE BeginH3
    BY <1>2, <1>4 DEF BeginH3
  <1>5. CASE ProbeTaken
    <2>1. probe'.at = "idle" /\ probe'.bound = 0 /\ air' = {} /\ inbox' = <<>> /\ heard' = FALSE
      BY <1>5 DEF ProbeTaken, Idle
    <2> QED
      BY <1>5, <2>1 DEF ProbeTaken, AllFit
  <1>6. CASE NextAddress
    BY <1>2, <1>6 DEF NextAddress
  \* What leaves the queue and the bindings alone keeps the queue fit.
  <1>7. ASSUME UNCHANGED <<inbox, elapsed, binding>>, probe'.bound = probe.bound
        PROVE  AllFit' /\ (HasAnswer => HasAnswer')
    BY <1>7 DEF AllFit, Fit, HasAnswer
  <1>8. ASSUME NEW why \in Failures \ {"silent"}, Fail(why), Still, AllFit'
        PROVE  ProbeInv'
    <2>1. probe'.at = why /\ probe'.bound = probe.bound /\ why \notin {"idle", "pause", "listen", "h3", "found", "silent"}
      BY <1>8, AllPlaces DEF Fail, Run
    <2> QED
      BY <1>8, <2>1
  <1>9. CASE SendRequest
    <2>1. probe'.at = "listen" /\ probe'.bound = probe.bound
      BY <1>9 DEF SendRequest, Run
    <2>2. UNCHANGED <<inbox, elapsed, heard, binding>> /\ wait' = Window
      BY <1>9 DEF SendRequest, Queued
    <2>3. \A d \in air' : d \in air \/ d.bound = binding
      BY <1>9 DEF SendRequest
    <2>4. \A d \in air' : probe.bound <= d.bound /\ d.bound <= binding
      BY <2>3 DEF Run
    <2> QED
      BY <1>7, <1>9, <2>1, <2>2, <2>4, ProbeConstants DEF SendRequest
  <1>10. CASE SendFails
    <2>1. probe'.bound = probe.bound
      BY <1>10 DEF SendFails, Fail, Run
    <2> QED
      BY <1>7, <1>8, <1>10, <2>1, AllPlaces DEF SendFails
  <1>11. CASE Skip
    BY <1>11, ReadingFits DEF Skip, Reading
  <1>12. CASE Answered
    <2>1. probe'.bound = probe.bound /\ probe'.at \in {"found", "rebound"}
      BY <1>12 DEF Answered, Run
    <2>2. AllFit' /\ Fit(Head(inbox)) /\ Head(inbox).kind = "answer" /\ Head(inbox) \in Datagram
      BY <1>12, <2>1, ReadingFits DEF Answered, Reading
    <2>3. ASSUME probe'.at = "found"
          PROVE  /\ binding = probe.bound /\ probe'.rtt = elapsed
                 /\ probe'.took = Head(inbox).took /\ probe'.seen = Head(inbox).bound
      BY <1>12, <2>3 DEF Answered, SameSocket, Run, Origin
    <2>4. probe'.at = "found" => probe'.rtt >= probe'.took /\ probe'.seen = binding
      BY <2>2, <2>3 DEF Fit, Datagram
    <2> QED
      BY <1>12, <2>1, <2>2, <2>4 DEF Answered, Reading
  <1>13. ASSUME NEW kind, Reading(kind), NEW why \in Failures \ {"silent"}, Fail(why)
         PROVE  ProbeInv'
    <2>1. probe'.bound = probe.bound
      BY <1>13 DEF Fail, Run
    <2> QED
      BY <1>8, <1>13, <2>1, ReadingFits DEF Reading
  <1>14. CASE Unusable
    BY <1>13, <1>14, AllPlaces DEF Unusable
  <1>15. CASE Rejected
    BY <1>13, <1>15, AllPlaces DEF Rejected
  <1>16. CASE Lagged
    <2>1. probe'.bound = probe.bound
      BY <1>16 DEF Lagged, Fail, Run
    <2> QED
      BY <1>7, <1>8, <1>16, <2>1, AllPlaces DEF Lagged
  <1>17. CASE WindowCloses
    <2>1. ~heard /\ UNCHANGED <<elapsed, air, inbox, heard, binding>>
      BY <1>17 DEF WindowCloses
    <2>2. probe'.bound = probe.bound /\ probe'.at \in {"pause", "silent"}
      BY <1>17 DEF WindowCloses, Fail, Run
    <2> QED
      BY <1>7, <2>1, <2>2
  <1>18. CASE H3Expires
    <2>1. probe'.bound = probe.bound
      BY <1>18 DEF H3Expires, Fail, Run
    <2> QED
      BY <1>7, <1>8, <1>18, <2>1, AllPlaces DEF H3Expires
  <1>19. ASSUME In("h3"), probe'.at \in (Failures \ {"silent"}) \cup {"h3"}, probe'.bound \in {probe.bound, binding},
                probe'.rtt = probe.rtt, probe'.took = probe.took, UNCHANGED inbox, Still
         PROVE  ProbeInv'
    <2>1. probe'.at \notin {"pause", "listen", "found", "silent"}
      BY <1>19, AllPlaces
    <2> QED
      BY <1>19, <2>1 DEF AllFit, Run
  <1>20. ASSUME NEW why \in {"unusable", "rebound"}, In("h3"), H3Ends(why)
         PROVE  ProbeInv'
    <2>1. /\ probe'.at \in {"h3", why} /\ probe'.bound \in {probe.bound, binding}
          /\ probe'.rtt = probe.rtt /\ probe'.took = probe.took
      BY <1>20 DEF H3Ends, Run
    <2>2. UNCHANGED inbox /\ Still
      BY <1>20 DEF H3Ends
    <2> QED
      BY <1>19, <1>20, <2>1, <2>2, AllPlaces
  <1>21. CASE H3Responds
    <2>1. CASE H3Ends("unusable") \/ H3Ends("rebound")
      BY <1>20, <1>21, <2>1 DEF H3Responds
    <2>2. ASSUME SameSocket, NEW where \in {"found", "portless"},
                 probe' = [probe EXCEPT !.at = where, !.seen = probe.bound], UNCHANGED inbox, Still
          PROVE  ProbeInv'
      <3>1. /\ probe'.at = where /\ probe'.seen = binding /\ probe'.bound = probe.bound
            /\ probe'.rtt = probe.rtt /\ probe'.took = probe.took
        BY <2>2 DEF Run, SameSocket
      <3> QED
        BY <1>21, <2>2, <3>1 DEF H3Responds, AllFit
    <2> QED
      BY <1>21, <2>1, <2>2 DEF H3Responds
  <1>22. CASE H3Fails
    BY <1>20, <1>22 DEF H3Fails
  <1>23. CASE Arrive
    <2>1. PICK d \in air :
            /\ air' = air \ {d}
            /\ Copies([kind |-> d.kind, bound |-> d.bound, took |-> elapsed - probe.sent[d.of]])
            /\ heard' = (heard \/ (d.kind = "answer" /\ ~(In("listen") /\ wait = 0)))
      BY <1>23 DEF Arrive
    <2> DEFINE e == [kind |-> d.kind, bound |-> d.bound, took |-> elapsed - probe.sent[d.of]]
    <2>2. d.kind \in Kinds /\ d.of \in 1..Attempts /\ d.bound \in Nat
      OBVIOUS
    <2>3. probe.sent[d.of] \in Nat
      BY <2>2 DEF Run
    <2>4. elapsed - probe.sent[d.of] \in Int /\ elapsed - probe.sent[d.of] <= elapsed
      BY <2>3
    <2>5. e \in Datagram /\ Fit(e) /\ Copies(e) /\ e.kind = d.kind
      BY <2>1, <2>2, <2>4 DEF Datagram, Fit
    <2> HIDE DEF e
    <2>6. UNCHANGED <<probe, wait, elapsed, binding>> /\ probe.at \in {"pause", "listen"}
      BY <1>23 DEF Arrive
    <2>7. AllFit' /\ (HasAnswer \/ d.kind = "answer" => HasAnswer')
      BY <2>5, <2>6, CopiesFit
    <2> QED
      BY <2>1, <2>6, <2>7
  <1>24. CASE Foreign
    <2> DEFINE e == [kind |-> "foreign", bound |-> 0, took |-> 0]
    <2>1. e \in Datagram /\ Fit(e) /\ Copies(e)
      BY <1>24 DEF Datagram, Fit, Foreign
    <2> HIDE DEF e
    <2>2. AllFit' /\ (HasAnswer => HasAnswer')
      BY <1>24, <2>1, CopiesFit DEF Foreign
    <2> QED
      BY <1>24, <2>2 DEF Foreign
  <1>25. CASE Rebind
    <2>1. binding' = binding + 1 /\ UNCHANGED <<probe, wait, elapsed, air, inbox, heard>> /\ ~In("found")
      BY <1>25 DEF Rebind, Probing
    <2>2. AllFit'
      <3> SUFFICES ASSUME NEW i \in 1..Len(inbox) PROVE Fit(inbox[i])'
        BY <2>1 DEF AllFit
      <3>1. inbox[i] \in Datagram /\ Fit(inbox[i])
        BY ElementOfSeq DEF AllFit
      <3> QED
        BY <2>1, <3>1 DEF Fit, Datagram
    <2>3. \A d \in air : d.bound <= binding'
      BY <2>1
    <2> QED
      BY <2>1, <2>2, <2>3 DEF HasAnswer, Run
  <1>26. CASE ~ProbeDue /\ ProbeTick
    <2>1. CASE UNCHANGED probeVars
      BY <1>1, <2>1
    <2>2. CASE Probing /\ wait' = wait - 1 /\ elapsed' = elapsed + 1 /\ UNCHANGED <<probe, air, inbox, heard, binding>>
      <3>1. In("listen") => ~heard
        BY <1>26 DEF ProbeDue, HasAnswer
      <3>2. AllFit'
        <4> SUFFICES ASSUME NEW i \in 1..Len(inbox) PROVE Fit(inbox[i])'
          BY <2>2 DEF AllFit
        <4>1. inbox[i] \in Datagram /\ Fit(inbox[i])
          BY ElementOfSeq DEF AllFit
        <4> QED
          BY <2>2, <4>1 DEF Fit, Datagram
      <3> QED
        BY <2>2, <3>1, <3>2 DEF Probing, HasAnswer
    <2> QED
      BY <1>26, <2>1, <2>2 DEF ProbeTick
  <1> QED
    BY <1>1, <1>3, <1>4, <1>5, <1>6, <1>9, <1>10, <1>11, <1>12, <1>14, <1>15, <1>16, <1>17, <1>18,
       <1>21, <1>22, <1>23, <1>24, <1>25, <1>26 DEF ProbeNext, Discovers, ProbeEnvironment

LEMMA ProbeInvariant == Spec => [](ProbeTyped /\ ProbeInv)
  <1>1. Init => ProbeTyped
    <2>1. <<>> \in Seq(Datagram)
      OBVIOUS
    <2> QED
      BY <2>1, IdleRun, Nothing DEF Init, ProbeInit, ProbeTyped, In
  <1>2. Init => ProbeInv
    BY DEF Init, ProbeInit, ProbeInv, AllFit, Idle, In, AnswersHeard, RttCovers, SeenOnBinding
  <1> QED
    BY <1>1, <1>2, ProbeSteps, ProbeStepTyped, ProbeStepInv, PTL DEF Spec

\* Whichever attempt an answer belongs to, and however many there are, the reported round
\* trip covers its flight (run_probe, probe.rs:222-226).
THEOREM RttAlwaysCovers == Spec => []RttCovers
  <1>1. ProbeInv => RttCovers
    BY DEF ProbeInv
  <1> QED
    BY <1>1, ProbeInvariant, PTL

\* No answer that reached the socket before the last window closed is missed, behind any
\* amount of other traffic (run_probe, probe.rs:236-262).
THEOREM AnswersAlwaysHeard == Spec => []AnswersHeard
  <1>1. ProbeInv => AnswersHeard
    BY DEF ProbeInv
  <1> QED
    BY <1>1, ProbeInvariant, PTL

\* However often the socket rebinds, an address is reported only if it was seen on the
\* present binding (probe.rs:268-270, observe_on_endpoint).
THEOREM AlwaysSeenOnBinding == Spec => []SeenOnBinding
  <1>1. ProbeInv => SeenOnBinding
    BY DEF ProbeInv
  <1> QED
    BY <1>1, ProbeInvariant, PTL

-----------------------------------------------------------------------------
(* The two peers *)

LEMMA PeerConstants ==
  ConnectTimeout \in Nat /\ EchoTimeout \in Nat /\ SetupTimeout \in Nat /\ MaxAge \in Nat /\ Delay \in Nat
  <1>1. {SetupTimeout, ConnectTimeout, EchoTimeout, Delay} \subseteq Nat
    BY PeerAssumption
  <1> QED
    BY <1>1, PeerAssumption

Stray == [up : BOOLEAN, untold : BOOLEAN, looks : 0..2, events : BOOLEAN, unread : BOOLEAN,
          passed : BOOLEAN]

PeerTyped ==
  /\ at \in [Role -> {"off", "discover", "wait", "connect", "check", "echo", "polled", "done", "failed",
                   "lost"}]
  /\ left \in [Role -> Nat] /\ age \in [Role -> Nat] /\ together \in Nat
  /\ stray \in [Role -> Stray]
  /\ opened \in [Role -> BOOLEAN]

\* The deadlines of the connection and of the echo bound how old an observation gets.
Aged(p) ==
  /\ at[p] \in {"connect", "check"} => age[p] + left[p] <= MaxAge + ConnectTimeout
  /\ Echoing(p) => age[p] + left[p] <= MaxAge + ConnectTimeout + EchoTimeout

\* What w, the path and the watch of a peer that is at where, can be: the events are
\* subscribed to after the first look; from the second look on a listed path is announced
\* yet or unread, and what was announced is still unread until the last poll.
Watching(where, w) ==
  /\ where \in {"off", "discover", "wait", "connect"} => w.looks = 0 /\ ~w.events /\ ~w.passed
  /\ where = "check" => w.looks \in 0..1 /\ (w.events => w.looks = 1) /\ ~w.passed
  /\ where = "echo" => /\ w.looks = 2 /\ w.events /\ (w.passed => w.unread)
                       /\ (w.up => w.untold \/ w.unread)
  /\ where \in {"polled", "done"} => ~w.passed
  /\ where = "done" => ~w.up

Watched(p) == Watching(at[p], stray[p])

Connected ==
  /\ conn = "up" => \A p \in Role : at[p] \in {"connect", "check", "echo", "polled"}
  /\ at["listen"] \in {"polled", "done"} => echo = "acked"
  /\ at["dial"] = "lost" => echo # "acked" /\ conn = "closed"
  /\ \A p \in Role : at[p] = "connect" => opened[p]
  /\ MeetInTime

PeerInv == PeerTyped /\ Connected /\ \A p \in Role : Aged(p) /\ Watched(p)

\* iroh lists another path, takes it off the list, or announces it.
LEMMA StrayKept ==
  ASSUME PeerInv, NEW p \in Role, StrayOpens(p) \/ StrayCloses(p) \/ Announced(p)
  PROVE  \E w \in Stray : stray' = [stray EXCEPT ![p] = w] /\ Watching(at[p], w)
  <1>1. stray \in [Role -> Stray] /\ stray[p] \in Stray /\ Watching(at[p], stray[p])
    BY DEF PeerInv, PeerTyped, Watched
  <1>2. PICK s \in Stray : s = stray[p] /\ Watching(at[p], s)
    BY <1>1
  <1>3. CASE StrayOpens(p)
    <2> DEFINE w == [s EXCEPT !.up = TRUE, !.untold = TRUE]
    <2>1. w \in Stray /\ w.up /\ w.untold /\ w.looks = s.looks /\ w.events = s.events
          /\ w.unread = s.unread /\ w.passed = s.passed
      BY DEF Stray
    <2>2. at[p] \in {"connect", "check", "echo", "polled"}
      BY <1>2, <1>3 DEF StrayOpens
    <2>3. stray' = [stray EXCEPT ![p] = w]
      BY <1>1, <1>2, <1>3 DEF StrayOpens, Lists
    <2> HIDE DEF w
    <2>4. Watching(at[p], w)
      BY <1>2, <2>1, <2>2 DEF Watching
    <2> QED
      BY <1>2, <2>1, <2>3, <2>4
  <1>4. CASE StrayCloses(p)
    <2> DEFINE w == [s EXCEPT !.up = FALSE, !.untold = TRUE]
    <2>1. w \in Stray /\ ~w.up /\ w.untold /\ w.looks = s.looks /\ w.events = s.events
          /\ w.unread = s.unread /\ w.passed = s.passed
      BY DEF Stray
    <2>2. stray' = [stray EXCEPT ![p] = w]
      BY <1>1, <1>2, <1>4 DEF StrayCloses, Lists
    <2> HIDE DEF w
    <2>3. Watching(at[p], w)
      BY <1>2, <2>1 DEF Watching
    <2> QED
      BY <1>2, <2>1, <2>2, <2>3
  <1>5. CASE Announced(p)
    <2> DEFINE told == [s EXCEPT !.untold = FALSE, !.unread = s.unread \/ s.events]
               w == IF at[p] \in {"check", "echo"} THEN Noted(told) ELSE told
    <2>1. told \in Stray /\ told.up = s.up /\ ~told.untold /\ told.looks = s.looks
          /\ told.events = s.events /\ (told.unread <=> s.unread \/ s.events) /\ told.passed = s.passed
      BY DEF Stray
    <2>2. stray' = [stray EXCEPT ![p] = w]
      BY <1>1, <1>2, <1>5 DEF Announced
    <2> HIDE DEF told
    <2>3. Noted(told) \in Stray /\ Noted(told).up = s.up /\ Noted(told).looks = s.looks
          /\ Noted(told).events = s.events /\ (Noted(told).unread <=> s.unread \/ s.events)
          /\ (Noted(told).passed <=> s.passed \/ (s.looks = 2 /\ s.up))
      BY <2>1 DEF Noted, Stray
    <2>4. CASE at[p] \in {"check", "echo"}
      <3>1. w = Noted(told)
        BY <2>4
      <3> HIDE DEF w
      <3>2. CASE at[p] = "check"
        <4>1. s.looks \in 0..1 /\ (s.events => s.looks = 1) /\ ~s.passed
          BY <1>2, <3>2 DEF Watching
        <4>2. w \in Stray /\ w.looks = s.looks /\ w.events = s.events /\ ~w.passed
          BY <2>3, <3>1, <4>1
        <4> QED
          BY <2>2, <3>2, <4>1, <4>2 DEF Watching
      <3>3. CASE at[p] = "echo"
        <4>1. s.looks = 2 /\ s.events
          BY <1>2, <3>3 DEF Watching
        <4>2. w \in Stray /\ w.looks = 2 /\ w.events /\ w.unread
          BY <2>3, <3>1, <4>1
        <4> QED
          BY <2>2, <3>3, <4>2 DEF Watching
      <3> QED
        BY <2>4, <3>2, <3>3
    <2>5. CASE at[p] \notin {"check", "echo"}
      <3>1. w = told
        BY <2>5
      <3> HIDE DEF w
      <3>2. w \in Stray /\ Watching(at[p], w)
        BY <1>2, <2>1, <2>5, <3>1 DEF Watching
      <3> QED
        BY <2>2, <3>2
    <2> QED
      BY <2>4, <2>5
  <1> QED
    BY <1>3, <1>4, <1>5

\* A check fails.
Rejects(p) == Quits(p, "failed") /\ Closes /\ UNCHANGED stray

\* A check or the subscription leaves the peer at the checks or lets it begin the echo.
LEMMA ChecksKept ==
  ASSUME PeerInv, NEW p \in Role, Subscribes(p) \/ Checks(p), ~Rejects(p)
  PROVE  \E w \in Stray, where \in {"check", "echo"} :
           /\ stray' = [stray EXCEPT ![p] = w] /\ Watching(where, w) /\ conn' = conn
           /\ at' = [at EXCEPT ![p] = where]
           /\ left' = IF where = "echo" THEN [left EXCEPT ![p] = EchoTimeout] ELSE left
  <1>1. /\ stray[p] \in Stray /\ Watching(at[p], stray[p]) /\ at[p] = "check"
        /\ at = [at EXCEPT ![p] = "check"]
    BY DEF PeerInv, PeerTyped, Watched, Subscribes, Checks
  <1>2. PICK s \in Stray : s = stray[p]
    BY <1>1
  <1>3. s.looks \in 0..1 /\ (s.events => s.looks = 1) /\ ~s.passed
    BY <1>1, <1>2 DEF Watching
  <1>4. CASE Subscribes(p)
    <2> DEFINE w == [s EXCEPT !.events = TRUE]
    <2>1. w \in Stray /\ w.looks = 1 /\ w.events /\ w.passed = s.passed
      BY <1>2, <1>4 DEF Stray, Subscribes, LooksBefore
    <2>2. Watches(p, w) /\ conn' = conn
      BY <1>2, <1>4 DEF Subscribes
    <2> HIDE DEF w
    <2>3. Noted(w) \in Stray /\ Noted(w).looks = 1 /\ Noted(w).events /\ ~Noted(w).passed
      BY <1>3, <2>1 DEF Noted, Stray
    <2>4. Watching("check", Noted(w))
      BY <2>3 DEF Watching
    <2>5. stray' = [stray EXCEPT ![p] = Noted(w)] /\ at' = at /\ left' = left
      BY <2>1, <2>2 DEF Watches
    <2> QED
      BY <1>1, <2>2, <2>3, <2>4, <2>5
  <1>5. CASE Checks(p)
    <2>1. PICK n \in 1..2 : n = s.looks + 1
      BY <1>3
    <2> DEFINE w == [s EXCEPT !.looks = n]
    <2>2. ~s.up /\ (n = 2 => s.events)
      <3>1. ~stray[p].up /\ Watches(p, [stray[p] EXCEPT !.looks = @ + 1]) /\ UNCHANGED conn
        BY <1>5 DEF Checks, Rejects
      <3>2. stray[p].looks = 1 => stray[p].events
        BY <1>5 DEF Checks, LooksBefore
      <3>3. n = 2 => s.looks = 1
        BY <1>3, <2>1
      <3> QED
        BY <1>2, <3>1, <3>2, <3>3
    <2>3. w \in Stray /\ w.looks = n /\ w.events = s.events /\ w.passed = s.passed /\ w.up = s.up
      BY <2>1 DEF Stray
    <2>4. Watches(p, w) /\ conn' = conn
      <3>1. Watches(p, [stray[p] EXCEPT !.looks = @ + 1]) /\ UNCHANGED conn
        BY <1>5 DEF Checks, Rejects
      <3> QED
        BY <1>2, <2>1, <3>1
    <2> HIDE DEF w
    <2>5. /\ Noted(w) \in Stray /\ Noted(w).looks = n /\ Noted(w).events = s.events
          /\ ~Noted(w).passed /\ ~Noted(w).up
      BY <1>3, <2>2, <2>3 DEF Noted, Stray
    <2>6. stray' = [stray EXCEPT ![p] = Noted(w)]
      BY <2>4 DEF Watches
    <2>7. CASE n = 2
      <3>1. at' = [at EXCEPT ![p] = "echo"] /\ left' = [left EXCEPT ![p] = EchoTimeout]
        BY <2>2, <2>3, <2>4, <2>7 DEF Watches, Goes
      <3>2. Watching("echo", Noted(w))
        BY <2>2, <2>5, <2>7 DEF Watching
      <3> QED
        BY <2>4, <2>5, <2>6, <3>1, <3>2
    <2>8. CASE n = 1
      <3>1. at' = at /\ left' = left
        BY <2>3, <2>4, <2>8 DEF Watches
      <3>2. ~s.events \/ n = 1
        BY <2>8
      <3>3. Watching("check", Noted(w))
        BY <2>5, <2>8 DEF Watching
      <3> QED
        BY <1>1, <2>4, <2>5, <2>6, <3>1, <3>3
    <2> QED
      BY <2>1, <2>7, <2>8
  <1> QED
    BY <1>4, <1>5

LEMMA PeerStepInv ==
  ASSUME PeerInv, [Next]_vars
  PROVE  PeerInv'
  <1> USE DEF PeerInv, PeerTyped, Connected, MeetInTime, Goes, Quits, Closes, Setup, Paths, Role, Other
  <1>1. CASE UNCHANGED peerVars
    BY <1>1 DEF peerVars, Aged, Watched, Watching, Echoing
  <1>2. ASSUME NEW p \in Role, Start(p)
        PROVE  PeerInv'
    BY <1>2 DEF Start, Aged, Watched, Watching, Echoing
  <1>3. ASSUME NEW p \in Role, Observed(p)
        PROVE  PeerInv'
    BY <1>3, PeerConstants DEF Observed, Aged, Watched, Watching, Echoing
  <1>4. ASSUME NEW p \in Role, DiscoveryFails(p)
        PROVE  PeerInv'
    BY <1>4 DEF DiscoveryFails, Aged, Watched, Watching, Echoing
  <1>5. ASSUME NEW p \in Role, Copy(p)
        PROVE  PeerInv'
    BY <1>5 DEF Copy, Aged, Watched, Watching, Echoing
  <1>6. ASSUME NEW p \in Role, ReadPeer(p)
        PROVE  PeerInv'
    <2>1. CASE Fresh(p) /\ file[p] = "peer"
      <3>1. /\ at' = [at EXCEPT ![p] = "connect"] /\ left' = [left EXCEPT ![p] = ConnectTimeout]
            /\ opened' = [opened EXCEPT ![p] = TRUE] /\ at[p] = "wait"
            /\ UNCHANGED <<age, reachable, together, conn, echo, stray>>
        BY <1>6, <2>1 DEF ReadPeer, Pokes
      <3>2. age[p] <= MaxAge
        BY <2>1 DEF Fresh
      <3>3. PeerTyped' /\ Connected'
        BY <3>1, PeerConstants
      <3>4. \A q \in Role : Aged(q)'
        BY <3>1, <3>2, PeerConstants DEF Aged, Echoing
      <3>5. \A q \in Role : Watched(q)'
        BY <3>1 DEF Watched, Watching
      <3> QED
        BY <3>3, <3>4, <3>5
    <2>2. CASE ~(Fresh(p) /\ file[p] = "peer")
      BY <1>6, <2>2 DEF ReadPeer, Aged, Watched, Watching, Echoing
    <2> QED
      BY <2>1, <2>2
  <1>7. ASSUME NEW p \in Role, Expires(p)
        PROVE  PeerInv'
    BY <1>7 DEF Expires, Bounded, Aged, Watched, Watching, Echoing
  <1>8. CASE Dialed
    <2>1. /\ at["dial"] = "connect" /\ at["listen"] = "connect" /\ conn' = "up"
          /\ at' = [at EXCEPT !["dial"] = "check"] /\ left' = [left EXCEPT !["dial"] = 0]
          /\ UNCHANGED <<age, together, opened, reachable, echo, stray>>
      BY <1>8 DEF Dialed, Meets
    <2>2. PeerTyped'
      BY <2>1
    <2>3. Connected'
      BY <2>1
    <2>4. \A q \in Role : Aged(q)'
      <3>1. age["dial"] + 0 <= age["dial"] + left["dial"]
        OBVIOUS
      <3> QED
        BY <2>1, <3>1, PeerConstants DEF Aged, Echoing
    <2>5. \A q \in Role : Watched(q)'
      BY <2>1 DEF Watched, Watching
    <2> QED
      BY <2>2, <2>3, <2>4, <2>5
  <1>9. CASE Accepted
    <2>1. PICK where \in {"check", "failed"} :
            /\ at["listen"] = "connect" /\ (where = "failed" => conn = "closed")
            /\ at' = [at EXCEPT !["listen"] = where] /\ left' = [left EXCEPT !["listen"] = 0]
            /\ UNCHANGED <<age, together, opened, reachable, conn, echo, stray>> /\ conn # "none"
      BY <1>9 DEF Accepted
    <2>2. PeerTyped'
      BY <2>1
    <2>3. Connected'
      BY <2>1
    <2>4. \A q \in Role : Aged(q)'
      <3>1. age["listen"] + 0 <= age["listen"] + left["listen"]
        OBVIOUS
      <3> QED
        BY <2>1, <3>1, PeerConstants DEF Aged, Echoing
    <2>5. \A q \in Role : Watched(q)'
      BY <2>1 DEF Watched, Watching
    <2> QED
      BY <2>2, <2>3, <2>4, <2>5
  <1>10. CASE Sends \/ Echoes \/ Acknowledged
    BY <1>10 DEF Sends, Echoes, Acknowledged, Aged, Watched, Echoing
  <1>11. ASSUME NEW p \in Role, EventSeen(p)
        PROVE  PeerInv'
    BY <1>11 DEF EventSeen, Aged, Watched, Watching, Echoing
  <1>12. ASSUME NEW p \in Role, Poll(p)
        PROVE  PeerInv'
    BY <1>12 DEF Poll, Quiet, Transferred, Aged, Watched, Watching, Echoing
  <1>13. ASSUME NEW p \in Role, Completes(p)
        PROVE  PeerInv'
    BY <1>13 DEF Completes, Aged, Watched, Watching, Echoing
  <1>14. ASSUME NEW p \in Role, Lost(p)
        PROVE  PeerInv'
    BY <1>14 DEF Lost, Aged, Watched, Watching, Echoing
  <1>15. ASSUME NEW p \in Role, StrayOpens(p) \/ StrayCloses(p) \/ Announced(p)
        PROVE  PeerInv'
    <2>1. UNCHANGED <<at, left, age, together, opened, reachable, conn, echo>>
      BY <1>15 DEF StrayOpens, StrayCloses, Announced
    <2>2. PICK w \in Stray : stray' = [stray EXCEPT ![p] = w] /\ Watching(at[p], w)
      BY <1>15, StrayKept
    <2> QED
      BY <2>1, <2>2 DEF Aged, Watched, Echoing
  <1>16. ASSUME NEW p \in Role, Subscribes(p) \/ Checks(p)
        PROVE  PeerInv'
    <2>1. at[p] = "check" /\ UNCHANGED <<age, together, opened, reachable, echo>>
      BY <1>16 DEF Subscribes, Checks
    <2>2. CASE ~Rejects(p)
      <3>1. PICK w \in Stray, where \in {"check", "echo"} :
              /\ stray' = [stray EXCEPT ![p] = w] /\ Watching(where, w) /\ conn' = conn
              /\ at' = [at EXCEPT ![p] = where]
              /\ left' = IF where = "echo" THEN [left EXCEPT ![p] = EchoTimeout] ELSE left
        BY <1>16, <2>2, ChecksKept
      <3>2. PeerTyped' /\ Connected'
        BY <2>1, <3>1, PeerConstants
      <3>3. \A q \in Role : Aged(q)'
        BY <2>1, <3>1, PeerConstants DEF Aged, Echoing
      <3>4. \A q \in Role : Watched(q)'
        BY <3>1 DEF Watched
      <3> QED
        BY <3>2, <3>3, <3>4
    <2>3. CASE Rejects(p)
      BY <2>1, <2>3 DEF Rejects, Aged, Watched, Watching, Echoing
    <2> QED
      BY <2>2, <2>3
  <1>17. CASE Tick
    BY <1>17, PeerConstants DEF Tick, Due, Timed, Bounded, Ended, Meets, Crosses, Aged, Watched, Watching, Echoing
  <1> QED
    BY <1>1, <1>2, <1>3, <1>4, <1>5, <1>6, <1>7, <1>8, <1>9, <1>10, <1>11, <1>12, <1>13, <1>14,
       <1>15, <1>16, <1>17 DEF Next, Works, vars

LEMMA PeerInvariant == Spec => []PeerInv
  <1>1. Init => PeerInv
    BY PeerConstants DEF Init, PeerInv, PeerTyped, Connected, MeetInTime, Aged, Watched, Watching, Echoing,
                            NoStray, Stray, Role
  <1> QED
    BY <1>1, PeerStepInv, PTL DEF Spec

\* Each peer looks only at the age of its own observation, when it reads its peer's file;
\* still no connection uses one that is older than MaxAge and the two deadlines together
\* (nat-peer.rs:62-64, 207-214), for any deadlines.
THEOREM AlwaysFresh == Spec => []FreshMappings
  <1>1. PeerInv => FreshMappings
    <2> SUFFICES ASSUME PeerInv, conn = "up", NEW p \in Role PROVE age[p] < Oldest
      BY DEF FreshMappings
    <2>1. Aged(p) /\ at[p] \in {"connect", "check", "echo", "polled"} /\ age[p] \in Nat /\ left[p] \in Nat
      BY DEF PeerInv, PeerTyped, Connected
    <2> QED
      BY <2>1, PeerConstants DEF Aged, Echoing, Oldest
  <1> QED
    BY <1>1, PeerInvariant, PTL

\* Two peers that are connecting at the same time meet, unless the NATs forget: each has
\* sent toward the other (the poke of the listener, nat-peer.rs:342-352).
THEOREM PeersMeet == Spec => []MeetInTime
  <1>1. PeerInv => MeetInTime
    BY DEF PeerInv, Connected
  <1> QED
    BY <1>1, PeerInvariant, PTL

\* A run that reports success has missed no other path that was listed and announced at any
\* time from its second look to its last poll (echo_on_observed_path, nat-peer.rs:368-395),
\* however many paths come up and however iroh's updates fall between its steps.
THEOREM StraysAlwaysCaught == Spec => []StraysCaught
  <1>1. PeerInv => StraysCaught
    BY DEF PeerInv, Watched, Watching, StraysCaught
  <1> QED
    BY <1>1, PeerInvariant, PTL

\* A listener that reports success has proved the echo to its dialer (echo, nat-peer.rs:408-418).
THEOREM ListenerAlwaysProves == Spec => []ListenerProves
  <1>1. PeerInv => ListenerProves
    BY DEF PeerInv, Connected, ListenerProves
  <1> QED
    BY <1>1, PeerInvariant, PTL

-----------------------------------------------------------------------------
(* The walk over the attributes of a response.  A statement about every       *)
(* position or every number of attributes is proved from the least one at     *)
(* which it would fail.                                                       *)

LEMMA LeastNumber ==
  ASSUME NEW S \in SUBSET Nat, S # {}
  PROVE  \E n \in S : \A m \in S : n <= m
<1> DEFINE R == {ss \in Nat \X Nat : ss[1] < ss[2]}
<1>1. IsWellFoundedOn(R, Nat)
  BY NatLessThanWellFounded DEF OpToRel
<1>2. PICK n \in S : \A m \in S : ~ (<<m, n>> \in R)
  BY <1>1, WFMin
<1>3. ASSUME NEW m \in S PROVE n <= m
  <2>1. n \in Nat /\ m \in Nat /\ ~ (<<m, n>> \in R)
    BY <1>2
  <2>2. ~ (m < n)
    BY <2>1
  <2>. QED  BY <2>1, <2>2
<1>. QED  BY <1>3

\* The parts of one turn of the loop at the position idx: the attributes are over, this is the one,
\* its value, and where the next one begins.
ValueAt(attrs, idx) == SubSeq(attrs, idx + HeaderLen + 1, idx + (HeaderLen + attrs[idx + 4]))
Over(attrs, idx) == Len(attrs) - idx < HeaderLen \/ Len(attrs) - idx < HeaderLen + attrs[idx + 4]
Here(attrs, type, idx) == Wanted(type, attrs[idx + 2], ValueAt(attrs, idx))
Onward(attrs, idx) == idx + Step(HeaderLen + attrs[idx + 4], Len(attrs) - idx)

Turn(attrs, type, f, idx) ==
  IF Over(attrs, idx) THEN None
  ELSE IF Here(attrs, type, idx) THEN ValueAt(attrs, idx)
  ELSE f[Onward(attrs, idx)]

Walks(f, attrs, type) == f = [idx \in 0..Len(attrs) |-> Turn(attrs, type, f, idx)]

LEMMA FindIs ==
  ASSUME NEW attrs, NEW type
  PROVE  Find(attrs, type) = (CHOOSE f : Walks(f, attrs, type))[0]
BY DEF Find, Walks, Turn, Over, Here, ValueAt, Onward

LEMMA RoundUpBounds ==
  ASSUME NEW n \in Nat
  PROVE  RoundUp(n) \in Nat /\ n <= RoundUp(n) /\ RoundUp(n) <= n + 3 /\ RoundUp(n + 4) = RoundUp(n) + 4
BY DEF RoundUp

\* The walk goes on.
LEMMA OnwardBounds ==
  ASSUME NEW attrs \in Seq(Nat), NEW idx \in 0..Len(attrs), ~Over(attrs, idx)
  PROVE  Onward(attrs, idx) \in 0..Len(attrs) /\ Onward(attrs, idx) > idx
<1>1. Len(attrs) \in Nat /\ idx \in Nat /\ Len(attrs) - idx >= 4 /\ HeaderLen = 4
  BY DEF Over, HeaderLen
<1>2. attrs[idx + 4] \in Nat
  BY <1>1, ElementOfSeq
<1> DEFINE e == HeaderLen + attrs[idx + 4]
<1>3. e \in Nat /\ e >= 4 /\ Len(attrs) - idx >= e
  BY <1>1, <1>2 DEF Over
<1> HIDE DEF e
<1>4. RoundUp(e) \in Nat /\ e <= RoundUp(e)
  BY <1>3, RoundUpBounds
<1>5. Step(e, Len(attrs) - idx) \in Nat /\ Step(e, Len(attrs) - idx) >= 4 /\ Step(e, Len(attrs) - idx) <= Len(attrs) - idx
  BY <1>1, <1>3, <1>4 DEF Step
<1>. QED  BY <1>1, <1>5 DEF Onward, e

LEMMA PartOf ==
  ASSUME NEW s, NEW m \in Nat, NEW n \in Nat, \A i \in 1..n : s[m + i] \in Nat
  PROVE  LET part == SubSeq(s, m + 1, m + n)
         IN  part \in Seq(Nat) /\ Len(part) = n /\ \A i \in 1..n : part[i] = s[m + i]
<1> DEFINE part == SubSeq(s, m + 1, m + n)
<1>1. ASSUME NEW i \in m + 1 .. m + n PROVE s[i] \in Nat
  <2>1. i - m \in 1..n /\ i = m + (i - m)
    OBVIOUS
  <2>. QED  BY <2>1
<1>2. /\ part \in Seq(Nat)
      /\ Len(part) = IF m + 1 <= m + n THEN m + n - (m + 1) + 1 ELSE 0
      /\ \A i \in 1..m + n - (m + 1) + 1 : part[i] = s[m + 1 + i - 1]
  BY <1>1, SubSeqProperties
<1>3. m + n - (m + 1) + 1 = n /\ \A i \in Nat : m + 1 + i - 1 = m + i
  OBVIOUS
<1> HIDE DEF part
<1>4. Len(part) = n
  BY <1>2
<1>5. ASSUME NEW i \in 1..n PROVE part[i] = s[m + i]
  BY <1>2, <1>3
<1>. QED  BY <1>2, <1>4, <1>5 DEF part

LEMMA PortOf ==
  ASSUME NEW s \in Seq(Nat), Len(s) >= 4, NEW part, part = SubSeq(s, 3, 4)
  PROVE  part \in Seq(Nat) /\ Len(part) = 2 /\ \A i \in 1..2 : part[i] = s[2 + i]
  OBVIOUS

LEMMA WalkExists ==
  ASSUME NEW attrs \in Seq(Nat), NEW type
  PROVE  \E f : Walks(f, attrs, type)
<1> DEFINE L == Len(attrs)
           Solves(f, n) == /\ f = [idx \in 0..L |-> f[idx]]
                           /\ \A idx \in 0..L : idx >= n => f[idx] = Turn(attrs, type, f, idx)
           Bad == {k \in 0..L : ~\E f : Solves(f, L - k)}
<1>1. L \in Nat
  OBVIOUS
<1>2. ASSUME Bad # {} PROVE FALSE
  <2>1. PICK k \in Bad : \A m \in Bad : k <= m
    <3>1. Bad \in SUBSET Nat
      BY <1>1
    <3> HIDE DEF Bad
    <3>. QED  BY <3>1, <1>2, LeastNumber
  <2>2. CASE k = 0
    <3> DEFINE f == [idx \in 0..L |-> None]
    <3>1. Over(attrs, L)
      BY <1>1 DEF Over, HeaderLen
    <3>2. \A idx \in 0..L : idx >= L => idx = L
      BY <1>1
    <3>3. Solves(f, L - k)
      BY <1>1, <2>2, <3>1, <3>2 DEF Turn
    <3>. QED  BY <2>1, <3>3
  <2>3. CASE k # 0
    <3>1. k \in Nat /\ k - 1 \in 0..L /\ k - 1 \notin Bad /\ L - k \in 0..L /\ L - (k - 1) = L - k + 1
      BY <1>1, <2>1, <2>3
    <3>2. PICK g : Solves(g, L - (k - 1))
      BY <3>1
    <3> DEFINE n == L - k
               f == [idx \in 0..L |-> IF idx = n THEN Turn(attrs, type, g, n) ELSE g[idx]]
    <3>3. ASSUME NEW idx \in 0..L, idx >= n PROVE f[idx] = Turn(attrs, type, f, idx)
      <4>1. ~Over(attrs, idx) => Onward(attrs, idx) \in 0..L /\ Onward(attrs, idx) # n
        BY <1>1, <3>1, <3>3, OnwardBounds
      <4>2. ~Over(attrs, idx) => f[Onward(attrs, idx)] = g[Onward(attrs, idx)]
        BY <4>1
      <4>3. Turn(attrs, type, f, idx) = Turn(attrs, type, g, idx)
        <5> HIDE DEF f
        <5>. QED  BY <4>2 DEF Turn
      <4>4. f[idx] = Turn(attrs, type, g, idx)
        <5>1. CASE idx = n
          BY <5>1
        <5>2. CASE idx # n
          <6>1. idx >= L - (k - 1)
            BY <1>1, <3>1, <3>3, <5>2
          <6>2. g[idx] = Turn(attrs, type, g, idx)
            BY <3>2, <6>1
          <6>. QED  BY <5>2, <6>2
        <5>. QED  BY <5>1, <5>2
      <4>. QED  BY <4>3, <4>4
    <3>4. f = [idx \in 0..L |-> f[idx]]
      OBVIOUS
    <3>5. Solves(f, L - k)
      <4> HIDE DEF f
      <4>. QED  BY <3>3, <3>4
    <3>. QED  BY <2>1, <3>5
  <2>. QED  BY <2>2, <2>3
<1>3. L \in 0..L /\ L \notin Bad /\ L - L = 0
  BY <1>1, <1>2
<1>4. PICK f : Solves(f, 0)
  BY <1>3
<1>5. \A idx \in 0..L : f[idx] = Turn(attrs, type, f, idx)
  BY <1>1, <1>4
<1>. QED  BY <1>4, <1>5 DEF Walks

\* What was put before moves the walk and changes nothing else.
LEMMA WalkShifted ==
  ASSUME NEW a \in Seq(Nat), NEW rest \in Seq(Nat), NEW type, NEW f, Walks(f, a \o rest, type),
         NEW g, Walks(g, rest, type), NEW pos \in 0..Len(rest)
  PROVE  f[Len(a) + pos] = g[pos]
<1>0. PICK K \in Nat, L \in Nat : K = Len(a) /\ L = Len(rest)
  OBVIOUS
<1> DEFINE whole == a \o rest
           Bad == {k \in 0..L : f[K + (L - k)] # g[L - k]}
<1>1. /\ K \in Nat /\ L \in Nat /\ whole \in Seq(Nat) /\ Len(whole) = K + L
      /\ \A i \in 1..L : whole[K + i] = rest[i] /\ rest[i] \in Nat
  BY <1>0, ConcatProperties, ElementOfSeq
<1>2. ASSUME Bad # {} PROVE FALSE
  <2>1. PICK k \in Bad : \A m \in Bad : k <= m
    <3>1. Bad \in SUBSET Nat
      BY <1>1
    <3> HIDE DEF Bad
    <3>. QED  BY <3>1, <1>2, LeastNumber
  <2>2. PICK idx \in 0..L : idx = L - k /\ K + idx \in 0..Len(whole) /\ Len(whole) - (K + idx) = L - idx
    <3>1. k \in 0..L
      BY <2>1
    <3>2. L - k \in 0..L /\ K + (L - k) \in 0..K + L /\ K + L - (K + (L - k)) = L - (L - k)
      BY <1>0, <1>1, <3>1
    <3>. QED  BY <1>0, <1>1, <3>2
  <2>3. f[K + idx] # g[idx]
    BY <2>1, <2>2
  <2>4. ASSUME NEW n \in 0..L, n > idx PROVE f[K + n] = g[n]
    <3>1. L - n \in 0..L /\ L - n < k /\ L - (L - n) = n /\ k \in 0..L
      BY <1>0, <1>1, <2>1, <2>2, <2>4
    <3>. QED  BY <1>0, <1>1, <2>1, <2>4, <3>1
  <2> HIDE DEF Bad, whole
  <2>5. f[K + idx] = Turn(whole, type, f, K + idx) /\ g[idx] = Turn(rest, type, g, idx)
    BY <1>0, <1>1, <2>2 DEF Walks, whole
  <2>6. CASE L - idx < HeaderLen
    BY <1>0, <1>1, <2>2, <2>3, <2>5, <2>6 DEF Turn, Over
  <2>7. CASE ~(L - idx < HeaderLen)
    <3>1. /\ idx + 4 \in 1..L /\ idx + 2 \in 1..L /\ K + idx + 4 = K + (idx + 4) /\ K + idx + 2 = K + (idx + 2)
      <4>1. L - idx >= 4
        BY <2>7 DEF HeaderLen
      <4>. QED  BY <4>1
    <3>2. whole[K + idx + 4] = rest[idx + 4] /\ whole[K + idx + 2] = rest[idx + 2] /\ rest[idx + 4] \in Nat
      BY <1>0, <1>1, <3>1
    <3>3. Over(whole, K + idx) <=> Over(rest, idx)
      BY <1>0, <1>1, <2>2, <3>2 DEF Over
    <3>4. CASE Over(rest, idx)
      BY <2>3, <2>5, <3>3, <3>4 DEF Turn
    <3>5. CASE ~Over(rest, idx)
      <4>1. ValueAt(whole, K + idx) = ValueAt(rest, idx)
        <5>1. PICK n \in Nat : n = rest[idx + 4] /\ idx + 4 + n <= L
          <6>1. ~(Len(rest) - idx < HeaderLen + rest[idx + 4])
            BY <3>5 DEF Over
          <6>2. PICK n \in Nat : n = rest[idx + 4]
            BY <3>2
          <6>3. ~(L - idx < 4 + n)
            BY <1>0, <6>1, <6>2 DEF HeaderLen
          <6>4. idx + 4 + n <= L
            BY <6>3
          <6>. QED  BY <6>2, <6>4
        <5>2. PICK m \in Nat : m = idx + HeaderLen
          BY <2>2 DEF HeaderLen
        <5>3. \A i \in 1..n : m + i \in 1..L /\ K + m + i = K + (m + i)
          <6>1. m + n <= L
            BY <5>1, <5>2 DEF HeaderLen
          <6>. QED  BY <6>1
        <5>4. \A i \in 1..n : whole[K + m + i] = rest[m + i] /\ rest[m + i] \in Nat
          BY <1>0, <1>1, <5>3
        <5> DEFINE v == SubSeq(rest, m + 1, m + n)
                   w == SubSeq(whole, K + m + 1, K + m + n)
        <5>5. v \in Seq(Nat) /\ Len(v) = n /\ \A i \in 1..n : v[i] = rest[m + i]
          <6>1. \A i \in 1..n : rest[m + i] \in Nat
            BY <5>4
          <6> HIDE DEF v
          <6>2. SubSeq(rest, m + 1, m + n) = v
            BY DEF v
          <6>. QED  BY <6>1, <6>2, PartOf
        <5>6. w \in Seq(Nat) /\ Len(w) = n /\ \A i \in 1..n : w[i] = whole[K + m + i]
          <6>1. K + m \in Nat
            OBVIOUS
          <6>3. \A i \in 1..n : whole[K + m + i] \in Nat
            BY <5>4
          <6> HIDE DEF w
          <6>2. SubSeq(whole, K + m + 1, K + m + n) = w
            BY DEF w
          <6>. QED  BY <6>1, <6>2, <6>3, PartOf
        <5>7. ValueAt(rest, idx) = v
          <6>1. idx + HeaderLen + 1 = m + 1 /\ idx + (HeaderLen + n) = m + n
            BY <5>2 DEF HeaderLen
          <6>. QED  BY <5>1, <6>1 DEF ValueAt
        <5>8. ValueAt(whole, K + idx) = w
          <6>1. K + idx + HeaderLen + 1 = K + m + 1 /\ K + idx + (HeaderLen + whole[K + idx + 4]) = K + m + n
            <7>1. whole[K + idx + 4] = n /\ HeaderLen = 4 /\ m = idx + 4
              BY <3>2, <5>1, <5>2 DEF HeaderLen
            <7>. QED  BY <7>1
          <6>. QED  BY <6>1 DEF ValueAt
        <5> HIDE DEF v, w
        <5>9. v = w
          BY <5>4, <5>5, <5>6, SeqEqual
        <5>. QED  BY <5>7, <5>8, <5>9
      <4>2. Here(whole, type, K + idx) <=> Here(rest, type, idx)
        BY <3>2, <4>1 DEF Here
      <4>3. CASE Here(rest, type, idx)
        BY <2>3, <2>5, <3>3, <3>5, <4>1, <4>2, <4>3 DEF Turn
      <4>4. CASE ~Here(rest, type, idx)
        <5>1. PICK n \in 0..L : n = Onward(rest, idx) /\ n > idx
          BY <1>0, <2>2, <3>5, OnwardBounds
        <5>2. Onward(whole, K + idx) = K + n
          <6> DEFINE step == Step(HeaderLen + rest[idx + 4], L - idx)
          <6>1. n = idx + step
            BY <1>0, <5>1 DEF Onward
          <6>2. Onward(whole, K + idx) = K + idx + step
            BY <2>2, <3>2 DEF Onward
          <6>3. step \in Nat
            <7>1. PICK e \in Nat : e = HeaderLen + rest[idx + 4]
              BY <3>2 DEF HeaderLen
            <7>2. L - idx \in Nat
              OBVIOUS
            <7>3. RoundUp(e) \in Nat
              BY RoundUpBounds
            <7>. QED  BY <7>1, <7>2, <7>3 DEF Step
          <6> HIDE DEF step
          <6>4. K + idx + step = K + (idx + step)
            BY <6>3
          <6>. QED  BY <6>1, <6>2, <6>4
        <5>3. f[K + n] = g[n]
          BY <2>4, <5>1
        <5>. QED  BY <2>3, <2>5, <3>3, <3>5, <4>2, <4>4, <5>1, <5>2, <5>3 DEF Turn
      <4>. QED  BY <4>3, <4>4
    <3>. QED  BY <3>4, <3>5
  <2>. QED  BY <2>6, <2>7
<1>3. L - pos \in 0..L /\ L - (L - pos) = pos
  BY <1>0, <1>1
<1>4. L - pos \notin Bad
  BY <1>2
<1>. QED  BY <1>0, <1>3, <1>4

LEMMA Joined ==
  ASSUME NEW p \in Seq(Nat), NEW q \in Seq(Nat), NEW k \in Nat, k = Len(p), NEW l \in Nat, l = Len(q)
  PROVE  /\ p \o q \in Seq(Nat) /\ Len(p \o q) = k + l
         /\ \A i \in 1..k : (p \o q)[i] = p[i]
         /\ \A i \in 1..l : (p \o q)[k + i] = q[i]
<1>1. PICK r : r = p \o q
  OBVIOUS
<1>2. /\ r \in Seq(Nat) /\ Len(r) = k + l
      /\ \A i \in 1..k + l : r[i] = IF i <= k THEN p[i] ELSE q[i - k]
  BY <1>1, ConcatProperties
<1>3. ASSUME NEW i \in 1..k PROVE r[i] = p[i]
  <2>1. i \in 1..k + l /\ i <= k
    OBVIOUS
  <2>. QED  BY <1>2, <2>1
<1>4. ASSUME NEW i \in 1..l PROVE r[k + i] = q[i]
  <2>1. k + i \in 1..k + l /\ ~(k + i <= k) /\ (k + i) - k = i
    OBVIOUS
  <2>2. r[k + i] = q[(k + i) - k]
    BY <1>2, <2>1
  <2>. QED  BY <2>1, <2>2
<1>. QED  BY <1>1, <1>2, <1>3, <1>4

\* The value that Find gives is that of some walk, and any walk gives the same.
LEMMA FindWalks ==
  ASSUME NEW attrs \in Seq(Nat), NEW type
  PROVE  \E f : Walks(f, attrs, type) /\ Find(attrs, type) = f[0]
BY FindIs, WalkExists

LEMMA AttributeLaid ==
  ASSUME NEW t \in Nat, NEW value \in Seq(Nat), NEW n \in Nat, n = Len(value)
  PROVE  \E a : /\ a = Attribute(t, value)
               /\ a \in Seq(Nat) /\ Len(a) = HeaderLen + RoundUp(n)
               /\ a[2] = t /\ a[4] = n /\ \A i \in 1..n : a[4 + i] = value[i]
<1>1. n = Len(value)
  OBVIOUS
<1>2. RoundUp(n) \in Nat /\ n <= RoundUp(n)
  BY RoundUpBounds
<1> DEFINE head == <<0, t, 0, n>>
           pad == [i \in 1..(RoundUp(n) - n) |-> 0]
<1>3. head \in Seq(Nat) /\ Len(head) = 4 /\ head[2] = t /\ head[4] = n
  OBVIOUS
<1>4. pad \in Seq(Nat) /\ Len(pad) = RoundUp(n) - n
  BY <1>2
<1>5. Attribute(t, value) = head \o value \o pad
  BY <1>1 DEF Attribute
<1> HIDE DEF head, pad
<1>6. PICK front : front = head \o value
  OBVIOUS
<1>7. /\ front \in Seq(Nat) /\ Len(front) = 4 + n
      /\ \A i \in 1..4 : front[i] = head[i]
      /\ \A i \in 1..n : front[4 + i] = value[i]
  <2>1. PICK k \in Nat : k = 4
    OBVIOUS
  <2>2. k = Len(head) /\ head \in Seq(Nat)
    BY <1>3, <2>1
  <2>3. /\ front \in Seq(Nat) /\ Len(front) = k + n
        /\ \A i \in 1..k : front[i] = head[i]
        /\ \A i \in 1..n : front[k + i] = value[i]
    <3>1. PICK v \in Seq(Nat) : v = value
      OBVIOUS
    <3>2. n = Len(v) /\ front = head \o v
      BY <1>1, <1>6, <3>1
    <3>3. /\ head \o v \in Seq(Nat) /\ Len(head \o v) = k + n
          /\ \A i \in 1..k : (head \o v)[i] = head[i]
          /\ \A i \in 1..n : (head \o v)[k + i] = v[i]
      BY <2>2, <3>2, Joined
    <3>. QED  BY <3>1, <3>2, <3>3
  <2>. QED  BY <2>1, <2>3
<1> DEFINE a == front \o pad
<1>8. /\ a \in Seq(Nat) /\ Len(a) = 4 + n + (RoundUp(n) - n)
      /\ \A i \in 1..4 + n : a[i] = front[i]
  <2>1. PICK k \in Nat : k = 4 + n
    OBVIOUS
  <2>2. PICK l \in Nat : l = RoundUp(n) - n
    BY <1>2
  <2>3. k = Len(front) /\ l = Len(pad)
    BY <1>4, <1>7, <2>1, <2>2
  <2>4. /\ a \in Seq(Nat) /\ Len(a) = k + l
        /\ \A i \in 1..k : a[i] = front[i]
    <3>1. front \in Seq(Nat) /\ pad \in Seq(Nat)
      BY <1>4, <1>7
    <3>2. /\ front \o pad \in Seq(Nat) /\ Len(front \o pad) = k + l
          /\ \A i \in 1..k : (front \o pad)[i] = front[i]
      BY <2>3, <3>1, Joined
    <3>. QED  BY <3>2
  <2> HIDE DEF a
  <2>. QED  BY <2>1, <2>2, <2>4
<1> HIDE DEF a
<1>9. 4 + n + (RoundUp(n) - n) = HeaderLen + RoundUp(n)
  BY <1>2 DEF HeaderLen
<1>10. a[2] = t /\ a[4] = n
  <2>1. 2 \in 1..4 /\ 4 \in 1..4 /\ 2 \in 1..4 + n /\ 4 \in 1..4 + n
    OBVIOUS
  <2>. QED  BY <1>3, <1>7, <1>8, <2>1
<1>11. ASSUME NEW i \in 1..n PROVE a[4 + i] = value[i]
  <2>1. 4 + i \in 1..4 + n
    OBVIOUS
  <2>. QED  BY <1>7, <1>8, <2>1
<1>12. Attribute(t, value) = a
  BY <1>5, <1>6 DEF a
<1>. QED  BY <1>8, <1>9, <1>10, <1>11, <1>12

\* An attribute that is not wanted is passed, with its padding.
LEMMA Passed ==
  ASSUME NEW type, NEW t \in Nat, NEW value \in Seq(Nat), ~Wanted(type, t, value), NEW rest \in Seq(Nat)
  PROVE  Find(Attribute(t, value) \o rest, type) = Find(rest, type)
<1>1. PICK a : a = Attribute(t, value)
  OBVIOUS
<1>2. PICK n \in Nat : n = Len(value)
  OBVIOUS
<1>3. PICK L \in Nat : L = Len(rest)
  OBVIOUS
<1>4. PICK K \in Nat : K = RoundUp(4 + n)
  <2>1. 4 + n \in Nat
    OBVIOUS
  <2>2. RoundUp(4 + n) \in Nat
    BY <2>1, RoundUpBounds
  <2>. QED  BY <2>2
<1>5. /\ a \in Seq(Nat) /\ Len(a) = K /\ K >= 4 + n
      /\ a[2] = t /\ a[4] = n /\ \A i \in 1..n : a[4 + i] = value[i]
  <2>1. /\ a \in Seq(Nat) /\ Len(a) = HeaderLen + RoundUp(n)
        /\ a[2] = t /\ a[4] = n /\ \A i \in 1..n : a[4 + i] = value[i]
    <3>1. PICK b : /\ b = Attribute(t, value)
                   /\ b \in Seq(Nat) /\ Len(b) = HeaderLen + RoundUp(n)
                   /\ b[2] = t /\ b[4] = n /\ \A i \in 1..n : b[4 + i] = value[i]
      BY <1>2, AttributeLaid
    <3>. QED  BY <1>1, <3>1
  <2>2. HeaderLen + RoundUp(n) = K /\ K >= 4 + n
    <3>1. RoundUp(n) \in Nat /\ n <= RoundUp(n) /\ RoundUp(n + 4) = RoundUp(n) + 4
      BY RoundUpBounds
    <3>2. n + 4 = 4 + n
      OBVIOUS
    <3>. QED  BY <1>4, <3>1, <3>2 DEF HeaderLen
  <2>. QED  BY <2>1, <2>2
<1>6. PICK whole : whole = a \o rest
  OBVIOUS
<1>7. /\ whole \in Seq(Nat) /\ Len(whole) = K + L
      /\ \A i \in 1..K : whole[i] = a[i]
  <2>1. K = Len(a) /\ L = Len(rest) /\ a \in Seq(Nat)
    BY <1>3, <1>5
  <2>2. /\ a \o rest \in Seq(Nat) /\ Len(a \o rest) = K + L
        /\ \A i \in 1..K : (a \o rest)[i] = a[i]
    BY <2>1, Joined
  <2>. QED  BY <1>6, <2>2
<1>8. PICK f : Walks(f, whole, type) /\ Find(whole, type) = f[0]
  BY <1>7, FindWalks
<1>9. PICK g : Walks(g, rest, type) /\ Find(rest, type) = g[0]
  BY FindWalks
<1>10. f[K] = g[0]
  <2>1. Walks(f, a \o rest, type) /\ Walks(g, rest, type) /\ 0 \in 0..Len(rest) /\ a \in Seq(Nat)
    BY <1>3, <1>5, <1>6, <1>8, <1>9
  <2>2. f[Len(a) + 0] = g[0]
    BY <2>1, WalkShifted
  <2>. QED  BY <1>5, <2>2
<1>11. f[0] = Turn(whole, type, f, 0)
  <2>1. 0 \in 0..Len(whole)
    BY <1>7
  <2>. QED  BY <1>8, <2>1 DEF Walks
<1>12. whole[2] = t /\ whole[4] = n
  BY <1>5, <1>7
<1>13. ~Over(whole, 0)
  BY <1>5, <1>7, <1>12 DEF Over, HeaderLen
<1>14. Onward(whole, 0) = K
  <2>1. Onward(whole, 0) = 0 + Step(4 + n, K + L)
    BY <1>7, <1>12 DEF Onward, HeaderLen
  <2>2. Step(4 + n, K + L) = K
    BY <1>4 DEF Step
  <2>. QED  BY <2>1, <2>2
<1>15. ~Here(whole, type, 0)
  <2>1. Len(ValueAt(whole, 0)) = n
    <3>1. ASSUME NEW i \in 1..n PROVE whole[4 + i] \in Nat
      <4>1. 4 + i \in 1..K
        BY <1>5
      <4>2. whole[4 + i] = a[4 + i] /\ a[4 + i] = value[i]
        BY <1>5, <1>7, <4>1
      <4>3. value[i] \in Nat
        BY <1>2, ElementOfSeq
      <4>. QED  BY <4>2, <4>3
    <3>2. Len(SubSeq(whole, 4 + 1, 4 + n)) = n
      BY <3>1, PartOf
    <3>3. ValueAt(whole, 0) = SubSeq(whole, 4 + 1, 4 + n)
      BY <1>12 DEF ValueAt, HeaderLen
    <3>. QED  BY <3>2, <3>3
  <2>. QED  BY <1>2, <1>12, <2>1 DEF Here, Wanted
<1>. QED  BY <1>1, <1>6, <1>8, <1>9, <1>10, <1>11, <1>13, <1>14, <1>15 DEF Turn

\* The wanted one is read if all of its value is there, with its padding or not.
LEMMA Found ==
  ASSUME NEW type \in Nat, NEW value \in Seq(Nat), Wanted(type, type, value), NEW after \in Seq(Nat),
         NEW n \in Nat, n <= Len(Attribute(type, value) \o after)
  PROVE  Find(SubSeq(Attribute(type, value) \o after, 1, n), type)
           = IF n >= HeaderLen + Len(value) THEN value ELSE None
<1>1. PICK a : a = Attribute(type, value)
  OBVIOUS
<1>2. PICK l \in Nat : l = Len(value)
  OBVIOUS
<1>3. /\ a \in Seq(Nat) /\ Len(a) \in Nat /\ Len(a) >= 4 + l /\ a[2] = type /\ a[4] = l
      /\ \A i \in 1..l : a[4 + i] = value[i]
  <2>1. /\ a \in Seq(Nat) /\ Len(a) = HeaderLen + RoundUp(l)
        /\ a[2] = type /\ a[4] = l /\ \A i \in 1..l : a[4 + i] = value[i]
    <3>1. PICK b : /\ b = Attribute(type, value)
                   /\ b \in Seq(Nat) /\ Len(b) = HeaderLen + RoundUp(l)
                   /\ b[2] = type /\ b[4] = l /\ \A i \in 1..l : b[4 + i] = value[i]
      BY <1>2, AttributeLaid
    <3>. QED  BY <1>1, <3>1
  <2>2. RoundUp(l) \in Nat /\ l <= RoundUp(l)
    BY RoundUpBounds
  <2>. QED  BY <2>1, <2>2 DEF HeaderLen
<1>4. PICK m : m = SubSeq(a \o after, 1, n)
  OBVIOUS
<1>5. m \in Seq(Nat) /\ Len(m) = n /\ \A i \in 1..n : i <= Len(a) => m[i] = a[i]
  <2>1. PICK whole : whole = a \o after
    OBVIOUS
  <2>2. /\ whole \in Seq(Nat) /\ Len(whole) = Len(a) + Len(after)
        /\ \A i \in 1..Len(a) + Len(after) : whole[i] = IF i <= Len(a) THEN a[i] ELSE after[i - Len(a)]
    BY <1>3, <2>1, ConcatProperties
  <2>3. n <= Len(whole) /\ Len(whole) \in Nat
    BY <1>1, <2>1, <2>2
  <2>4. \A i \in 1..n : i \in 1..Len(whole) /\ 0 + i = i
    BY <2>3
  <2>5. \A i \in 1..n : whole[0 + i] \in Nat
    BY <2>2, <2>4, ElementOfSeq
  <2>6. LET part == SubSeq(whole, 0 + 1, 0 + n)
        IN  part \in Seq(Nat) /\ Len(part) = n /\ \A i \in 1..n : part[i] = whole[0 + i]
    BY <2>5, PartOf
  <2>7. m = SubSeq(whole, 0 + 1, 0 + n)
    <3>1. 0 + 1 = 1 /\ 0 + n = n
      OBVIOUS
    <3>. QED  BY <1>4, <2>1, <3>1
  <2>8. m \in Seq(Nat) /\ Len(m) = n /\ \A i \in 1..n : m[i] = whole[i]
    BY <2>4, <2>6, <2>7
  <2>. QED  BY <2>2, <2>3, <2>4, <2>8
<1>6. PICK f : Walks(f, m, type) /\ Find(m, type) = f[0]
  BY <1>5, FindWalks
<1>7. f[0] = Turn(m, type, f, 0)
  <2>1. 0 \in 0..Len(m)
    BY <1>5
  <2>. QED  BY <1>6, <2>1 DEF Walks
<1>8. CASE n >= 4 + l
  <2>1. m[2] = type /\ m[4] = l /\ \A i \in 1..l : m[4 + i] = value[i]
    <3>1. 2 \in 1..n /\ 4 \in 1..n /\ 2 <= Len(a) /\ 4 <= Len(a)
      BY <1>3, <1>8
    <3>2. m[2] = type /\ m[4] = l
      BY <1>3, <1>5, <3>1
    <3>3. ASSUME NEW i \in 1..l PROVE m[4 + i] = value[i]
      <4>1. 4 + i \in 1..n /\ 4 + i <= Len(a)
        BY <1>3, <1>8
      <4>. QED  BY <1>3, <1>5, <4>1
    <3>. QED  BY <3>2, <3>3
  <2>2. ~Over(m, 0)
    BY <1>5, <1>8, <2>1 DEF Over, HeaderLen
  <2>3. ValueAt(m, 0) = value
    <3>1. \A i \in 1..l : m[4 + i] \in Nat
      BY <1>2, <2>1, ElementOfSeq
    <3> DEFINE part == SubSeq(m, 4 + 1, 4 + l)
    <3>2. part \in Seq(Nat) /\ Len(part) = l /\ \A i \in 1..l : part[i] = m[4 + i]
      <4>1. PICK k \in Nat : k = 4
        OBVIOUS
      <4>2. \A i \in 1..l : m[k + i] \in Nat
        BY <3>1, <4>1
      <4>3. LET piece == SubSeq(m, k + 1, k + l)
            IN  piece \in Seq(Nat) /\ Len(piece) = l /\ \A i \in 1..l : piece[i] = m[k + i]
        BY <4>2, PartOf
      <4>. QED  BY <4>1, <4>3
    <3>3. ValueAt(m, 0) = part
      BY <2>1 DEF ValueAt, HeaderLen
    <3> HIDE DEF part
    <3>4. part = value
      BY <1>2, <2>1, <3>2, SeqEqual
    <3>. QED  BY <3>3, <3>4
  <2>4. Here(m, type, 0)
    BY <2>1, <2>3 DEF Here, Wanted
  <2>5. f[0] = value
    BY <1>7, <2>2, <2>3, <2>4 DEF Turn
  <2>. QED  BY <1>1, <1>2, <1>4, <1>6, <1>8, <2>5 DEF HeaderLen
<1>9. CASE ~(n >= 4 + l)
  <2>1. Over(m, 0)
    <3>1. CASE n < 4
      BY <1>5, <3>1 DEF Over, HeaderLen
    <3>2. CASE ~(n < 4)
      <4>1. m[4] = l
        <5>1. 4 \in 1..n /\ 4 <= Len(a)
          BY <1>3, <3>2
        <5>. QED  BY <1>3, <1>5, <5>1
      <4>. QED  BY <1>5, <1>9, <4>1 DEF Over, HeaderLen
    <3>. QED  BY <3>1, <3>2
  <2>2. f[0] = None
    BY <1>7, <2>1 DEF Turn
  <2>. QED  BY <1>1, <1>2, <1>4, <1>6, <1>9, <2>2 DEF HeaderLen
<1>. QED  BY <1>8, <1>9

\* "RFC 8489 section 14.15: values are padded to 4-byte alignment but padding bytes are not
\* counted in the attribute length" (lib.rs:192-193).  Behind any number of attributes that
\* are not wanted, of any types and lengths (from[k] is the message behind the first k of
\* them), the first wanted one is found where the encoders put it, with its padding or
\* without and whatever comes after; a message cut short in its value is read as nothing
\* (lib.rs:172-195, 231-254).
THEOREM WalkFindsFirst ==
  ASSUME NEW type \in Byte, NEW n \in Nat, NEW before \in [1..n -> Attributes],
         NEW from \in [0..n -> Seq(Byte)],
         \A k \in 1..n : /\ ~Wanted(type, before[k].type, before[k].value)
                         /\ from[k - 1] = Attribute(before[k].type, before[k].value) \o from[k],
         NEW a \in Attributes, Wanted(type, a.type, a.value), NEW after \in Seq(Byte),
         NEW cut \in Nat, cut <= Len(Attribute(a.type, a.value) \o after),
         from[n] = SubSeq(Attribute(a.type, a.value) \o after, 1, cut)
  PROVE  Find(from[0], type) = IF cut >= HeaderLen + Len(a.value) THEN a.value ELSE None
<1>1. \A s \in Seq(Byte) : s \in Seq(Nat)
  <2>1. Byte \subseteq Nat
    BY DEF Byte
  <2>. QED  BY <2>1, SeqMonotonic
<1>2. type \in Nat /\ a.type = type /\ a.value \in Seq(Nat) /\ after \in Seq(Nat)
  <2>1. type \in Nat /\ a.type = type
    BY DEF Wanted, Byte
  <2>2. a.value \in Seq(Byte)
    BY DEF Attributes
  <2>. QED  BY <1>1, <2>1, <2>2
<1>3. Find(from[n], type) = IF cut >= HeaderLen + Len(a.value) THEN a.value ELSE None
  BY <1>2, Found
<1> DEFINE Bad == {k \in 0..n : Find(from[k], type) # Find(from[0], type)}
<1>4. ASSUME Bad # {} PROVE FALSE
  <2>1. PICK k \in Bad : \A m \in Bad : k <= m
    <3>1. Bad \in SUBSET Nat
      OBVIOUS
    <3> HIDE DEF Bad
    <3>. QED  BY <1>4, <3>1, LeastNumber
  <2>2. k \in 1..n /\ k - 1 \in 0..n /\ k - 1 \notin Bad
    <3>1. k \in 0..n /\ k # 0
      BY <2>1
    <3>2. k \in 1..n /\ k - 1 \in 0..n /\ ~(k <= k - 1)
      BY <3>1
    <3>. QED  BY <2>1, <3>2
  <2>3. /\ before[k].type \in Nat /\ before[k].value \in Seq(Nat) /\ from[k] \in Seq(Nat)
        /\ ~Wanted(type, before[k].type, before[k].value)
        /\ from[k - 1] = Attribute(before[k].type, before[k].value) \o from[k]
    <3>1. before[k] \in Attributes /\ from[k] \in Seq(Byte)
      BY <2>2
    <3>2. before[k].type \in Nat /\ before[k].value \in Seq(Byte)
      <4>1. before[k].type \in Byte /\ before[k].value \in {v \in Seq(Byte) : Len(v) \in Byte}
        BY <3>1 DEF Attributes
      <4>2. before[k].type \in Nat
        <5>1. \A b \in Byte : b \in Nat
          BY DEF Byte
        <5>. QED  BY <4>1, <5>1
      <4>. QED  BY <4>1, <4>2
    <3>. QED  BY <1>1, <2>2, <3>1, <3>2
  <2>4. Find(from[k - 1], type) = Find(from[k], type)
    BY <2>3, Passed
  <2>. QED  BY <2>1, <2>2, <2>4
<1>5. n \in 0..n /\ n \notin Bad
  <2>1. n \in 0..n
    OBVIOUS
  <2> HIDE DEF Bad
  <2>. QED  BY <1>4, <2>1
<1>. QED  BY <1>3, <1>5

-----------------------------------------------------------------------------
(* What the encoders write and the parsers read *)

\* A byte is the sum of its bits,
LEMMA BitsOfByte ==
  ASSUME NEW n \in Byte
  PROVE  /\ \A w \in {1, 2, 4, 8, 16, 32, 64, 128} : Bit(n, w) \in 0..1
         /\ n = Bit(n, 1) + Bit(n, 2) * 2 + Bit(n, 4) * 4 + Bit(n, 8) * 8
                  + Bit(n, 16) * 16 + Bit(n, 32) * 32 + Bit(n, 64) * 64 + Bit(n, 128) * 128
BY DEF Byte, Bit

\* and has those that it is the sum of.
LEMMA ByteOfBits ==
  ASSUME NEW b1 \in 0..1, NEW b2 \in 0..1, NEW b3 \in 0..1, NEW b4 \in 0..1,
         NEW b5 \in 0..1, NEW b6 \in 0..1, NEW b7 \in 0..1, NEW b8 \in 0..1, NEW n,
         n = b1 + b2 * 2 + b3 * 4 + b4 * 8 + b5 * 16 + b6 * 32 + b7 * 64 + b8 * 128
  PROVE  /\ n \in Byte
         /\ Bit(n, 1) = b1 /\ Bit(n, 2) = b2 /\ Bit(n, 4) = b3 /\ Bit(n, 8) = b4
         /\ Bit(n, 16) = b5 /\ Bit(n, 32) = b6 /\ Bit(n, 64) = b7 /\ Bit(n, 128) = b8
<1>1. n \in Byte
  BY DEF Byte
<1>2. Bit(n, 1) = b1 /\ Bit(n, 2) = b2
  BY DEF Bit
<1>3. Bit(n, 4) = b3 /\ Bit(n, 8) = b4
  BY DEF Bit
<1>4. Bit(n, 16) = b5 /\ Bit(n, 32) = b6 
  BY DEF Bit
<1>5. Bit(n, 64) = b7 /\ Bit(n, 128) = b8
  BY DEF Bit
<1>. QED  BY <1>1, <1>2, <1>3, <1>4, <1>5

LEMMA Flips == \A x, y \in 0..1 : (x + y) % 2 \in 0..1 /\ (((x + y) % 2) + y) % 2 = x
  OBVIOUS

\* a ^ b ^ b is a.
LEMMA XorTwice ==
  ASSUME NEW a \in Byte, NEW b \in Byte
  PROVE  XorByte(a, b) \in Byte /\ XorByte(XorByte(a, b), b) = a
<1> DEFINE flip(w) == (Bit(a, w) + Bit(b, w)) % 2
           x == XorByte(a, b)
<1>1. ASSUME NEW w \in {1, 2, 4, 8, 16, 32, 64, 128}
      PROVE  flip(w) \in 0..1 /\ (flip(w) + Bit(b, w)) % 2 = Bit(a, w)
  <2>1. Bit(a, w) \in 0..1 /\ Bit(b, w) \in 0..1
    BY BitsOfByte
  <2>. QED  BY <2>1, Flips
<1>2. x = flip(1) + flip(2) * 2 + flip(4) * 4 + flip(8) * 8
            + flip(16) * 16 + flip(32) * 32 + flip(64) * 64 + flip(128) * 128
  BY <1>1 DEF XorByte, Differ
<1> HIDE DEF x, flip
<1>3. /\ x \in Byte
      /\ Bit(x, 1) = flip(1) /\ Bit(x, 2) = flip(2) /\ Bit(x, 4) = flip(4) /\ Bit(x, 8) = flip(8)
      /\ Bit(x, 16) = flip(16) /\ Bit(x, 32) = flip(32) /\ Bit(x, 64) = flip(64) /\ Bit(x, 128) = flip(128)
  BY <1>1, <1>2, ByteOfBits
<1>4. XorByte(x, b) = Bit(a, 1) + Bit(a, 2) * 2 + Bit(a, 4) * 4 + Bit(a, 8) * 8
                    + Bit(a, 16) * 16 + Bit(a, 32) * 32 + Bit(a, 64) * 64 + Bit(a, 128) * 128
  <2>1. \A w \in {1, 2, 4, 8, 16, 32, 64, 128} : Bit(a, w) \in 0..1
    BY BitsOfByte
  <2>2. \A w \in {1, 2, 4, 8, 16, 32, 64, 128} : Differ(x, b, w) = Bit(a, w) * w
    BY <1>1, <1>3 DEF Differ
  <2>. QED  BY <2>1, <2>2 DEF XorByte
<1>5. XorByte(x, b) = a
  BY <1>4, BitsOfByte
<1>. QED  BY <1>3, <1>5 DEF x

LEMMA BytesAreNat == \A s \in Seq(Byte) : s \in Seq(Nat)
<1>1. Byte \subseteq Nat
  BY DEF Byte
<1>. QED  BY <1>1, SeqMonotonic

LEMMA Counted ==
  ASSUME NEW n \in Nat, NEW S, NEW s \in [1..n -> S]
  PROVE  s \in Seq(S) /\ Len(s) = n
<1>1. PICK q : q = [i \in 1..n |-> s[i]]
  OBVIOUS
<1>2. q \in Seq(S) /\ Len(q) = n
  BY <1>1
<1>3. q = s
  BY <1>1
<1>. QED  BY <1>2, <1>3

LEMMA MaskedTwice ==
  ASSUME NEW n \in 1..16, NEW bytes \in [1..n -> Byte], NEW txn \in [1..12 -> Byte]
  PROVE  Masked(bytes, txn) \in [1..n -> Byte] /\ Masked(Masked(bytes, txn), txn) = bytes
<1>1. PICK mask : mask = Cookie \o txn
  OBVIOUS
<1>2. \A i \in 1..16 : mask[i] \in Byte
  <2>1. Cookie \in Seq(Byte) /\ Len(Cookie) = 4
    BY DEF Cookie, Byte
  <2>2. txn \in Seq(Byte) /\ Len(txn) = 12
    BY Counted
  <2>3. mask \in Seq(Byte) /\ Len(mask) = 16
    <3>1. PICK c \in Seq(Byte) : c = Cookie /\ Len(c) = 4
      BY <2>1
    <3>2. c \o txn \in Seq(Byte) /\ Len(c \o txn) = Len(c) + Len(txn)
      BY <2>2, ConcatProperties
    <3>3. c \o txn = mask
      BY <1>1, <3>1
    <3>4. Len(c \o txn) = 16
      BY <2>2, <3>1, <3>2
    <3>. QED  BY <3>2, <3>3, <3>4
  <2>. QED  BY <2>3, ElementOfSeq
<1>3. \A b \in [1..n -> Byte] : Masked(b, txn) = [i \in 1..n |-> XorByte(b[i], mask[i])]
  <2>1. ASSUME NEW b \in [1..n -> Byte] PROVE Len(b) = n
    BY Counted
  <2>. QED  BY <1>1, <2>1 DEF Masked
<1>4. \A i \in 1..n : i \in 1..16
  OBVIOUS
<1> DEFINE once == [i \in 1..n |-> XorByte(bytes[i], mask[i])]
<1>5. once \in [1..n -> Byte]
  BY <1>2, <1>4, XorTwice
<1>6. [i \in 1..n |-> XorByte(once[i], mask[i])] = bytes
  BY <1>2, <1>4, XorTwice
<1> HIDE DEF once
<1>7. Masked(bytes, txn) = once /\ Masked(once, txn) = [i \in 1..n |-> XorByte(once[i], mask[i])]
  BY <1>3, <1>5 DEF once
<1>. QED  BY <1>5, <1>6, <1>7

\* A part of a joined sequence is there.
LEMMA Taken ==
  ASSUME NEW p \in Seq(Nat), NEW q \in Seq(Nat)
  PROVE  SubSeq(p \o q, Len(p) + 1, Len(p) + Len(q)) = q
<1>0. PICK k \in Nat, l \in Nat : k = Len(p) /\ l = Len(q)
  OBVIOUS
<1>1. PICK r : r = p \o q
  OBVIOUS
<1>2. \A i \in 1..l : r[k + i] = q[i] /\ q[i] \in Nat
  <2>1. /\ p \o q \in Seq(Nat) /\ Len(p \o q) = k + l
        /\ \A i \in 1..k : (p \o q)[i] = p[i]
        /\ \A i \in 1..l : (p \o q)[k + i] = q[i]
    BY ONLY p \in Seq(Nat), q \in Seq(Nat), k \in Nat, l \in Nat, <1>0, Joined
  <2>2. \A i \in 1..l : q[i] \in Nat
    BY <1>0, ElementOfSeq
  <2>. QED  BY <1>1, <2>1, <2>2
<1>3. PICK part : part = SubSeq(r, k + 1, k + l)
  OBVIOUS
<1>4. part \in Seq(Nat) /\ Len(part) = l /\ \A i \in 1..l : part[i] = r[k + i]
  <2>1. \A i \in 1..l : r[k + i] \in Nat
    BY <1>2
  <2>2. PICK m \in Nat, n \in Nat : m = k /\ n = l
    OBVIOUS
  <2>3. \A i \in 1..n : r[m + i] \in Nat
    BY <2>1, <2>2
  <2>4. LET piece == SubSeq(r, m + 1, m + n)
        IN  piece \in Seq(Nat) /\ Len(piece) = n /\ \A i \in 1..n : piece[i] = r[m + i]
    BY <2>3, PartOf
  <2>. QED  BY <1>3, <2>2, <2>4
<1>5. part = q
  BY <1>0, <1>2, <1>4, SeqEqual
<1>. QED  BY <1>0, <1>1, <1>3, <1>5

\* A cut behind the first part is one of the second.
LEMMA CutBehind ==
  ASSUME NEW p \in Seq(Nat), NEW q \in Seq(Nat), NEW n \in 0..Len(q)
  PROVE  SubSeq(p \o q, 1, Len(p) + n) = p \o SubSeq(q, 1, n)
<1>0. PICK k \in Nat : k = Len(p)
  OBVIOUS
<1>1. PICK r : r = p \o q
  OBVIOUS
<1>2. PICK l \in Nat : l = Len(q) /\ n \in 0..l
  OBVIOUS
<1>3. /\ \A i \in 1..k : r[i] = p[i] /\ p[i] \in Nat
      /\ \A i \in 1..l : r[k + i] = q[i] /\ q[i] \in Nat
  <2>1. /\ \A i \in 1..k : (p \o q)[i] = p[i]
        /\ \A i \in 1..l : (p \o q)[k + i] = q[i]
    BY <1>0, <1>2, Joined
  <2>2. /\ \A i \in 1..k : p[i] \in Nat
        /\ \A i \in 1..l : q[i] \in Nat
    BY <1>0, <1>2, ElementOfSeq
  <2>. QED  BY <1>1, <2>1, <2>2
<1>4. \A i \in 1..n : i \in 1..l
  BY <1>2
<1> DEFINE whole == SubSeq(r, 1, k + n)
           end == SubSeq(q, 1, n)
<1>5. whole \in Seq(Nat) /\ Len(whole) = k + n /\ \A i \in 1..k + n : whole[i] = r[i]
  <2>1. ASSUME NEW i \in 1..k + n PROVE r[0 + i] \in Nat
    <3>1. CASE i \in 1..k
      BY <1>3, <3>1
    <3>2. CASE i \notin 1..k
      <4>1. PICK j \in 1..l : i = k + j
        <5>1. i - k \in 1..n /\ i = k + (i - k)
          BY <3>2
        <5>. QED  BY <1>4, <5>1
      <4>2. r[k + j] = q[j] /\ q[j] \in Nat
        BY <1>3
      <4>3. 0 + i = k + j
        BY <4>1
      <4>. QED  BY <4>2, <4>3
    <3>. QED  BY <3>1, <3>2
  <2>2. k + n \in Nat /\ 0 \in Nat
    OBVIOUS
  <2>3. LET part == SubSeq(r, 0 + 1, 0 + (k + n))
        IN  part \in Seq(Nat) /\ Len(part) = k + n /\ \A i \in 1..k + n : part[i] = r[0 + i]
    BY <2>1, <2>2, PartOf
  <2>4. 0 + 1 = 1 /\ 0 + (k + n) = k + n /\ \A i \in 1..k + n : 0 + i = i
    OBVIOUS
  <2>. QED  BY <2>3, <2>4
<1>6. end \in Seq(Nat) /\ Len(end) = n /\ \A i \in 1..n : end[i] = q[i]
  <2>1. \A i \in 1..n : q[0 + i] \in Nat
    BY <1>3, <1>4
  <2>2. LET part == SubSeq(q, 0 + 1, 0 + n)
        IN  part \in Seq(Nat) /\ Len(part) = n /\ \A i \in 1..n : part[i] = q[0 + i]
    BY <2>1, PartOf
  <2>3. 0 + 1 = 1 /\ 0 + n = n /\ \A i \in 1..n : 0 + i = i
    OBVIOUS
  <2>. QED  BY <2>2, <2>3
<1> HIDE DEF whole, end
<1>7. PICK parts : parts = p \o end
  OBVIOUS
<1>8. /\ parts \in Seq(Nat) /\ Len(parts) = k + n
      /\ \A i \in 1..k : parts[i] = p[i]
      /\ \A i \in 1..n : parts[k + i] = end[i]
  <2>1. PICK t \in Seq(Nat) : t = end /\ n = Len(t)
    BY <1>6
  <2>2. /\ p \o t \in Seq(Nat) /\ Len(p \o t) = k + n
        /\ \A i \in 1..k : (p \o t)[i] = p[i]
        /\ \A i \in 1..n : (p \o t)[k + i] = t[i]
    BY <1>0, <2>1, Joined
  <2>. QED  BY <1>7, <2>1, <2>2
<1>9. ASSUME NEW i \in 1..k + n PROVE whole[i] = parts[i]
  <2>1. CASE i \in 1..k
    BY <1>3, <1>5, <1>8, <2>1
  <2>2. CASE i \notin 1..k
    <3>1. PICK j \in 1..n : i = k + j
      <4>1. i - k \in 1..n /\ i = k + (i - k)
        BY <2>2
      <4>. QED  BY <4>1
    <3>2. j \in 1..l /\ k + j \in 1..k + n
      BY <1>4, <3>1
    <3>3. whole[k + j] = r[k + j] /\ r[k + j] = q[j]
      BY <1>3, <1>5, <3>2
    <3>4. parts[k + j] = end[j] /\ end[j] = q[j]
      BY <1>6, <1>8
    <3>. QED  BY <3>1, <3>3, <3>4
  <2>. QED  BY <2>1, <2>2
<1>10. whole = parts
  BY <1>5, <1>8, <1>9, SeqEqual
<1>. QED  BY <1>0, <1>1, <1>7, <1>10 DEF whole, end
LEMMA SentAnswers ==
  ASSUME NEW s \in Sent
  PROVE  /\ s.type \in {"success", "error"}
         /\ s.type = "success" =>
              \E n \in {4, 16} : /\ s.is = [port |-> s.is.port, ip |-> s.is.ip]
                                 /\ s.is.port \in [1..2 -> Byte] /\ s.is.ip \in [1..n -> Byte]
         /\ s.type = "error" =>
              /\ s.is = [code |-> s.is.code, reason |-> s.is.reason]
              /\ s.is.code \in 0..799 /\ s.is.reason \in Seq(Byte)
<1>1. \/ s \in [type : {"success"}, is : [port : [1..2 -> Byte], ip : [1..4 -> Byte] \cup [1..16 -> Byte]]]
      \/ s \in [type : {"error"}, is : [code : 0..799, reason : {r \in Seq(Byte) : Len(r) + 4 \in Byte}]]
  BY CodecAssumption DEF Answers
<1>2. CASE s \in [type : {"success"}, is : [port : [1..2 -> Byte], ip : [1..4 -> Byte] \cup [1..16 -> Byte]]]
  <2>1. s.type = "success" /\ s.is \in [port : [1..2 -> Byte], ip : [1..4 -> Byte] \cup [1..16 -> Byte]]
    BY <1>2
  <2>2. PICK addr : addr = s.is
    OBVIOUS
  <2>3. /\ addr = [port |-> addr.port, ip |-> addr.ip]
        /\ addr.port \in [1..2 -> Byte] /\ addr.ip \in [1..4 -> Byte] \cup [1..16 -> Byte]
    BY <2>1, <2>2
  <2>4. \E n \in {4, 16} : addr.ip \in [1..n -> Byte]
    BY <2>3
  <2>. QED  BY <2>1, <2>2, <2>3, <2>4
<1>3. CASE s \in [type : {"error"}, is : [code : 0..799, reason : {r \in Seq(Byte) : Len(r) + 4 \in Byte}]]
  <2>1. s.type = "error" /\ s.is \in [code : 0..799, reason : {r \in Seq(Byte) : Len(r) + 4 \in Byte}]
    BY <1>3
  <2>2. PICK error : error = s.is
    OBVIOUS
  <2>3. /\ error = [code |-> error.code, reason |-> error.reason]
        /\ error.code \in 0..799 /\ error.reason \in {r \in Seq(Byte) : Len(r) + 4 \in Byte}
    BY <2>1, <2>2
  <2>4. error.reason \in Seq(Byte)
    BY <2>3
  <2>. QED  BY <2>1, <2>2, <2>3, <2>4
<1>. QED  BY <1>1, <1>2, <1>3

\* The value of an address, with which the parser starts, and the address in it.
LEMMA ValueRead ==
  ASSUME NEW n \in {4, 16}, NEW addr, addr = [port |-> addr.port, ip |-> addr.ip],
         addr.port \in [1..2 -> Byte], addr.ip \in [1..n -> Byte]
  PROVE  /\ Value(addr, Txn) \in Seq(Nat) /\ Len(Value(addr, Txn)) = 4 + n
         /\ Decoded(Value(addr, Txn), Txn) = {addr}
<1>0. Txn \in [1..12 -> Byte] /\ 2 \in 1..16 /\ n \in 1..16
  BY CodecAssumption
<1>1. PICK port : port = Masked(addr.port, Txn)
  OBVIOUS
<1>2. PICK ip : ip = Masked(addr.ip, Txn)
  OBVIOUS
<1>3. /\ port \in Seq(Nat) /\ Len(port) = 2 /\ Masked(port, Txn) = addr.port
      /\ ip \in Seq(Nat) /\ Len(ip) = n /\ Masked(ip, Txn) = addr.ip
  <2>1. port \in [1..2 -> Byte] /\ Masked(port, Txn) = addr.port
    BY <1>0, <1>1, MaskedTwice
  <2>2. ip \in [1..n -> Byte] /\ Masked(ip, Txn) = addr.ip
    BY <1>0, <1>2, MaskedTwice
  <2>3. port \in Seq(Byte) /\ Len(port) = 2
    BY <2>1, Counted
  <2>4. ip \in Seq(Byte) /\ Len(ip) = n
    BY <1>0, <2>2, Counted
  <2>. QED  BY <2>1, <2>2, <2>3, <2>4, BytesAreNat
<1>4. PICK family \in Nat : family = IF n = 4 THEN 1 ELSE 2
  OBVIOUS
<1>5. PICK head \in Seq(Nat) : head = <<0, family>> /\ Len(head) = 2 /\ head[2] = family
  <2>1. <<0, family>> \in Seq(Nat) /\ Len(<<0, family>>) = 2 /\ <<0, family>>[2] = family
    OBVIOUS
  <2>. QED  BY <2>1
<1>6. PICK front : front = head \o port
  OBVIOUS
<1>7. /\ front \in Seq(Nat) /\ Len(front) = 4 /\ front[2] = family
      /\ SubSeq(front, 3, 4) = port /\ \A i \in 1..2 : front[2 + i] = port[i]
  <2>1. PICK k \in Nat, l \in Nat : k = 2 /\ l = 2
    OBVIOUS
  <2>2. k = Len(head) /\ l = Len(port)
    BY <1>3, <1>5, <2>1
  <2>3. /\ head \o port \in Seq(Nat) /\ Len(head \o port) = k + l
        /\ \A i \in 1..k : (head \o port)[i] = head[i]
        /\ \A i \in 1..l : (head \o port)[k + i] = port[i]
    <3>1. PICK y \in Seq(Nat) : y = port
      BY <1>3
    <3>2. l = Len(y)
      BY <2>2, <3>1
    <3>3. /\ head \o y \in Seq(Nat) /\ Len(head \o y) = k + l
          /\ \A i \in 1..k : (head \o y)[i] = head[i]
          /\ \A i \in 1..l : (head \o y)[k + i] = y[i]
      BY ONLY k \in Nat, l \in Nat, head \in Seq(Nat), y \in Seq(Nat), <2>2, <3>2, Joined
    <3>. QED  BY <3>1, <3>3
  <2>4. SubSeq(head \o port, k + 1, k + l) = port
    BY <1>3, <2>2, Taken
  <2>5. k + 1 = 3 /\ k + l = 4 /\ k \in 1..k
    BY <2>1
  <2>6. SubSeq(front, 3, 4) = port
    BY <1>6, <2>4, <2>5
  <2>. QED  BY <1>5, <1>6, <2>1, <2>3, <2>5, <2>6
<1>8. PICK value : value = front \o ip
  OBVIOUS
<1>9. Value(addr, Txn) = value
  <2>1. Len(addr.ip) = n
    BY <1>0, Counted
  <2>. QED  BY <1>1, <1>2, <1>4, <1>5, <1>6, <1>8, <2>1 DEF Value
<1>10. /\ value \in Seq(Nat) /\ Len(value) = 4 + n /\ \A i \in 1..4 : value[i] = front[i]
       /\ SubSeq(value, 5, 4 + n) = ip
  <2>1. PICK k \in Nat : k = 4
    OBVIOUS
  <2>2. PICK l \in Nat : l = n
    OBVIOUS
  <2>0. front \in Seq(Nat) /\ ip \in Seq(Nat) /\ k = Len(front) /\ l = Len(ip)
    BY <1>3, <1>7, <2>1, <2>2
  <2>3. /\ front \o ip \in Seq(Nat) /\ Len(front \o ip) = k + l
        /\ \A i \in 1..k : (front \o ip)[i] = front[i]
    BY <2>0, Joined
  <2>4. SubSeq(front \o ip, k + 1, k + l) = ip
    BY <1>3, <1>7, <2>0, Taken
  <2>5. k + 1 = 5 /\ k + l = 4 + n
    BY <2>1, <2>2
  <2>6. SubSeq(value, 5, 4 + n) = ip
    BY <1>8, <2>4, <2>5
  <2>. QED  BY <1>8, <2>1, <2>3, <2>5, <2>6
<1>11. value[2] = family
  <2>1. 2 \in 1..4
    OBVIOUS
  <2>. QED  BY <1>7, <1>10, <2>1
<1>12. SubSeq(value, 3, 4) = port
  <2>1. PICK part : part = SubSeq(value, 3, 4)
    OBVIOUS
  <2>2. part \in Seq(Nat) /\ Len(part) = 2 /\ \A i \in 1..2 : part[i] = value[2 + i]
    <3>1. PICK v \in Seq(Nat) : v = value
      BY <1>10
    <3>2. Len(v) >= 4
      <4>1. Len(v) = 4 + n
        BY <1>10, <3>1
      <4>. QED  BY <4>1
    <3>3. part = SubSeq(v, 3, 4)
      BY <2>1, <3>1
    <3>4. part \in Seq(Nat) /\ Len(part) = 2 /\ \A i \in 1..2 : part[i] = v[2 + i]
      BY <3>2, <3>3, PortOf
    <3>. QED  BY <3>1, <3>4
  <2>3. ASSUME NEW i \in 1..2 PROVE part[i] = port[i]
    <3>1. 2 + i \in 1..4
      OBVIOUS
    <3>. QED  BY <1>7, <1>10, <2>2, <3>1
  <2>4. part = port
    BY <1>3, <2>2, <2>3, SeqEqual
  <2>. QED  BY <2>1, <2>4
<1>13. {x \in {4, 16} : Len(value) >= 4 + x /\ value[2] = (IF x = 4 THEN 1 ELSE 2)} = {n}
  <2>1. value[2] = (IF n = 4 THEN 1 ELSE 2)
    BY <1>4, <1>11
  <2>2. ASSUME NEW x \in {4, 16}
        PROVE  Len(value) >= 4 + x /\ value[2] = (IF x = 4 THEN 1 ELSE 2) <=> x = n
    <3>1. PICK size \in Nat : size = Len(value) /\ size = 4 + n
      BY <1>10
    <3>2. CASE x = n
      BY <2>1, <3>1, <3>2
    <3>3. CASE x # n
      <4>1. (IF x = 4 THEN 1 ELSE 2) # (IF n = 4 THEN 1 ELSE 2)
        BY <3>3
      <4>. QED  BY <2>1, <3>3, <4>1
    <3>. QED  BY <3>2, <3>3
  <2>. QED  BY <2>2
<1>14. Decoded(value, Txn) = {[port |-> Masked(port, Txn), ip |-> Masked(ip, Txn)]}
  <2>1. PICK sizes : sizes = {x \in {4, 16} : Len(value) >= 4 + x /\ value[2] = (IF x = 4 THEN 1 ELSE 2)}
    OBVIOUS
  <2>2. Decoded(value, Txn)
          = {[port |-> Masked(SubSeq(value, 3, 4), Txn), ip |-> Masked(SubSeq(value, 5, 4 + size), Txn)] : size \in sizes}
    BY <2>1 DEF Decoded
  <2>3. sizes = {n}
    BY <1>13, <2>1
  <2>4. SubSeq(value, 5, 4 + n) = ip
    BY <1>10
  <2>. QED  BY <1>12, <2>2, <2>3, <2>4
<1>15. Decoded(value, Txn) = {addr}
  BY <1>3, <1>14
<1>. QED  BY <1>9, <1>10, <1>15

\* Three bits and two digits are enough for the code.
LEMMA Digits ==
  ASSUME NEW code \in 0..799
  PROVE  /\ (code \div 100) % 8 \in Nat /\ code % 100 \in Nat
         /\ (((code \div 100) % 8) % 8) * 100 + (code % 100) = code
<1>1. PICK q \in 0..7, d \in 0..99 : code = 100 * q + d
  OBVIOUS
<1>2. (100 * q + d) \div 100 = q /\ (100 * q + d) % 100 = d /\ q % 8 = q
  OBVIOUS
<1>. QED  BY <1>1, <1>2

\* The value of an error, and the error in it.
LEMMA ErrorRead ==
  ASSUME NEW code \in 0..799, NEW reason \in Seq(Nat), NEW error, error = [code |-> code, reason |-> reason]
  PROVE  /\ ErrorValue(error) \in Seq(Nat) /\ Len(ErrorValue(error)) = 4 + Len(reason)
         /\ Error(ErrorValue(error)) = error
<1>1. error.code = code /\ error.reason = reason
  OBVIOUS
<1>2. PICK class \in Nat, number \in Nat :
        class = (code \div 100) % 8 /\ number = code % 100
  BY Digits
<1>3. (class % 8) * 100 + number = code
  BY <1>2, Digits
<1>4. PICK head \in Seq(Nat) : head = <<0, 0, class, number>> /\ Len(head) = 4 /\ head[3] = class /\ head[4] = number
  <2> DEFINE h == <<0, 0, class, number>>
  <2>1. h \in Seq(Nat) /\ Len(h) = 4 /\ h[3] = class /\ h[4] = number
    OBVIOUS
  <2>. QED  BY <2>1
<1>5. PICK value : value = head \o reason
  OBVIOUS
<1>6. PICK l \in Nat : l = Len(reason)
  OBVIOUS
<1>7. /\ value \in Seq(Nat) /\ Len(value) = 4 + l /\ value[3] = class /\ value[4] = number
      /\ SubSeq(value, 5, 4 + l) = reason
  <2>1. PICK k \in Nat : k = 4
    OBVIOUS
  <2>0. k = Len(head) /\ l = Len(reason)
    BY <1>4, <1>6, <2>1
  <2>2. /\ head \o reason \in Seq(Nat) /\ Len(head \o reason) = k + l
        /\ \A i \in 1..k : (head \o reason)[i] = head[i]
    BY <1>4, <1>6, <2>0, Joined
  <2>3. SubSeq(head \o reason, k + 1, k + l) = reason
    BY <1>4, <1>6, <2>0, Taken
  <2>4. k + 1 = 5 /\ k + l = 4 + l /\ 3 \in 1..k /\ 4 \in 1..k
    BY <2>1
  <2>5. SubSeq(value, 5, 4 + l) = reason
    BY <1>5, <2>3, <2>4
  <2>6. value[3] = head[3] /\ value[4] = head[4]
    BY <1>5, <2>2, <2>4
  <2>. QED  BY <1>4, <1>5, <2>2, <2>4, <2>5, <2>6
<1>8. ErrorValue(error) = value
  BY <1>1, <1>2, <1>4, <1>5 DEF ErrorValue
<1>9. Error(value) = [code |-> code, reason |-> reason]
  BY <1>3, <1>7 DEF Error
<1>. QED  BY <1>1, <1>6, <1>7, <1>8, <1>9

LEMMA FirstPassed ==
  ASSUME NEW s \in Sent, NEW first \in Firsts(s)
  PROVE  first \in Seq(Nat) /\ \A rest \in Seq(Nat) : Find(first \o rest, Tag(s)) = Find(rest, Tag(s))
<1>1. CASE first = None
  <2>1. first \in Seq(Nat)
    BY <1>1 DEF None
  <2>2. ASSUME NEW rest \in Seq(Nat) PROVE first \o rest = rest
    BY <1>1, ConcatEmptySeq DEF None
  <2>. QED  BY <2>1, <2>2
<1>2. CASE first # None
  <2>1. PICK o \in Others : ~Wanted(Tag(s), o.type, o.value) /\ first = Attribute(o.type, o.value)
    BY <1>2 DEF Firsts
  <2>2. o.type \in Byte /\ o.value \in Seq(Byte)
    <3>1. o \in Attributes
      BY CodecAssumption
    <3>. QED  BY <3>1 DEF Attributes
  <2>3. PICK t \in Nat, value \in Seq(Nat) : t = o.type /\ value = o.value
    <3>1. o.type \in Nat
      <4>1. \A b \in Byte : b \in Nat
        BY DEF Byte
      <4>. QED  BY <2>2, <4>1
    <3>. QED  BY <2>2, <3>1, BytesAreNat
  <2>4. ~Wanted(Tag(s), t, value) /\ first = Attribute(t, value)
    BY <2>1, <2>3
  <2>5. first \in Seq(Nat)
    <3>1. PICK n \in Nat : n = Len(value)
      OBVIOUS
    <3>. QED  BY <2>4, <3>1, AttributeLaid
  <2>. QED  BY <2>4, <2>5, Passed
<1>. QED  BY <1>1, <1>2

\* The walk stops at the value of an answer, from which the answer is read, and nothing is
\* read where the walk finds nothing.
LEMMA AnswerRead ==
  ASSUME NEW s \in Sent
  PROVE  /\ Tag(s) \in Nat /\ ValueOf(s) \in Seq(Nat) /\ Wanted(Tag(s), Tag(s), ValueOf(s))
         /\ \A attrs : LET read == Read([type |-> s.type, txn |-> Txn, attrs |-> attrs], Txn)
                       IN  /\ Find(attrs, Tag(s)) = ValueOf(s) => read = {s.is}
                           /\ Find(attrs, Tag(s)) = None => read = {}
<1>1. CASE s.type = "success"
  <2>1. PICK n \in {4, 16} : /\ s.is = [port |-> s.is.port, ip |-> s.is.ip]
                             /\ s.is.port \in [1..2 -> Byte] /\ s.is.ip \in [1..n -> Byte]
    BY <1>1, SentAnswers
  <2>2. Tag(s) = Mapped /\ ValueOf(s) = Value(s.is, Txn)
    BY <1>1 DEF Tag, ValueOf
  <2>3. ValueOf(s) \in Seq(Nat) /\ Decoded(ValueOf(s), Txn) = {s.is}
    BY <2>1, <2>2, ValueRead
  <2>4. Tag(s) \in Nat /\ Wanted(Tag(s), Tag(s), ValueOf(s))
    BY <2>2 DEF Wanted, Mapped, ErrorCode
  <2>5. Decoded(None, Txn) = {}
    <3>1. {n2 \in {4, 16} : Len(None) >= 4 + n2 /\ None[2] = (IF n2 = 4 THEN 1 ELSE 2)} = {}
      BY DEF None
    <3>. QED  BY <3>1 DEF Decoded
  <2>6. ASSUME NEW attrs
        PROVE  Read([type |-> s.type, txn |-> Txn, attrs |-> attrs], Txn) = Decoded(Find(attrs, Tag(s)), Txn)
    BY <1>1, <2>2 DEF Read
  <2>. QED  BY <2>3, <2>4, <2>5, <2>6
<1>2. CASE s.type = "error"
  <2>1. /\ s.is = [code |-> s.is.code, reason |-> s.is.reason]
        /\ s.is.code \in 0..799 /\ s.is.reason \in Seq(Byte)
    BY <1>2, SentAnswers
  <2>2. Tag(s) = ErrorCode /\ ValueOf(s) = ErrorValue(s.is)
    BY <1>2 DEF Tag, ValueOf
  <2>3. /\ ValueOf(s) \in Seq(Nat) /\ Len(ValueOf(s)) >= 4
        /\ Error(ValueOf(s)) = s.is
    <3>1. PICK code \in 0..799, reason \in Seq(Nat) : s.is = [code |-> code, reason |-> reason]
      BY <2>1, BytesAreNat
    <3>2. /\ ErrorValue(s.is) \in Seq(Nat) /\ Len(ErrorValue(s.is)) = 4 + Len(reason)
          /\ Error(ErrorValue(s.is)) = s.is
      BY <3>1, ErrorRead
    <3>3. Len(reason) \in Nat
      OBVIOUS
    <3>. QED  BY <2>2, <3>2, <3>3
  <2>4. Tag(s) \in Nat /\ Wanted(Tag(s), Tag(s), ValueOf(s))
    BY <2>2, <2>3 DEF Wanted, ErrorCode
  <2>5. ValueOf(s) # None
    BY <2>3 DEF None
  <2>6. ASSUME NEW attrs
        PROVE  Read([type |-> s.type, txn |-> Txn, attrs |-> attrs], Txn)
                 = {Error(v) : v \in {Find(attrs, Tag(s))} \ {None}}
    BY <1>2, <2>2 DEF Read
  <2>7. {Error(v) : v \in {ValueOf(s)} \ {None}} = {s.is} /\ {Error(v) : v \in {None} \ {None}} = {}
    BY <2>3, <2>5
  <2>. QED  BY <2>3, <2>4, <2>6, <2>7
<1>. QED  BY <1>1, <1>2, SentAnswers

LEMMA Regrouped == \A p, q, r \in Seq(Nat) : (p \o q) \o r = p \o (q \o r)
  OBVIOUS

LEMMA WalkReadsBack ==
  ASSUME NEW s \in Sent, NEW a \in Firsts(s), NEW b \in Firsts(s)
  PROVE  ReadsBack(s, a \o b)
<1>1. PICK type \in Nat, value \in Seq(Nat) :
        type = Tag(s) /\ value = ValueOf(s) /\ Wanted(type, type, value)
  BY AnswerRead
<1>2. PICK last \in Seq(Nat) : last = Attribute(type, value)
  <2>1. PICK n \in Nat : n = Len(value)
    OBVIOUS
  <2>. QED  BY <2>1, AttributeLaid
<1>3. a \in Seq(Nat) /\ b \in Seq(Nat)
  BY FirstPassed
<1>4. PICK before \in Seq(Nat) : before = a \o b
  BY <1>3, ConcatProperties
<1>5. PICK k \in Nat : k = Len(before)
  OBVIOUS
<1>6. ASSUME NEW cut \in Nat, cut <= Len(last)
      PROVE  Find(SubSeq(before \o last, 1, k + cut), type) = IF cut >= HeaderLen + Len(value) THEN value ELSE None
  <2>1. PICK part \in Seq(Nat) : part = SubSeq(last, 1, cut)
    <3>1. \A i \in 1..cut : last[0 + i] \in Nat
      BY <1>6, ElementOfSeq
    <3>2. LET piece == SubSeq(last, 0 + 1, 0 + cut)
          IN  piece \in Seq(Nat) /\ Len(piece) = cut /\ \A i \in 1..cut : piece[i] = last[0 + i]
      BY <3>1, PartOf
    <3>3. 0 + 1 = 1 /\ 0 + cut = cut
      OBVIOUS
    <3>. QED  BY <3>2, <3>3
  <2>2. SubSeq(before \o last, 1, k + cut) = before \o part
    <3>1. SubSeq(before \o last, 1, k + cut) = before \o SubSeq(last, 1, cut)
      <4>1. cut \in 0..Len(last)
        BY <1>6
      <4>2. SubSeq(before \o last, 1, Len(before) + cut) = before \o SubSeq(last, 1, cut)
        BY <4>1, CutBehind
      <4>. QED  BY <1>5, <4>2
    <3>. QED  BY <2>1, <3>1
  <2>3. before \o part = a \o (b \o part)
    <3>1. (a \o b) \o part = a \o (b \o part)
      <4>1. PICK x \in Seq(Nat), y \in Seq(Nat) : x = a /\ y = b
        BY <1>3
      <4>2. (x \o y) \o part = x \o (y \o part)
        OBVIOUS
      <4>. QED  BY <4>1, <4>2
    <3>. QED  BY <1>4, <3>1
  <2>4. b \o part \in Seq(Nat)
    BY <1>3, ConcatProperties
  <2>5. Find(a \o (b \o part), type) = Find(part, type)
    BY <1>1, <2>4, FirstPassed
  <2>6. Find(part, type) = IF cut >= HeaderLen + Len(value) THEN value ELSE None
    <3>1. PICK after \in Seq(Nat) : after = <<>>
      <4>1. <<>> \in Seq(Nat)
        OBVIOUS
      <4>. QED  BY <4>1
    <3>2. Attribute(type, value) \o after = last
      BY <1>2, <3>1, ConcatEmptySeq
    <3>3. cut <= Len(Attribute(type, value) \o after)
      BY <1>6, <3>2
    <3>4. Find(SubSeq(Attribute(type, value) \o after, 1, cut), type)
            = IF cut >= HeaderLen + Len(value) THEN value ELSE None
      <4>1. Wanted(type, type, value)
        BY <1>1
      <4>2. PICK m \in Nat : m = cut /\ m <= Len(Attribute(type, value) \o after)
        BY <3>3
      <4>3. Find(SubSeq(Attribute(type, value) \o after, 1, m), type)
              = IF m >= HeaderLen + Len(value) THEN value ELSE None
        BY <4>1, <4>2, Found
      <4>. QED  BY <4>2, <4>3
    <3>. QED  BY <2>1, <3>2, <3>4
  <2>. QED  BY <2>2, <2>3, <2>5, <2>6
<1> DEFINE attrs == before \o last
           response(t, n) == [type |-> s.type, txn |-> t, attrs |-> SubSeq(attrs, 1, n)]
<1>7. Len(attrs) = k + Len(last) /\ Len(last) \in Nat /\ Len(value) \in Nat
  <2>1. PICK l \in Nat : l = Len(last)
    OBVIOUS
  <2>2. Len(before \o last) = k + l
    BY <1>5, <2>1, Joined
  <2>. QED  BY <2>1, <2>2
<1>8. ASSUME NEW n \in k..Len(attrs)
      PROVE  /\ Read(response(Txn, n), Txn) = IF n >= k + HeaderLen + Len(value) THEN {s.is} ELSE {}
             /\ Read(response(Stale, n), Txn) = {}
  <2>1. PICK cut \in Nat : n = k + cut /\ cut <= Len(last)
    <3>1. n - k \in Nat /\ n = k + (n - k) /\ n - k <= Len(last)
      BY <1>7
    <3>. QED  BY <3>1
  <2>2. Find(SubSeq(attrs, 1, n), type) = IF cut >= HeaderLen + Len(value) THEN value ELSE None
    BY <1>6, <2>1
  <2>3. cut >= HeaderLen + Len(value) <=> n >= k + HeaderLen + Len(value)
    BY <1>7, <2>1 DEF HeaderLen
  <2>4. PICK message : message = SubSeq(attrs, 1, n)
    OBVIOUS
  <2>5. /\ Find(message, type) = value => Read([type |-> s.type, txn |-> Txn, attrs |-> message], Txn) = {s.is}
        /\ Find(message, type) = None => Read([type |-> s.type, txn |-> Txn, attrs |-> message], Txn) = {}
    BY <1>1, AnswerRead
  <2>6. Read([type |-> s.type, txn |-> Stale, attrs |-> message], Txn) = {}
    BY CodecAssumption DEF Read
  <2>. QED  BY <2>2, <2>3, <2>4, <2>5, <2>6
<1>9. Txn # Stale
  BY CodecAssumption
<1>10. \A n \in k..Len(attrs), t \in {Txn, Stale} :
         Read(response(t, n), Txn) = IF n >= k + HeaderLen + Len(value) /\ t = Txn THEN {s.is} ELSE {}
  <2> HIDE DEF attrs, response
  <2>. QED  BY <1>8, <1>9
<1>11. before \o Attribute(Tag(s), ValueOf(s)) = attrs /\ Len(before) = k /\ ValueOf(s) = value
  BY <1>1, <1>2, <1>5
<1> HIDE DEF attrs
<1>12. ReadsBack(s, before)
  BY <1>10, <1>11 DEF ReadsBack
<1>. QED  BY <1>4, <1>12

\* For any transactions, addresses, codes, reasons and other attributes, what the encoders
\* wrote is what run_probe reads, behind up to two other attributes and also without the
\* last padding; a response cut short or of an earlier transaction is read as nothing
\* (lib.rs:129-253, 278-335).
THEOREM WalkAlwaysFinds == Spec => []WalkFinds
<1>1. WalkFinds
  BY WalkReadsBack DEF WalkFinds
<1>. QED  BY <1>1, PTL
=============================================================================
