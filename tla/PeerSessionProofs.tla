------------------------- MODULE PeerSessionProofs -------------------------
(* Theorems about the experiment as it runs between the pages and the signaling room, *)
(* for every number of blocks, any limit of the room and any number of candidates.    *)
EXTENDS PeerSession, PeerProofs

\* fail, wherever the signaling half calls it, is what a timer could have done, or nothing.
LEMMA FailsIsExperiment ==
  ASSUME PeerInv, NEW r \in Role, Fails(r)
  PROVE  [Next]_vars
<1> DEFINE p == page[r]
<1>1. p \in Experiment /\ (p.outcome = "failed" => p.ended) /\ page \in [Role -> Experiment]
  BY DEF PeerInv, TypeOK, OutcomeInv
<1>2. CASE p.ended \/ p.outcome = "done"
  <2>1. Fail(p) = p BY <1>2 DEF Fail
  <2>2. page' = page /\ wire' = wire BY <1>1, <2>1 DEF Fails, Becomes
  <2>3. QED BY <2>2 DEF vars
<1>3. CASE ~(p.ended \/ p.outcome = "done")
  <2>1. ~p.ended /\ p.outcome = "none"
    BY <1>1, <1>3, Fields
  <2>2. GivesUp(r)
    BY <2>1 DEF GivesUp, Fails
  <2>3. QED BY <2>2 DEF Next
<1>4. QED BY <1>2, <1>3

LEMMA SessionStep ==
  ASSUME PeerInv, [SessionNext]_session
  PROVE  [Next]_vars
<1>1. CASE Experiments
  BY <1>1 DEF Experiments
<1>2. CASE Room
  BY <1>2 DEF Room, ExperimentKept, vars
<1>3. ASSUME NEW r \in Role,
             \/ Ignored(r) \/ hello(r) \/ connect(r) \/ remoteCandidate(r)
             \/ Created(r) \/ RemoteSet(r) \/ PendingAdded(r) \/ Added(r)
      PROVE  [Next]_vars
  BY <1>3 DEF Ignored, hello, connect, remoteCandidate, Created, RemoteSet, PendingAdded, Added,
              ExperimentKept, vars
<1>4. ASSUME NEW r \in Role,
             remoteDescription(r) \/ peerLeft(r) \/ LocalSet(r) \/ onicecandidate(r) \/ onclose(r)
      PROVE  [Next]_vars
  <2>1. ExperimentKept \/ Fails(r)
    BY <1>4 DEF remoteDescription, peerLeft, LocalSet, onicecandidate, onclose
  <2>2. QED BY <2>1, FailsIsExperiment DEF ExperimentKept, vars
<1>5. CASE UNCHANGED session
  BY <1>5 DEF session, vars
<1>6. QED BY <1>1, <1>2, <1>3, <1>4, <1>5 DEF SessionNext

\* The room and the signaling half of the pages do nothing to the experiment that its own
\* events could not do (peer.js onSignal, onclose, fail): signaling at most fails it, and
\* never after it has succeeded.
THEOREM SessionRunsExperiment == SessionSpec => ImplementsExperiment
<1>1. SessionInit => Init
  BY DEF SessionInit
<1>2. PeerInv /\ [SessionNext]_session => PeerInv'
  BY SessionStep, StepKeeps
<1>3. PeerInv /\ [SessionNext]_session => [Next]_vars
  BY SessionStep
<1>4. QED BY InitInv, <1>1, <1>2, <1>3, PTL DEF SessionSpec, Spec, ImplementsExperiment

\* Through the room as well, success on either page means that all blocks went both ways
\* (peer.js sendPayload, receiveComplete).
COROLLARY SessionSuccessIsEchoed == SessionSpec => []SuccessMeansEchoed
BY SessionRunsExperiment, SuccessIsEchoed, PTL DEF ImplementsExperiment

\* And the pages report as PeerAgreement says.
COROLLARY SessionPagesAgree == SessionSpec => ImplementsAgreement
BY SessionRunsExperiment, PagesAgree, PTL DEF ImplementsExperiment

\* The same between the pages and the room (peer.js:143).
COROLLARY SessionInOrder == SessionSpec => []InOrder
BY SessionRunsExperiment, MessagesInOrder, PTL DEF ImplementsExperiment

-----------------------------------------------------------------------------
(* Types of the room and of the signaling half *)

LEMMA SigMoves ==
  ASSUME NEW s \in [Role -> Sig], NEW r \in Role,
         NEW at \in Awaits
  PROVE  /\ [s EXCEPT ![r].at = at] \in [Role -> Sig]
         /\ [s EXCEPT ![r].at = at, ![r].local = TRUE] \in [Role -> Sig]
         /\ [s EXCEPT ![r].at = at, ![r].remote = TRUE] \in [Role -> Sig]
         /\ [s EXCEPT ![r].hello = TRUE] \in [Role -> Sig]
         /\ [s EXCEPT ![r].shut = TRUE] \in [Role -> Sig]
  <1>1. /\ [s[r] EXCEPT !.at = at] \in Sig
        /\ [s[r] EXCEPT !.at = at, !.local = TRUE] \in Sig
        /\ [s[r] EXCEPT !.at = at, !.remote = TRUE] \in Sig
        /\ [s[r] EXCEPT !.hello = TRUE] \in Sig
        /\ [s[r] EXCEPT !.shut = TRUE] \in Sig
    BY DEF Sig
  <1>2. \A x \in Sig : [s EXCEPT ![r] = x] \in [Role -> Sig]
    OBVIOUS
  <1> QED
    BY <1>1, <1>2

LEMMA SigCounts ==
  ASSUME NEW s \in [Role -> Sig], NEW r \in Role, NEW n \in Nat, NEW at \in Awaits
  PROVE  /\ [s EXCEPT ![r].pending = n] \in [Role -> Sig]
         /\ [s EXCEPT ![r].added = n, ![r].at = at] \in [Role -> Sig]
         /\ [s EXCEPT ![r].added = n, ![r].pending = 0, ![r].at = at] \in [Role -> Sig]
  <1>1. 0 \in Nat
    OBVIOUS
  <1>2. [s EXCEPT ![r].pending = n] \in [Role -> Sig]
    BY DEF Sig
  <1>3. [s EXCEPT ![r].added = n, ![r].at = at] \in [Role -> Sig]
    <2>1. [s[r] EXCEPT !.added = n, !.at = at] \in Sig
      BY DEF Sig
    <2> QED
      BY <2>1
  <1>4. [s EXCEPT ![r].added = n, ![r].pending = 0, ![r].at = at] \in [Role -> Sig]
    <2>1. [s[r] EXCEPT !.added = n, !.pending = 0, !.at = at] \in Sig
      BY <1>1 DEF Sig
    <2> QED
      BY <2>1
  <1> QED
    BY <1>2, <1>3, <1>4

LEMMA SigGathers ==
  ASSUME NEW s \in [Role -> Sig], NEW r \in Role, NEW n \in 0..MaxCandidates
  PROVE  [s EXCEPT ![r].gathered = n] \in [Role -> Sig]
  BY DEF Sig

LEMMA Parked ==
  /\ {"idle", "create", "local", "remote", "pending", "add"} \subseteq Awaits
  /\ {"admitted", "open", "closing", "closed"} \subseteq States
  BY DEF Awaits, States

LEMMA Forwards ==
  ASSUME RoomTypeOK, NEW r \in Role, NEW m \in Signals
  PROVE  Forward(r, m) \in [Role -> Seq(Signals)]
  BY DEF RoomTypeOK, Forward

LEMMA SignalTyped ==
  ASSUME RoomTypeOK, NEW r \in Role, NEW m \in {"offer", "answer", "candidate"}, Signal(r, m)
  PROVE  RoomTypeOK'
  BY DEF Signal, RoomTypeOK

LEMMA SignaledTyped ==
  ASSUME RoomTypeOK, NEW r \in Role, NEW m, Signaled(r, m)
  PROVE  RoomTypeOK'
  BY DEF Signaled, RoomTypeOK

\* The room keeps its limits: two admissions, and MaxMessages per socket.
LEMMA RoomTyped ==
  ASSUME RoomTypeOK, Room
  PROVE  RoomTypeOK'
  <1> USE DEF RoomTypeOK, Attachment
  <1>1. CASE alarm
    <2>1. \A r \in Role : socket'[r] = socket[r] \/ socket'[r] = [socket[r] EXCEPT !.state = "closing"]
      BY <1>1 DEF alarm
    <2>2. \A r \in Role : socket'[r] \in Attachment
      BY <2>1, Parked
    <2>3. socket' \in [Role -> Attachment]
      BY <1>1, <2>2 DEF alarm
    <2> QED
      BY <1>1, <2>3 DEF alarm
  <1>2. ASSUME NEW r \in Role, Admit(r) PROVE RoomTypeOK'
    <2>1. socket' \in [Role -> Attachment]
      <3>1. [socket[r] EXCEPT !.state = "admitted"] \in Attachment
        BY Parked
      <3> QED
        BY <1>2, <3>1 DEF Admit
    <2>2. joined' \in 0..2
      BY <1>2 DEF Admit
    <2> QED
      BY <1>2, <2>1, <2>2 DEF Admit
  <1>3. ASSUME NEW r \in Role, Accepts(r) PROVE RoomTypeOK'
    <2>1. Forward(Peer(r), "ready") \in [Role -> Seq(Signals)] /\ Peer(r) \in Role
      BY Forwards, Roles DEF Signals
    <2>2. <<"hello", "ready">> \in Seq(Signals) /\ <<"hello">> \in Seq(Signals)
      BY DEF Signals
    <2>3. down' \in [Role -> Seq(Signals)]
      BY <1>3, <2>1, <2>2 DEF Accepts
    <2>4. socket' \in [Role -> Attachment]
      BY <1>3, Parked DEF Accepts
    <2> QED
      BY <1>3, <2>3, <2>4 DEF Accepts
  <1>4. ASSUME NEW r \in Role, webSocketMessage(r) PROVE RoomTypeOK'
    <2>1. up[r] \in Seq({"offer", "answer", "candidate"}) /\ up[r] # <<>>
      BY <1>4 DEF webSocketMessage
    <2>2. Head(up[r]) \in Signals /\ up' \in [Role -> Seq({"offer", "answer", "candidate"})]
      BY <1>4, <2>1 DEF webSocketMessage, Signals
    <2>3. CASE Valid(r, Head(up[r]))
      <3>1. socket[r].messages + 1 \in 0..MaxMessages
        BY <2>3, RoomAssumption DEF Valid, Within
      <3>2. PICK n \in 0..MaxMessages : n = socket[r].messages + 1
        BY <3>1
      <3>3. PICK sent \in BOOLEAN :
              socket' = [socket EXCEPT ![r].messages = n, ![r].sdpSent = sent]
        BY <1>4, <2>3, <3>2 DEF webSocketMessage
      <3>4. socket' \in [Role -> Attachment]
        BY <3>3
      <3>5. down' \in [Role -> Seq(Signals)]
        BY <1>4, <2>2, <2>3, Forwards, Roles DEF webSocketMessage
      <3> QED
        BY <1>4, <2>2, <3>4, <3>5 DEF webSocketMessage
    <2>4. CASE ~Valid(r, Head(up[r]))
      <3>1. socket' \in [Role -> Attachment]
        BY <1>4, <2>4, Parked DEF webSocketMessage
      <3> QED
        BY <1>4, <2>2, <2>4, <3>1 DEF webSocketMessage
    <2> QED
      BY <2>3, <2>4
  <1>5. ASSUME NEW r \in Role, webSocketClose(r) PROVE RoomTypeOK'
    <2>1. down' \in [Role -> Seq(Signals)]
      BY <1>5, Forwards, Roles DEF webSocketClose, Signals
    <2>2. socket' \in [Role -> Attachment]
      BY <1>5, Parked DEF webSocketClose
    <2>3. <<>> \in Seq({"offer", "answer", "candidate"})
      OBVIOUS
    <2>4. up' \in [Role -> Seq({"offer", "answer", "candidate"})]
      BY <1>5, <2>3 DEF webSocketClose
    <2> QED
      BY <1>5, <2>1, <2>2, <2>4 DEF webSocketClose
  <1>6. ASSUME NEW r \in Role, webSocketError(r) PROVE RoomTypeOK'
    BY <1>6, Parked DEF webSocketError
  <1> QED
    BY <1>1, <1>2, <1>3, <1>4, <1>5, <1>6 DEF Room

LEMMA SessionTyped ==
  ASSUME SessionTypeOK, [SessionNext]_session
  PROVE  SessionTypeOK'
  <1> USE DEF SessionTypeOK
  <1>1. CASE UNCHANGED <<room, sig>>
    BY <1>1 DEF room, RoomTypeOK
  <1>2. CASE Room
    BY <1>2, RoomTyped DEF Room
  <1>3. ASSUME NEW r \in Role, Ignored(r) PROVE SessionTypeOK'
    BY <1>3 DEF Ignored, RoomTypeOK
  <1>4. ASSUME NEW r \in Role, NEW m, Signaled(r, m), sig' \in [Role -> Sig]
        PROVE  SessionTypeOK'
    BY <1>4, SignaledTyped
  <1>5. ASSUME NEW r \in Role, hello(r) \/ connect(r) PROVE SessionTypeOK'
    <2>1. \/ sig' = sig \/ sig' = [sig EXCEPT ![r].hello = TRUE]
          \/ sig' = [sig EXCEPT ![r].at = "create"]
      BY <1>5 DEF hello, connect, Goes
    <2>2. /\ [sig EXCEPT ![r].hello = TRUE] \in [Role -> Sig]
          /\ [sig EXCEPT ![r].at = "create"] \in [Role -> Sig]
      <3>1. "create" \in Awaits
        BY Parked
      <3> QED
        BY <3>1, SigMoves
    <2> QED
      BY <1>4, <1>5, <2>1, <2>2 DEF hello, connect
  <1>6. ASSUME NEW r \in Role, remoteDescription(r) \/ peerLeft(r) PROVE SessionTypeOK'
    <2>1. sig' = sig \/ sig' = [sig EXCEPT ![r].at = "remote"]
      BY <1>6 DEF remoteDescription, peerLeft, Goes
    <2>2. [sig EXCEPT ![r].at = "remote"] \in [Role -> Sig]
      <3>1. "remote" \in Awaits
        BY Parked
      <3> QED
        BY <3>1, SigMoves
    <2> QED
      BY <1>4, <1>6, <2>1, <2>2 DEF remoteDescription, peerLeft
  <1>7. ASSUME NEW r \in Role, remoteCandidate(r) PROVE SessionTypeOK'
    <2>1. sig[r].pending + Early(r) \in Nat
      BY DEF Sig, Early
    <2>2. PICK n \in Nat : n = sig[r].pending + Early(r)
      BY <2>1
    <2>3. sig' = [sig EXCEPT ![r].at = "add"] \/ sig' = [sig EXCEPT ![r].pending = n]
      BY <1>7, <2>2 DEF remoteCandidate, Goes
    <2>4. sig' \in [Role -> Sig]
      <3>1. [sig EXCEPT ![r].at = "add"] \in [Role -> Sig]
        BY SigMoves, Parked
      <3>2. [sig EXCEPT ![r].pending = n] \in [Role -> Sig]
        BY SigCounts, Parked
      <3> QED
        BY <2>3, <3>1, <3>2
    <2> QED
      BY <1>4, <1>7, <2>4 DEF remoteCandidate
  <1>8. ASSUME NEW r \in Role, UNCHANGED room, sig' \in [Role -> Sig] PROVE SessionTypeOK'
    BY <1>8 DEF room, RoomTypeOK
  <1>9. ASSUME NEW r \in Role, Created(r) \/ RemoteSet(r) \/ onclose(r) PROVE SessionTypeOK'
    <2>1. \/ sig' = [sig EXCEPT ![r].at = "local"] \/ sig' = [sig EXCEPT ![r].shut = TRUE]
          \/ sig' = [sig EXCEPT ![r].at = "pending", ![r].remote = TRUE]
      BY <1>9 DEF Created, RemoteSet, onclose, Goes
    <2>2. /\ [sig EXCEPT ![r].at = "local"] \in [Role -> Sig]
          /\ [sig EXCEPT ![r].at = "pending", ![r].remote = TRUE] \in [Role -> Sig]
          /\ [sig EXCEPT ![r].shut = TRUE] \in [Role -> Sig]
      <3>1. "local" \in Awaits /\ "pending" \in Awaits
        BY Parked
      <3> QED
        BY <3>1, SigMoves
    <2> QED
      BY <1>8, <1>9, <2>1, <2>2 DEF Created, RemoteSet, onclose
  <1>10. ASSUME NEW r \in Role, PendingAdded(r) \/ Added(r) PROVE SessionTypeOK'
    <2>1. PICK n \in Nat, k \in Nat : n = sig[r].added + sig[r].pending /\ k = sig[r].added + 1
      BY DEF Sig
    <2>2. PICK where \in {"create", "idle"} :
            \/ sig' = [sig EXCEPT ![r].added = n, ![r].pending = 0, ![r].at = where]
            \/ sig' = [sig EXCEPT ![r].added = k, ![r].at = "idle"]
      BY <1>10, <2>1 DEF PendingAdded, Added
    <2>3. where \in Awaits /\ "idle" \in Awaits
      BY Parked
    <2>4. sig' \in [Role -> Sig]
      <3>1. [sig EXCEPT ![r].added = n, ![r].pending = 0, ![r].at = where] \in [Role -> Sig]
        BY <2>3, SigCounts
      <3>2. [sig EXCEPT ![r].added = k, ![r].at = "idle"] \in [Role -> Sig]
        BY <2>3, SigCounts
      <3> QED
        BY <2>2, <3>1, <3>2
    <2> QED
      BY <1>8, <1>10, <2>4 DEF PendingAdded, Added
  <1>11. ASSUME NEW r \in Role, NEW m \in {"offer", "answer", "candidate"},
                Signal(r, m) \/ UNCHANGED room, sig' \in [Role -> Sig]
         PROVE  SessionTypeOK'
    BY <1>8, <1>11, SignalTyped
  <1>12. ASSUME NEW r \in Role, LocalSet(r) PROVE SessionTypeOK'
    <2>1. Description(r) \in {"offer", "answer", "candidate"}
      BY DEF Description
    <2> QED
      BY <1>11, <1>12, <2>1, SigMoves, Parked DEF LocalSet
  <1>13. ASSUME NEW r \in Role, onicecandidate(r) PROVE SessionTypeOK'
    <2>1. sig[r].gathered \in Nat /\ sig[Peer(r)].gathered \in Nat
      BY Roles DEF Sig
    <2>2. PICK n \in Nat : n = sig[r].gathered + 1
      BY <2>1
    <2>3. n \in 0..MaxCandidates
      BY <1>13, <2>1, <2>2, CandidateAssumption DEF onicecandidate
    <2>4. sig' = [sig EXCEPT ![r].gathered = n]
      BY <1>13, <2>2 DEF onicecandidate
    <2> QED
      BY <1>11, <1>13, <2>3, <2>4, SigGathers DEF onicecandidate
  <1> QED
    BY <1>1, <1>2, <1>3, <1>5, <1>6, <1>7, <1>9, <1>10, <1>12, <1>13
       DEF SessionNext, session, Experiments

\* For any limits of the room and any number of candidates, the room admits two sockets
\* and counts at most MaxMessages of each (signal-room.js:23, 53), and queues and pages
\* keep their shape.
THEOREM SessionTypes == SessionSpec => []SessionTypeOK
  <1>1. SessionInit => SessionTypeOK
    <2>1. 0 \in 0..MaxMessages /\ 0 \in 0..MaxCandidates
      BY RoomAssumption, CandidateAssumption
    <2>2. NoSocket \in Attachment /\ NewSig \in Sig
      BY <2>1 DEF Attachment, NoSocket, NewSig, Sig, States, Awaits
    <2>3. <<>> \in Seq({"offer", "answer", "candidate"}) /\ <<>> \in Seq(Signals)
      OBVIOUS
    <2>4. SessionInit => RoomTypeOK
      <3> SUFFICES ASSUME SessionInit PROVE RoomTypeOK
        OBVIOUS
      <3>1. joined \in 0..2 /\ expired \in BOOLEAN
        <4>1. joined = 0 /\ expired = FALSE
          BY DEF SessionInit, RoomInit
        <4> QED
          <5>1. 0 \in 0..2 /\ FALSE \in BOOLEAN
            OBVIOUS
          <5> QED
            BY <4>1, <5>1, Zenon
      <3>2. socket \in [Role -> Attachment]
        BY <2>2 DEF SessionInit, RoomInit
      <3>3. up \in [Role -> Seq({"offer", "answer", "candidate"})] /\ down \in [Role -> Seq(Signals)]
        BY <2>3 DEF SessionInit, RoomInit
      <3> QED
        BY <3>1, <3>2, <3>3 DEF RoomTypeOK
    <2>5. SessionInit => sig \in [Role -> Sig]
      BY <2>2 DEF SessionInit
    <2> QED
      BY <2>4, <2>5 DEF SessionTypeOK
  <1>2. QED
    BY <1>1, SessionTyped, PTL DEF SessionSpec

-----------------------------------------------------------------------------
(* Signaling settles. *)

\* Nothing has gone wrong yet: nobody closed a WebSocket or gave up.
Sound ==
  \A r \in Role : WsOpen(r) /\ Alive(r) /\ socket[r].state \in {"none", "admitted", "open"}

BothOpen == \A r \in Role : IsOpen(r)

Has(s, m) == \E i \in DOMAIN s : s[i] = m
Candidates(s) == Cardinality({i \in DOMAIN s : s[i] = "candidate"})

\* Before both pages are connected the room only greets.
Blank ==
  \A r \in Role :
    /\ up[r] = <<>> /\ \A m \in Signals : Has(down[r], m) => m = "hello"
    /\ sig[r].at = "idle" /\ ~sig[r].local

\* A page learns its role before anything else.
Greeted(r) == IsOpen(r) /\ ~sig[r].hello => down[r] # <<>> /\ Head(down[r]) = "hello"

\* Where the exchange of descriptions is.
Exchanging ==
  \/ Has(down["offerer"], "ready") \/ sig["offerer"].at \in {"create", "local"}
  \/ Has(up["offerer"], "offer") \/ Has(down["answerer"], "offer")
  \/ sig["answerer"].at \in {"remote", "pending", "create", "local"}
  \/ /\ sig["answerer"].local
     /\ \/ Has(up["answerer"], "answer") \/ Has(down["offerer"], "answer")
        \/ At("offerer", "remote") \/ sig["offerer"].remote

\* Every candidate of the other page is on its way, kept, being added or added, and none
\* is kept longer than until the description is there.
Counted(r) ==
  sig[Peer(r)].gathered =
    sig[r].added + sig[r].pending + (IF At(r, "add") THEN 1 ELSE 0)
      + Candidates(up[Peer(r)]) + Candidates(down[r])

Kept(r) == sig[r].pending # 0 => ~sig[r].remote \/ At(r, "pending")

Described ==
  sig["answerer"].local \/ sig["answerer"].at \in {"pending", "create", "local"} => sig["answerer"].remote

Signaling ==
  /\ ~BothOpen => Blank
  /\ BothOpen => Exchanging
  /\ \A r \in Role : Greeted(r) /\ Counted(r) /\ Kept(r)
  /\ Described

SignalingInv == Sound => Signaling

-----------------------------------------------------------------------------
(* What a queue holds. *)

LEMMA HasAppend ==
  ASSUME NEW S, NEW s \in Seq(S), NEW e \in S, NEW m
  PROVE  Has(Append(s, e), m) <=> Has(s, m) \/ e = m
<1>1. DOMAIN Append(s, e) = 1..Len(s) + 1 /\ DOMAIN s = 1..Len(s) /\ Len(s) \in Nat
  OBVIOUS
<1>2. \A i \in 1..Len(s) : Append(s, e)[i] = s[i]
  OBVIOUS
<1>3. Append(s, e)[Len(s) + 1] = e
  OBVIOUS
<1>4. 1..Len(s) + 1 = 1..Len(s) \cup {Len(s) + 1}
  BY <1>1
<1>. QED  BY <1>1, <1>2, <1>3, <1>4 DEF Has

LEMMA HasTail ==
  ASSUME NEW S, NEW s \in Seq(S), s # <<>>, NEW m, Has(s, m)
  PROVE  Head(s) = m \/ Has(Tail(s), m)
<1>1. Len(s) \in Nat /\ Len(s) > 0 /\ DOMAIN s = 1..Len(s) /\ DOMAIN Tail(s) = 1..Len(s) - 1
  OBVIOUS
<1>2. PICK i \in 1..Len(s) : s[i] = m
  BY <1>1 DEF Has
<1>3. CASE i = 1
  BY <1>2, <1>3
<1>4. CASE i # 1
  <2>1. i - 1 \in 1..Len(s) - 1 /\ Tail(s)[i - 1] = s[i]
    BY <1>1, <1>4
  <2>. QED  BY <1>1, <1>2, <2>1 DEF Has
<1>. QED  BY <1>3, <1>4

LEMMA TailHas ==
  ASSUME NEW S, NEW s \in Seq(S), s # <<>>, NEW m, Has(Tail(s), m)
  PROVE  Has(s, m)
<1>1. Len(s) \in Nat /\ Len(s) > 0 /\ DOMAIN s = 1..Len(s) /\ DOMAIN Tail(s) = 1..Len(s) - 1
  OBVIOUS
<1>2. PICK i \in 1..Len(s) - 1 : Tail(s)[i] = m
  BY <1>1 DEF Has
<1>3. i + 1 \in 1..Len(s) /\ s[i + 1] = Tail(s)[i]
  BY <1>1
<1>. QED  BY <1>1, <1>2, <1>3 DEF Has

LEMMA NoneEmpty == Candidates(<<>>) = 0
<1>1. {i \in DOMAIN <<>> : <<>>[i] = "candidate"} = {}
  OBVIOUS
<1>. QED  BY <1>1, FS_EmptySet DEF Candidates

LEMMA NoneIn ==
  ASSUME NEW s, ~Has(s, "candidate")
  PROVE  Candidates(s) = 0
<1>1. {i \in DOMAIN s : s[i] = "candidate"} = {}
  BY DEF Has
<1>. QED  BY <1>1, FS_EmptySet DEF Candidates

LEMMA CountFinite ==
  ASSUME NEW S, NEW s \in Seq(S)
  PROVE  IsFiniteSet({i \in DOMAIN s : s[i] = "candidate"}) /\ Candidates(s) \in Nat
<1>1. DOMAIN s = 1..Len(s) /\ Len(s) \in Nat
  OBVIOUS
<1>2. IsFiniteSet(1..Len(s))
  BY <1>1, FS_Interval
<1>3. {i \in DOMAIN s : s[i] = "candidate"} \subseteq 1..Len(s)
  BY <1>1
<1>. QED  BY <1>2, <1>3, FS_Subset, FS_CardinalityType DEF Candidates

LEMMA CountAppend ==
  ASSUME NEW S, NEW s \in Seq(S), NEW e \in S
  PROVE  Candidates(Append(s, e)) = Candidates(s) + (IF e = "candidate" THEN 1 ELSE 0)
<1> DEFINE I(q) == {i \in DOMAIN q : q[i] = "candidate"}
           t == Append(s, e)
           n == Len(s) + 1
<1>1. DOMAIN t = 1..n /\ DOMAIN s = 1..Len(s) /\ Len(s) \in Nat /\ n \notin 1..Len(s)
  OBVIOUS
<1>2. (\A i \in 1..Len(s) : t[i] = s[i]) /\ t[n] = e
  OBVIOUS
<1>3. 1..n = 1..Len(s) \cup {n}
  BY <1>1
<1>4. IsFiniteSet(I(s)) /\ n \notin I(s) /\ Cardinality(I(s)) \in Nat
  BY <1>1, CountFinite DEF Candidates
<1>5. I(t) = IF e = "candidate" THEN I(s) \cup {n} ELSE I(s)
  BY <1>1, <1>2, <1>3
<1>6. Cardinality(I(s) \cup {n}) = Cardinality(I(s)) + 1
  BY <1>4, FS_AddElement
<1>7. Candidates(t) = Cardinality(I(t)) /\ Candidates(s) = Cardinality(I(s))
  BY DEF Candidates
<1> HIDE DEF I, t, n
<1>8. Candidates(t) = Candidates(s) + (IF e = "candidate" THEN 1 ELSE 0)
  BY <1>4, <1>5, <1>6, <1>7
<1>. QED  BY <1>8 DEF t

LEMMA CountTail ==
  ASSUME NEW S, NEW s \in Seq(S), s # <<>>
  PROVE  Candidates(s) = Candidates(Tail(s)) + (IF Head(s) = "candidate" THEN 1 ELSE 0)
<1> DEFINE I(q) == {i \in DOMAIN q : q[i] = "candidate"}
           t == Tail(s)
           J == I(s) \ {1}
           f == [i \in I(t) |-> i + 1]
<1>1. Len(s) \in Nat /\ Len(s) > 0 /\ DOMAIN s = 1..Len(s) /\ DOMAIN t = 1..Len(s) - 1 /\ t \in Seq(S)
  OBVIOUS
<1>2. \A i \in 1..Len(s) - 1 : t[i] = s[i + 1]
  OBVIOUS
<1>3. IsFiniteSet(I(s)) /\ IsFiniteSet(I(t)) /\ Cardinality(I(t)) \in Nat
  BY <1>1, CountFinite DEF Candidates
<1>4. f \in Bijection(I(t), J)
  <2>1. \A i \in I(t) : i + 1 \in J /\ i \in Nat
    BY <1>1, <1>2
  <2>2. \A j \in J : j - 1 \in I(t) /\ j = (j - 1) + 1
    BY <1>1, <1>2
  <2>3. f \in [I(t) -> J]
    BY <2>1
  <2>4. \A a, b \in I(t) : f[a] = f[b] => a = b
    BY <2>1
  <2>5. \A j \in J : \E i \in I(t) : f[i] = j
    BY <2>2
  <2> HIDE DEF f, J, I, t
  <2>6. IsInjective(f)
    BY <2>3, <2>4 DEF IsInjective
  <2>. QED  BY <2>3, <2>5, <2>6 DEF Bijection, Injection, Surjection
<1>5. Cardinality(J) = Cardinality(I(t)) /\ IsFiniteSet(J)
  <2>1. ExistsBijection(I(t), J)
    BY <1>4 DEF ExistsBijection
  <2>. QED  BY <1>3, <2>1, FS_Bijection
<1>6. I(s) = IF Head(s) = "candidate" THEN J \cup {1} ELSE J
  BY <1>1
<1>7. 1 \notin J
  OBVIOUS
<1>8. Cardinality(J \cup {1}) = Cardinality(J) + 1
  BY <1>5, <1>7, FS_AddElement
<1>9. Candidates(t) = Cardinality(I(t)) /\ Candidates(s) = Cardinality(I(s))
  BY DEF Candidates
<1> HIDE DEF I, t, J
<1>10. Candidates(s) = Candidates(t) + (IF Head(s) = "candidate" THEN 1 ELSE 0)
  BY <1>3, <1>5, <1>6, <1>8, <1>9
<1>. QED  BY <1>10 DEF t

-----------------------------------------------------------------------------
(* What is over stays over. *)

\* What the events make of a page that has ended: it has ended.
LEMMA EndedShapes ==
  ASSUME NEW p \in Experiment, p.ended
  PROVE  /\ Cleanup(p).ended /\ Fail(p).ended
         /\ \A x, y, z : [p EXCEPT !.channel = x, !.opening = y].ended
         /\ \A x : [p EXCEPT !.opening = x].ended /\ [p EXCEPT !.at = x].ended /\ [p EXCEPT !.blocks = x].ended
         /\ \A x, y : [p EXCEPT !.blocks = x, !.at = y].ended /\ [p EXCEPT !.at = x, !.peer = y].ended
         /\ \A x, y : [p EXCEPT !.at = x, !.evidence = y].ended
         /\ \A x : Fail([p EXCEPT !.disorder = x]).ended /\ Fail([p EXCEPT !.channel = x]).ended
         /\ \A r, x : Complete(r, p, x).ended
         /\ \A r, x, y : Complete(r, [p EXCEPT !.evidence = x], y).ended
BY DEF Experiment, Cleanup, Fail, Complete

LEMMA BecomesEnded ==
  ASSUME PeerInv, NEW s \in Role, NEW q, Becomes(s, q), page[s].ended => q.ended, NEW r \in Role, page[r].ended
  PROVE  page'[r].ended
BY PageBecomes DEF PeerInv, TypeOK

LEMMA EndedStays ==
  ASSUME PeerInv, [Next]_vars, NEW r \in Role, page[r].ended
  PROVE  page'[r].ended
<1>1. \A s \in Role : page[s] \in Experiment
  BY DEF PeerInv, TypeOK
<1>2. "offerer" \in Role /\ "answerer" \in Role
  BY DEF Role
<1>3. CASE PayloadStarts
  BY <1>1, <1>2, <1>3, EndedShapes, BecomesEnded DEF PayloadStarts
<1>4. CASE PayloadSent
  BY <1>1, <1>2, <1>4, EndedShapes, BecomesEnded DEF PayloadSent
<1>5. CASE PayloadReceived
  BY <1>1, <1>2, <1>5, EndedShapes, BecomesEnded DEF PayloadReceived
<1>6. ASSUME NEW s \in Role, Opens(s) \/ Opened(s) PROVE page'[r].ended
  BY <1>1, <1>6, EndedShapes, BecomesEnded DEF Opens, Opened
<1>7. ASSUME NEW m, senderReady(m) PROVE page'[r].ended
  BY <1>1, <1>2, <1>7, EndedShapes, BecomesEnded DEF senderReady
<1>8. ASSUME NEW m, Echoed(m) PROVE page'[r].ended
  <2>1. PICK x, y : Becomes("offerer", [page["offerer"] EXCEPT !.blocks = x, !.at = y])
    BY <1>8 DEF Echoed
  <2>. QED  BY <1>1, <1>2, <2>1, EndedShapes, BecomesEnded
<1>9. ASSUME NEW m, Confirmed(m) PROVE page'[r].ended
  BY <1>1, <1>2, <1>9, EndedShapes, BecomesEnded DEF Confirmed
<1>10. ASSUME NEW m, echoBlock(m) PROVE page'[r].ended
  <2>1. PICK x : Becomes("answerer", [page["answerer"] EXCEPT !.blocks = x])
    BY <1>10 DEF echoBlock
  <2>. QED  BY <1>1, <1>2, <2>1, EndedShapes, BecomesEnded
<1>11. ASSUME NEW m, receiveComplete(m) PROVE page'[r].ended
  BY <1>1, <1>2, <1>11, EndedShapes, BecomesEnded DEF receiveComplete
<1>12. ASSUME NEW m, Receipt(m) PROVE page'[r].ended
  BY <1>1, <1>2, <1>12, EndedShapes, BecomesEnded DEF Receipt
<1>13. ASSUME NEW s \in Role, NEW m, Unexpected(s, m) PROVE page'[r].ended
  BY <1>1, <1>13, EndedShapes, BecomesEnded DEF Unexpected
<1>14. ASSUME NEW s \in Role, onData(s) PROVE page'[r].ended
  BY <1>7, <1>8, <1>9, <1>10, <1>11, <1>12, <1>13, <1>14 DEF onData
<1>15. ASSUME NEW s \in Role, GivesUp(s) \/ CleanupTimer(s) \/ Leaves(s) \/ ChannelCloses(s)
       PROVE  page'[r].ended
  BY <1>1, <1>15, EndedShapes, BecomesEnded DEF GivesUp, CleanupTimer, Leaves, ChannelCloses
<1>. QED  BY <1>3, <1>4, <1>5, <1>6, <1>14, <1>15 DEF Next, vars, Undelivered

LEMMA AliveBefore ==
  ASSUME PeerInv, [Next]_vars, NEW r \in Role, Alive(r)'
  PROVE  Alive(r)
<1>1. ~page[r].ended
  BY EndedStays DEF Alive
<1>2. AgreementStep
  BY StepKeeps
<1>3. page[r].outcome = "done" => page'[r].outcome = "done"
  <2>1. \/ UNCHANGED Outcome
        \/ \E s \in Role : Agreement!Reports(s, "done") \/ Agreement!Reports(s, "failed")
    <3>1. CASE UNCHANGED <<Outcome, Verdict>>
      BY <3>1
    <3>2. CASE Agreement!Confirm \/ Agreement!Agree
      BY <3>2 DEF Agreement!Confirm, Agreement!Agree, Role
    <3>3. ASSUME NEW s \in Role, Agreement!Fail(s)
          PROVE  Agreement!Reports(s, "failed")
      BY <3>3 DEF Agreement!Fail
    <3>. QED  BY <1>2, <3>1, <3>2, <3>3 DEF AgreementStep, Agreement!Next, Agreement!Role, Role
  <2>2. Outcome[r] = "done" => Outcome'[r] = "done"
    BY <2>1 DEF Agreement!Reports, Outcome
  <2>. QED  BY <2>2 DEF Outcome
<1>. QED  BY <1>1, <1>3 DEF Alive

\* A page that fails its experiment is no longer alive.
LEMMA FailsEnds ==
  ASSUME PeerInv, NEW r \in Role, Alive(r), Fails(r)
  PROVE  ~Alive(r)'
<1>1. page[r] \in Experiment /\ page[r].outcome # "done"
  BY DEF PeerInv, TypeOK, Alive
<1>2. Fail(page[r]).ended
  BY <1>1, FailedShape, CleanupShape DEF Fail
<1>3. page'[r] = Fail(page[r])
  BY PageBecomes DEF PeerInv, TypeOK, Fails
<1>. QED  BY <1>2, <1>3 DEF Alive

\* A closed WebSocket stays closed, on either side.
LEMMA SocketsBefore ==
  ASSUME SessionTypeOK, [SessionNext]_session, NEW r \in Role,
         socket'[r].state \in {"none", "admitted", "open"}
  PROVE  socket[r].state \in {"none", "admitted", "open"}
<1> USE DEF SessionTypeOK, RoomTypeOK, Attachment, States
<1>1. CASE Room
  <2>1. CASE alarm
    BY <2>1 DEF alarm, IsOpen
  <2>2. ASSUME NEW s \in Role, Admit(s) \/ Accepts(s) \/ webSocketClose(s) \/ webSocketError(s)
        PROVE  socket[r].state \in {"none", "admitted", "open"}
    <3>1. PICK st : socket' = [socket EXCEPT ![s].state = st]
      BY <2>2 DEF Admit, Accepts, webSocketClose, webSocketError
    <3>2. CASE s # r
      BY <3>1, <3>2
    <3>3. CASE s = r
      <4>1. socket'[r].state = st
        BY <3>1, <3>3
      <4>. QED  BY <2>2, <3>1, <3>3, <4>1 DEF Admit, Accepts, webSocketClose, webSocketError, IsOpen
    <3>. QED  BY <3>2, <3>3
  <2>3. ASSUME NEW s \in Role, webSocketMessage(s)
        PROVE  socket[r].state \in {"none", "admitted", "open"}
    <3>1. \/ \E x, y : socket' = [socket EXCEPT ![s].messages = x, ![s].sdpSent = y]
          \/ socket' = [socket EXCEPT ![s].state = "closing"]
      BY <2>3 DEF webSocketMessage
    <3>2. s # r \/ socket[r].state = "open"
      BY <2>3 DEF webSocketMessage, IsOpen
    <3>3. \A x, y : [socket EXCEPT ![s].messages = x, ![s].sdpSent = y][r].state = socket[r].state
      OBVIOUS
    <3>4. s # r => [socket EXCEPT ![s].state = "closing"][r] = socket[r]
      OBVIOUS
    <3>. QED  BY <3>1, <3>2, <3>3, <3>4
  <2>. QED  BY <1>1, <2>1, <2>2, <2>3 DEF Room
<1>2. CASE UNCHANGED socket
  BY <1>2
<1>. QED  BY <1>1, <1>2 DEF SessionNext, session, room, Experiments, Ignored, hello, connect, remoteDescription,
       remoteCandidate, peerLeft, Created, LocalSet, RemoteSet, PendingAdded, Added, onicecandidate, onclose,
       Signaled, Signal

LEMMA ShutBefore ==
  ASSUME SessionTypeOK, [SessionNext]_session, NEW r \in Role, ~sig'[r].shut
  PROVE  ~sig[r].shut
<1>1. sig \in [Role -> Sig]
  BY DEF SessionTypeOK
<1> DEFINE Only(s, q) == sig' = [sig EXCEPT ![s] = q] /\ q.shut = sig[s].shut
<1>2. ASSUME NEW s \in Role, NEW q, Only(s, q) PROVE ~sig[r].shut
  BY <1>1, <1>2
<1>3. \A s \in Role : sig[s] \in Sig
  BY <1>1
<1>4. ASSUME NEW s \in Role, hello(s) \/ connect(s) \/ remoteDescription(s) \/ remoteCandidate(s)
      PROVE  UNCHANGED sig \/ \E q : Only(s, q)
  BY <1>3, <1>4 DEF hello, connect, remoteDescription, remoteCandidate, Goes, Sig
<1>5. ASSUME NEW s \in Role, Created(s) \/ LocalSet(s) \/ RemoteSet(s) \/ onicecandidate(s)
      PROVE  \E q : Only(s, q)
  BY <1>3, <1>5 DEF Created, LocalSet, RemoteSet, onicecandidate, Goes, Sig
<1>6. ASSUME NEW s \in Role, PendingAdded(s) \/ Added(s)
      PROVE  \E q : Only(s, q)
  BY <1>3, <1>6 DEF PendingAdded, Added, Sig
<1>7. ASSUME NEW s \in Role, onclose(s) PROVE ~sig[r].shut
  BY <1>1, <1>7 DEF onclose, Sig
<1>8. UNCHANGED sig => ~sig[r].shut
  OBVIOUS
<1> HIDE DEF Only
<1>. QED  BY <1>2, <1>4, <1>5, <1>6, <1>7, <1>8 DEF SessionNext, session, Experiments, Room, Ignored, peerLeft

LEMMA SoundBefore ==
  ASSUME PeerInv, SessionTypeOK, [SessionNext]_session, Sound'
  PROVE  Sound
<1> SUFFICES ASSUME NEW r \in Role PROVE WsOpen(r) /\ Alive(r) /\ socket[r].state \in {"none", "admitted", "open"}
  BY DEF Sound
<1>1. Alive(r)' /\ ~sig'[r].shut /\ socket'[r].state \in {"none", "admitted", "open"}
  BY DEF Sound, WsOpen
<1>2. Alive(r)
  BY <1>1, SessionStep, AliveBefore
<1>. QED  BY <1>1, <1>2, SocketsBefore, ShutBefore DEF WsOpen, Alive

Healthy == PeerInv /\ SessionTypeOK /\ Sound /\ Signaling

LEMMA Lengths ==
  ASSUME SessionTypeOK, NEW r \in Role
  PROVE  /\ up[r] \in Seq(Signals) /\ down[r] \in Seq(Signals)
         /\ Candidates(up[r]) \in Nat /\ Candidates(down[r]) \in Nat
         /\ sig[r] \in Sig /\ sig[r].added \in Nat /\ sig[r].pending \in Nat /\ sig[r].gathered \in Nat
<1>1. up[r] \in Seq({"offer", "answer", "candidate"}) /\ down[r] \in Seq(Signals)
  BY DEF SessionTypeOK, RoomTypeOK
<1>2. {"offer", "answer", "candidate"} \subseteq Signals
  BY DEF Signals
<1>3. up[r] \in Seq(Signals)
  BY <1>1, <1>2
<1>4. sig[r] \in Sig
  BY DEF SessionTypeOK
<1>5. sig[r].added \in Nat /\ sig[r].pending \in Nat /\ sig[r].gathered \in Nat
  BY <1>4, CandidateAssumption DEF Sig
<1>. QED  BY <1>1, <1>3, <1>4, <1>5, CountFinite

\* A step that touches the signaling of one page keeps what the invariant says of it and
\* of its peer.
LEMMA Assemble ==
  ASSUME NEW r \in Role, ~BothOpen' => Blank', BothOpen' => Exchanging', Described',
         Greeted(r)', Counted(r)', Kept(r)', Greeted(Peer(r))', Counted(Peer(r))', Kept(Peer(r))'
  PROVE  Signaling'
<1>1. \A q \in Role : q = r \/ q = Peer(r)
  BY DEF Role, Peer
<1>. QED  BY <1>1 DEF Signaling

\* A page takes a signal from its queue.
LEMMA Taken ==
  ASSUME Healthy, NEW r \in Role, NEW m, Signaled(r, m)
  PROVE  /\ UNCHANGED <<up, socket>> /\ (BothOpen' <=> BothOpen) /\ At(r, "idle")
         /\ down'[Peer(r)] = down[Peer(r)]
         /\ \A x : Has(down[r], x) => x = m \/ Has(down'[r], x)
         /\ \A x : Has(down'[r], x) => Has(down[r], x)
         /\ Candidates(down[r]) = Candidates(down'[r]) + (IF m = "candidate" THEN 1 ELSE 0)
         /\ Candidates(down'[r]) \in Nat
         /\ IsOpen(r) /\ ~sig[r].hello => m = "hello"
         /\ ~BothOpen => m = "hello"
<1>1. SessionTypeOK /\ Signaling
  BY DEF Healthy
<1>2. down[r] # <<>> /\ Head(down[r]) = m /\ down' = [down EXCEPT ![r] = Tail(down[r])] /\ At(r, "idle")
      /\ UNCHANGED <<up, socket>>
  BY DEF Signaled, Turn
<1>3. down[r] \in Seq(Signals) /\ down \in [Role -> Seq(Signals)]
  BY <1>1, Lengths DEF SessionTypeOK, RoomTypeOK
<1>4. down'[r] = Tail(down[r]) /\ down'[Peer(r)] = down[Peer(r)] /\ Tail(down[r]) \in Seq(Signals)
  BY <1>2, <1>3, Roles
<1>5. Has(down[r], m) /\ m \in Signals
  BY <1>2, <1>3 DEF Has
<1>6. ~BothOpen => m = "hello"
  BY <1>1, <1>5 DEF Signaling, Blank
<1>7. IsOpen(r) /\ ~sig[r].hello => m = "hello"
  BY <1>1, <1>2 DEF Signaling, Greeted
<1>8. BothOpen' <=> BothOpen
  BY <1>2 DEF BothOpen, IsOpen
<1>. QED  BY <1>2, <1>3, <1>4, <1>6, <1>7, <1>8, HasTail, TailHas, CountTail, CountFinite

\* What stays of the invariant when a signal is taken and the page notes at most its role.
LEMMA TakenKeeps ==
  ASSUME Healthy, NEW r \in Role, NEW m, Signaled(r, m), m \notin {"candidate", "offer", "answer"},
         m = "ready" => r = "answerer" \/ sig'["offerer"].at = "create",
         NEW q \in Sig, sig' = [sig EXCEPT ![r] = q],
         q.hello = (sig[r].hello \/ m = "hello"), q.local = sig[r].local, q.remote = sig[r].remote,
         q.gathered = sig[r].gathered, q.pending = sig[r].pending, q.added = sig[r].added,
         q.at = sig[r].at \/ (r = "offerer" /\ q.at = "create" /\ m = "ready")
  PROVE  Signaling'
<1> DEFINE p == Peer(r)
<1>1. SessionTypeOK /\ Signaling /\ p \in Role /\ p # r /\ Peer(p) = r
  BY Roles DEF Healthy
<1>2. sig'[r] = q /\ sig'[p] = sig[p]
  BY <1>1 DEF SessionTypeOK
<1>3. /\ UNCHANGED <<up, socket>> /\ (BothOpen' <=> BothOpen) /\ sig[r].at = "idle"
      /\ down'[p] = down[p]
      /\ \A x : Has(down[r], x) => x = m \/ Has(down'[r], x)
      /\ \A x : Has(down'[r], x) => Has(down[r], x)
      /\ Candidates(down[r]) = Candidates(down'[r]) + (IF m = "candidate" THEN 1 ELSE 0)
      /\ Candidates(down'[r]) \in Nat
      /\ IsOpen(r) /\ ~sig[r].hello => m = "hello"
      /\ ~BothOpen => m = "hello"
  BY Taken DEF At
<1>4. Candidates(down'[r]) = Candidates(down[r])
  BY <1>3
<1> HIDE DEF p
<1>5. ~BothOpen' => Blank'
  <2> SUFFICES ASSUME ~BothOpen PROVE Blank'
    BY <1>3
  <2>1. Blank /\ q.at = sig[r].at
    BY <1>1, <1>3 DEF Signaling
  <2>2. \A s \in Role : s = r \/ s = p
    BY DEF Role, Peer, p
  <2>. QED  BY <1>1, <1>2, <1>3, <2>1, <2>2 DEF Blank
<1>6. BothOpen' => Exchanging'
  <2> SUFFICES ASSUME BothOpen PROVE Exchanging'
    BY <1>3
  <2>1. Exchanging
    BY <1>1 DEF Signaling
  <2>2. CASE r = "offerer"
    <3>1. p = "answerer"
      BY <2>2 DEF p, Peer
    <3>. QED  BY <1>2, <1>3, <2>1, <2>2, <3>1 DEF Exchanging, At
  <2>3. CASE r = "answerer"
    <3>1. p = "offerer"
      BY <2>3 DEF p, Peer
    <3>. QED  BY <1>2, <1>3, <2>1, <2>3, <3>1 DEF Exchanging, At
  <2>. QED  BY <2>2, <2>3, TwoRoles
<1>7. Greeted(r)' /\ Greeted(p)'
  BY <1>1, <1>2, <1>3 DEF Signaling, Greeted, IsOpen
<1>8. Counted(r)' /\ Counted(p)'
  BY <1>1, <1>2, <1>3, <1>4 DEF Signaling, Counted, At, p
<1>9. Kept(r)' /\ Kept(p)'
  BY <1>1, <1>2, <1>3 DEF Signaling, Kept, At
<1>10. Described'
  <2>1. Described
    BY <1>1 DEF Signaling
  <2>. QED  BY <1>1, <1>2, <1>3, <2>1, TwoRoles DEF Described, p
<1>. QED  BY <1>5, <1>6, <1>7, <1>8, <1>9, <1>10, Assemble DEF p

LEMMA GreetingStep ==
  ASSUME Healthy, Sound', NEW r \in Role, hello(r) \/ connect(r) \/ peerLeft(r)
  PROVE  Signaling'
<1>1. PeerInv /\ SessionTypeOK /\ sig \in [Role -> Sig] /\ sig[r] \in Sig
  BY Lengths DEF Healthy, SessionTypeOK
<1>2. sig = [sig EXCEPT ![r] = sig[r]]
  BY <1>1
<1>3. CASE hello(r)
  <2> DEFINE q == [sig[r] EXCEPT !.hello = TRUE]
  <2>1. Signaled(r, "hello") /\ sig' = [sig EXCEPT ![r] = q]
    BY <1>1, <1>3 DEF hello
  <2>2. /\ q \in Sig /\ q.hello /\ q.local = sig[r].local /\ q.remote = sig[r].remote /\ q.at = sig[r].at
        /\ q.gathered = sig[r].gathered /\ q.pending = sig[r].pending /\ q.added = sig[r].added
    BY <1>1 DEF Sig
  <2> HIDE DEF q
  <2>. QED  BY <2>1, <2>2, TakenKeeps
<1>4. CASE peerLeft(r)
  <2>1. Signaled(r, "peer-left") /\ sig' = sig
    BY <1>4 DEF peerLeft
  <2>. QED  BY <1>1, <1>2, <2>1, TakenKeeps DEF Sig
<1>5. CASE connect(r) /\ r = "answerer"
  <2>1. Signaled(r, "ready") /\ sig' = sig
    BY <1>5 DEF connect
  <2>. QED  BY <1>1, <1>2, <1>5, <2>1, TakenKeeps DEF Sig
<1>6. CASE connect(r) /\ r = "offerer"
  <2> DEFINE q == [sig[r] EXCEPT !.at = "create"]
  <2>1. Signaled(r, "ready")
    BY <1>6 DEF connect
  <2>2. sig[r].hello
    <3>1. BothOpen
      BY <2>1, Taken
    <3>. QED  BY <2>1, <3>1, Taken DEF BothOpen
  <2>3. sig' = [sig EXCEPT ![r] = q]
    BY <1>1, <1>6, <2>2 DEF connect, Goes
  <2>4. /\ q \in Sig /\ q.hello = sig[r].hello /\ q.local = sig[r].local /\ q.remote = sig[r].remote /\ q.at = "create"
        /\ q.gathered = sig[r].gathered /\ q.pending = sig[r].pending /\ q.added = sig[r].added
    BY <1>1, Parked DEF Sig
  <2>5. sig'["offerer"].at = "create"
    BY <1>1, <1>6, <2>3, <2>4
  <2> HIDE DEF q
  <2>. QED  BY <1>6, <2>1, <2>2, <2>3, <2>4, <2>5, TakenKeeps
<1>. QED  BY <1>3, <1>4, <1>5, <1>6, TwoRoles

LEMMA RemoteStep ==
  ASSUME Healthy, Sound', NEW r \in Role, remoteDescription(r)
  PROVE  Signaling'
<1> DEFINE p == Peer(r)
           m == Description(p)
           q == [sig[r] EXCEPT !.at = "remote"]
<1>1. PeerInv /\ SessionTypeOK /\ Signaling /\ p \in Role /\ p # r /\ Peer(p) = r /\ Alive(r)
  BY Roles DEF Healthy, remoteDescription
<1>2. Signaled(r, m) /\ Goes(r, "remote")
  <2>1. ~Fails(r)
    BY <1>1, FailsEnds DEF Sound
  <2>. QED  BY <2>1 DEF remoteDescription
<1>3. sig \in [Role -> Sig] /\ sig[r] \in Sig
  BY <1>1 DEF SessionTypeOK
<1>4. sig'[r] = q /\ sig'[p] = sig[p]
  BY <1>1, <1>2, <1>3 DEF Goes
<1>5. /\ q.hello = sig[r].hello /\ q.local = sig[r].local /\ q.remote = sig[r].remote /\ q.at = "remote"
      /\ q.gathered = sig[r].gathered /\ q.pending = sig[r].pending /\ q.added = sig[r].added
  BY <1>3 DEF Sig
<1>6. m \in {"offer", "answer"}
  BY DEF Description
<1>7. /\ UNCHANGED <<up, socket>> /\ (BothOpen' <=> BothOpen) /\ sig[r].at = "idle"
      /\ down'[p] = down[p]
      /\ \A x : Has(down[r], x) => x = m \/ Has(down'[r], x)
      /\ Candidates(down[r]) = Candidates(down'[r]) + (IF m = "candidate" THEN 1 ELSE 0)
      /\ Candidates(down'[r]) \in Nat
      /\ IsOpen(r) /\ ~sig[r].hello => m = "hello"
      /\ ~BothOpen => m = "hello"
  BY <1>2, Taken DEF At
<1>8. Candidates(down'[r]) = Candidates(down[r]) /\ BothOpen /\ BothOpen'
  BY <1>6, <1>7
<1>9. BothOpen' => Exchanging'
  <2>1. Exchanging
    BY <1>1, <1>8 DEF Signaling
  <2>2. CASE r = "offerer"
    <3>1. p = "answerer" /\ m = "answer"
      BY <2>2 DEF Peer, Description
    <3> HIDE DEF p, m, q
    <3>. QED  BY <1>4, <1>5, <1>7, <2>1, <2>2, <3>1 DEF Exchanging, At
  <2>3. CASE r = "answerer"
    BY <1>4, <1>5, <2>3 DEF Exchanging
  <2>. QED  BY <2>2, <2>3, TwoRoles
<1> HIDE DEF p, q, m
<1>10. Greeted(r)' /\ Greeted(p)'
  BY <1>1, <1>4, <1>5, <1>6, <1>7 DEF Signaling, Greeted, IsOpen
<1>11. Counted(r)' /\ Counted(p)'
  BY <1>1, <1>4, <1>5, <1>7, <1>8 DEF Signaling, Counted, At, p
<1>12. Kept(r)' /\ Kept(p)'
  BY <1>1, <1>4, <1>5, <1>7 DEF Signaling, Kept, At
<1>13. Described'
  <2>1. Described
    BY <1>1 DEF Signaling
  <2>. QED  BY <1>1, <1>4, <1>5, <1>7, <2>1, TwoRoles DEF Described, p
<1>. QED  BY <1>8, <1>9, <1>10, <1>11, <1>12, <1>13, Assemble DEF p

LEMMA CandidateStep ==
  ASSUME Healthy, Sound', NEW r \in Role, remoteCandidate(r)
  PROVE  Signaling'
<1> DEFINE p == Peer(r)
<1>1. PeerInv /\ SessionTypeOK /\ Signaling /\ p \in Role /\ p # r /\ Peer(p) = r
  BY Roles DEF Healthy
<1>2. sig \in [Role -> Sig] /\ sig[r] \in Sig /\ sig[r].pending \in Nat
  BY <1>1, Lengths DEF SessionTypeOK
<1>3. PICK n \in Nat : n = sig[r].pending + 1
  BY <1>2
<1> DEFINE q == IF sig[r].remote THEN [sig[r] EXCEPT !.at = "add"] ELSE [sig[r] EXCEPT !.pending = n]
<1>4. Signaled(r, "candidate") /\ sig' = [sig EXCEPT ![r] = q]
  BY <1>2, <1>3 DEF remoteCandidate, Goes, Early
<1>5. sig'[r] = q /\ sig'[p] = sig[p]
  BY <1>1, <1>2, <1>4
<1>6. /\ UNCHANGED <<up, socket>> /\ (BothOpen' <=> BothOpen) /\ sig[r].at = "idle"
      /\ down'[p] = down[p]
      /\ \A x : Has(down[r], x) => x = "candidate" \/ Has(down'[r], x)
      /\ Candidates(down[r]) = Candidates(down'[r]) + 1
      /\ Candidates(down'[r]) \in Nat
      /\ ~(IsOpen(r) /\ ~sig[r].hello)
      /\ BothOpen
  BY <1>4, Taken DEF At
<1>7. /\ q.hello = sig[r].hello /\ q.local = sig[r].local /\ q.remote = sig[r].remote
      /\ q.gathered = sig[r].gathered /\ q.added = sig[r].added
      /\ IF sig[r].remote THEN q.at = "add" /\ q.pending = sig[r].pending ELSE q.at = "idle" /\ q.pending = n
  BY <1>2, <1>6 DEF Sig
<1> HIDE DEF p, q
<1>8. Exchanging'
  <2>1. Exchanging
    BY <1>1, <1>6 DEF Signaling
  <2>2. CASE r = "offerer"
    <3>1. p = "answerer"
      BY <2>2 DEF Peer, p
    <3>. QED  BY <1>5, <1>6, <1>7, <2>1, <2>2, <3>1 DEF Exchanging, At
  <2>3. CASE r = "answerer"
    <3>1. p = "offerer"
      BY <2>3 DEF Peer, p
    <3>. QED  BY <1>5, <1>6, <1>7, <2>1, <2>3, <3>1 DEF Exchanging, At
  <2>. QED  BY <2>2, <2>3, TwoRoles
<1>9. Greeted(r)' /\ Greeted(p)'
  BY <1>1, <1>5, <1>6, <1>7 DEF Signaling, Greeted, IsOpen
<1>10. Counted(r)'
  <2>1. /\ sig[p].gathered = sig[r].added + sig[r].pending + Candidates(up[p]) + Candidates(down[r])
        /\ sig[r].added \in Nat /\ Candidates(up[p]) \in Nat
    <3>1. /\ sig[r].added \in Nat /\ sig[r].pending \in Nat /\ Candidates(up[p]) \in Nat
          /\ Candidates(down[r]) \in Nat
      BY <1>1, Lengths
    <3>2. /\ sig[p].gathered = sig[r].added + sig[r].pending + (IF sig[r].at = "add" THEN 1 ELSE 0)
                                + Candidates(up[p]) + Candidates(down[r])
      BY <1>1 DEF Signaling, Counted, At, p
    <3>. QED  BY <1>6, <3>1, <3>2
  <2>2. (IF q.at = "add" THEN 1 ELSE 0) + q.pending = sig[r].pending + 1 /\ q.pending \in Nat
    BY <1>2, <1>3, <1>7
  <2>3. sig[p].gathered = q.added + q.pending + (IF q.at = "add" THEN 1 ELSE 0) + Candidates(up[p]) + Candidates(down'[r])
    BY <1>2, <1>6, <1>7, <2>1, <2>2
  <2>. QED  BY <1>5, <1>6, <2>3 DEF Counted, At, p
<1>11. Counted(p)'
  BY <1>1, <1>5, <1>6, <1>7 DEF Signaling, Counted, At
<1>12. Kept(r)' /\ Kept(p)'
  BY <1>1, <1>5, <1>6, <1>7 DEF Signaling, Kept, At
<1>13. Described'
  <2>1. Described
    BY <1>1 DEF Signaling
  <2>. QED  BY <1>1, <1>5, <1>6, <1>7, <2>1, TwoRoles DEF Described, p
<1>. QED  BY <1>6, <1>8, <1>9, <1>10, <1>11, <1>12, <1>13, Assemble DEF p

\* An await of the RTCPeerConnection returns: queues and candidates stay where they are.
LEMMA ReturnKeeps ==
  ASSUME Healthy, NEW r \in Role, UNCHANGED <<socket, down>>,
         NEW q \in Sig, sig' = [sig EXCEPT ![r] = q],
         ~BothOpen => FALSE,
         up'[Peer(r)] = up[Peer(r)], Candidates(up'[r]) = Candidates(up[r]),
         \A x : Has(up[r], x) => Has(up'[r], x),
         q.hello = sig[r].hello, q.gathered = sig[r].gathered,
         q.added + q.pending + (IF q.at = "add" THEN 1 ELSE 0)
           = sig[r].added + sig[r].pending + (IF sig[r].at = "add" THEN 1 ELSE 0),
         q.pending # 0 => ~q.remote \/ q.at = "pending",
         r = "answerer" => (q.local \/ q.at \in {"pending", "create", "local"} => q.remote),
         Exchanging'
  PROVE  Signaling'
<1> DEFINE p == Peer(r)
<1>1. SessionTypeOK /\ Signaling /\ p \in Role /\ p # r /\ Peer(p) = r
  BY Roles DEF Healthy
<1>2. sig'[r] = q /\ sig'[p] = sig[p] /\ BothOpen /\ BothOpen'
  BY <1>1 DEF SessionTypeOK, BothOpen, IsOpen
<1>3. /\ sig[r].added \in Nat /\ sig[r].pending \in Nat /\ q.added \in Nat /\ q.pending \in Nat
      /\ Candidates(up[p]) \in Nat /\ Candidates(down[r]) \in Nat
  BY <1>1, Lengths DEF Sig
<1>4. up'[p] = up[p]
  OBVIOUS
<1> HIDE DEF p
<1>5. Greeted(r)' /\ Greeted(p)'
  BY <1>1, <1>2 DEF Signaling, Greeted, IsOpen
<1>6. Counted(r)'
  <2>1. sig[p].gathered = sig[r].added + sig[r].pending + (IF sig[r].at = "add" THEN 1 ELSE 0)
                            + Candidates(up[p]) + Candidates(down[r])
    BY <1>1 DEF Signaling, Counted, At, p
  <2>2. sig[p].gathered = q.added + q.pending + (IF q.at = "add" THEN 1 ELSE 0)
                            + Candidates(up[p]) + Candidates(down[r])
    BY <1>3, <2>1
  <2>. QED  BY <1>2, <1>4, <2>2 DEF Counted, At, p
<1>7. Counted(p)'
  BY <1>1, <1>2 DEF Signaling, Counted, At
<1>8. Kept(r)' /\ Kept(p)'
  BY <1>1, <1>2 DEF Signaling, Kept, At
<1>9. Described'
  <2>1. Described
    BY <1>1 DEF Signaling
  <2>. QED  BY <1>1, <1>2, <2>1, TwoRoles DEF Described, p
<1>. QED  BY <1>2, <1>5, <1>6, <1>7, <1>8, <1>9, Assemble DEF p

\* A page at work, or with its description, is in a room with the other.
LEMMA WorkTogether ==
  ASSUME Healthy, NEW r \in Role, ~At(r, "idle") \/ sig[r].local \/ up[r] # <<>>
  PROVE  BothOpen /\ Exchanging
BY DEF Healthy, Signaling, Blank, At

LEMMA ReturnStep ==
  ASSUME Healthy, Sound', NEW r \in Role, Created(r) \/ RemoteSet(r) \/ PendingAdded(r) \/ Added(r)
  PROVE  Signaling'
<1>1. SessionTypeOK /\ Signaling /\ Peer(r) \in Role /\ Peer(r) # r
  BY Roles DEF Healthy
<1>2. sig \in [Role -> Sig] /\ sig[r] \in Sig /\ sig[r].added \in Nat /\ sig[r].pending \in Nat
  BY <1>1, Lengths DEF SessionTypeOK
<1>3. UNCHANGED <<socket, up, down>> /\ BothOpen /\ Exchanging /\ Kept(r) /\ Described
  BY <1>1, WorkTogether DEF Created, RemoteSet, PendingAdded, Added, Resumes, At, room, Signaling
<1>4. CASE Created(r)
  <2> DEFINE q == [sig[r] EXCEPT !.at = "local"]
  <2>1. sig' = [sig EXCEPT ![r] = q] /\ sig[r].at = "create"
    BY <1>2, <1>4 DEF Created, Goes, Resumes, At
  <2>2. /\ q \in Sig /\ q.hello = sig[r].hello /\ q.gathered = sig[r].gathered /\ q.added = sig[r].added
        /\ q.pending = sig[r].pending /\ q.remote = sig[r].remote /\ q.local = sig[r].local /\ q.at = "local"
    BY <1>2, Parked DEF Sig
  <2> HIDE DEF q
  <2>3. Exchanging'
    BY <1>2, <2>1, <2>2, TwoRoles DEF Exchanging
  <2>. QED  BY <1>3, <2>1, <2>2, <2>3, ReturnKeeps DEF Kept, Described, At
<1>5. CASE RemoteSet(r)
  <2> DEFINE q == [sig[r] EXCEPT !.at = "pending", !.remote = TRUE]
  <2>1. sig' = [sig EXCEPT ![r] = q] /\ sig[r].at = "remote"
    BY <1>2, <1>5 DEF RemoteSet, Resumes, At
  <2>2. /\ q \in Sig /\ q.hello = sig[r].hello /\ q.gathered = sig[r].gathered /\ q.added = sig[r].added
        /\ q.pending = sig[r].pending /\ q.remote /\ q.local = sig[r].local /\ q.at = "pending"
    BY <1>2, Parked DEF Sig
  <2> HIDE DEF q
  <2>3. Exchanging'
    <3>1. CASE r = "answerer"
      BY <1>2, <2>1, <2>2, <3>1 DEF Exchanging
    <3>2. CASE r = "offerer"
      <4>1. sig'["offerer"] = q /\ sig'["answerer"] = sig["answerer"] /\ sig["offerer"].at = "remote"
        BY <1>1, <1>2, <2>1, <3>2 DEF Peer
      <4>. QED  BY <1>3, <2>2, <4>1 DEF Exchanging, At
    <3>. QED  BY <3>1, <3>2, TwoRoles
  <2>. QED  BY <1>3, <2>1, <2>2, <2>3, ReturnKeeps
<1>6. CASE PendingAdded(r)
  <2>1. PICK n \in Nat : n = sig[r].added + sig[r].pending
    BY <1>2
  <2>2. PICK at \in Awaits : at = IF r = "answerer" THEN "create" ELSE "idle"
    BY Parked
  <2> DEFINE q == [sig[r] EXCEPT !.added = n, !.pending = 0, !.at = at]
  <2>3. sig' = [sig EXCEPT ![r] = q] /\ sig[r].at = "pending"
    BY <1>2, <1>6, <2>1, <2>2 DEF PendingAdded, Resumes, At
  <2>4. /\ q \in Sig /\ q.hello = sig[r].hello /\ q.gathered = sig[r].gathered /\ q.added = n
        /\ q.pending = 0 /\ q.remote = sig[r].remote /\ q.local = sig[r].local /\ q.at = at
    BY <1>2 DEF Sig
  <2> HIDE DEF q
  <2>5. Exchanging'
    <3>1. CASE r = "answerer"
      BY <1>2, <2>2, <2>3, <2>4, <3>1 DEF Exchanging
    <3>2. CASE r = "offerer"
      <4>1. sig'["offerer"] = q /\ sig'["answerer"] = sig["answerer"] /\ sig["offerer"].at = "pending"
        BY <1>1, <1>2, <2>3, <3>2 DEF Peer
      <4>. QED  BY <1>3, <2>4, <3>2, <4>1 DEF Exchanging, At
    <3>. QED  BY <3>1, <3>2, TwoRoles
  <2>6. at # "add" /\ n + 0 = sig[r].added + sig[r].pending
    BY <2>1, <2>2
  <2>. QED  BY <1>2, <1>3, <2>1, <2>2, <2>3, <2>4, <2>5, <2>6, ReturnKeeps DEF Described
<1>7. CASE Added(r)
  <2>1. PICK n \in Nat : n = sig[r].added + 1
    BY <1>2
  <2> DEFINE q == [sig[r] EXCEPT !.added = n, !.at = "idle"]
  <2>2. sig' = [sig EXCEPT ![r] = q] /\ sig[r].at = "add"
    BY <1>2, <1>7, <2>1 DEF Added, Resumes, At
  <2>3. /\ q \in Sig /\ q.hello = sig[r].hello /\ q.gathered = sig[r].gathered /\ q.added = n
        /\ q.pending = sig[r].pending /\ q.remote = sig[r].remote /\ q.local = sig[r].local /\ q.at = "idle"
    BY <1>2, Parked DEF Sig
  <2> HIDE DEF q
  <2>4. Exchanging'
    <3>1. CASE r = "answerer"
      <4>1. sig'["answerer"] = q /\ sig'["offerer"] = sig["offerer"] /\ sig["answerer"].at = "add"
        BY <1>1, <1>2, <2>2, <3>1 DEF Peer
      <4>. QED  BY <1>3, <2>3, <3>1, <4>1 DEF Exchanging, At
    <3>2. CASE r = "offerer"
      <4>1. sig'["offerer"] = q /\ sig'["answerer"] = sig["answerer"] /\ sig["offerer"].at = "add"
        BY <1>1, <1>2, <2>2, <3>2 DEF Peer
      <4>. QED  BY <1>3, <2>3, <3>2, <4>1 DEF Exchanging, At
    <3>. QED  BY <3>1, <3>2, TwoRoles
  <2>5. n + sig[r].pending + 0 = sig[r].added + sig[r].pending + 1
    BY <1>2, <2>1
  <2>. QED  BY <1>2, <1>3, <2>2, <2>3, <2>4, <2>5, ReturnKeeps DEF Kept, Described, At
<1>. QED  BY <1>4, <1>5, <1>6, <1>7

LEMMA Sent ==
  ASSUME SessionTypeOK, NEW r \in Role, NEW m \in {"offer", "answer", "candidate"}, Signal(r, m)
  PROVE  /\ UNCHANGED <<socket, down>> /\ up'[Peer(r)] = up[Peer(r)]
         /\ \A x : Has(up'[r], x) <=> Has(up[r], x) \/ x = m
         /\ Candidates(up'[r]) = Candidates(up[r]) + (IF m = "candidate" THEN 1 ELSE 0)
<1>1. m \in Signals /\ up[r] \in Seq(Signals) /\ Peer(r) # r /\ Peer(r) \in Role
  BY Lengths, Roles DEF Signals
<1>2. up'[r] = Append(up[r], m) /\ up'[Peer(r)] = up[Peer(r)]
  BY <1>1 DEF Signal, SessionTypeOK, RoomTypeOK
<1>. QED  BY <1>1, <1>2, HasAppend, CountAppend DEF Signal

LEMMA LocalStep ==
  ASSUME Healthy, Sound', NEW r \in Role, LocalSet(r)
  PROVE  Signaling'
<1> DEFINE q == [sig[r] EXCEPT !.at = "idle", !.local = TRUE]
           m == Description(r)
<1>1. SessionTypeOK /\ Signaling /\ Peer(r) \in Role /\ Peer(r) # r /\ sig[r].at = "local" /\ WsOpen(r)
  BY Roles DEF Healthy, LocalSet, Resumes, At, Sound
<1>2. sig \in [Role -> Sig] /\ sig[r] \in Sig /\ sig[r].added \in Nat /\ sig[r].pending \in Nat
      /\ Candidates(up[r]) \in Nat
  BY <1>1, Lengths DEF SessionTypeOK
<1>3. BothOpen /\ Exchanging /\ Kept(r) /\ Described
  BY <1>1, WorkTogether DEF At, Signaling
<1>4. m \in {"offer", "answer"} /\ Signal(r, m) /\ sig' = [sig EXCEPT ![r] = q]
  BY <1>1, <1>2 DEF LocalSet, Description
<1>5. /\ q \in Sig /\ q.hello = sig[r].hello /\ q.gathered = sig[r].gathered /\ q.added = sig[r].added
      /\ q.pending = sig[r].pending /\ q.remote = sig[r].remote /\ q.local /\ q.at = "idle"
  BY <1>2, Parked DEF Sig
<1> HIDE DEF q
<1>6. /\ UNCHANGED <<socket, down>> /\ up'[Peer(r)] = up[Peer(r)]
      /\ \A x : Has(up'[r], x) <=> Has(up[r], x) \/ x = m
      /\ Candidates(up'[r]) = Candidates(up[r])
  BY <1>1, <1>2, <1>4, Sent
<1>7. Exchanging'
  <2>1. CASE r = "offerer"
    BY <1>6, <2>1 DEF Exchanging, Description
  <2>2. CASE r = "answerer"
    <3>1. sig'["answerer"].local /\ Has(up'["answerer"], "answer")
      BY <1>2, <1>4, <1>5, <1>6, <2>2 DEF Description
    <3>. QED  BY <3>1 DEF Exchanging
  <2>. QED  BY <2>1, <2>2, TwoRoles
<1>. QED  BY <1>1, <1>3, <1>4, <1>5, <1>6, <1>7, ReturnKeeps DEF Kept, Described, At

LEMMA GatherStep ==
  ASSUME Healthy, Sound', NEW r \in Role, onicecandidate(r)
  PROVE  Signaling'
<1> DEFINE p == Peer(r)
<1>1. SessionTypeOK /\ Signaling /\ p \in Role /\ p # r /\ Peer(p) = r /\ WsOpen(r)
  BY Roles DEF Healthy, Sound
<1>2. sig \in [Role -> Sig] /\ sig[r] \in Sig /\ sig[r].gathered \in Nat
      /\ Candidates(up[r]) \in Nat
  BY <1>1, Lengths DEF SessionTypeOK
<1>3. BothOpen /\ Exchanging /\ Described
  BY <1>1, WorkTogether DEF At, Signaling, onicecandidate
<1>4. PICK n \in Nat : n = sig[r].gathered + 1
  BY <1>2
<1> DEFINE q == [sig[r] EXCEPT !.gathered = n]
<1>5. Signal(r, "candidate") /\ sig' = [sig EXCEPT ![r] = q]
  BY <1>1, <1>2, <1>4 DEF onicecandidate
<1>6. /\ q.hello = sig[r].hello /\ q.gathered = n /\ q.added = sig[r].added
      /\ q.pending = sig[r].pending /\ q.remote = sig[r].remote /\ q.local = sig[r].local /\ q.at = sig[r].at
  BY <1>2 DEF Sig
<1>7. sig'[r] = q /\ sig'[p] = sig[p]
  BY <1>1, <1>2, <1>5
<1> HIDE DEF q
<1>8. /\ UNCHANGED <<socket, down>> /\ up'[p] = up[p]
      /\ \A x : Has(up'[r], x) <=> Has(up[r], x) \/ x = "candidate"
      /\ Candidates(up'[r]) = Candidates(up[r]) + 1
      /\ BothOpen'
  BY <1>1, <1>3, <1>5, Sent DEF BothOpen, IsOpen
<1>9. Exchanging'
  <2>1. \A s \in Role : /\ sig'[s].at = sig[s].at /\ sig'[s].local = sig[s].local /\ sig'[s].remote = sig[s].remote
                        /\ \A x : Has(up[s], x) => Has(up'[s], x)
    BY <1>6, <1>7, <1>8 DEF Role, Peer, p
  <2>2. "offerer" \in Role /\ "answerer" \in Role
    BY DEF Role
  <2>. QED  BY <1>3, <1>8, <2>1, <2>2 DEF Exchanging, At
<1> HIDE DEF p
<1>10. Greeted(r)' /\ Greeted(p)' /\ Kept(r)' /\ Kept(p)'
  BY <1>1, <1>6, <1>7, <1>8 DEF Signaling, Greeted, IsOpen, Kept, At
<1>11. Counted(r)'
  BY <1>1, <1>6, <1>7, <1>8 DEF Signaling, Counted, At, p
<1>12. Counted(p)'
  <2>1. sig[r].gathered = sig[p].added + sig[p].pending + (IF sig[p].at = "add" THEN 1 ELSE 0)
                            + Candidates(up[r]) + Candidates(down[p])
    BY <1>1 DEF Signaling, Counted, At
  <2>2. sig[p].added \in Nat /\ sig[p].pending \in Nat /\ Candidates(down[p]) \in Nat
    BY <1>1, Lengths
  <2>3. n = sig[p].added + sig[p].pending + (IF sig[p].at = "add" THEN 1 ELSE 0)
              + Candidates(up'[r]) + Candidates(down[p])
    BY <1>2, <1>4, <1>8, <2>1, <2>2
  <2>. QED  BY <1>1, <1>6, <1>7, <1>8, <2>3 DEF Counted, At
<1>13. Described'
  BY <1>1, <1>3, <1>6, <1>7, TwoRoles DEF Described, p
<1>. QED  BY <1>8, <1>9, <1>10, <1>11, <1>12, <1>13, Assemble DEF p

\* What neither opens a socket nor touches signaling or queues.
LEMMA KeptAside ==
  ASSUME Signaling, UNCHANGED <<up, down, sig>>, \A r \in Role : IsOpen(r)' <=> IsOpen(r)
  PROVE  Signaling'
<1>1. BothOpen' <=> BothOpen
  BY DEF BothOpen
<1>2. (Blank => Blank') /\ (Exchanging => Exchanging') /\ (Described => Described')
  BY DEF Blank, Exchanging, At, Described
<1>3. \A r \in Role : (Greeted(r) => Greeted(r)') /\ (Counted(r) => Counted(r)') /\ (Kept(r) => Kept(r)')
  BY DEF Greeted, Counted, Kept, At
<1>. QED  BY <1>1, <1>2, <1>3 DEF Signaling

LEMMA AcceptsStep ==
  ASSUME Healthy, NEW r \in Role, Accepts(r), UNCHANGED sig
  PROVE  Signaling'
<1> DEFINE p == Peer(r)
<1>1. SessionTypeOK /\ Signaling /\ p \in Role /\ p # r /\ Peer(p) = r
  BY Roles DEF Healthy
<1>2. /\ socket[r].state = "admitted" /\ socket' = [socket EXCEPT ![r].state = "open"] /\ UNCHANGED up
      /\ down' = IF Pair(r) THEN [Forward(p, "ready") EXCEPT ![r] = <<"hello", "ready">>]
                 ELSE [down EXCEPT ![r] = <<"hello">>]
  BY DEF Accepts
<1>3. socket \in [Role -> Attachment] /\ down \in [Role -> Seq(Signals)]
  BY <1>1 DEF SessionTypeOK, RoomTypeOK
<1>4. IsOpen(r)' /\ ~IsOpen(r) /\ (IsOpen(p)' <=> IsOpen(p)) /\ ~BothOpen
  BY <1>1, <1>2, <1>3 DEF IsOpen, BothOpen, Attachment
<1>5. IsOpen(p) <=> Pair(r)
  BY <1>1 DEF Healthy, Sound, Pair, Listed, IsOpen
<1>6. Blank /\ Described
  BY <1>1, <1>4 DEF Signaling
<1>7. down[p] \in Seq(Signals) /\ "ready" \in Signals /\ "candidate" \in Signals
  BY <1>1, <1>3 DEF Signals
<1>8. /\ down'[r] = IF Pair(r) THEN <<"hello", "ready">> ELSE <<"hello">>
      /\ down'[p] = IF Pair(r) THEN Append(down[p], "ready") ELSE down[p]
  BY <1>1, <1>2, <1>3, <1>5 DEF Forward
<1>9. \A x : Has(<<"hello">>, x) => x = "hello"
  BY DEF Has
<1>10. \A x : Has(<<"hello", "ready">>, x) <=> x = "hello" \/ x = "ready"
  <2>1. DOMAIN <<"hello", "ready">> = {1, 2} /\ <<"hello", "ready">>[1] = "hello" /\ <<"hello", "ready">>[2] = "ready"
    OBVIOUS
  <2>. QED  BY <2>1 DEF Has
<1>11. ~Has(down[r], "candidate") /\ ~Has(down'[r], "candidate")
  BY <1>6, <1>7, <1>8, <1>9, <1>10 DEF Blank
<1>12. Candidates(down[r]) = 0 /\ Candidates(down'[r]) = 0
  BY <1>11, NoneIn
<1>13. Candidates(down'[p]) = Candidates(down[p])
  <2>1. Candidates(Append(down[p], "ready")) = Candidates(down[p]) + 0 /\ Candidates(down[p]) \in Nat
    BY <1>7, CountAppend, CountFinite
  <2>2. Candidates(Append(down[p], "ready")) = Candidates(down[p])
    BY <2>1
  <2>. QED  BY <1>8, <2>2
<1>14. BothOpen' <=> Pair(r)
  BY <1>4, <1>5, TwoRoles DEF BothOpen, Role, p
<1>15. ~BothOpen' => Blank'
  <2> SUFFICES ASSUME ~Pair(r) PROVE Blank'
    BY <1>14
  <2>1. \A s \in Role : s = r \/ s = p
    BY DEF Role, Peer
  <2>2. UNCHANGED <<up, sig>> /\ down'[p] = down[p] /\ \A x : Has(down'[r], x) => x = "hello"
    BY <1>2, <1>8, <1>9
  <2> HIDE DEF p
  <2>. QED  BY <1>6, <2>1, <2>2 DEF Blank
<1>16. BothOpen' => Exchanging'
  <2> SUFFICES ASSUME Pair(r) PROVE Exchanging'
    BY <1>14
  <2>1. Has(down'[r], "ready") /\ Has(down'[p], "ready")
    BY <1>7, <1>8, <1>10, HasAppend
  <2>. QED  BY <2>1, TwoRoles DEF Exchanging
<1>17. Greeted(r)'
  <2>1. down'[r] # <<>> /\ Head(down'[r]) = "hello"
    BY <1>8
  <2>. QED  BY <2>1 DEF Greeted
<1>18. Greeted(p)'
  <2>1. down[p] # <<>> /\ Head(down[p]) = "hello" => down'[p] # <<>> /\ Head(down'[p]) = "hello"
    BY <1>7, <1>8
  <2>2. Greeted(p)
    BY <1>1 DEF Signaling
  <2> HIDE DEF p
  <2>. QED  BY <1>4, <2>1, <2>2 DEF Greeted
<1> HIDE DEF p
<1>19. Counted(r)' /\ Counted(p)'
  BY <1>1, <1>2, <1>12, <1>13 DEF Signaling, Counted, At, p
<1>20. Kept(r)' /\ Kept(p)' /\ Described'
  BY <1>1, <1>6 DEF Signaling, Kept, At, Described
<1>. QED  BY <1>15, <1>16, <1>17, <1>18, <1>19, <1>20, Assemble DEF p

LEMMA ForwardStep ==
  ASSUME Healthy, Sound', NEW r \in Role, webSocketMessage(r), UNCHANGED sig
  PROVE  Signaling'
<1> DEFINE p == Peer(r)
           m == Head(up[r])
<1>1. SessionTypeOK /\ Signaling /\ p \in Role /\ p # r /\ Peer(p) = r
  BY Roles DEF Healthy
<1>2. socket \in [Role -> Attachment] /\ down \in [Role -> Seq(Signals)] /\ up \in [Role -> Seq({"offer", "answer", "candidate"})]
  BY <1>1 DEF SessionTypeOK, RoomTypeOK
<1>3. up[r] # <<>> /\ BothOpen /\ Exchanging /\ Described
  BY <1>1, WorkTogether DEF webSocketMessage, Signaling
<1>4. Valid(r, m)
  <2> SUFFICES ASSUME ~Valid(r, m) PROVE FALSE
    OBVIOUS
  <2>1. socket' = [socket EXCEPT ![r].state = "closing"]
    BY DEF webSocketMessage
  <2>2. socket'[r].state = "closing"
    BY <1>2, <2>1 DEF Attachment
  <2>. QED  BY <2>2 DEF Sound
<1>5. /\ up' = [up EXCEPT ![r] = Tail(up[r])] /\ down' = Forward(p, m)
      /\ \E x, y : socket' = [socket EXCEPT ![r].messages = x, ![r].sdpSent = y]
  BY <1>4 DEF webSocketMessage
<1>6. \A s \in Role : IsOpen(s)' <=> IsOpen(s)
  <2>1. PICK x, y : socket' = [socket EXCEPT ![r].messages = x, ![r].sdpSent = y]
    BY <1>5
  <2>2. \A s \in Role : socket'[s].state = socket[s].state
    BY <1>2, <2>1 DEF Attachment
  <2>. QED  BY <2>2 DEF IsOpen
<1>7. BothOpen'
  BY <1>3, <1>6 DEF BothOpen
<1>8. up'[r] = Tail(up[r]) /\ up'[p] = up[p] /\ down'[p] = Append(down[p], m) /\ down'[r] = down[r]
  BY <1>1, <1>2, <1>3, <1>5 DEF Forward, BothOpen
<1>10. m \in Signals /\ up[r] \in Seq(Signals) /\ down[p] \in Seq(Signals)
  <2>1. m \in {"offer", "answer", "candidate"}
    BY <1>2, <1>3
  <2>2. up[r] \in Seq(Signals) /\ down[p] \in Seq(Signals)
    BY <1>1, Lengths
  <2>. QED  BY <2>1, <2>2 DEF Signals
<1>11. down[p] # <<>> => Head(down'[p]) = Head(down[p]) /\ down'[p] # <<>>
  BY <1>8, <1>10
<1>12. /\ \A x : Has(up[r], x) => x = m \/ Has(up'[r], x)
       /\ \A x : Has(down'[p], x) <=> Has(down[p], x) \/ m = x
  BY <1>3, <1>8, <1>10, HasTail, HasAppend
<1>13. /\ Candidates(up[r]) = Candidates(up'[r]) + (IF m = "candidate" THEN 1 ELSE 0)
       /\ Candidates(down'[p]) = Candidates(down[p]) + (IF m = "candidate" THEN 1 ELSE 0)
  BY <1>3, <1>8, <1>10, CountTail, CountAppend
<1>14. Candidates(up'[r]) \in Nat /\ Candidates(down[p]) \in Nat
  <2>1. Tail(up[r]) \in Seq(Signals)
    BY <1>3, <1>10
  <2>. QED  BY <1>8, <1>10, <2>1, CountFinite
<1> HIDE DEF m, p
<1>15. Exchanging'
  <2>1. CASE r = "offerer"
    <3>1. p = "answerer"
      BY <2>1 DEF p, Peer
    <3>. QED  BY <1>3, <1>8, <1>12, <2>1, <3>1 DEF Exchanging, At
  <2>2. CASE r = "answerer"
    <3>1. p = "offerer"
      BY <2>2 DEF p, Peer
    <3>. QED  BY <1>3, <1>8, <1>12, <2>2, <3>1 DEF Exchanging, At
  <2>. QED  BY <2>1, <2>2, TwoRoles
<1>16. Greeted(r)' /\ Greeted(p)'
  BY <1>1, <1>6, <1>8, <1>11 DEF Signaling, Greeted
<1>17. Counted(r)'
  BY <1>1, <1>8 DEF Signaling, Counted, At, p
<1>18. Counted(p)'
  <2>1. sig[r].gathered = sig[p].added + sig[p].pending + (IF sig[p].at = "add" THEN 1 ELSE 0)
                            + Candidates(up[r]) + Candidates(down[p])
    BY <1>1 DEF Signaling, Counted, At
  <2>2. sig[p].added \in Nat /\ sig[p].pending \in Nat
    BY <1>1, Lengths
  <2>3. sig[r].gathered = sig[p].added + sig[p].pending + (IF sig[p].at = "add" THEN 1 ELSE 0)
                            + Candidates(up'[r]) + Candidates(down'[p])
    BY <1>13, <1>14, <2>1, <2>2
  <2>. QED  BY <1>1, <2>3 DEF Counted, At
<1>19. Kept(r)' /\ Kept(p)' /\ Described'
  BY <1>1, <1>3 DEF Signaling, Kept, At, Described
<1>. QED  BY <1>7, <1>15, <1>16, <1>17, <1>18, <1>19, Assemble DEF p

LEMMA SignalingStep ==
  ASSUME PeerInv, SessionTypeOK, Sound => Signaling, [SessionNext]_session, Sound'
  PROVE  Signaling'
<1>1. Healthy
  BY SoundBefore DEF Healthy
<1>2. Signaling /\ socket \in [Role -> Attachment]
  BY <1>1 DEF Healthy, SessionTypeOK, RoomTypeOK
<1>3. CASE Experiments \/ UNCHANGED session
  <2>1. UNCHANGED <<up, down, sig, socket>>
    BY <1>3 DEF Experiments, session, room
  <2>. QED  BY <1>2, <2>1, KeptAside DEF IsOpen
<1>5. CASE alarm /\ UNCHANGED sig
  <2>1. \A r \in Role : IsOpen(r) => socket'[r].state = "closing"
    BY <1>2, <1>5 DEF alarm, Attachment
  <2>2. \A r \in Role : ~IsOpen(r)
    BY <2>1 DEF Sound
  <2>3. socket' = socket
    BY <1>2, <1>5, <2>2 DEF alarm
  <2>. QED  BY <1>2, <1>5, <2>3, KeptAside DEF alarm, IsOpen
<1>6. ASSUME NEW r \in Role, Admit(r), UNCHANGED sig PROVE Signaling'
  <2>1. \A s \in Role : IsOpen(s)' <=> IsOpen(s)
    BY <1>2, <1>6 DEF Admit, IsOpen, Attachment
  <2>. QED  BY <1>2, <1>6, <2>1, KeptAside DEF Admit
<1>7. ASSUME NEW r \in Role, webSocketClose(r) \/ webSocketError(r) PROVE FALSE
  <2>1. socket'[r].state \in {"closed", "closing"}
    BY <1>2, <1>7 DEF webSocketClose, webSocketError, Attachment
  <2>. QED  BY <2>1 DEF Sound
<1>8. CASE Room
  BY <1>1, <1>5, <1>6, <1>7, <1>8, AcceptsStep, ForwardStep DEF Room
<1>9. ASSUME NEW r \in Role, Ignored(r) \/ onclose(r) PROVE FALSE
  <2>1. ~Ignored(r)
    BY <1>1 DEF Ignored, Healthy, Sound
  <2>2. CASE onclose(r)
    <3>1. sig'[r].shut
      BY <1>1, <2>2 DEF onclose, Healthy, SessionTypeOK, Sig
    <3>. QED  BY <3>1 DEF Sound, WsOpen
  <2>. QED  BY <1>9, <2>1, <2>2
<1>. QED  BY <1>1, <1>3, <1>8, <1>9, GreetingStep, RemoteStep, CandidateStep, ReturnStep, LocalStep, GatherStep
       DEF SessionNext

LEMMA InitSignaling == SessionInit => Signaling
<1> SUFFICES ASSUME SessionInit PROVE Signaling
  OBVIOUS
<1>1. \A r \in Role : /\ up[r] = <<>> /\ down[r] = <<>> /\ sig[r] = NewSig /\ ~IsOpen(r) /\ Peer(r) \in Role
  BY Roles DEF SessionInit, RoomInit, NoSocket, IsOpen
<1>2. \A m : ~Has(<<>>, m)
  BY DEF Has
<1>3. "offerer" \in Role /\ "answerer" \in Role
  BY DEF Role
<1>4. ~BothOpen /\ Blank /\ Described
  BY <1>1, <1>2, <1>3 DEF BothOpen, Blank, Described, NewSig
<1>5. \A r \in Role : Greeted(r) /\ Kept(r) /\ Counted(r)
  BY <1>1, NoneEmpty DEF Greeted, Kept, Counted, NewSig, At
<1>. QED  BY <1>4, <1>5 DEF Signaling

\* Signaling never stops half way, for any number of candidates and any limits of the room:
\* if both pages are connected and no signal is on its way, the descriptions are exchanged
\* and every candidate has reached the other side's RTCPeerConnection, those too that came
\* before the description (signal-room.js:42, peer.js:51-53, 102-111).
THEOREM SignalingEnds == SessionSpec => []SignalingSettles
<1>1. SessionInit => PeerInv /\ (Sound => Signaling)
  BY InitInv, InitSignaling DEF SessionInit
<1>2. PeerInv /\ [SessionNext]_session => PeerInv'
  BY SessionStep, StepKeeps
<1>3. PeerInv /\ SessionTypeOK /\ (Sound => Signaling) /\ [SessionNext]_session => (Sound => Signaling)'
  BY SignalingStep
<1>4. SessionTypeOK /\ (Sound => Signaling) => SignalingSettles
  <2> SUFFICES ASSUME SessionTypeOK, Sound => Signaling, Quiet
               PROVE  Negotiated /\ \A r \in Role : sig[r].added = sig[Peer(r)].gathered
    BY DEF SignalingSettles
  <2>1. Signaling /\ BothOpen
    BY DEF Quiet, Sound, BothOpen, IsOpen
  <2>2. \A m : ~Has(<<>>, m)
    BY DEF Has
  <2>3. "offerer" \in Role /\ "answerer" \in Role /\ \A r \in Role : Peer(r) \in Role
    BY Roles DEF Role
  <2>4. \A r \in Role : sig[r].at = "idle" /\ up[r] = <<>> /\ down[r] = <<>>
    BY DEF Quiet, At
  <2>5. sig["answerer"].local /\ sig["offerer"].remote /\ sig["answerer"].remote
    BY <2>1, <2>2, <2>3, <2>4 DEF Signaling, Exchanging, Described, At
  <2>6. ASSUME NEW r \in Role PROVE sig[r].added = sig[Peer(r)].gathered
    <3>1. sig[r].pending = 0
      BY <2>1, <2>4, <2>5 DEF Signaling, Kept, At, Role
    <3>2. sig[r].added \in Nat
      BY Lengths
    <3>. QED  BY <2>1, <2>3, <2>4, <3>1, <3>2, NoneEmpty DEF Signaling, Counted, At
  <2>. QED  BY <2>5, <2>6 DEF Negotiated
<1>. QED  BY <1>1, <1>2, <1>3, <1>4, SessionTypes, PTL DEF SessionSpec

=============================================================================
