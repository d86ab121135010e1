---------------------------- MODULE PeerSession ----------------------------
(***************************************************************************)
(* Two browser pages, their signaling room and the experiment they run:    *)
(* the signaling half of public/peer.js composed with SignalingRoom and    *)
(* PeerExperiment.  Signals are handled one at a time, in the order of     *)
(* their arrival (signalQueue), each across several awaits of the          *)
(* RTCPeerConnection, while candidates, closes and timers come in between. *)
(***************************************************************************)
EXTENDS PeerExperiment, SignalingRoom

CONSTANT MaxCandidates   \* bound: candidates the two pages gather together

ASSUME CandidateAssumption == MaxCandidates \in Nat

\* at: the await the signal in hand is parked at; shut: the WebSocket has
\* closed; pending and added: candidates kept for, and given to, the RTCPeerConnection.
VARIABLE sig

session == <<page, wire, room, sig>>

NewSig ==
  [at |-> "idle", hello |-> FALSE, local |-> FALSE, remote |-> FALSE,
   gathered |-> 0, pending |-> 0, added |-> 0, shut |-> FALSE]

SessionInit == Init /\ RoomInit /\ sig = [r \in Role |-> NewSig]

Alive(r) == ~page[r].ended /\ page[r].outcome # "done"
\* cleanup closes the WebSocket.
WsOpen(r) == ~page[r].ended /\ ~sig[r].shut
At(r, at) == sig[r].at = at
Goes(r, at) == sig' = [sig EXCEPT ![r].at = at]

Signal(r, m) == up' = [up EXCEPT ![r] = Append(@, m)] /\ UNCHANGED <<joined, expired, socket, down>>

Fails(r) == Becomes(r, Fail(page[r])) /\ UNCHANGED wire
ExperimentKept == UNCHANGED <<page, wire>>

-----------------------------------------------------------------------------
(* onSignal *)

\* Slip: a signal is handled although the one before it still waits.
Turn_Any(r) == TRUE

Turn(r) == At(r, "idle")

Signaled(r, m) ==
  /\ Turn(r) /\ down[r] # <<>> /\ Head(down[r]) = m
  /\ down' = [down EXCEPT ![r] = Tail(@)]
  /\ UNCHANGED <<joined, expired, socket, up>>

\* One after the other, with the same effect.
Ignored(r) ==
  /\ ~Alive(r) /\ Turn(r) /\ down[r] # <<>>
  /\ down' = [down EXCEPT ![r] = <<>>]
  /\ UNCHANGED <<joined, expired, socket, up>>
  /\ ExperimentKept /\ UNCHANGED sig

hello(r) ==
  /\ Alive(r) /\ Signaled(r, "hello")
  /\ sig' = [sig EXCEPT ![r].hello = TRUE]
  /\ ExperimentKept

\* A page that does not know its role makes no offer.
connect(r) ==
  /\ Alive(r) /\ Signaled(r, "ready")
  /\ IF r = "offerer" /\ sig[r].hello THEN Goes(r, "create") ELSE UNCHANGED sig
  /\ ExperimentKept

remoteDescription(r) ==
  /\ Alive(r)
  /\ \E m \in {"offer", "answer"} :
       /\ Signaled(r, m)
       /\ IF m = Description(Peer(r))
          THEN Goes(r, "remote") /\ ExperimentKept
          ELSE Fails(r) /\ UNCHANGED sig

\* Slip: a candidate that comes before the description is dropped.
Early_Dropped(r) == 0

Early(r) == 1

remoteCandidate(r) ==
  /\ Alive(r) /\ Signaled(r, "candidate")
  /\ IF sig[r].remote
     THEN Goes(r, "add")
     ELSE sig' = [sig EXCEPT ![r].pending = @ + Early(r)]
  /\ ExperimentKept

peerLeft(r) ==
  /\ Alive(r) /\ Signaled(r, "peer-left")
  /\ IF page[r].channel = "open" THEN ExperimentKept ELSE Fails(r)
  /\ UNCHANGED sig

-----------------------------------------------------------------------------
(* The awaits of the RTCPeerConnection; ended pages have closed theirs *)

Resumes(r, at) == ~page[r].ended /\ At(r, at)

\* createOffer, createAnswer
Created(r) ==
  /\ Resumes(r, "create")
  /\ Goes(r, "local")
  /\ ExperimentKept /\ UNCHANGED room

\* setLocalDescription; signal throws when the WebSocket is gone.
LocalSet(r) ==
  /\ Resumes(r, "local")
  /\ sig' = [sig EXCEPT ![r].at = "idle", ![r].local = TRUE]
  /\ IF WsOpen(r)
     THEN Signal(r, Description(r)) /\ ExperimentKept
     ELSE Fails(r) /\ UNCHANGED room

\* setRemoteDescription
RemoteSet(r) ==
  /\ Resumes(r, "remote")
  /\ sig' = [sig EXCEPT ![r].at = "pending", ![r].remote = TRUE]
  /\ ExperimentKept /\ UNCHANGED room

\* The loop over pendingCandidates
PendingAdded(r) ==
  /\ Resumes(r, "pending")
  /\ sig' = [sig EXCEPT ![r].added = @ + sig[r].pending, ![r].pending = 0,
                        ![r].at = IF r = "answerer" THEN "create" ELSE "idle"]
  /\ ExperimentKept /\ UNCHANGED room

\* addIceCandidate
Added(r) ==
  /\ Resumes(r, "add")
  /\ sig' = [sig EXCEPT ![r].added = @ + 1, ![r].at = "idle"]
  /\ ExperimentKept /\ UNCHANGED room

-----------------------------------------------------------------------------
(* Events of the page *)

\* Gathering starts while setLocalDescription is awaited.
onicecandidate(r) ==
  /\ Alive(r) /\ (At(r, "local") \/ sig[r].local)
  /\ sig[r].gathered + sig[Peer(r)].gathered < MaxCandidates
  /\ sig' = [sig EXCEPT ![r].gathered = @ + 1]
  /\ IF WsOpen(r)
     THEN Signal(r, "candidate") /\ ExperimentKept
     ELSE Fails(r) /\ UNCHANGED room

\* The room closed the WebSocket, or the network did: what came before may still be in
\* the queue.
onclose(r) ==
  /\ WsOpen(r) /\ Listed(r)
  /\ sig' = [sig EXCEPT ![r].shut = TRUE]
  /\ IF page[r].channel = "open" THEN ExperimentKept ELSE Fails(r)
  /\ UNCHANGED room

\* ICE and SCTP can connect when both sides have both descriptions.
Negotiated == sig["offerer"].remote /\ sig["answerer"].local

\* The experiment, whose channel opens when the descriptions allow it.
Experiments ==
  /\ Next
  /\ \A r \in Role : page[r].channel = "connecting" /\ page'[r].channel = "open" => Negotiated
  /\ UNCHANGED <<room, sig>>

Room ==
  /\ \/ alarm
     \/ \E r \in Role : Admit(r) \/ Accepts(r) \/ webSocketMessage(r)
     \/ \E r \in Role : ~WsOpen(r) /\ (webSocketClose(r) \/ webSocketError(r))
  /\ ExperimentKept /\ UNCHANGED sig

SessionNext ==
  \/ Experiments \/ Room
  \/ \E r \in Role :
       \/ Ignored(r) \/ hello(r) \/ connect(r) \/ remoteDescription(r) \/ remoteCandidate(r)
       \/ peerLeft(r) \/ Created(r) \/ LocalSet(r) \/ RemoteSet(r) \/ PendingAdded(r) \/ Added(r)
       \/ onicecandidate(r) \/ onclose(r)

SessionSpec ==
  /\ SessionInit /\ [][SessionNext]_session
  /\ \A r \in Role : WF_vars(TimesOut(r))

-----------------------------------------------------------------------------
Awaits == {"idle", "create", "local", "remote", "pending", "add"}
Sig == [at : Awaits, hello : BOOLEAN, local : BOOLEAN, remote : BOOLEAN,
        gathered : 0..MaxCandidates, pending : Nat, added : Nat, shut : BOOLEAN]

SessionTypeOK ==
  /\ RoomTypeOK
  /\ sig \in [Role -> Sig]

\* Nothing is left to do for two pages that are both connected to the room.
Quiet ==
  \A r \in Role :
    IsOpen(r) /\ WsOpen(r) /\ Alive(r) /\ At(r, "idle") /\ up[r] = <<>> /\ down[r] = <<>>

\* Signaling never stops half way (signal-room.js:42, peer.js:51-53, 102-111): if both
\* pages are in the room and no signal is on its way, the descriptions are
\* exchanged and every candidate has reached the other side's RTCPeerConnection.
SignalingSettles ==
  Quiet => Negotiated /\ \A r \in Role : sig[r].added = sig[Peer(r)].gathered

\* The room and the pages leave the experiment what it is: the only thing signaling does
\* to it is to fail it.
ImplementsExperiment == Spec
=============================================================================
