--------------------------- MODULE SignalingRoom ---------------------------
(***************************************************************************)
(* The SignalingRoom Durable Object (src/signal-room.js).  It admits two   *)
(* WebSockets and forwards descriptions and candidates between them.  Its  *)
(* handlers are synchronous, but for fetch, which awaits the admission     *)
(* transaction before it accepts the socket.                               *)
(***************************************************************************)
EXTENDS Naturals, Sequences, PeerRole

CONSTANT MaxMessages   \* the limit of 32 messages of a socket

ASSUME RoomAssumption == MaxMessages \in Nat \ {0}

VARIABLES
  joined,   \* storage: admissions so far
  expired,  \* the alarm has run
  socket,   \* per role: the server's WebSocket with its attachment
  up,       \* per role: messages of the page on their way to the room
  down      \* per role: messages on their way to the page, and in its signalQueue

room == <<joined, expired, socket, up, down>>

NoSocket == [state |-> "none", messages |-> 0, sdpSent |-> FALSE]

RoomInit ==
  /\ joined = 0 /\ expired = FALSE
  /\ socket = [r \in Role |-> NoSocket]
  /\ up = [r \in Role |-> <<>>]
  /\ down = [r \in Role |-> <<>>]

IsOpen(r) == socket[r].state = "open"
\* getWebSockets(): a closing socket is still listed.
Listed(r) == socket[r].state \in {"open", "closing"}

\* The two transactions decide the roles.
Admit(r) ==
  /\ ~expired /\ joined < 2 /\ socket[r].state = "none"
  /\ r = IF joined = 0 THEN "offerer" ELSE "answerer"
  /\ joined' = joined + 1
  /\ socket' = [socket EXCEPT ![r].state = "admitted"]
  /\ UNCHANGED <<expired, up, down>>

\* Slip: the list of sockets is read before the new one is accepted.
Pair_Before(r) == Listed(r) /\ Listed(Peer(r))

Pair(r) == Listed(Peer(r))

\* send fails on a socket that is not open, and nobody minds.
Forward(to, m) == IF IsOpen(to) THEN [down EXCEPT ![to] = Append(@, m)] ELSE down

Accepts(r) ==
  /\ socket[r].state = "admitted"
  /\ socket' = [socket EXCEPT ![r].state = "open"]
  /\ down' = IF Pair(r)
             THEN [Forward(Peer(r), "ready") EXCEPT ![r] = <<"hello", "ready">>]
             ELSE [down EXCEPT ![r] = <<"hello">>]
  /\ UNCHANGED <<joined, expired, up>>

Description(r) == IF r = "offerer" THEN "offer" ELSE "answer"

Within(r) == socket[r].messages < MaxMessages

\* validateSignal and the limits
Valid(r, m) ==
  /\ ~expired /\ Within(r)
  /\ m # "candidate" => m = Description(r) /\ ~socket[r].sdpSent

webSocketMessage(r) ==
  /\ IsOpen(r) /\ up[r] # <<>>
  /\ up' = [up EXCEPT ![r] = Tail(@)]
  /\ IF Valid(r, Head(up[r]))
     THEN /\ socket' = [socket EXCEPT ![r].messages = @ + 1,
                                      ![r].sdpSent = @ \/ Head(up[r]) # "candidate"]
          /\ down' = Forward(Peer(r), Head(up[r]))
     ELSE /\ socket' = [socket EXCEPT ![r].state = "closing"]
          /\ UNCHANGED down
  /\ UNCHANGED <<joined, expired>>

\* What an open socket sent before it closed is handled first.
webSocketClose(r) ==
  /\ Listed(r) /\ (IsOpen(r) => up[r] = <<>>)
  /\ socket' = [socket EXCEPT ![r].state = "closed"]
  /\ up' = [up EXCEPT ![r] = <<>>]
  /\ down' = Forward(Peer(r), "peer-left")
  /\ UNCHANGED <<joined, expired>>

\* Nobody is told.
webSocketError(r) ==
  /\ IsOpen(r)
  /\ socket' = [socket EXCEPT ![r].state = "closing"]
  /\ UNCHANGED <<joined, expired, up, down>>

alarm ==
  /\ joined > 0 /\ ~expired
  /\ expired' = TRUE /\ joined' = 0
  /\ socket' = [r \in Role |-> IF IsOpen(r) THEN [socket[r] EXCEPT !.state = "closing"] ELSE socket[r]]
  /\ UNCHANGED <<up, down>>

Signals == {"hello", "ready", "offer", "answer", "candidate", "peer-left"}

States == {"none", "admitted", "open", "closing", "closed"}
Attachment == [state : States, messages : 0..MaxMessages, sdpSent : BOOLEAN]

RoomTypeOK ==
  /\ joined \in 0..2 /\ expired \in BOOLEAN
  /\ socket \in [Role -> Attachment]
  /\ up \in [Role -> Seq({"offer", "answer", "candidate"})]
  /\ down \in [Role -> Seq(Signals)]
=============================================================================
