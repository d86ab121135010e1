----------------------------- MODULE TunnelStream -----------------------------
(***************************************************************************)
(* One tunnelled TCP connection from end to end (crates/tcp-tunnel): the   *)
(* gateway accepts and authorizes the client's connection (bin/gateway.rs),*)
(* the two ends exchange request and status under their nested deadlines,  *)
(* and then copy bytes both ways with half-closes (lib.rs).                *)
(* Time passes in ticks; an armed timer holds the ticks that are left.     *)
(* The handshake has one message in flight at a time, which arrives within *)
(* Delay; the copying is untimed.                                          *)
(***************************************************************************)
EXTENDS Integers

CONSTANTS
  Service,           \* services the gateway is configured with
  Me, Endpoint,      \* the endpoint of this client, among all
  All,               \* the rule ID without =SERVICE
  RuleSets,          \* the lists of --allow-endpoint rules considered
  Unknown,           \* a service id that is not configured
  Malformed,         \* a request that read_request rejects
  Partial,           \* a request that never becomes complete
  HandshakeTimeout, RejectTimeout, RequestTimeout, DialTimeout, ClientTimeout,
  Delay,             \* the longest flight of a message of the handshake
  MaxBytes           \* bound: bytes an application writes

Asks == Service \cup {Unknown, Malformed, Partial}
Rule == [endpoint : Endpoint, service : Service \cup {All}]

\* lib.rs:388-392: the client's deadline (25 s) covers the two of the gateway (10 s each), and
\* the two flights; it is later than that of the rejecting task (10 s), too.
ASSUME StreamAssumption ==
  /\ RuleSets \subseteq SUBSET Rule /\ Me \in Endpoint
  /\ Service \cap {All, Unknown, Malformed, Partial} = {}
  /\ \A t \in {HandshakeTimeout, RejectTimeout, RequestTimeout, DialTimeout, ClientTimeout, Delay} :
       t \in Nat \ {0}
  /\ MaxBytes \in Nat
  /\ ClientTimeout > RequestTimeout + DialTimeout + 2 * Delay
  /\ ClientTimeout > RejectTimeout

VARIABLES
  allow,    \* the access rules
  ask,      \* what this stream requests
  link,     \* the connection of the client's endpoint
  task,     \* where the client's and the gateway's task of the stream are
  timer,    \* the deadline each task waits under, and the one of the message in flight
  flight,   \* the message of the handshake in flight
  answer,   \* the status the client has read
  pipe,     \* per direction: bytes and ends at the source, in the stream, at the destination
  stalled   \* the gateway's process no longer gets on

streamVars == <<allow, ask, link, task, timer, flight, answer, pipe, stalled>>

Side == {"client", "gateway"}
Off == -1
Quiet == [client |-> Off, gateway |-> Off, net |-> Off]
Silent == [src |-> 0, srcEnd |-> "open", wire |-> 0, wireEnd |-> "open", dst |-> 0, dstEnd |-> "open"]

StreamInit ==
  /\ allow \in RuleSets /\ ask \in Asks
  /\ link = "none"
  /\ task = [client |-> "idle", gateway |-> "none"]
  /\ timer = Quiet
  /\ flight = "none" /\ answer = "none"
  /\ pipe = [up |-> Silent, down |-> Silent]
  /\ stalled = FALSE

At(t, at) == task[t] = at
Goes(t, at) == task' = [task EXCEPT ![t] = at]
Out(t) == IF t = "client" THEN "up" ELSE "down"
In(t) == IF t = "client" THEN "down" ELSE "up"
Other(t) == IF t = "client" THEN "gateway" ELSE "client"
Failed(t) == task[t] \in {"failed", "expired"}
Runs(t) == t = "client" \/ ~stalled

-----------------------------------------------------------------------------
(* gateway.rs: run, handle_connection, connection_scope *)

\* Slip: the client waits for a status as long as the gateway dials.
Deadline_Equal ==
  [handshake |-> HandshakeTimeout, reject |-> RejectTimeout, request |-> RequestTimeout,
   dial |-> DialTimeout, status |-> DialTimeout]

Deadline ==
  [handshake |-> HandshakeTimeout, reject |-> RejectTimeout, request |-> RequestTimeout,
   dial |-> DialTimeout, status |-> ClientTimeout]

Mine == {r \in allow : r.endpoint = Me}

\* Slip: a rule for another endpoint counts as well.
Scope_Any == IF allow = {} \/ \E r \in allow : r.service = All THEN Service ELSE {r.service : r \in allow}

\* The services of this endpoint.
Scope ==
  IF allow = {} \/ \E r \in Mine : r.service = All THEN Service ELSE {r.service : r \in Mine}

Authorized == allow = {} \/ Mine # {}

Connect ==
  /\ link = "none" /\ At("client", "idle") /\ ~stalled
  /\ link' = "handshake"
  /\ task' = [client |-> "connect", gateway |-> "handshake"]
  /\ timer' = [Quiet EXCEPT !.gateway = Deadline.handshake]
  /\ UNCHANGED <<allow, ask, flight, answer, pipe, stalled>>

\* handle_connection: the connection is served, or accepted once more to be rejected.
Established ==
  /\ link = "handshake" /\ ~stalled
  /\ link' = "up"
  /\ task' = [client |-> "open", gateway |-> IF Authorized THEN "accept" ELSE "reject"]
  /\ timer' = [timer EXCEPT !.gateway = IF Authorized THEN Off ELSE Deadline.reject]
  /\ UNCHANGED <<allow, ask, flight, answer, pipe, stalled>>

\* Slip: nothing bounds the wait of the rejecting task for a request.
Overdue_Served(at) == at \in {"handshake", "request", "dial"}

\* The waits of the gateway that have a deadline.
Overdue(at) == at \in {"handshake", "reject", "deny", "request", "dial"}

\* HANDSHAKE_TIMEOUT, or REJECT_TIMEOUT and a malformed request: the connection is closed.
HangUp ==
  /\ task["gateway"] \in {"handshake", "reject", "deny"} /\ Overdue(task["gateway"])
  /\ timer.gateway = 0 \/ (At("gateway", "deny") /\ ask = Malformed)
  /\ ~stalled
  /\ link' = "dropped"
  /\ Goes("gateway", "failed")
  /\ timer' = [timer EXCEPT !.gateway = Off]
  /\ UNCHANGED <<allow, ask, flight, answer, pipe, stalled>>

-----------------------------------------------------------------------------
(* lib.rs: drive_client, serve_stream *)

Sends(message) == flight' = message

OpenStream ==
  /\ At("client", "open") /\ link = "up"
  /\ Goes("client", "status")
  /\ Sends("request")
  /\ timer' = [timer EXCEPT !.client = Deadline.status, !.net = Delay]
  /\ UNCHANGED <<allow, ask, link, answer, pipe, stalled>>

\* accept_bi returns with the first bytes of the stream.
RequestArrives ==
  /\ flight = "request" /\ link = "up" /\ ~stalled
  /\ flight' = "none"
  /\ IF At("gateway", "accept")
     THEN /\ Goes("gateway", "request")
          /\ timer' = [timer EXCEPT !.gateway = Deadline.request, !.net = Off]
     ELSE /\ Goes("gateway", IF At("gateway", "reject") THEN "deny" ELSE task["gateway"])
          /\ timer' = [timer EXCEPT !.net = Off]
  /\ UNCHANGED <<allow, ask, link, answer, pipe, stalled>>

\* send_terminal_status or write_status
Replies(status, at) ==
  /\ Goes("gateway", at)
  /\ Sends(status)
  /\ timer' = [timer EXCEPT !.gateway = Off, !.net = Delay]
  /\ UNCHANGED <<allow, ask, answer, pipe, stalled>>

\* The rejecting task ends, and drops the connection with the status in flight.
Deny ==
  /\ At("gateway", "deny") /\ ~stalled /\ ask \notin {Malformed, Partial}
  /\ Replies("Unauthorized", "denied")
  /\ link' = "dropped"

BadRequest ==
  /\ At("gateway", "request") /\ ~stalled
  /\ ask = Malformed \/ (Overdue("request") /\ timer.gateway = 0)
  /\ Replies("BadRequest", "refused") /\ UNCHANGED link

UnknownService ==
  /\ At("gateway", "request") /\ ~stalled /\ ask \notin Scope \cup {Malformed, Partial}
  /\ Replies("UnknownService", "refused") /\ UNCHANGED link

Dial ==
  /\ At("gateway", "request") /\ ~stalled /\ ask \in Scope
  /\ Goes("gateway", "dial")
  /\ timer' = [timer EXCEPT !.gateway = Deadline.dial]
  /\ UNCHANGED <<allow, ask, link, flight, answer, pipe, stalled>>

\* The connect fails, at the latest when its deadline passes.
Unreachable ==
  /\ At("gateway", "dial") /\ ~stalled
  /\ Replies("UpstreamUnreachable", "refused") /\ UNCHANGED link

Dialed ==
  /\ At("gateway", "dial") /\ ~stalled
  /\ Replies("Ok", "pipe") /\ UNCHANGED link

\* read_status.  A status in flight on a connection the gateway has dropped may still arrive.
StatusArrives ==
  /\ flight \notin {"none", "request"} /\ At("client", "status") /\ link \in {"up", "dropped"}
  /\ flight' = "none" /\ answer' = flight
  /\ Goes("client", IF flight = "Ok" THEN "pipe" ELSE "refused")
  /\ timer' = [timer EXCEPT !.client = Off, !.net = Off]
  /\ UNCHANGED <<allow, ask, link, pipe, stalled>>

\* Dropping an unfinished stream may finish or reset it (lib.rs:282-285).
Drops(t, end) ==
  pipe' = [pipe EXCEPT ![Out(t)].wireEnd = IF @ = "open" THEN end ELSE @]

\* CLIENT_HANDSHAKE_TIMEOUT
StatusExpires ==
  /\ At("client", "status") /\ timer.client = 0
  /\ Goes("client", "expired")
  /\ flight' = "none"
  /\ timer' = [timer EXCEPT !.client = Off, !.net = Off]
  /\ \E end \in {"fin", "reset"} : Drops("client", end)
  /\ UNCHANGED <<allow, ask, link, answer, stalled>>

-----------------------------------------------------------------------------
(* copy_bidirectional on a StreamPair, at either end *)

Copying(t) == At(t, "pipe") /\ Runs(t) /\ link = "up"
Moves(d, record) == pipe' = [pipe EXCEPT ![d] = record]
Rest == UNCHANGED <<allow, ask, link, timer, flight, answer, stalled>>

\* poll_write takes what has been read and not been accepted before.
Unsent(p) == p.wire < p.src

Send(t) ==
  LET p == pipe[Out(t)]
  IN  /\ Copying(t) /\ Unsent(p) /\ p.wireEnd = "open" /\ ~Failed(Other(t))
      /\ Moves(Out(t), [p EXCEPT !.wire = @ + 1])
      /\ UNCHANGED task /\ Rest

Receive(t) ==
  LET p == pipe[In(t)]
  IN  /\ Copying(t) /\ p.dst < p.wire /\ p.wireEnd # "reset"
      /\ Moves(In(t), [p EXCEPT !.dst = @ + 1])
      /\ UNCHANGED task /\ Rest

\* Slip: shutting the stream down does not finish its send side.
Shutdown_None(t) == FALSE

\* Slip: the end overtakes what has been read and not been accepted.
Shutdown_Early(t) == pipe[Out(t)].srcEnd = "fin" /\ pipe[Out(t)].wireEnd = "open"

\* poll_shutdown: the end of the source, once all of it is written, finishes the send side.
Shutdown(t) ==
  LET p == pipe[Out(t)]
  IN  p.srcEnd = "fin" /\ p.wire = p.src /\ p.wireEnd = "open"

SendEnd(t) ==
  /\ Copying(t) /\ Shutdown(t)
  /\ Moves(Out(t), [pipe[Out(t)] EXCEPT !.wireEnd = "fin"])
  /\ UNCHANGED task /\ Rest

ReceiveEnd(t) ==
  LET p == pipe[In(t)]
  IN  /\ Copying(t) /\ p.wireEnd = "fin" /\ p.dst = p.wire /\ p.dstEnd = "open"
      /\ Moves(In(t), [p EXCEPT !.dstEnd = "fin"])
      /\ UNCHANGED task /\ Rest

\* Slip: the end of either direction ends the copying.
Both_Either(t) == pipe[Out(t)].wireEnd = "fin" \/ pipe[In(t)].dstEnd = "fin"

Both(t) == pipe[Out(t)].wireEnd = "fin" /\ pipe[In(t)].dstEnd = "fin"

Finish(t) ==
  /\ Copying(t) /\ Both(t)
  /\ Goes(t, "done")
  /\ UNCHANGED pipe /\ Rest

\* An error of one direction ends both; the stream and the TCP connection are dropped.
Broken(t) ==
  \/ link # "up"
  \/ pipe[In(t)].wireEnd = "reset"
  \/ (Failed(Other(t)) /\ pipe[Out(t)].wireEnd = "open")

Fails(t) ==
  /\ At(t, "pipe") /\ Runs(t)
  /\ Goes(t, "failed")
  /\ \E end \in {"fin", "reset"} : Drops(t, end)
  /\ Rest

PipeFails(t) == Broken(t) /\ Fails(t)

\* The connection is lost or refused before there is a tunnel.
ConnectionFails ==
  /\ task["client"] \in {"connect", "open", "status"} /\ link \in {"closed", "dropped"}
  /\ Goes("client", "failed")
  /\ flight' = "none" /\ timer' = [timer EXCEPT !.client = Off, !.net = Off]
  /\ UNCHANGED <<allow, ask, link, answer, pipe, stalled>>

-----------------------------------------------------------------------------
(* The applications, the network, the clock *)

Ends(t) == task[t] \in {"done", "failed", "expired", "refused", "denied"}

Writes(t) ==
  LET p == pipe[Out(t)]
  IN  /\ At(t, "pipe") /\ p.srcEnd = "open" /\ p.src < MaxBytes
      /\ Moves(Out(t), [p EXCEPT !.src = @ + 1])
      /\ UNCHANGED task /\ Rest

Close(t) ==
  /\ At(t, "pipe") /\ pipe[Out(t)].srcEnd = "open"
  /\ Moves(Out(t), [pipe[Out(t)] EXCEPT !.srcEnd = "fin"])
  /\ UNCHANGED task /\ Rest

\* The TCP connection fails under the copying.
Reset(t) == Fails(t)

\* The connection is lost, and with it what the gateway's task was doing.
LoseLink ==
  /\ link \in {"handshake", "up"}
  /\ link' = "closed" /\ flight' = "none"
  /\ timer' = [timer EXCEPT !.gateway = Off, !.net = Off]
  /\ task' = [task EXCEPT !.gateway = IF Ends("gateway") THEN @ ELSE "failed"]
  /\ UNCHANGED <<allow, ask, answer, pipe>>

LinkLost == LoseLink /\ UNCHANGED stalled

Stall ==
  /\ ~stalled /\ stalled' = TRUE
  /\ UNCHANGED <<allow, ask, link, task, timer, flight, answer, pipe>>

\* What can go on does before the clock does: deadlines that have passed, and the reading
\* of a request that has arrived.
Due ==
  \/ timer.client = 0
  \/ timer.net = 0 /\ ~(stalled /\ flight = "request")
  \/ /\ ~stalled
     /\ timer.gateway = 0 \/ (task["gateway"] \in {"deny", "request"} /\ ask # Partial)

Ticks(n) == IF timer[n] > 0 THEN timer[n] - 1 ELSE timer[n]

Tick ==
  /\ ~Due /\ \E n \in DOMAIN timer : timer[n] > 0
  /\ timer' = [n \in DOMAIN timer |-> Ticks(n)]
  /\ UNCHANGED <<allow, ask, link, task, flight, answer, pipe, stalled>>

\* The next local connection; it takes the cached connection if there is one (get_or_dial).
NextTunnel ==
  /\ Ends("client") /\ Ends("gateway")
  /\ ask' \in Asks
  /\ link' = IF link = "up" THEN "up" ELSE "none"
  /\ task' = IF link = "up" THEN [client |-> "open", gateway |-> "accept"]
             ELSE [client |-> "idle", gateway |-> "none"]
  /\ timer' = Quiet /\ flight' = "none" /\ answer' = "none"
  /\ pipe' = [up |-> Silent, down |-> Silent]
  /\ UNCHANGED <<allow, stalled>>

\* What the two programs and the delivery of messages do by themselves.
Works ==
  \/ HangUp \/ OpenStream \/ RequestArrives \/ Deny \/ BadRequest \/ UnknownService \/ Dial
  \/ (Unreachable /\ timer.gateway = 0) \/ StatusArrives \/ StatusExpires \/ ConnectionFails \/ Tick
  \/ \E t \in Side : Send(t) \/ Receive(t) \/ SendEnd(t) \/ ReceiveEnd(t) \/ Finish(t) \/ PipeFails(t)

\* What is up to the applications, the network and the other host.
Happens ==
  \/ Established \/ Dialed \/ Unreachable \/ LinkLost \/ Stall \/ NextTunnel
  \/ \E t \in Side : Writes(t) \/ Close(t) \/ Reset(t)

-----------------------------------------------------------------------------
Statuses == {"Ok", "UnknownService", "Unauthorized", "UpstreamUnreachable", "BadRequest"}

Closing == {"open", "fin"}
Ending == Closing \cup {"reset"}
Direction ==
  [src : 0..MaxBytes, srcEnd : Closing, wire : 0..MaxBytes, wireEnd : Ending, dst : 0..MaxBytes,
   dstEnd : Closing]

\* Each part of the state has its shape, and no end of a direction runs ahead of what it
\* is fed with.
StreamTypeOK ==
  /\ allow \in RuleSets /\ ask \in Asks
  /\ link \in {"none", "handshake", "up", "dropped", "closed"}
  /\ task["client"] \in {"idle", "connect", "open", "status", "pipe", "done", "failed", "expired", "refused"}
  /\ task["gateway"] \in {"none", "handshake", "accept", "reject", "deny", "request", "dial", "pipe",
                         "done", "failed", "refused", "denied"}
  /\ DOMAIN task = Side
  /\ timer \in [{"client", "gateway", "net"} -> Int]
  /\ flight \in Statuses \cup {"none", "request"} /\ answer \in Statuses \cup {"none"}
  /\ pipe \in [{"up", "down"} -> Direction]
  /\ \A d \in {"up", "down"} : pipe[d].dst <= pipe[d].wire /\ pipe[d].wire <= pipe[d].src
  /\ stalled \in BOOLEAN

\* "so it is never an open proxy" (lib.rs:18, gateway.rs:3-6): a stream that reaches an
\* upstream asked for a configured service, and a rule gives it to this endpoint.
OnlyAllowed ==
  task["gateway"] \in {"dial", "pipe"} =>
    /\ ask \in Service
    /\ allow = {} \/ \E r \in allow : r.endpoint = Me /\ r.service \in {All, ask}

\* "an equal deadline would usually expire first and the client would never receive the
\* gateway's UpstreamUnreachable terminal status" (lib.rs:388-392): the client's deadline
\* passes only on a gateway that has stopped working or that it has lost.
StatusInTime == At("client", "expired") => stalled \/ link # "up"

\* Two ends that both report a closed tunnel (TUNNEL_CLOSED with its byte counts) have
\* delivered everything either application wrote, and both ends of it.
CleanMeansComplete ==
  At("client", "done") /\ At("gateway", "done") =>
    \A d \in {"up", "down"} :
      /\ pipe[d].srcEnd = "fin" /\ pipe[d].dstEnd = "fin"
      /\ pipe[d].dst = pipe[d].src

\* The tunnel as its two applications see it: what each end reports, and its bytes.
Permitted == ask \in Scope

Outcome(at) ==
  CASE at = "pipe" -> "open"
    [] at = "done" -> "done"
    [] at \in {"failed", "expired"} -> "failed"
    [] at \in {"refused", "denied"} -> "refused"
    [] OTHER -> "pending"

Report == [t \in Side |-> Outcome(task[t])]

Seen(p) == [src |-> p.src, srcEnd |-> p.srcEnd, dst |-> p.dst, dstEnd |-> p.dstEnd]
Bytes == [d \in {"up", "down"} |-> Seen(pipe[d])]

Duplex == INSTANCE DuplexTunnel WITH permitted <- Permitted, report <- Report, bytes <- Bytes

\* "pipes raw bytes both ways until both sides close" (lib.rs:298-299): whatever the handshake, the
\* deadlines, the dropped connections and the two copying tasks interleave, the applications
\* see a DuplexTunnel: a client told Ok has an upstream that the rules permit, a refusal is
\* the gateway's, and an end that arrives follows all that was written, but for a writer
\* that failed.
ImplementsDuplex == Duplex!Spec

\* "half-close semantics propagate correctly in both directions" (lib.rs:233-234): the end
\* of what one application writes reaches the other, whatever the opposite direction does.
EndsPropagate ==
  \A t \in Side :
    pipe[Out(t)].srcEnd = "fin" ~>
      pipe[Out(t)].dstEnd = "fin" \/ Failed("client") \/ Failed("gateway") \/ stalled

\* "must not park this task and connection forever" (gateway.rs:213-216, lib.rs:310-316):
\* every wait of the gateway for its peer or for the upstream ends.
NeverParked ==
  task["gateway"] \in {"handshake", "reject", "deny", "request", "dial"} ~>
    task["gateway"] \in {"accept", "pipe", "done", "failed", "refused", "denied"} \/ stalled
=============================================================================
