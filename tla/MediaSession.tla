---------------------------- MODULE MediaSession ----------------------------
(***************************************************************************)
(* One media session (crates/media-separation/src/lib.rs, l.511-1214): a   *)
(* sender and a receiver, each with a task that runs the session, a        *)
(* monitor task that feeds the gate from path telemetry, and, at the       *)
(* receiver, a reader task that owns the stream.  The tasks run on a       *)
(* multi-threaded runtime: every action is one step between two            *)
(* synchronisations (lock, channel, await) and any task may go next.       *)
(*                                                                         *)
(* Deadlines of the session tasks are not timed: one may pass at any       *)
(* moment it is armed.                                                     *)
(***************************************************************************)
EXTENDS MediaGate

CONSTANTS
  MaxDirect,   \* direct paths open at once
  MayRelay,    \* a relay path may open, against the endpoint's configuration
  Queue,       \* 8 in the code: frames in the channel from the reader
  Window,      \* frames written and not yet read before write_all waits
  MaxFrames,   \* bound on the frames of a session
  MaxChanges   \* bound on path changes

ASSUME MediaAssumption ==
  /\ MayRelay \in BOOLEAN
  /\ {MaxDirect, MaxFrames, MaxChanges} \subseteq Nat
  /\ {Queue, Window} \subseteq Nat \ {0}

Side == {"sender", "receiver"}
Peer(s) == IF s = "sender" THEN "receiver" ELSE "sender"

VARIABLES
  paths,       \* per side: what Connection::paths would return
  news,        \* per side: an unread path event names a relay address
  relayed,     \* per side, for the properties: a relay path existed before stop()
  conn,        \* per side: the connection is open
  gate,        \* per side: MediaGate
  monitor,     \* per side: the monitor task and the snapshot it took
  ever_relay,  \* per side: ever_relay_paths > 0
  stopping,    \* per side: MediaMonitor::stop was called, or the handle dropped
  sender,      \* the sender's session task
  receiver,    \* the receiver's session task
  stream,      \* both directions of the QUIC stream, and the reader task
  changes      \* path changes so far

vars == <<paths, news, relayed, conn, gate, monitor, ever_relay, stopping,
          sender, receiver, stream, changes>>
telemetry == <<paths, news, relayed, changes>>
watching == <<gate, monitor, ever_relay>>

Paths == {p \in [open_direct : 0..MaxDirect, has_relay : BOOLEAN, selected_direct : BOOLEAN] :
            /\ p.selected_direct => p.open_direct > 0
            /\ p.has_relay => MayRelay}
NoPath == [open_direct |-> 0, has_relay |-> FALSE, selected_direct |-> FALSE]

Session(s) == IF s = "sender" THEN sender.at ELSE receiver.at
Ended(s) == Session(s) \in {"done", "failed"}

Init ==
  /\ paths \in [Side -> Paths]
  /\ news = [s \in Side |-> FALSE] /\ relayed = [s \in Side |-> paths[s].has_relay]
  /\ conn = [s \in Side |-> TRUE]
  /\ gate = [s \in Side |-> NewGate]
  /\ monitor = [s \in Side |-> [at |-> "wait", seen |-> NoPath]]
  /\ ever_relay = [s \in Side |-> FALSE] /\ stopping = [s \in Side |-> FALSE]
  /\ sender = [at |-> "handshake", frames |-> 0, late |-> 0, confirmed |-> FALSE]
  /\ receiver = [at |-> "handshake", received |-> 0, late |-> 0, cut |-> FALSE]
  /\ stream = [hello |-> "none", flight |-> 0, fin |-> FALSE, queue |-> 0, end |-> "none",
               back |-> FALSE]
  /\ changes = 0

-----------------------------------------------------------------------------
(* monitor_loop *)

Feed(s, signal) == gate' = [gate EXCEPT ![s] = Apply(@, signal)]
MonitorAt(s, at) == monitor' = [monitor EXCEPT ![s].at = at]

\* Slip: an event only wakes the loop, the snapshot alone decides.
RelayEvent_Wakes(s) == UNCHANGED <<gate, ever_relay>>

RelayEvent(s) ==
  /\ ever_relay' = [ever_relay EXCEPT ![s] = TRUE]
  /\ Feed(s, Snapshot(0, TRUE, FALSE))

MonitorEvent(s) ==
  /\ monitor[s].at = "wait" /\ news[s]
  /\ news' = [news EXCEPT ![s] = FALSE]
  /\ RelayEvent(s)
  /\ MonitorAt(s, "woken")
  /\ UNCHANGED <<paths, relayed, conn, stopping, sender, receiver, stream, changes>>

\* The snapshot, after an event or at a tick of 50 ms.
MonitorReads(s) ==
  /\ monitor[s].at \in {"wait", "woken"}
  /\ monitor' = [monitor EXCEPT ![s] = [at |-> "read", seen |-> paths[s]]]
  /\ ever_relay' = [ever_relay EXCEPT ![s] = @ \/ paths[s].has_relay]
  /\ UNCHANGED <<telemetry, conn, gate, stopping, sender, receiver, stream>>

MonitorReconciles(s) ==
  /\ monitor[s].at = "read"
  /\ LET p == monitor[s].seen
     IN  Feed(s, Snapshot(p.open_direct, p.has_relay, p.selected_direct))
  /\ MonitorAt(s, "applied")
  /\ UNCHANGED <<telemetry, conn, ever_relay, stopping, sender, receiver, stream>>

\* Slip: the latched gate is left for the session task to notice.
Cut_Later(s) == conn

Cut(s) == IF Stopped(gate[s]) THEN [conn EXCEPT ![s] = FALSE] ELSE conn

MonitorChecks(s) ==
  /\ monitor[s].at = "applied"
  /\ conn' = Cut(s)
  /\ MonitorAt(s, IF Stopped(gate[s]) THEN "done" ELSE "wait")
  /\ UNCHANGED <<telemetry, gate, ever_relay, stopping, sender, receiver, stream>>

MonitorSeesClose(s) ==
  /\ monitor[s].at = "wait" /\ ~conn[s]
  /\ Feed(s, ConnectionClosed)
  /\ MonitorAt(s, "done")
  /\ UNCHANGED <<telemetry, conn, ever_relay, stopping, sender, receiver, stream>>

\* The select of spawn_media_monitor drops the loop where it waits.
MonitorStops(s) ==
  /\ monitor[s].at = "wait" /\ stopping[s]
  /\ MonitorAt(s, "done")
  /\ UNCHANGED <<telemetry, conn, gate, ever_relay, stopping, sender, receiver, stream>>

-----------------------------------------------------------------------------
(* Both sessions: the bounded handshake, an error, the end. *)

\* Dropping or shutting down the stream finishes it, if there is still a connection.
Fin == stream' = [stream EXCEPT !.fin = @ \/ conn["sender"]]

\* An error drops the monitor handle, the stream and the connection.
Gone(s) ==
  /\ stopping' = [stopping EXCEPT ![s] = TRUE]
  /\ conn' = [conn EXCEPT ![s] = FALSE]

Finished(s) ==
  /\ monitor[s].at = "done"
  /\ conn' = [conn EXCEPT ![s] = FALSE]
  /\ UNCHANGED <<telemetry, watching, stopping, stream>>

StopMonitor(s) == stopping' = [stopping EXCEPT ![s] = TRUE]

SenderOpens ==
  /\ sender.at = "handshake" /\ stream.hello = "none" /\ conn["sender"]
  /\ stream' = [stream EXCEPT !.hello = "token"]
  /\ UNCHANGED <<telemetry, watching, conn, stopping, sender, receiver>>

ReceiverAccepts ==
  /\ receiver.at = "handshake" /\ stream.hello = "token" /\ conn["receiver"]
  /\ stream' = [stream EXCEPT !.hello = "ready"]
  /\ receiver' = [receiver EXCEPT !.at = "receive"]
  /\ UNCHANGED <<telemetry, watching, conn, stopping, sender>>

SenderReady ==
  /\ sender.at = "handshake" /\ stream.hello = "ready"
  /\ sender' = [sender EXCEPT !.at = "await"]
  /\ UNCHANGED <<telemetry, watching, conn, stopping, receiver, stream>>

\* MEDIA_HANDSHAKE_TIMEOUT, a lost connection, or at the sender no direct path within
\* the whole duration.
SenderFails ==
  /\ sender.at = "handshake" \/ (sender.at = "await" /\ gate["sender"].state = "AwaitingDirect")
  /\ sender' = [sender EXCEPT !.at = "failed"]
  /\ Gone("sender")
  /\ Fin
  /\ UNCHANGED <<telemetry, watching, receiver>>

\* The handshake, or a read that failed with no gate stop within 2 s.
ReceiverFails ==
  /\ receiver.at = "handshake" \/ (receiver.at = "latching" /\ ~Stopped(gate["receiver"]))
  /\ receiver' = [receiver EXCEPT !.at = "failed"]
  /\ Gone("receiver")
  /\ UNCHANGED <<telemetry, watching, sender, stream>>

-----------------------------------------------------------------------------
(* send_synthetic and streaming_task *)

StartsStreaming(g) == g.state = "DirectReady"

SenderStarts ==
  /\ sender.at = "await" /\ StartsStreaming(gate["sender"])
  /\ sender' = [sender EXCEPT !.at = "stream"]
  /\ UNCHANGED <<telemetry, watching, conn, stopping, receiver, stream>>

ReceiverLeft == receiver.at \in {"stopping", "done", "failed"}

\* A stop before the first frame, between two frames, or a write cut short by the
\* closed connection or by a receiver that has dropped the stream.
SenderCut ==
  /\ \/ sender.at \in {"await", "stream"} /\ Stopped(gate["sender"])
     \/ sender.at = "write" /\ (~conn["sender"] \/ ReceiverLeft)
  /\ sender' = [sender EXCEPT !.at = "confirm"]
  /\ Fin
  /\ UNCHANGED <<telemetry, watching, conn, stopping, receiver>>

\* Slip: the gate is read once, before the loop.
MaySend_Once(g) == g.direct_ready

MaySend(g) == g.state = "DirectReady"

SenderTick ==
  /\ sender.at = "stream" /\ sender.frames < MaxFrames
  /\ MaySend(gate["sender"])
  /\ sender' = [sender EXCEPT !.at = "write"]
  /\ UNCHANGED <<telemetry, watching, conn, stopping, receiver, stream>>

SenderWrites ==
  /\ sender.at = "write" /\ conn["sender"] /\ stream.flight < Window
  /\ stream' = [stream EXCEPT !.flight = @ + 1]
  /\ sender' = [sender EXCEPT !.at = "stream", !.frames = @ + 1,
                              !.late = IF Stopped(gate["sender"]) THEN @ + 1 ELSE @]
  /\ UNCHANGED <<telemetry, watching, conn, stopping, receiver>>

\* The deadline leaves the loop without looking at the gate.
SenderDeadline ==
  /\ sender.at = "stream"
  /\ sender' = [sender EXCEPT !.at = "confirm"]
  /\ Fin
  /\ UNCHANGED <<telemetry, watching, conn, stopping, receiver>>

\* Slip: any answer within the 5 s will do, a lost connection too.
Confirmed_Answered == stream.back \/ ~conn["sender"]

Confirmed == stream.back

\* read_to_end: the receiver's FIN, or an error, or 5 s.
SenderConfirms ==
  /\ sender.at = "confirm"
  /\ \E confirmed \in {Confirmed, FALSE} :
       sender' = [sender EXCEPT !.at = "stopping", !.confirmed = confirmed]
  /\ StopMonitor("sender")
  /\ UNCHANGED <<telemetry, watching, conn, receiver, stream>>

SenderDone ==
  /\ sender.at = "stopping"
  /\ sender' = [sender EXCEPT !.at = "done"]
  /\ Finished("sender")
  /\ UNCHANGED receiver

-----------------------------------------------------------------------------
(* receive_synthetic *)

Reading == stream.hello = "ready" /\ stream.end = "none" /\ ~ReceiverLeft

\* What was written arrives in order; of what had not arrived when the connection
\* closed, any prefix is still read.
ReaderReads ==
  /\ Reading /\ stream.flight > 0 /\ stream.queue < Queue
  /\ stream' = [stream EXCEPT !.flight = @ - 1, !.queue = @ + 1]
  /\ UNCHANGED <<telemetry, watching, conn, stopping, sender, receiver>>

ReaderEnds ==
  /\ Reading /\ stream.queue < Queue
  /\ \/ stream.flight = 0 /\ stream.fin /\ stream' = [stream EXCEPT !.end = "fin"]
     \/ ~conn["receiver"] /\ stream' = [stream EXCEPT !.end = "error"]
  /\ UNCHANGED <<telemetry, watching, conn, stopping, sender, receiver>>

\* The gate is read at the top of the loop, before the select.
ReceiverChecks ==
  /\ receiver.at = "receive" /\ ~Stopped(gate["receiver"])
  /\ receiver' = [receiver EXCEPT !.at = "select"]
  /\ UNCHANGED <<telemetry, watching, conn, stopping, sender, stream>>

ReceiverTakes ==
  /\ receiver.at = "select" /\ stream.queue > 0
  /\ receiver' = [receiver EXCEPT !.at = "receive", !.received = @ + 1,
                     !.late = IF Stopped(gate["receiver"]) THEN @ + 1 ELSE @]
  /\ stream' = [stream EXCEPT !.queue = @ - 1]
  /\ UNCHANGED <<telemetry, watching, conn, stopping, sender>>

ReceiverError ==
  /\ receiver.at = "select" /\ stream.queue = 0 /\ stream.end = "error"
  /\ receiver' = [receiver EXCEPT !.at = "latching"]
  /\ UNCHANGED <<telemetry, watching, conn, stopping, sender, stream>>

\* send.shutdown(), then the monitor is told to stop.
ReceiverReturns(cut) ==
  /\ receiver' = [receiver EXCEPT !.at = "stopping", !.cut = cut]
  /\ stream' = [stream EXCEPT !.back = conn["receiver"]]
  /\ StopMonitor("receiver")
  /\ UNCHANGED <<telemetry, watching, conn, sender>>

ReceiverReadsFin ==
  /\ receiver.at = "select" /\ stream.queue = 0 /\ stream.end = "fin"
  /\ ReceiverReturns(FALSE)

ReceiverCut ==
  /\ receiver.at \in {"receive", "select", "latching"} /\ Stopped(gate["receiver"])
  /\ ReceiverReturns(TRUE)

ReceiverDone ==
  /\ receiver.at = "stopping"
  /\ receiver' = [receiver EXCEPT !.at = "done"]
  /\ Finished("receiver")
  /\ UNCHANGED sender

-----------------------------------------------------------------------------
(* iroh: paths and the connection *)

\* Paths open and close and the selection moves; an event that names a relay address
\* is sent with it.
PathChange(s) ==
  /\ conn[s] /\ changes < MaxChanges
  /\ \E p \in Paths \ {paths[s]} :
       /\ paths' = [paths EXCEPT ![s] = p]
       /\ news' = [news EXCEPT ![s] = @ \/ p.has_relay # paths[s].has_relay]
       /\ relayed' = [relayed EXCEPT ![s] = @ \/ (p.has_relay /\ ~stopping[s])]
  /\ changes' = changes + 1
  /\ UNCHANGED <<watching, conn, stopping, sender, receiver, stream>>

\* A closed connection keeps its list of paths and sends an event for each.
Closes(s) ==
  /\ conn' = [conn EXCEPT ![s] = FALSE]
  /\ news' = [news EXCEPT ![s] = @ \/ paths[s].has_relay]

\* The close frame of the peer, or the idle timeout after it.
CloseArrives(s) ==
  /\ conn[s] /\ ~conn[Peer(s)]
  /\ Closes(s)
  /\ UNCHANGED <<paths, relayed, changes, watching, stopping, sender, receiver, stream>>

\* The connection is lost with no close by either side.
ConnectionLost(s) ==
  /\ conn[s] /\ changes < MaxChanges
  /\ Closes(s)
  /\ changes' = changes + 1
  /\ UNCHANGED <<paths, relayed, watching, stopping, sender, receiver, stream>>

Monitors(s) ==
  \/ MonitorEvent(s) \/ MonitorReads(s) \/ MonitorReconciles(s) \/ MonitorChecks(s)
  \/ MonitorSeesClose(s) \/ MonitorStops(s)

Sends ==
  \/ SenderOpens \/ SenderReady \/ SenderFails \/ SenderStarts \/ SenderCut \/ SenderTick
  \/ SenderWrites \/ SenderDeadline \/ SenderConfirms \/ SenderDone

Receives ==
  \/ ReceiverAccepts \/ ReceiverFails \/ ReceiverChecks \/ ReceiverTakes \/ ReceiverError
  \/ ReceiverReadsFin \/ ReceiverCut \/ ReceiverDone

Next ==
  \/ Sends \/ Receives
  \/ ReaderReads \/ ReaderEnds
  \/ \E s \in Side : Monitors(s) \/ PathChange(s) \/ CloseArrives(s) \/ ConnectionLost(s)

Spec == Init /\ [][Next]_vars

Up == \A s \in Side : paths[s].open_direct > 0 \/ paths[s].has_relay

\* Tasks that can run do; a deadline that is armed passes; where a monitor waits, the
\* select does not overlook a stop or a closed connection for ever.  What was
\* written arrives only while both sides have a path: the idle timeout of a connection
\* that nobody closed is not counted on.
FairSpec ==
  /\ Spec
  /\ WF_vars(Sends) /\ WF_vars(Receives)
  /\ WF_vars(Up /\ ReaderReads) /\ WF_vars(ReaderEnds)
  /\ \A s \in Side : /\ WF_vars(Monitors(s))
                     /\ SF_vars(MonitorSeesClose(s) \/ MonitorStops(s))
                     /\ WF_vars(CloseArrives(s))

-----------------------------------------------------------------------------
SenderAt == {"handshake", "await", "stream", "write", "confirm", "stopping", "done", "failed"}
ReceiverAt == {"handshake", "receive", "select", "latching", "stopping", "done", "failed"}

SenderTask == [at : SenderAt, frames : Nat, late : Nat, confirmed : BOOLEAN]
ReceiverTask == [at : ReceiverAt, received : Nat, late : Nat, cut : BOOLEAN]
Stream == [hello : {"none", "token", "ready"}, flight : Nat, fin : BOOLEAN,
           queue : Nat, end : {"none", "fin", "error"}, back : BOOLEAN]

TypeOK ==
  /\ paths \in [Side -> Paths]
  /\ news \in [Side -> BOOLEAN] /\ relayed \in [Side -> BOOLEAN]
  /\ conn \in [Side -> BOOLEAN] /\ stopping \in [Side -> BOOLEAN]
  /\ gate \in [Side -> Gate]
  /\ monitor \in [Side -> [at : {"wait", "woken", "read", "applied", "done"}, seen : Paths]]
  /\ ever_relay \in [Side -> BOOLEAN]
  /\ sender \in SenderTask
  /\ receiver \in ReceiverTask
  /\ stream \in Stream
  /\ changes \in Nat

\* What the two programs report: a result without failure_reason
\* (bin/media-sender.rs, bin/media-receiver.rs).
Succeeded(s) ==
  /\ Session(s) = "done" /\ ~Stopped(gate[s]) /\ ~ever_relay[s]
  /\ s = "sender" => sender.confirmed

\* The session as its two programs see it.
Position(g) ==
  CASE Stopped(g) -> "stopped"
    [] g.state = "DirectReady" -> "direct"
    [] OTHER -> "waiting"

Standing == [s \in Side |-> Position(gate[s])]
Inside == [s \in Side |-> IF s = "sender" THEN sender.at = "write" ELSE receiver.at = "select"]
Frames == [s \in Side |-> IF s = "sender" THEN sender.frames ELSE receiver.received]
Verdict ==
  [s \in Side |->
     CASE Succeeded(s) -> "success"
       [] Ended(s) /\ ~Succeeded(s) -> "failure"
       [] OTHER -> "running"]

Gated ==
  INSTANCE FailClosed WITH path <- Standing, inside <- Inside, frames <- Frames, report <- Verdict

\* "Latching fail-closed gate" (lib.rs:400-406), for the whole session and not the gate alone:
\* however the tasks that share the gates, the monitors and the network interleave, what the
\* two programs see is FailClosed.
ImplementsFailClosed == Gated!Spec

\* "Every transition into Stopped is final" (lib.rs:404): the first reason stays,
\* whatever the monitor and the connection report afterwards.
GateLatches == [][\A s \in Side : Stopped(gate[s]) => gate'[s] = gate[s]]_vars

\* The tasks share only the gate: once it is stopped, the frame that had passed the
\* check is the last one the sender writes, and the receiver takes at most one more.
OneLateFrame == sender.late <= 1 /\ receiver.late <= 1

\* "Seeing a relay path stops media even if it was never selected" (lib.rs:405): one
\* that came and went between two snapshots too.  A relay path is still visible to the
\* monitor, as an open path or as an unread event, until it is counted, and a counted
\* one has stopped the gate when the monitor waits again.
RelayTrips ==
  \A s \in Side :
    /\ relayed[s] /\ ~ever_relay[s] => news[s] \/ paths[s].has_relay
    /\ ever_relay[s] /\ monitor[s].at \in {"wait", "done"} => Stopped(gate[s])

\* A confirmed sender's frames have all been taken by the receiver, unless the
\* receiver's own gate cut its session.
ConfirmedMeansRead ==
  sender.confirmed /\ ~receiver.cut => receiver.received = sender.frames

\* "A successful run streamed only under a direct-selected gate" (media-sender.rs:63).
SenderDirect == Succeeded("sender") => gate["sender"].state = "DirectReady"

\* The session of a stopped gate ends although the network no longer moves anything: a
\* write that waits for flow control is released because the monitor closes the
\* connection, not by the transport's timeout (lib.rs:620-624).
StoppedSessionsEnd == \A s \in Side : Stopped(gate[s]) ~> Ended(s)

\* "ever_relay_paths == 0 is the no-relay proof for a compliant run" (lib.rs:1070).
NoRelayProof == Succeeded("sender") => ~relayed["sender"]
=============================================================================
