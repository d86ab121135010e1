------------------------- MODULE MediaSessionProofs -------------------------
(* Theorems about the media session, for every value of its constants. *)
EXTENDS MediaSession, TLAPS

-----------------------------------------------------------------------------
(* The gate. *)

LEMMA ApplyType ==
  ASSUME NEW g \in Gate, NEW signal \in Signal
  PROVE  Apply(g, signal) \in Gate
BY DEF Apply, Reconcile, stop, Stopped, Gate, GateState, StopReason, Signal

LEMMA ApplyLatches ==
  ASSUME NEW g, NEW signal, Stopped(g)
  PROVE  Apply(g, signal) = g
BY DEF Apply

LEMMA RelayStops ==
  ASSUME NEW g \in Gate, NEW signal \in Signal, ~signal.closed, signal.has_relay
  PROVE  Stopped(Apply(g, signal))
BY DEF Apply, stop, Stopped, Gate, GateState, StopReason, Signal

\* The gate never awaits a direct path again.
LEMMA ApplyLeavesAwaiting ==
  ASSUME NEW g \in Gate, NEW signal \in Signal, g.state # "AwaitingDirect"
  PROVE  Apply(g, signal).state # "AwaitingDirect"
BY DEF Apply, Reconcile, stop, Stopped, Gate, GateState, StopReason, Signal

LEMMA SnapshotType ==
  ASSUME NEW n \in Nat, NEW r \in BOOLEAN, NEW d \in BOOLEAN
  PROVE  /\ Snapshot(n, r, d) \in Signal
         /\ ~Snapshot(n, r, d).closed
         /\ Snapshot(n, r, d).has_relay = r
BY DEF Snapshot, Signal

LEMMA ClosedType == ConnectionClosed \in Signal
BY DEF ConnectionClosed, Snapshot, Signal

LEMMA PathsType ==
  ASSUME NEW p \in Paths
  PROVE  Snapshot(p.open_direct, p.has_relay, p.selected_direct) \in Signal
BY MediaAssumption DEF Paths, Snapshot, Signal, MediaAssumption
-----------------------------------------------------------------------------
(* Type correctness *)

LEMMA InitType == Init => TypeOK
<1> SUFFICES ASSUME Init PROVE TypeOK
  OBVIOUS
<1>1. NoPath \in Paths /\ NewGate \in Gate
  BY MediaAssumption DEF NoPath, NewGate, Paths, Gate, GateState, MediaAssumption
<1>2. QED
  BY <1>1 DEF Init, TypeOK, Paths, SenderTask, ReceiverTask, Stream, SenderAt, ReceiverAt

\* The gate is only ever fed signals.
LEMMA FeedType ==
  ASSUME TypeOK, NEW s \in Side, NEW signal \in Signal, Feed(s, signal)
  PROVE  gate' \in [Side -> Gate]
BY ApplyType DEF Feed, TypeOK

\* A step of one of the session tasks, of the reader, or of the connection.
LEMMA SessionType ==
  ASSUME TypeOK, Sends \/ Receives \/ ReaderReads \/ ReaderEnds
  PROVE  TypeOK'
<1> USE DEF TypeOK, SenderTask, ReceiverTask, Stream, SenderAt, ReceiverAt,
            telemetry, watching, Side
<1>1. CASE SenderOpens
  BY <1>1 DEF SenderOpens
<1>2. CASE SenderReady
  BY <1>2 DEF SenderReady
<1>3. CASE SenderFails
  BY <1>3 DEF SenderFails, Gone, Fin
<1>4. CASE SenderStarts
  BY <1>4 DEF SenderStarts
<1>5. CASE SenderCut
  BY <1>5 DEF SenderCut, Fin
<1>6. CASE SenderTick
  BY <1>6 DEF SenderTick
<1>7. CASE SenderWrites
  <2>1. /\ stream.flight + 1 \in Nat
        /\ sender.frames + 1 \in Nat
        /\ sender.late + 1 \in Nat
    OBVIOUS
  <2>2. stream' \in Stream
    BY <1>7, <2>1 DEF SenderWrites
  <2>3. sender' \in SenderTask
    BY <1>7, <2>1 DEF SenderWrites
  <2>4. QED
    BY <1>7, <2>2, <2>3 DEF SenderWrites
<1>8. CASE SenderDeadline
  BY <1>8 DEF SenderDeadline, Fin
<1>9. CASE SenderConfirms
  <2>1. Confirmed \in BOOLEAN
    BY DEF Confirmed
  <2>2. sender' \in SenderTask
    BY <1>9, <2>1 DEF SenderConfirms
  <2>3. stopping' \in [Side -> BOOLEAN]
    BY <1>9 DEF SenderConfirms, StopMonitor
  <2>4. QED
    BY <1>9, <2>2, <2>3 DEF SenderConfirms
<1>10. CASE SenderDone
  BY <1>10 DEF SenderDone, Finished
<1>11. CASE ReceiverAccepts
  BY <1>11 DEF ReceiverAccepts
<1>12. CASE ReceiverFails
  BY <1>12 DEF ReceiverFails, Gone
<1>13. CASE ReceiverChecks
  BY <1>13 DEF ReceiverChecks
<1>14. CASE ReceiverTakes
  <2>1. /\ stream.queue - 1 \in Nat
        /\ receiver.received + 1 \in Nat
        /\ receiver.late + 1 \in Nat
    BY <1>14 DEF ReceiverTakes
  <2>2. stream' \in Stream
    BY <1>14, <2>1 DEF ReceiverTakes
  <2>3. receiver' \in ReceiverTask
    BY <1>14, <2>1 DEF ReceiverTakes
  <2>4. QED
    BY <1>14, <2>2, <2>3 DEF ReceiverTakes
<1>15. CASE ReceiverError
  BY <1>15 DEF ReceiverError
<1>16. CASE ReceiverReadsFin
  BY <1>16 DEF ReceiverReadsFin, ReceiverReturns, StopMonitor
<1>17. CASE ReceiverCut
  BY <1>17 DEF ReceiverCut, ReceiverReturns, StopMonitor
<1>18. CASE ReceiverDone
  BY <1>18 DEF ReceiverDone, Finished
<1>19. CASE ReaderReads
  <2>1. stream.flight - 1 \in Nat /\ stream.queue + 1 \in Nat
    BY <1>19 DEF ReaderReads
  <2>2. stream' \in Stream
    BY <1>19, <2>1 DEF ReaderReads
  <2>3. QED
    BY <1>19, <2>2 DEF ReaderReads
<1>20. CASE ReaderEnds
  BY <1>20 DEF ReaderEnds
<1>21. QED
  BY <1>1, <1>2, <1>3, <1>4, <1>5, <1>6, <1>7, <1>8, <1>9, <1>10, <1>11, <1>12, <1>13,
     <1>14, <1>15, <1>16, <1>17, <1>18, <1>19, <1>20 DEF Sends, Receives

LEMMA MonitorType ==
  ASSUME TypeOK, NEW s \in Side,
         Monitors(s) \/ PathChange(s) \/ CloseArrives(s) \/ ConnectionLost(s)
  PROVE  TypeOK'
<1> USE DEF TypeOK, telemetry, watching
<1>1. CASE MonitorEvent(s)
  <2>1. gate' \in [Side -> Gate]
    BY <1>1, FeedType, SnapshotType DEF MonitorEvent, RelayEvent
  <2>2. QED
    BY <1>1, <2>1 DEF MonitorEvent, RelayEvent, MonitorAt
<1>2. CASE MonitorReads(s)
  BY <1>2 DEF MonitorReads, Paths
<1>3. CASE MonitorReconciles(s)
  <2>1. gate' \in [Side -> Gate]
    BY <1>3, FeedType, PathsType DEF MonitorReconciles
  <2>2. QED
    BY <1>3, <2>1 DEF MonitorReconciles, MonitorAt
<1>4. CASE MonitorChecks(s)
  BY <1>4 DEF MonitorChecks, MonitorAt, Cut
<1>5. CASE MonitorSeesClose(s)
  <2>1. gate' \in [Side -> Gate]
    BY <1>5, FeedType, ClosedType DEF MonitorSeesClose
  <2>2. QED
    BY <1>5, <2>1 DEF MonitorSeesClose, MonitorAt
<1>6. CASE MonitorStops(s)
  BY <1>6 DEF MonitorStops, MonitorAt
<1>7. CASE PathChange(s)
  BY <1>7 DEF PathChange, Paths
<1>8. CASE CloseArrives(s)
  BY <1>8 DEF CloseArrives, Closes, Paths
<1>9. CASE ConnectionLost(s)
  BY <1>9 DEF ConnectionLost, Closes, Paths
<1>10. QED
  BY <1>1, <1>2, <1>3, <1>4, <1>5, <1>6, <1>7, <1>8, <1>9 DEF Monitors

LEMMA StepType == TypeOK /\ [Next]_vars => TypeOK'
<1> SUFFICES ASSUME TypeOK, [Next]_vars PROVE TypeOK'
  OBVIOUS
<1>1. CASE Next
  BY <1>1, SessionType, MonitorType DEF Next
<1>2. CASE UNCHANGED vars
  BY <1>2 DEF vars, TypeOK
<1>3. QED
  BY <1>1, <1>2

\* Every record of the session keeps its shape (TypeOK): in particular every stop of
\* a gate has one of the three reasons.
THEOREM SessionTypeCorrect == Spec => []TypeOK
BY InitType, StepType, PTL DEF Spec

-----------------------------------------------------------------------------
(* What each task leaves alone *)

Tasks == Sends \/ Receives \/ ReaderReads \/ ReaderEnds
Platform(s) == PathChange(s) \/ CloseArrives(s) \/ ConnectionLost(s)

LEMMA TasksKeepWatching ==
  ASSUME Tasks
  PROVE  UNCHANGED <<paths, news, relayed, gate, monitor, ever_relay>>
BY DEF Tasks, Sends, Receives, ReaderReads, ReaderEnds, telemetry, watching,
       SenderOpens, SenderReady, SenderFails, SenderStarts, SenderCut, SenderTick,
       SenderWrites, SenderDeadline, SenderConfirms, SenderDone,
       ReceiverAccepts, ReceiverFails, ReceiverChecks, ReceiverTakes, ReceiverError,
       ReceiverReadsFin, ReceiverCut, ReceiverReturns, ReceiverDone, Finished

LEMMA PlatformKeepsGate ==
  ASSUME NEW s \in Side, Platform(s)
  PROVE  UNCHANGED <<gate, monitor, ever_relay, sender, receiver, stream>>
BY DEF Platform, PathChange, CloseArrives, ConnectionLost, watching

LEMMA MonitorsKeepTasks ==
  ASSUME NEW s \in Side, Monitors(s)
  PROVE  UNCHANGED <<sender, receiver, stream>>
BY DEF Monitors, MonitorEvent, MonitorReads, MonitorReconciles, MonitorChecks,
       MonitorSeesClose, MonitorStops

LEMMA Steps == Next => Tasks \/ \E s \in Side : Monitors(s) \/ Platform(s)
BY DEF Next, Tasks, Platform

-----------------------------------------------------------------------------
(* The gate latches *)

LEMMA MonitorFeeds ==
  ASSUME TypeOK, NEW s \in Side, Monitors(s)
  PROVE  gate' = gate \/ \E signal \in Signal : Feed(s, signal)
<1>1. CASE MonitorEvent(s)
  BY <1>1, SnapshotType DEF MonitorEvent, RelayEvent
<1>2. CASE MonitorReconciles(s)
  <2>1. monitor[s].seen \in Paths
    BY DEF TypeOK
  <2>2. QED
    BY <1>2, <2>1, PathsType DEF MonitorReconciles
<1>3. CASE MonitorSeesClose(s)
  BY <1>3, ClosedType DEF MonitorSeesClose
<1>4. CASE MonitorReads(s) \/ MonitorChecks(s) \/ MonitorStops(s)
  BY <1>4 DEF MonitorReads, MonitorChecks, MonitorStops
<1>5. QED
  BY <1>1, <1>2, <1>3, <1>4 DEF Monitors

\* A step leaves a gate alone or applies one signal to it.
LEMMA GateStep ==
  ASSUME TypeOK, [Next]_vars, NEW s \in Side
  PROVE  gate'[s] = gate[s] \/ \E signal \in Signal : gate'[s] = Apply(gate[s], signal)
<1>1. CASE UNCHANGED vars \/ Tasks
  BY <1>1, TasksKeepWatching DEF vars
<1>2. ASSUME NEW r \in Side, Platform(r) PROVE gate' = gate
  BY <1>2, PlatformKeepsGate
<1>3. ASSUME NEW r \in Side, Monitors(r)
      PROVE  gate'[s] = gate[s] \/ \E signal \in Signal : gate'[s] = Apply(gate[s], signal)
  <2>1. CASE gate' = gate
    BY <2>1
  <2>2. CASE \E signal \in Signal : Feed(r, signal)
    BY <2>2 DEF Feed, TypeOK
  <2>3. QED
    BY <1>3, <2>1, <2>2, MonitorFeeds
<1>4. QED
  BY <1>1, <1>2, <1>3, Steps

LEMMA LatchStep ==
  TypeOK /\ [Next]_vars => \A s \in Side : Stopped(gate[s]) => gate'[s] = gate[s]
BY GateStep, ApplyLatches

\* "Every transition into Stopped is final" (lib.rs:404), whatever the monitor, the
\* session and the connection do in whatever order.
THEOREM StopIsFinal == Spec => GateLatches
<1>1. TypeOK /\ [Next]_vars => [\A s \in Side : Stopped(gate[s]) => gate'[s] = gate[s]]_vars
  BY LatchStep
<1>2. QED
  BY <1>1, SessionTypeCorrect, PTL DEF Spec, GateLatches

-----------------------------------------------------------------------------
(* A relay path stops the session *)

\* Between the snapshot and its application a counted relay path is in the snapshot.
RelayInv ==
  \A s \in Side :
    /\ relayed[s] /\ ~ever_relay[s] => news[s] \/ paths[s].has_relay
    /\ ever_relay[s] =>
         Stopped(gate[s]) \/ (monitor[s].at = "read" /\ monitor[s].seen.has_relay)

LEMMA RelayMonitor ==
  ASSUME TypeOK, RelayInv, NEW s \in Side, Monitors(s)
  PROVE  RelayInv'
<1>0. /\ paths \in [Side -> Paths] /\ news \in [Side -> BOOLEAN]
      /\ ever_relay \in [Side -> BOOLEAN] /\ gate \in [Side -> Gate]
      /\ monitor \in [Side -> [at : {"wait", "woken", "read", "applied", "done"}, seen : Paths]]
  BY DEF TypeOK
<1>a. \A r \in Side : Stopped(gate[r]) => Stopped(gate'[r])
  BY <1>0, MonitorFeeds, ApplyLatches DEF Feed
<1>1. CASE MonitorEvent(s)
  <2>1. Stopped(gate'[s])
    BY <1>0, <1>1, RelayStops, SnapshotType DEF MonitorEvent, RelayEvent, Feed
  <2>2. QED
    BY <1>0, <1>1, <1>a, <2>1 DEF MonitorEvent, RelayEvent, MonitorAt, RelayInv
<1>2. CASE MonitorReads(s)
  BY <1>0, <1>2, <1>a DEF MonitorReads, RelayInv, telemetry
<1>3. CASE MonitorReconciles(s)
  <2>1. monitor[s].seen.has_relay => Stopped(gate'[s])
    <3>1. monitor[s].seen \in Paths
      BY <1>0
    <3> DEFINE p == monitor[s].seen
    <3>2. /\ Snapshot(p.open_direct, p.has_relay, p.selected_direct) \in Signal
          /\ ~Snapshot(p.open_direct, p.has_relay, p.selected_direct).closed
          /\ Snapshot(p.open_direct, p.has_relay, p.selected_direct).has_relay = p.has_relay
      BY <3>1, PathsType DEF Snapshot
    <3>3. QED
      BY <1>0, <1>3, <3>2, RelayStops DEF MonitorReconciles, Feed
  <2>2. QED
    BY <1>0, <1>3, <1>a, <2>1 DEF MonitorReconciles, MonitorAt, RelayInv, telemetry
<1>4. CASE MonitorChecks(s)
  BY <1>0, <1>4, <1>a DEF MonitorChecks, MonitorAt, RelayInv, telemetry
<1>5. CASE MonitorSeesClose(s)
  BY <1>0, <1>5, <1>a DEF MonitorSeesClose, MonitorAt, RelayInv, telemetry
<1>6. CASE MonitorStops(s)
  BY <1>0, <1>6, <1>a DEF MonitorStops, MonitorAt, RelayInv, telemetry
<1>7. QED
  BY <1>1, <1>2, <1>3, <1>4, <1>5, <1>6 DEF Monitors

LEMMA RelayPlatform ==
  ASSUME TypeOK, RelayInv, NEW s \in Side, Platform(s)
  PROVE  RelayInv'
<1>0. /\ paths \in [Side -> Paths] /\ news \in [Side -> BOOLEAN]
      /\ relayed \in [Side -> BOOLEAN]
  BY DEF TypeOK
<1>1. CASE PathChange(s)
  <2>1. PICK p \in Paths : /\ paths' = [paths EXCEPT ![s] = p]
                           /\ news' = [news EXCEPT ![s] = @ \/ p.has_relay # paths[s].has_relay]
                           /\ relayed' = [relayed EXCEPT ![s] = @ \/ (p.has_relay /\ ~stopping[s])]
    BY <1>1 DEF PathChange
  <2>2. p.has_relay \in BOOLEAN /\ \A r \in Side : paths[r].has_relay \in BOOLEAN
    BY <1>0 DEF Paths
  <2>3. QED
    BY <1>0, <1>1, <2>1, <2>2 DEF PathChange, RelayInv, watching
<1>2. CASE CloseArrives(s) \/ ConnectionLost(s)
  BY <1>0, <1>2 DEF CloseArrives, ConnectionLost, Closes, RelayInv, watching
<1>3. QED
  BY <1>1, <1>2 DEF Platform

LEMMA RelayStep == TypeOK /\ RelayInv /\ [Next]_vars => RelayInv'
<1> SUFFICES ASSUME TypeOK, RelayInv, [Next]_vars PROVE RelayInv'
  OBVIOUS
<1>1. CASE UNCHANGED vars \/ Tasks
  BY <1>1, TasksKeepWatching DEF vars, RelayInv
<1>2. QED
  BY <1>1, Steps, RelayMonitor, RelayPlatform

\* "Seeing a relay path stops media even if it was never selected" (lib.rs:405): the
\* monitor cannot miss one that was there while it watched, and none that it counted
\* leaves the gate open.
THEOREM RelayAlwaysTrips == Spec => []RelayTrips
<1>1. Init => RelayInv
  BY DEF Init, RelayInv
<1>2. RelayInv => RelayTrips
  BY DEF RelayInv, RelayTrips
<1>3. QED
  BY <1>1, <1>2, RelayStep, SessionTypeCorrect, PTL DEF Spec

-----------------------------------------------------------------------------
(* A stopped gate lets one more frame through *)

\* The late frame was the one past the check: no other is on its way.
LateInv ==
  /\ sender.late = 0 \/ (sender.late = 1 /\ Stopped(gate["sender"]) /\ sender.at # "write")
  /\ receiver.late = 0
       \/ (receiver.late = 1 /\ Stopped(gate["receiver"]) /\ receiver.at # "select")

LEMMA LateTasks ==
  ASSUME TypeOK, LateInv, Tasks
  PROVE  LateInv'
<1>0. UNCHANGED gate /\ sender \in SenderTask /\ receiver \in ReceiverTask
  BY TasksKeepWatching DEF TypeOK
<1> USE <1>0 DEF LateInv, SenderTask, ReceiverTask
<1>1. CASE SenderTick
  BY <1>1 DEF SenderTick, MaySend, Stopped, StopReason
<1>2. CASE SenderWrites
  BY <1>2 DEF SenderWrites
<1>3. CASE SenderOpens \/ SenderReady \/ SenderFails \/ SenderStarts \/ SenderCut
           \/ SenderDeadline \/ SenderConfirms \/ SenderDone
  BY <1>3 DEF SenderOpens, SenderReady, SenderFails, SenderStarts, SenderCut,
              SenderDeadline, SenderConfirms, SenderDone
<1>4. CASE ReceiverChecks
  BY <1>4 DEF ReceiverChecks
<1>5. CASE ReceiverTakes
  BY <1>5 DEF ReceiverTakes
<1>6. CASE ReceiverAccepts \/ ReceiverFails \/ ReceiverError \/ ReceiverReadsFin
           \/ ReceiverCut \/ ReceiverDone
  BY <1>6 DEF ReceiverAccepts, ReceiverFails, ReceiverError, ReceiverReadsFin, ReceiverCut,
              ReceiverReturns, ReceiverDone
<1>7. CASE ReaderReads \/ ReaderEnds
  BY <1>7 DEF ReaderReads, ReaderEnds
<1>8. QED
  BY <1>1, <1>2, <1>3, <1>4, <1>5, <1>6, <1>7 DEF Tasks, Sends, Receives

LEMMA LateStep == TypeOK /\ LateInv /\ [Next]_vars => LateInv'
<1> SUFFICES ASSUME TypeOK, LateInv, [Next]_vars PROVE LateInv'
  OBVIOUS
<1>1. \A s \in Side : Stopped(gate[s]) => Stopped(gate'[s])
  BY LatchStep
<1>2. CASE UNCHANGED <<sender, receiver>>
  BY <1>1, <1>2 DEF LateInv, Side
<1>3. CASE Tasks
  BY <1>3, LateTasks
<1>4. QED
  BY <1>2, <1>3, Steps, MonitorsKeepTasks, PlatformKeepsGate DEF vars

\* After the gate has stopped the sender completes at most the frame that had passed the
\* check (lib.rs:994-1006), the receiver takes at most the one it was selecting.
THEOREM OneLateFrameAlways == Spec => []OneLateFrame
<1>1. Init => LateInv
  BY DEF Init, LateInv
<1>2. LateInv => OneLateFrame
  BY DEF LateInv, OneLateFrame
<1>3. QED
  BY <1>1, <1>2, LateStep, SessionTypeCorrect, PTL DEF Spec

-----------------------------------------------------------------------------
(* A sender that reports success streamed under a direct path *)

PastAwait == sender.at \in {"stream", "write", "confirm", "stopping", "done"}
DirectInv == PastAwait => gate["sender"].state # "AwaitingDirect"

LEMMA DirectStep == TypeOK /\ DirectInv /\ [Next]_vars => DirectInv'
<1> SUFFICES ASSUME TypeOK, DirectInv, [Next]_vars PROVE DirectInv'
  OBVIOUS
<1>0. gate["sender"] \in Gate /\ sender \in SenderTask
  BY DEF TypeOK, Side
<1>1. gate["sender"].state # "AwaitingDirect" => gate'["sender"].state # "AwaitingDirect"
  BY <1>0, GateStep, ApplyLeavesAwaiting DEF Side
<1>2. CASE UNCHANGED sender
  BY <1>1, <1>2 DEF DirectInv, PastAwait
<1>3. CASE Sends
  <2>1. gate' = gate
    BY <1>3, TasksKeepWatching DEF Tasks
  <2> USE <1>0, <2>1 DEF DirectInv, PastAwait, SenderTask
  <2>2. CASE SenderStarts
    BY <2>2 DEF SenderStarts, StartsStreaming
  <2>3. CASE SenderCut
    BY <2>3 DEF SenderCut, Stopped, StopReason
  <2>4. CASE SenderTick \/ SenderWrites \/ SenderDeadline \/ SenderConfirms \/ SenderDone
    BY <2>4 DEF SenderTick, SenderWrites, SenderDeadline, SenderConfirms, SenderDone
  <2>5. CASE SenderOpens \/ SenderReady \/ SenderFails
    BY <2>5 DEF SenderOpens, SenderReady, SenderFails
  <2>6. QED
    BY <1>3, <2>2, <2>3, <2>4, <2>5 DEF Sends
<1>4. Receives \/ ReaderReads \/ ReaderEnds => UNCHANGED sender
  BY DEF Receives, ReaderReads, ReaderEnds, ReceiverAccepts, ReceiverFails, ReceiverChecks,
         ReceiverTakes, ReceiverError, ReceiverReadsFin, ReceiverCut, ReceiverReturns, ReceiverDone
<1>5. QED
  BY <1>2, <1>3, <1>4, Steps, MonitorsKeepTasks, PlatformKeepsGate DEF vars, Tasks

\* "A successful run streamed only under a direct-selected gate" (media-sender.rs:63).
THEOREM SenderStreamsDirect == Spec => []SenderDirect
<1>1. Init => DirectInv
  BY DEF Init, DirectInv, PastAwait
<1>2. TypeOK /\ DirectInv => SenderDirect
  BY DEF TypeOK, Side, Gate, GateState, DirectInv, PastAwait, SenderDirect, Succeeded,
         Session, Stopped
<1>3. QED
  BY <1>1, <1>2, DirectStep, SessionTypeCorrect, PTL DEF Spec

-----------------------------------------------------------------------------
(* What a confirmed sender sent was read *)

\* No frame is lost between write_all and the receiver's loop while the session lasts,
\* and the receiver's FIN, unless its gate cut it, follows the last of them.
FramesInv ==
  /\ sender.frames = receiver.received + stream.flight + stream.queue
  /\ stream.fin => sender.at \in {"confirm", "stopping", "done", "failed"}
  /\ stream.end = "fin" => stream.fin /\ stream.flight = 0
  /\ stream.back => ReceiverLeft
  /\ stream.back /\ ~receiver.cut => stream.end = "fin" /\ stream.queue = 0
  /\ sender.confirmed => stream.back /\ sender.at \in {"stopping", "done"}

LEMMA FramesTasks ==
  ASSUME TypeOK, FramesInv, Tasks
  PROVE  FramesInv'
<1>0. sender \in SenderTask /\ receiver \in ReceiverTask /\ stream \in Stream
  BY DEF TypeOK
<1> USE <1>0 DEF FramesInv, SenderTask, ReceiverTask, Stream, ReceiverLeft
<1>1. CASE SenderOpens \/ SenderReady \/ SenderStarts \/ SenderTick \/ SenderDone
  BY <1>1 DEF SenderOpens, SenderReady, SenderStarts, SenderTick, SenderDone, Finished
<1>2. CASE SenderFails \/ SenderCut \/ SenderDeadline
  BY <1>2 DEF SenderFails, SenderCut, SenderDeadline, Fin
<1>3. CASE SenderWrites
  BY <1>3 DEF SenderWrites
<1>4. CASE SenderConfirms
  BY <1>4 DEF SenderConfirms, Confirmed
<1>5. CASE ReceiverAccepts \/ ReceiverFails \/ ReceiverChecks \/ ReceiverError \/ ReceiverDone
  BY <1>5 DEF ReceiverAccepts, ReceiverFails, ReceiverChecks, ReceiverError, ReceiverDone, Finished
<1>6. CASE ReceiverTakes
  BY <1>6 DEF ReceiverTakes
<1>7. CASE ReceiverReadsFin
  BY <1>7 DEF ReceiverReadsFin, ReceiverReturns
<1>8. CASE ReceiverCut
  BY <1>8 DEF ReceiverCut, ReceiverReturns
<1>9. CASE ReaderReads
  BY <1>9 DEF ReaderReads, Reading
<1>10. CASE ReaderEnds
  BY <1>10 DEF ReaderEnds, Reading
<1>11. QED
  BY <1>1, <1>2, <1>3, <1>4, <1>5, <1>6, <1>7, <1>8, <1>9, <1>10 DEF Tasks, Sends, Receives

LEMMA FramesStep == TypeOK /\ FramesInv /\ [Next]_vars => FramesInv'
<1> SUFFICES ASSUME TypeOK, FramesInv, [Next]_vars PROVE FramesInv'
  OBVIOUS
<1>1. CASE UNCHANGED <<sender, receiver, stream>>
  BY <1>1 DEF FramesInv, ReceiverLeft
<1>2. CASE Tasks
  BY <1>2, FramesTasks
<1>3. QED
  BY <1>1, <1>2, Steps, MonitorsKeepTasks, PlatformKeepsGate DEF vars

\* receiver_confirmed (lib.rs:1075-1078) implies that the receiver took every frame, as
\* long as the receiver's own gate has not cut its session.
THEOREM ConfirmedWasRead == Spec => []ConfirmedMeansRead
<1>1. Init => FramesInv
  BY DEF Init, FramesInv
<1>2. TypeOK /\ FramesInv => ConfirmedMeansRead
  BY DEF TypeOK, FramesInv, ConfirmedMeansRead, ReceiverTask, SenderTask, Stream
<1>3. QED
  BY <1>1, <1>2, FramesStep, SessionTypeCorrect, PTL DEF Spec
-----------------------------------------------------------------------------
(* The session that the two programs see *)

\* A task that is done has outlived its monitor; a receiver that was not cut has read it all.
EndInv ==
  /\ \A s \in Side : Session(s) = "done" => monitor[s].at = "done"
  /\ receiver.cut => Stopped(gate["receiver"])
  /\ receiver.at \in {"stopping", "done"} /\ ~receiver.cut => stream.end = "fin" /\ stream.queue = 0

LEMMA EndTasks ==
  ASSUME TypeOK, EndInv, Tasks
  PROVE  EndInv'
<1>0. /\ sender \in SenderTask /\ receiver \in ReceiverTask /\ stream \in Stream
      /\ UNCHANGED <<gate, monitor>>
  BY TasksKeepWatching DEF TypeOK
<1> USE <1>0 DEF EndInv, Session, Side, SenderTask, ReceiverTask, Stream
<1>1. CASE SenderOpens \/ SenderReady \/ SenderStarts \/ SenderTick \/ SenderWrites \/ SenderConfirms
  BY <1>1 DEF SenderOpens, SenderReady, SenderStarts, SenderTick, SenderWrites, SenderConfirms
<1>2. CASE SenderFails \/ SenderCut \/ SenderDeadline
  BY <1>2 DEF SenderFails, SenderCut, SenderDeadline, Fin
<1>3. CASE SenderDone \/ ReceiverDone
  BY <1>3 DEF SenderDone, ReceiverDone, Finished
<1>4. CASE ReceiverAccepts \/ ReceiverFails \/ ReceiverChecks \/ ReceiverTakes \/ ReceiverError
  BY <1>4 DEF ReceiverAccepts, ReceiverFails, ReceiverChecks, ReceiverTakes, ReceiverError
<1>5. CASE ReceiverReadsFin
  BY <1>5 DEF ReceiverReadsFin, ReceiverReturns
<1>6. CASE ReceiverCut
  BY <1>6 DEF ReceiverCut, ReceiverReturns
<1>7. CASE ReaderReads \/ ReaderEnds
  BY <1>7 DEF ReaderReads, ReaderEnds, Reading, ReceiverLeft
<1>8. QED
  BY <1>1, <1>2, <1>3, <1>4, <1>5, <1>6, <1>7 DEF Tasks, Sends, Receives

\* A monitor that is done takes no step.
LEMMA MonitorLives ==
  ASSUME NEW s \in Side, Monitors(s)
  PROVE  monitor[s].at # "done"
BY DEF Monitors, MonitorEvent, MonitorReads, MonitorReconciles, MonitorChecks, MonitorSeesClose,
       MonitorStops

LEMMA MonitorMoves ==
  ASSUME TypeOK, NEW s \in Side, Monitors(s)
  PROVE  \A r \in Side : r # s =>
           monitor'[r] = monitor[r] /\ gate'[r] = gate[r] /\ ever_relay'[r] = ever_relay[r]
<1>1. CASE MonitorEvent(s)
  BY <1>1 DEF MonitorEvent, RelayEvent, Feed, MonitorAt, TypeOK
<1>2. CASE MonitorReconciles(s)
  BY <1>2 DEF MonitorReconciles, Feed, MonitorAt, TypeOK
<1>3. CASE MonitorSeesClose(s)
  BY <1>3 DEF MonitorSeesClose, Feed, MonitorAt, TypeOK
<1>4. CASE MonitorReads(s) \/ MonitorChecks(s) \/ MonitorStops(s)
  BY <1>4 DEF MonitorReads, MonitorChecks, MonitorStops, MonitorAt, TypeOK
<1>5. QED
  BY <1>1, <1>2, <1>3, <1>4 DEF Monitors

LEMMA EndStep == TypeOK /\ EndInv /\ [Next]_vars => EndInv'
<1> SUFFICES ASSUME TypeOK, EndInv, [Next]_vars PROVE EndInv'
  OBVIOUS
<1>1. CASE UNCHANGED <<sender, receiver, stream, gate, monitor>>
  BY <1>1 DEF EndInv, Session
<1>2. CASE Tasks
  BY <1>2, EndTasks
<1>3. ASSUME NEW s \in Side, Monitors(s)
      PROVE  EndInv'
  <2>1. UNCHANGED <<sender, receiver, stream>> /\ Session(s) # "done"
    BY <1>3, MonitorsKeepTasks, MonitorLives DEF EndInv
  <2>2. Stopped(gate["receiver"]) => Stopped(gate'["receiver"])
    BY LatchStep DEF Side
  <2>3. \A r \in Side : Session(r) = "done" => monitor'[r].at = "done"
    BY <1>3, <2>1, MonitorMoves DEF EndInv
  <2>4. QED
    BY <2>1, <2>2, <2>3 DEF EndInv, Session
<1>4. QED
  BY <1>1, <1>2, <1>3, Steps, PlatformKeepsGate DEF vars

Sessions == TypeOK /\ DirectInv /\ FramesInv /\ EndInv

LEMMA SessionsInvariant == Spec => []Sessions
<1>1. Init => DirectInv /\ FramesInv /\ EndInv
  BY DEF Init, DirectInv, PastAwait, FramesInv, EndInv, Session, Side
<1>2. QED
  BY <1>1, DirectStep, FramesStep, EndStep, SessionTypeCorrect, PTL DEF Spec, Sessions

Quiet == UNCHANGED <<Standing, Inside, Frames, Verdict>>

\* A gate may only move on, and stops for good.
LEMMA GateTurns ==
  ASSUME NEW g \in Gate, NEW signal \in Signal
  PROVE  LET new == Apply(g, signal)
         IN  /\ Stopped(g) => new = g
             /\ g.state = "DirectReady" => Stopped(new) \/ new.state = "DirectReady"
<1>1. Stopped(g) => Apply(g, signal) = g
  BY ApplyLatches
<1>2. g.state = "DirectReady" => Apply(g, signal).state # "AwaitingDirect"
  BY ApplyLeavesAwaiting
<1>3. Apply(g, signal) \in Gate
  BY ApplyType
<1>4. QED
  BY <1>1, <1>2, <1>3 DEF Stopped, Gate, GateState

LEMMA MonitorsRefine ==
  ASSUME Sessions, NEW s \in Side, Monitors(s)
  PROVE  Gated!Next \/ Quiet
<1>1. /\ TypeOK /\ EndInv /\ UNCHANGED <<sender, receiver, stream>>
      /\ Session(s) # "done" /\ Session(s)' = Session(s)
  BY MonitorsKeepTasks, MonitorLives DEF Sessions, EndInv, Session
<1>2. Inside' = Inside /\ Frames' = Frames
  BY <1>1 DEF Inside, Frames
<1>3. \A r \in Side : r # s => gate'[r] = gate[r] /\ ever_relay'[r] = ever_relay[r]
  BY <1>1, MonitorMoves
<1>4. \A r \in Side : Succeeded(r)' <=> Succeeded(r)
  BY <1>1, <1>3 DEF Succeeded, Session
<1>5. Verdict' = Verdict
  BY <1>1, <1>4 DEF Verdict, Ended, Session
<1>6. Verdict[s] # "success"
  BY <1>1 DEF Verdict, Succeeded
<1>7. gate[s] \in Gate /\ gate'[s] \in Gate
  BY <1>1, MonitorType DEF TypeOK
<1>8. /\ Stopped(gate[s]) => gate'[s] = gate[s]
      /\ gate[s].state = "DirectReady" => Stopped(gate'[s]) \/ gate'[s].state = "DirectReady"
  <2>1. gate'[s] = gate[s] \/ \E signal \in Signal : gate'[s] = Apply(gate[s], signal)
    BY <1>1, MonitorFeeds DEF Feed, TypeOK
  <2>2. QED
    BY <1>7, <2>1, GateTurns
<1>9. \/ Standing' = Standing
      \/ Standing[s] = "waiting" /\ Standing' = [Standing EXCEPT ![s] = "direct"]
      \/ Standing[s] \in {"waiting", "direct"} /\ Standing' = [Standing EXCEPT ![s] = "stopped"]
  <2>1. Standing' = [Standing EXCEPT ![s] = Position(gate'[s])]
    BY <1>3 DEF Standing
  <2>2. /\ Standing[s] = Position(gate[s])
        /\ Position(gate'[s]) = Standing[s] => Standing' = Standing
    BY <2>1 DEF Standing
  <2>3. /\ Position(gate[s]) = "stopped" => Position(gate'[s]) = "stopped"
        /\ Position(gate[s]) = "direct" => Position(gate'[s]) \in {"direct", "stopped"}
        /\ Position(gate[s]) \in {"waiting", "direct", "stopped"}
        /\ Position(gate'[s]) \in {"waiting", "direct", "stopped"}
    BY <1>8 DEF Position
  <2>4. QED
    BY <2>1, <2>2, <2>3
<1>10. QED
  BY <1>2, <1>5, <1>6, <1>9
  DEF Quiet, Gated!Next, Gated!Reach, Gated!Stop, Gated!Turns, Gated!Side, Side
\* What a step of one session task shows of it; the other side shows what it did.
LEMMA SenderShows ==
  ASSUME UNCHANGED <<gate, ever_relay, receiver>>
  PROVE  /\ Standing' = Standing
         /\ Inside' = [Inside EXCEPT !["sender"] = sender'.at = "write"]
         /\ Frames' = [Frames EXCEPT !["sender"] = sender'.frames]
         /\ Verdict' = [Verdict EXCEPT !["sender"] = Verdict'["sender"]]
<1>1. Standing' = Standing
  BY DEF Standing
<1>2. Inside' = [Inside EXCEPT !["sender"] = sender'.at = "write"]
  BY DEF Inside, Side
<1>3. Frames' = [Frames EXCEPT !["sender"] = sender'.frames]
  BY DEF Frames, Side
<1>4. \A s \in Side : s # "sender" => (Succeeded(s)' <=> Succeeded(s)) /\ (Ended(s)' <=> Ended(s))
  BY DEF Succeeded, Ended, Session, Side
<1>5. Verdict' = [Verdict EXCEPT !["sender"] = Verdict'["sender"]]
  BY <1>4 DEF Verdict, Side
<1>6. QED
  BY <1>1, <1>2, <1>3, <1>5

LEMMA ReceiverShows ==
  ASSUME UNCHANGED <<gate, ever_relay, sender>>
  PROVE  /\ Standing' = Standing
         /\ Inside' = [Inside EXCEPT !["receiver"] = receiver'.at = "select"]
         /\ Frames' = [Frames EXCEPT !["receiver"] = receiver'.received]
         /\ Verdict' = [Verdict EXCEPT !["receiver"] = Verdict'["receiver"]]
<1>1. Standing' = Standing
  BY DEF Standing
<1>2. Inside' = [Inside EXCEPT !["receiver"] = receiver'.at = "select"]
  BY DEF Inside, Side
<1>3. Frames' = [Frames EXCEPT !["receiver"] = receiver'.received]
  BY DEF Frames, Side
<1>4. \A s \in Side : s # "receiver" => (Succeeded(s)' <=> Succeeded(s)) /\ (Ended(s)' <=> Ended(s))
  BY DEF Succeeded, Ended, Session, Side
<1>5. Verdict' = [Verdict EXCEPT !["receiver"] = Verdict'["receiver"]]
  BY <1>4 DEF Verdict, Side
<1>6. QED
  BY <1>1, <1>2, <1>3, <1>5

LEMMA Shown ==
  /\ Inside["sender"] = (sender.at = "write") /\ Inside["receiver"] = (receiver.at = "select")
  /\ Frames["sender"] = sender.frames /\ Frames["receiver"] = receiver.received
  /\ \A s \in Side : /\ Standing[s] = Position(gate[s])
                     /\ ~Ended(s) => Verdict[s] = "running"
                     /\ Succeeded(s) => Verdict[s] = "success"
                     /\ Ended(s) /\ ~Succeeded(s) => Verdict[s] = "failure"
  /\ Inside = [s \in Side |-> Inside[s]] /\ Frames = [s \in Side |-> Frames[s]]
  /\ Verdict = [s \in Side |-> Verdict[s]]
<1>1. \A s \in Side : Succeeded(s) => Ended(s)
  BY DEF Succeeded, Ended
<1>2. \A s \in Side : /\ ~Ended(s) => Verdict[s] = "running"
                      /\ Succeeded(s) => Verdict[s] = "success"
                      /\ Ended(s) /\ ~Succeeded(s) => Verdict[s] = "failure"
  BY <1>1 DEF Verdict
<1>3. QED
  BY <1>2 DEF Inside, Frames, Standing, Verdict, Side

\* A step inside a task that shows nothing.
LEMMA SenderQuiet ==
  ASSUME UNCHANGED <<gate, ever_relay, receiver>>, ~Ended("sender"), ~Ended("sender")',
         sender'.frames = sender.frames, sender.at # "write", sender'.at # "write"
  PROVE  Quiet
<1>1. Verdict["sender"] = "running" /\ Verdict'["sender"] = "running"
  <2>1. "sender" \in Side
    BY DEF Side
  <2>2. QED
    BY <2>1 DEF Verdict, Ended, Succeeded
<1>2. Inside["sender"] = FALSE /\ (sender'.at = "write") = FALSE
  BY Shown
<1>3. QED
  BY <1>1, <1>2, Shown, SenderShows DEF Quiet, Side

LEMMA ReceiverQuiet ==
  ASSUME UNCHANGED <<gate, ever_relay, sender>>, ~Ended("receiver"), ~Ended("receiver")',
         receiver'.received = receiver.received, receiver.at # "select", receiver'.at # "select"
  PROVE  Quiet
<1>1. Verdict["receiver"] = "running" /\ Verdict'["receiver"] = "running"
  <2>1. "receiver" \in Side
    BY DEF Side
  <2>2. QED
    BY <2>1 DEF Verdict, Ended, Succeeded
<1>2. Inside["receiver"] = FALSE /\ (receiver'.at = "select") = FALSE
  BY Shown
<1>3. QED
  BY <1>1, <1>2, Shown, ReceiverShows DEF Quiet, Side
\* What a side does with one frame, or with its report.
LEMMA SenderFrame ==
  ASSUME UNCHANGED <<gate, ever_relay, receiver>>, ~Ended("sender"), ~Ended("sender")'
  PROVE  /\ sender.at # "write" /\ sender'.at = "write" /\ sender'.frames = sender.frames
              /\ Position(gate["sender"]) = "direct" => Gated!LetIn("sender")
         /\ sender.at = "write" /\ sender'.at # "write" /\ sender'.frames = sender.frames
              => Gated!Withdraw("sender")
         /\ sender.at = "write" /\ sender'.at # "write" /\ sender'.frames = sender.frames + 1
              => Gated!Pass("sender")
<1>1. Verdict["sender"] = "running" /\ Verdict'["sender"] = "running" /\ Verdict' = Verdict
  <2>1. "sender" \in Side
    BY DEF Side
  <2>2. Verdict["sender"] = "running" /\ Verdict'["sender"] = "running"
    BY <2>1 DEF Verdict, Ended, Succeeded
  <2>3. QED
    BY <2>2, Shown, SenderShows
<1>2. sender'.frames = sender.frames => Frames' = Frames
  BY Shown, SenderShows DEF Side
<1>3. Standing["sender"] = Position(gate["sender"])
  BY DEF Standing, Side
<1>4. sender.at # "write" /\ sender'.at = "write" =>
        ~Inside["sender"] /\ Inside' = [Inside EXCEPT !["sender"] = TRUE]
  BY SenderShows, Shown
<1>5. sender.at = "write" /\ sender'.at # "write" =>
        Inside["sender"] /\ Inside' = [Inside EXCEPT !["sender"] = FALSE]
  BY SenderShows, Shown
<1>6. sender'.frames = sender.frames + 1 => Frames' = [Frames EXCEPT !["sender"] = @ + 1]
  BY Shown, SenderShows
<1>7. Standing' = Standing
  BY SenderShows
<1>8. QED
  BY <1>1, <1>2, <1>3, <1>4, <1>5, <1>6, <1>7
  DEF Gated!LetIn, Gated!Open, Gated!Withdraw, Gated!Pass

LEMMA ReceiverFrame ==
  ASSUME UNCHANGED <<gate, ever_relay, sender>>, ~Ended("receiver"), ~Ended("receiver")'
  PROVE  /\ receiver.at # "select" /\ receiver'.at = "select" /\ receiver'.received = receiver.received
              /\ Position(gate["receiver"]) # "stopped" => Gated!LetIn("receiver")
         /\ receiver.at = "select" /\ receiver'.at # "select" /\ receiver'.received = receiver.received
              => Gated!Withdraw("receiver")
         /\ receiver.at = "select" /\ receiver'.at # "select" /\ receiver'.received = receiver.received + 1
              /\ receiver.received < sender.frames => Gated!Pass("receiver")
<1>1. Verdict["receiver"] = "running" /\ Verdict'["receiver"] = "running" /\ Verdict' = Verdict
  <2>1. "receiver" \in Side
    BY DEF Side
  <2>2. Verdict["receiver"] = "running" /\ Verdict'["receiver"] = "running"
    BY <2>1 DEF Verdict, Ended, Succeeded
  <2>3. QED
    BY <2>2, Shown, ReceiverShows
<1>2. receiver'.received = receiver.received => Frames' = Frames
  BY Shown, ReceiverShows DEF Side
<1>3. Standing["receiver"] = Position(gate["receiver"])
  BY DEF Standing, Side
<1>4. receiver.at # "select" /\ receiver'.at = "select" =>
        ~Inside["receiver"] /\ Inside' = [Inside EXCEPT !["receiver"] = TRUE]
  BY ReceiverShows, Shown
<1>5. receiver.at = "select" /\ receiver'.at # "select" =>
        Inside["receiver"] /\ Inside' = [Inside EXCEPT !["receiver"] = FALSE]
  BY ReceiverShows, Shown
<1>6. receiver'.received = receiver.received + 1 => Frames' = [Frames EXCEPT !["receiver"] = @ + 1]
  BY Shown, ReceiverShows
<1>7. receiver.received < sender.frames => Frames["receiver"] < Frames["sender"]
  BY Shown
<1>8. Standing' = Standing
  BY ReceiverShows
<1>9. QED
  BY <1>1, <1>2, <1>3, <1>4, <1>5, <1>6, <1>7, <1>8
  DEF Gated!LetIn, Gated!Open, Gated!Withdraw, Gated!Pass

\* The end of a task is its report.
LEMMA SenderEnds ==
  ASSUME UNCHANGED <<gate, ever_relay, receiver>>, ~Ended("sender"), Ended("sender")',
         sender.at # "write", sender'.frames = sender.frames
  PROVE  IF Succeeded("sender")' THEN Gated!Ends("sender", "success") ELSE Gated!Ends("sender", "failure")
<1>1. /\ Verdict["sender"] = "running"
      /\ Verdict'["sender"] = IF Succeeded("sender")' THEN "success" ELSE "failure"
  <2>1. "sender" \in Side
    BY DEF Side
  <2>2. QED
    BY <2>1 DEF Verdict, Ended, Succeeded
<1>2. sender'.at # "write"
  BY DEF Ended, Session
<1>3. Frames' = Frames
  BY Shown, SenderShows DEF Side
<1>6. ~Inside["sender"] /\ Inside["sender"] = (sender'.at = "write")
  BY <1>2, Shown
<1>7. Inside' = Inside
  BY <1>6, Shown, SenderShows
<1>4. Standing' = Standing /\ Verdict' = [Verdict EXCEPT !["sender"] = Verdict'["sender"]]
  BY SenderShows
<1>5. QED
  BY <1>1, <1>3, <1>4, <1>6, <1>7 DEF Gated!Ends

LEMMA ReceiverEnds ==
  ASSUME UNCHANGED <<gate, ever_relay, sender>>, ~Ended("receiver"), Ended("receiver")',
         receiver.at # "select", receiver'.received = receiver.received
  PROVE  IF Succeeded("receiver")' THEN Gated!Ends("receiver", "success")
         ELSE Gated!Ends("receiver", "failure")
<1>1. /\ Verdict["receiver"] = "running"
      /\ Verdict'["receiver"] = IF Succeeded("receiver")' THEN "success" ELSE "failure"
  <2>1. "receiver" \in Side
    BY DEF Side
  <2>2. QED
    BY <2>1 DEF Verdict, Ended, Succeeded
<1>2. receiver'.at # "select"
  BY DEF Ended, Session
<1>3. Frames' = Frames
  BY Shown, ReceiverShows DEF Side
<1>6. ~Inside["receiver"] /\ Inside["receiver"] = (receiver'.at = "select")
  BY <1>2, Shown
<1>7. Inside' = Inside
  BY <1>6, Shown, ReceiverShows
<1>4. Standing' = Standing /\ Verdict' = [Verdict EXCEPT !["receiver"] = Verdict'["receiver"]]
  BY ReceiverShows
<1>5. QED
  BY <1>1, <1>3, <1>4, <1>6, <1>7 DEF Gated!Ends

LEMMA SendsRefine ==
  ASSUME Sessions, Sends
  PROVE  Gated!Next \/ Quiet
<1>0. /\ TypeOK /\ sender \in SenderTask /\ receiver \in ReceiverTask /\ gate["sender"] \in Gate
      /\ UNCHANGED <<gate, ever_relay>> /\ "sender" \in Gated!Side
  BY TasksKeepWatching DEF Sessions, TypeOK, Tasks, Side, Gated!Side
<1> USE <1>0
<1>1. UNCHANGED receiver
  BY DEF Sends, SenderOpens, SenderReady, SenderFails, SenderStarts, SenderCut, SenderTick,
         SenderWrites, SenderDeadline, SenderConfirms, SenderDone
<1>2. Gated!LetIn("sender") \/ Gated!Withdraw("sender") \/ Gated!Pass("sender")
        \/ Gated!Ends("sender", "failure") \/ Gated!Succeed("sender") => Gated!Next
  BY DEF Gated!Next
<1>3. CASE SenderOpens
  <2>1. UNCHANGED sender
    BY <1>3 DEF SenderOpens
  <2>2. QED
    BY <1>1, <2>1 DEF Quiet, Standing, Inside, Frames, Verdict, Succeeded, Ended, Session
<1>4. CASE SenderReady \/ SenderStarts \/ SenderDeadline \/ SenderConfirms
  <2>1. ~Ended("sender") /\ ~Ended("sender")' /\ sender'.frames = sender.frames
        /\ sender.at # "write" /\ sender'.at # "write"
    BY <1>4 DEF SenderReady, SenderStarts, SenderDeadline, SenderConfirms, Ended, Session, SenderTask
  <2>2. QED
    BY <1>1, <2>1, SenderQuiet
<1>5. CASE SenderCut
  <2>1. ~Ended("sender") /\ ~Ended("sender")' /\ sender'.frames = sender.frames /\ sender'.at # "write"
    BY <1>5 DEF SenderCut, Ended, Session, SenderTask
  <2>2. QED
    BY <1>1, <1>2, <2>1, SenderQuiet, SenderFrame
<1>6. CASE SenderTick
  <2>1. ~Ended("sender") /\ ~Ended("sender")' /\ sender'.frames = sender.frames
        /\ sender.at # "write" /\ sender'.at = "write"
    BY <1>6 DEF SenderTick, Ended, Session, SenderTask
  <2>2. Position(gate["sender"]) = "direct"
    BY <1>6 DEF SenderTick, MaySend, Position, Stopped, StopReason
  <2>3. QED
    BY <1>1, <1>2, <2>1, <2>2, SenderFrame
<1>7. CASE SenderWrites
  <2>1. ~Ended("sender") /\ ~Ended("sender")' /\ sender'.frames = sender.frames + 1
        /\ sender.at = "write" /\ sender'.at # "write"
    BY <1>7 DEF SenderWrites, Ended, Session, SenderTask
  <2>2. QED
    BY <1>1, <1>2, <2>1, SenderFrame
<1>8. CASE SenderFails
  <2>1. ~Ended("sender") /\ Ended("sender")' /\ sender'.frames = sender.frames /\ sender.at # "write"
        /\ ~Succeeded("sender")'
    BY <1>8 DEF SenderFails, Ended, Session, SenderTask, Succeeded
  <2>2. QED
    BY <1>1, <1>2, <2>1, SenderEnds
<1>9. CASE SenderDone
  <2>1. ~Ended("sender") /\ Ended("sender")' /\ sender'.frames = sender.frames /\ sender.at = "stopping"
        /\ sender'.confirmed = sender.confirmed
    BY <1>9 DEF SenderDone, Ended, Session, SenderTask
  <2>2. CASE ~Succeeded("sender")'
    BY <1>1, <1>2, <2>1, <2>2, SenderEnds
  <2>3. CASE Succeeded("sender")'
    <3>1. ~Stopped(gate["sender"]) /\ sender.confirmed
      BY <2>1, <2>3 DEF Succeeded
    <3>2. Standing["sender"] = "direct"
      BY <2>1, <3>1, Shown
      DEF Sessions, DirectInv, PastAwait, Position, Stopped, Gate, GateState, Side
    <3>3. receiver.cut \/ receiver.received = sender.frames
      BY <3>1 DEF Sessions, TypeOK, FramesInv, ReceiverTask, SenderTask, Stream
    <3>4. receiver.cut => Standing["receiver"] = "stopped"
      <4>1. Standing["receiver"] = Position(gate["receiver"])
        BY DEF Standing, Side
      <4>2. receiver.cut => Stopped(gate["receiver"])
        BY DEF Sessions, EndInv
      <4>3. QED
        BY <4>1, <4>2 DEF Position, Stopped, StopReason
    <3>5. Gated!Taken("sender")
      BY <3>3, <3>4, Shown DEF Gated!Taken
    <3>6. Gated!Ends("sender", "success")
      BY <1>1, <2>1, <2>3, SenderEnds
    <3>7. QED
      BY <1>2, <3>2, <3>5, <3>6 DEF Gated!Succeed
  <2>4. QED
    BY <2>2, <2>3
<1>10. QED
  BY <1>3, <1>4, <1>5, <1>6, <1>7, <1>8, <1>9 DEF Sends
LEMMA ReceivesRefine ==
  ASSUME Sessions, Receives
  PROVE  Gated!Next \/ Quiet
<1>0. /\ TypeOK /\ sender \in SenderTask /\ receiver \in ReceiverTask /\ stream \in Stream
      /\ UNCHANGED <<gate, ever_relay>> /\ "receiver" \in Gated!Side
  BY TasksKeepWatching DEF Sessions, TypeOK, Tasks, Side, Gated!Side
<1> USE <1>0
<1>1. UNCHANGED sender
  BY DEF Receives, ReceiverAccepts, ReceiverFails, ReceiverChecks, ReceiverTakes, ReceiverError,
         ReceiverReadsFin, ReceiverCut, ReceiverReturns, ReceiverDone
<1>2. Gated!LetIn("receiver") \/ Gated!Withdraw("receiver") \/ Gated!Pass("receiver")
        \/ Gated!Ends("receiver", "failure") \/ Gated!Succeed("receiver") => Gated!Next
  BY DEF Gated!Next
<1>3. CASE ReceiverAccepts
  <2>1. ~Ended("receiver") /\ ~Ended("receiver")' /\ receiver'.received = receiver.received
        /\ receiver.at # "select" /\ receiver'.at # "select"
    BY <1>3 DEF ReceiverAccepts, Ended, Session, ReceiverTask
  <2>2. QED
    BY <1>1, <2>1, ReceiverQuiet
<1>4. CASE ReceiverChecks
  <2>1. ~Ended("receiver") /\ ~Ended("receiver")' /\ receiver'.received = receiver.received
        /\ receiver.at # "select" /\ receiver'.at = "select"
    BY <1>4 DEF ReceiverChecks, Ended, Session, ReceiverTask
  <2>2. Position(gate["receiver"]) # "stopped"
    BY <1>4 DEF ReceiverChecks, Position
  <2>3. QED
    BY <1>1, <1>2, <2>1, <2>2, ReceiverFrame
\* What is in the queue was written and has not been taken.
<1>5. CASE ReceiverTakes
  <2>1. ~Ended("receiver") /\ ~Ended("receiver")' /\ receiver'.received = receiver.received + 1
        /\ receiver.at = "select" /\ receiver'.at # "select"
    BY <1>5 DEF ReceiverTakes, Ended, Session, ReceiverTask
  <2>2. receiver.received < sender.frames
    BY <1>5 DEF ReceiverTakes, Sessions, FramesInv, ReceiverTask, SenderTask, Stream
  <2>3. QED
    BY <1>1, <1>2, <2>1, <2>2, ReceiverFrame
<1>6. CASE ReceiverError \/ ReceiverReadsFin \/ ReceiverCut
  <2>1. ~Ended("receiver") /\ ~Ended("receiver")' /\ receiver'.received = receiver.received
        /\ receiver'.at # "select"
    BY <1>6 DEF ReceiverError, ReceiverReadsFin, ReceiverCut, ReceiverReturns, Ended, Session, ReceiverTask
  <2>2. QED
    BY <1>1, <1>2, <2>1, ReceiverQuiet, ReceiverFrame
<1>7. CASE ReceiverFails
  <2>1. ~Ended("receiver") /\ Ended("receiver")' /\ receiver'.received = receiver.received
        /\ receiver.at # "select" /\ ~Succeeded("receiver")'
    BY <1>7 DEF ReceiverFails, Ended, Session, ReceiverTask, Succeeded
  <2>2. QED
    BY <1>1, <1>2, <2>1, ReceiverEnds
<1>8. CASE ReceiverDone
  <2>1. ~Ended("receiver") /\ Ended("receiver")' /\ receiver'.received = receiver.received
        /\ receiver.at = "stopping"
    BY <1>8 DEF ReceiverDone, Ended, Session, ReceiverTask
  <2>2. CASE ~Succeeded("receiver")'
    BY <1>1, <1>2, <2>1, <2>2, ReceiverEnds
  <2>3. CASE Succeeded("receiver")'
    <3>1. ~Stopped(gate["receiver"])
      BY <2>3 DEF Succeeded
    <3>2. Standing["receiver"] # "stopped"
      BY <3>1, Shown DEF Position, Side
    <3>3. ~receiver.cut
      BY <3>1 DEF Sessions, EndInv
    <3>4. receiver.received = sender.frames
      BY <2>1, <3>3 DEF Sessions, EndInv, FramesInv, ReceiverTask, SenderTask, Stream
    <3>5. Gated!Taken("receiver")
      BY <3>4, Shown DEF Gated!Taken
    <3>6. Gated!Ends("receiver", "success")
      BY <1>1, <2>1, <2>3, ReceiverEnds
    <3>7. QED
      BY <1>2, <3>2, <3>5, <3>6 DEF Gated!Succeed
  <2>4. QED
    BY <2>2, <2>3
<1>9. QED
  BY <1>3, <1>4, <1>5, <1>6, <1>7, <1>8 DEF Receives

LEMMA SessionStep ==
  ASSUME Sessions, [Next]_vars
  PROVE  Gated!Next \/ Quiet
<1>1. CASE UNCHANGED <<gate, ever_relay, sender, receiver>>
  BY <1>1 DEF Quiet, Standing, Inside, Frames, Verdict, Succeeded, Ended, Session
<1>2. CASE ReaderReads \/ ReaderEnds
  BY <1>1, <1>2 DEF ReaderReads, ReaderEnds, watching
<1>3. QED
  BY <1>1, <1>2, Steps, SendsRefine, ReceivesRefine, MonitorsRefine, PlatformKeepsGate DEF vars, Tasks

\* The whole session is fail-closed (MediaGate's invariants, lib.rs:400-406, kept by
\* monitor_loop, send_synthetic, receive_synthetic and the two run_*_session): for any paths,
\* queue, window and number of frames it is a FailClosed session.
THEOREM SessionFailsClosed == Spec => ImplementsFailClosed
<1>1. Init => Gated!Init
  <2> SUFFICES ASSUME Init PROVE Gated!Init
    OBVIOUS
  <2>1. \A s \in Side : Position(gate[s]) = "waiting" /\ ~Ended(s) /\ ~Succeeded(s)
    BY DEF Init, NewGate, Position, Stopped, StopReason, Ended, Succeeded, Session, Side
  <2>2. Standing = [s \in Gated!Side |-> "waiting"] /\ Verdict = [s \in Gated!Side |-> "running"]
    BY <2>1 DEF Standing, Verdict, Gated!Side, Side
  <2>3. Inside = [s \in Gated!Side |-> FALSE] /\ Frames = [s \in Gated!Side |-> 0]
    BY DEF Init, Inside, Frames, Gated!Side, Side
  <2>4. QED
    BY <2>2, <2>3 DEF Gated!Init
<1>2. Sessions /\ [Next]_vars => [Gated!Next]_<<Standing, Inside, Frames, Verdict>>
  BY SessionStep DEF Quiet
<1>3. QED
  BY <1>1, <1>2, SessionsInvariant, PTL DEF Spec, ImplementsFailClosed, Gated!Spec
=============================================================================
