------------------------- MODULE TunnelClientProofs -------------------------
(***************************************************************************)
(* Safety of the tunnel client's cache, for any number of connections,     *)
(* tasks and streams.                                                      *)
(***************************************************************************)
EXTENDS TunnelClient, FiniteSetTheorems, TLAPS

\* Every step of a task or of a connection, one at a time.
Tasks(t) ==
  \/ Accept(t) \/ Continues(t) \/ StatusOk(t) \/ Rejected(t) \/ PipeEnds(t) \/ StreamReset(t)
Platform(c) == ConnectionLost(c) \/ Stall(c) \/ StreamFreed(c) \/ Dropped(c)

-----------------------------------------------------------------------------
(* Typing *)

\* The tasks that stream on a connection are finitely many.
LEMMA StreamingFinite == \A c \in Conn : Cardinality(Streaming(c)) \in Nat
  <1>1. \A c \in Conn : Streaming(c) \subseteq Task
    BY DEF Streaming
  <1> QED
    BY <1>1, TunnelAssumption, FS_Subset, FS_CardinalityType

\* The marks a task leaves on a connection.
LEMMA FreshType == Fresh \in Connection /\ Fresh.state = "open" /\ Fresh.timedout = {}
  <1>1. Absent \in Connection /\ Absent.timedout = {}
    BY TunnelAssumption DEF Absent, Connection
  <1> QED
    BY <1>1 DEF Fresh, Connection

LEMMA MarkType ==
  ASSUME NEW k \in Connection, NEW phase \in {"status", "capacity"}
  PROVE  /\ [k EXCEPT !.evicted = TRUE] \in Connection
         /\ [k EXCEPT !.timedout = @ \cup {phase}] \in Connection
         /\ k.streams < MaxStreams => [k EXCEPT !.streams = @ + 1] \in Connection
         /\ [k EXCEPT !.evicted = TRUE].state = k.state
         /\ [k EXCEPT !.timedout = @ \cup {phase}].state = k.state
         /\ [k EXCEPT !.streams = @ + 1].state = k.state
  <1>1. [k EXCEPT !.evicted = TRUE] \in Connection
    BY DEF Connection
  <1>2. [k EXCEPT !.timedout = @ \cup {phase}] \in Connection
    BY DEF Connection
  <1>3. ASSUME k.streams < MaxStreams
        PROVE  [k EXCEPT !.streams = @ + 1] \in Connection
    BY <1>3, TunnelAssumption DEF Connection
  <1>4. /\ [k EXCEPT !.evicted = TRUE].state = k.state
        /\ [k EXCEPT !.timedout = @ \cup {phase}].state = k.state
        /\ [k EXCEPT !.streams = @ + 1].state = k.state
    BY DEF Connection
  <1> QED
    BY <1>1, <1>2, <1>3, <1>4

\* No connection is cached or held at first.
LEMMA InitType == Init => TypeOK
  BY TunnelAssumption
  DEF Init, TypeOK, Connection, Handler, Absent, Idle, Held, Uses

\* What the platform does leaves the cache and the handles alone.
LEMMA PlatformType ==
  ASSUME TypeOK, NEW c \in Conn, Platform(c)
  PROVE  TypeOK'
  <1>1. conn[c] \in Connection /\ cache' = cache /\ task' = task
    BY DEF TypeOK, Platform, ConnectionLost, Stall, StreamFreed, Dropped, Environment
  <1>2. \A d \in Conn : Held(d)' <=> Held(d)
    BY <1>1 DEF Held, Uses
  <1>3. CASE ConnectionLost(c)
    BY <1>1, <1>2, <1>3 DEF TypeOK, ConnectionLost, Connection
  <1>4. CASE Stall(c)
    BY <1>1, <1>2, <1>4 DEF TypeOK, Stall, Connection
  <1>5. CASE StreamFreed(c)
    <2>1. conn[c].streams - 1 \in 0..MaxStreams
      BY <1>1, <1>5, StreamingFinite, TunnelAssumption DEF StreamFreed, Connection
    <2> QED
      BY <1>1, <1>2, <1>5, <2>1 DEF TypeOK, StreamFreed, Connection
  <1>6. CASE Dropped(c)
    BY <1>1, <1>2, <1>6, TunnelAssumption DEF TypeOK, Dropped, Connection, Absent
  <1> QED
    BY <1>3, <1>4, <1>5, <1>6 DEF Platform

\* A step that keeps the cache, marks a connection and moves one task.
LEMMA MoveType ==
  ASSUME TypeOK, NEW t \in Task, NEW c \in Conn, NEW k \in Connection, NEW at,
         k.state = conn[c].state, cache' = cache, conn' = [conn EXCEPT ![c] = k],
         \/ Return(t)
         \/ Goes(t, at) /\ at \in {"handshake", "evict"} /\ task[t].conn # None
  PROVE  TypeOK'
  <1>1. conn' \in [Conn -> Connection] /\ \A d \in Conn : conn'[d].state = conn[d].state
    BY DEF TypeOK
  <1>2. /\ task' \in [Task -> Handler]
        /\ \A u \in Task : task'[u].conn = None <=> task'[u].at \in {"idle", "dial"}
    BY DEF TypeOK, Handler, Return, Idle, Goes
  <1>3. \A d \in Conn : Held(d)' => Held(d)
    BY TunnelAssumption DEF TypeOK, Handler, Held, Uses, Return, Idle, Goes
  <1> QED
    BY <1>1, <1>2, <1>3 DEF TypeOK

\* A task holds a handle from the end of get_or_dial on, and only of what exists.
LEMMA TaskType ==
  ASSUME TypeOK, NEW t \in Task, Tasks(t)
  PROVE  TypeOK'
  <1> USE TunnelAssumption DEF TypeOK, Handler, Goes, At, Return, Idle, Held, Uses
  <1>1. CASE Accept(t)
    BY <1>1 DEF Accept, Cached, OpensOn
  <1>2. CASE DialFails(t) \/ OpenFails(t) \/ StatusOk(t) \/ Rejected(t) \/ PipeEnds(t)
    BY <1>2 DEF DialFails, OpenFails, StatusOk, Answered, Rejected, PipeEnds
  <1>3. CASE ConnectionFails(t) \/ StreamReset(t)
    BY <1>3 DEF ConnectionFails, StreamReset
  <1>4. CASE OpenTimeout(t) \/ HandshakeTimeout(t)
    <2> DEFINE c == task[t].conn
               k(phase) == [conn[c] EXCEPT !.timedout = @ \cup {phase}]
    <2>1. c \in Conn /\ c # None
      BY <1>4 DEF OpenTimeout, HandshakeTimeout, HandshakeExpires
    <2>2. \A phase \in {"status", "capacity"} : k(phase) \in Connection /\ k(phase).state = conn[c].state
      BY <2>1, MarkType
    <2>3. CASE OpenTimeout(t)
      <3>1. cache' = cache /\ conn' = [conn EXCEPT ![c] = k("capacity")] /\ Return(t)
        BY <2>3 DEF OpenTimeout, TimedOut
      <3> QED
        BY <2>1, <2>2, <3>1, MoveType
    <2>4. CASE HandshakeTimeout(t)
      <3>1. cache' = cache /\ conn' = [conn EXCEPT ![c] = k("status")] /\ Goes(t, "evict")
        BY <2>4 DEF HandshakeTimeout, TimedOut
      <3> HIDE DEF k, c, Goes
      <3> QED
        BY <2>1, <2>2, <3>1, MoveType DEF c
    <2> QED
      BY <1>4, <2>3, <2>4
  <1>5. CASE OpenStream(t)
    <2> DEFINE c == task[t].conn
               k == [conn[c] EXCEPT !.streams = @ + 1]
    <2>1. c \in Conn /\ c # None
      BY <1>5 DEF OpenStream
    <2>2. k \in Connection /\ k.state = conn[c].state
      BY <1>5, <2>1, MarkType DEF OpenStream
    <2>3. cache' = cache /\ conn' = [conn EXCEPT ![c] = k] /\ Goes(t, "handshake")
      BY <1>5 DEF OpenStream
    <2> QED
      BY <2>1, <2>2, <2>3, MoveType
  <1>6. CASE Evict(t)
    <2>1. CASE cache # None /\ Unusable(cache, task[t].conn)
      <3> DEFINE k == [conn[cache] EXCEPT !.evicted = TRUE]
      <3>1. cache \in Conn /\ k \in Connection /\ k.state = conn[cache].state
        BY <2>1, MarkType
      <3>2. conn' = [conn EXCEPT ![cache] = k]
        BY <1>6, <2>1 DEF Evict
      <3>3. conn' \in [Conn -> Connection] /\ \A d \in Conn : conn'[d].state = conn[d].state
        BY <3>1, <3>2
      <3> QED
        BY <1>6, <2>1, <3>3 DEF Evict
    <2>2. CASE ~(cache # None /\ Unusable(cache, task[t].conn))
      BY <1>6, <2>2 DEF Evict
    <2> QED
      BY <2>1, <2>2
  <1>7. ASSUME NEW c \in Conn, Dialed(t, c)
        PROVE  TypeOK'
    <2>1. CASE Lands
      <3>1. Fresh \in Connection /\ Fresh.state = "open"
        BY FreshType
      <3>2. conn' \in [Conn -> Connection] /\ \A d \in Conn : conn'[d].state # "none" \/ conn'[d] = conn[d]
        BY <1>7, <2>1, <3>1 DEF Dialed
      <3>3. conn'[c].state = "open"
        BY <1>7, <2>1, <3>1 DEF Dialed
      <3> QED
        BY <1>7, <2>1, <3>2, <3>3 DEF Dialed, OpensOn
    <2>2. CASE ~Lands
      BY <1>7, <2>2 DEF Dialed, Lands, Cached, OpensOn
    <2> QED
      BY <2>1, <2>2
  <1> QED
    BY <1>1, <1>2, <1>3, <1>4, <1>5, <1>6, <1>7 DEF Tasks, Continues

LEMMA NextType == TypeOK /\ [Next]_vars => TypeOK'
  <1>1. ASSUME TypeOK, UNCHANGED vars
        PROVE  TypeOK'
    BY <1>1 DEF TypeOK, vars, Held, Uses
  <1>2. Next => (\E t \in Task : Tasks(t)) \/ \E c \in Conn : Platform(c)
    BY DEF Next, Tasks, Platform
  <1> QED
    BY <1>1, <1>2, TaskType, PlatformType

\* The cache, the connections and the handles keep their shape, and nothing that is
\* cached or held has been given up (TypeOK).
THEOREM CacheTypeCorrect == Spec => []TypeOK
  BY InitType, NextType, PTL DEF Spec

-----------------------------------------------------------------------------
(* One connection for all *)

LEMMA SharedStep == TypeOK /\ SharedConnection /\ [Next]_vars => SharedConnection'
  <1> SUFFICES ASSUME TypeOK, SharedConnection, [Next]_vars, NEW d \in Conn, (Open(d) /\ Held(d))'
               PROVE  (cache = d \/ conn[d].evicted)'
    BY DEF SharedConnection
  <1> USE DEF SharedConnection, Open, Held, Uses, At
  <1>1. ASSUME UNCHANGED <<cache, task>>, NEW c \in Conn, Platform(c)
        PROVE  (cache = d \/ conn[d].evicted)'
    BY <1>1 DEF TypeOK, Connection, Platform, ConnectionLost, Stall, StreamFreed, Dropped, Absent
  <1>2. ASSUME NEW t \in Task, Accept(t)
        PROVE  (cache = d \/ conn[d].evicted)'
    BY <1>2 DEF TypeOK, Handler, Accept, Cached, OpensOn, Goes
  <1>3. ASSUME NEW t \in Task, NEW c \in Conn, Dialed(t, c)
        PROVE  (cache = d \/ conn[d].evicted)'
    <2>1. CASE Lands
      <3>1. cache' = c /\ ~(cache \in Conn /\ conn[cache].state = "open")
        BY <1>3, <2>1, TunnelAssumption DEF Dialed, Lands, Cached
      <3>2. CASE d = c
        BY <3>1, <3>2
      <3>3. CASE d # c
        <4>1. conn'[d] = conn[d] /\ Held(d)
          BY <1>3, <2>1, <3>1, <3>3 DEF Dialed, OpensOn, TypeOK, Handler
        <4> QED
          BY <3>1, <4>1
      <3> QED
        BY <3>2, <3>3
    <2>2. CASE ~Lands
      BY <1>3, <2>2 DEF TypeOK, Handler, Dialed, Lands, Cached, OpensOn
    <2> QED
      BY <2>1, <2>2
  <1>4. ASSUME NEW t \in Task, Evict(t)
        PROVE  (cache = d \/ conn[d].evicted)'
    BY <1>4, TunnelAssumption DEF TypeOK, Connection, Handler, Evict, Return, Idle
  <1>5. ASSUME NEW t \in Task,
               \/ DialFails(t) \/ OpenFails(t) \/ OpenTimeout(t) \/ OpenStream(t)
               \/ HandshakeTimeout(t) \/ ConnectionFails(t)
               \/ StatusOk(t) \/ Rejected(t) \/ PipeEnds(t) \/ StreamReset(t)
        PROVE  (cache = d \/ conn[d].evicted)'
    <2>1. cache' = cache
      BY <1>5 DEF DialFails, OpenFails, OpenTimeout, OpenStream, HandshakeTimeout,
                  ConnectionFails, StatusOk, Rejected, PipeEnds, StreamReset
    <2>2. Held(d)' => Held(d)
      BY <1>5, <2>1, TunnelAssumption
      DEF TypeOK, Handler, Return, Idle, Goes, DialFails, OpenFails, OpenTimeout, OpenStream,
          HandshakeTimeout, ConnectionFails, StatusOk, Rejected, PipeEnds, StreamReset
    <2>3. conn'[d].state = conn[d].state /\ conn'[d].evicted = conn[d].evicted
      BY <1>5 DEF TypeOK, Connection, DialFails, OpenFails, OpenTimeout, TimedOut, OpenStream,
                  HandshakeTimeout, ConnectionFails, StatusOk, Rejected, PipeEnds, StreamReset
    <2> QED
      BY <2>1, <2>2, <2>3
  <1>6. CASE UNCHANGED vars
    BY <1>6 DEF vars
  <1>7. \A c \in Conn : Platform(c) => UNCHANGED <<cache, task>>
    BY DEF Platform, ConnectionLost, Stall, StreamFreed, Dropped, Environment
  <1> QED
    BY <1>1, <1>2, <1>3, <1>4, <1>5, <1>6, <1>7 DEF Next, Continues, Platform

\* However many tasks dial at once, those whose dial lost the race work on the cached
\* connection (SharedConnection).
THEOREM OneConnectionShared == Spec => []SharedConnection
  <1>1. Init => SharedConnection
    BY TunnelAssumption DEF Init, SharedConnection, Open, Absent
  <1> QED
    BY <1>1, SharedStep, CacheTypeCorrect, PTL DEF Spec

-----------------------------------------------------------------------------
(* What leaves the cache *)

LEMMA RecycledStep == TypeOK /\ StalledRecycled /\ [Next]_vars => StalledRecycled'
  <1> SUFFICES ASSUME TypeOK, StalledRecycled, [Next]_vars,
                      (cache # None /\ "status" \in conn[cache].timedout)'
               PROVE  (\E u \in Task : At(u, "evict") /\ Uses(u, cache))'
    BY DEF StalledRecycled, Leaving
  <1> DEFINE Leaver(u, c) == At(u, "evict") /\ Uses(u, c)
  <1>1. cache # None /\ "status" \in conn[cache].timedout => \E u \in Task : Leaver(u, cache)
    BY DEF StalledRecycled, Leaving
  <1>2. cache' \in Conn
    <2>1. TypeOK'
      BY NextType
    <2> QED
      BY <2>1 DEF TypeOK
  <1>3. ASSUME cache' = cache, "status" \in conn[cache].timedout,
               \A u \in Task : Leaver(u, cache) => task'[u] = task[u]
        PROVE  (\E u \in Task : At(u, "evict") /\ Uses(u, cache))'
    BY <1>1, <1>3 DEF At, Uses
  <1>4. ASSUME NEW t \in Task, HandshakeTimeout(t)
        PROVE  (\E u \in Task : At(u, "evict") /\ Uses(u, cache))'
    <2> DEFINE c == task[t].conn
    <2>1. cache' = cache /\ c \in Conn /\ task[t].at = "handshake"
      BY <1>4, TunnelAssumption DEF HandshakeTimeout, HandshakeExpires, At, TypeOK, Handler
    <2>2. task' = [task EXCEPT ![t].at = "evict"]
      BY <1>4 DEF HandshakeTimeout, Goes
    <2>3. CASE cache = c
      BY <2>1, <2>2, <2>3 DEF TypeOK, Handler, At, Uses
    <2>4. CASE cache # c
      <3>1. conn'[cache] = conn[cache]
        BY <1>4, <2>1, <2>4, <1>2 DEF HandshakeTimeout, TimedOut, TypeOK
      <3>2. \A u \in Task : Leaver(u, cache) => task'[u] = task[u]
        BY <2>1, <2>2 DEF At, TypeOK
      <3> QED
        BY <1>3, <2>1, <3>1, <3>2
    <2> QED
      BY <2>3, <2>4
  <1>5. ASSUME NEW t \in Task, Evict(t)
        PROVE  (\E u \in Task : At(u, "evict") /\ Uses(u, cache))'
    <2>1. ~Unusable(cache, task[t].conn) /\ cache' = cache /\ conn' = conn
      BY <1>2, <1>5, TunnelAssumption DEF Evict
    <2>2. \A u \in Task : Leaver(u, cache) => u # t
      BY <2>1 DEF Unusable, Uses
    <2>3. \A u \in Task : Leaver(u, cache) => task'[u] = task[u]
      BY <1>5, <2>2 DEF Evict, Return, TypeOK
    <2> QED
      BY <1>3, <2>1, <2>3
  <1>6. ASSUME NEW t \in Task, NEW c \in Conn, Dialed(t, c)
        PROVE  (\E u \in Task : At(u, "evict") /\ Uses(u, cache))'
    <2>1. CASE Lands
      <3>1. cache' = c /\ conn'[c] = Fresh
        BY <1>6, <2>1 DEF Dialed, TypeOK
      <3> QED
        BY <3>1, FreshType
    <2>2. CASE ~Lands
      <3>1. cache' = cache /\ conn' = conn /\ task[t].at = "dial"
        BY <1>6, <2>2 DEF Dialed, At
      <3>2. \A u \in Task : Leaver(u, cache) => task'[u] = task[u]
        BY <1>6, <2>2, <3>1 DEF Dialed, OpensOn, At, TypeOK
      <3> QED
        BY <1>3, <3>1, <3>2
    <2> QED
      BY <2>1, <2>2
  <1>7. ASSUME NEW t \in Task,
               \/ Accept(t) \/ DialFails(t) \/ OpenFails(t) \/ OpenTimeout(t) \/ OpenStream(t)
               \/ ConnectionFails(t) \/ StatusOk(t) \/ Rejected(t) \/ PipeEnds(t) \/ StreamReset(t)
        PROVE  (\E u \in Task : At(u, "evict") /\ Uses(u, cache))'
    <2>1. cache' = cache /\ task[t].at # "evict"
      BY <1>7 DEF Accept, DialFails, OpenFails, OpenTimeout, OpenStream, ConnectionFails,
                  StatusOk, Answered, Rejected, PipeEnds, StreamReset, At
    <2>2. \A d \in Conn : "status" \in conn'[d].timedout => "status" \in conn[d].timedout
      BY <1>7 DEF TypeOK, Connection, Accept, DialFails, OpenFails, OpenTimeout, TimedOut,
                  OpenStream, ConnectionFails, StatusOk, Rejected, PipeEnds, StreamReset
    <2>3. \A u \in Task \ {t} : task'[u] = task[u]
      BY <1>7 DEF TypeOK, Accept, OpensOn, Goes, Return, DialFails, OpenFails, OpenTimeout,
                  OpenStream, ConnectionFails, StatusOk, Rejected, PipeEnds, StreamReset
    <2> QED
      BY <1>2, <1>3, <2>1, <2>2, <2>3 DEF At
  <1>8. ASSUME NEW c \in Conn, Platform(c)
        PROVE  (\E u \in Task : At(u, "evict") /\ Uses(u, cache))'
    <2>1. cache' = cache /\ task' = task
      BY <1>8 DEF Platform, ConnectionLost, Stall, StreamFreed, Dropped, Environment
    <2>2. \A d \in Conn : "status" \in conn'[d].timedout => "status" \in conn[d].timedout
      BY <1>8 DEF TypeOK, Connection, Platform, ConnectionLost, Stall, StreamFreed, Dropped, Absent
    <2> QED
      BY <1>2, <1>3, <2>1, <2>2
  <1>9. CASE UNCHANGED vars
    BY <1>3, <1>9 DEF vars
  <1> QED
    BY <1>4, <1>5, <1>6, <1>7, <1>8, <1>9 DEF Next, Continues, Platform

\* A connection on which a handshake timed out does not outlive the task that saw it in
\* the cache, whatever the other tasks do meanwhile (StalledRecycled).
THEOREM StalledLeaves == Spec => []StalledRecycled
  <1>1. Init => StalledRecycled
    BY DEF Init, StalledRecycled
  <1> QED
    BY <1>1, RecycledStep, CacheTypeCorrect, PTL DEF Spec

\* A replacement cached by another task is never thrown away for a connection
\* that failed before (ReplacementKept).
THEOREM ReplacementStays == Spec => ReplacementKept
  <1> DEFINE Kept == \A c \in Conn : cache = c /\ cache' # c =>
                       Lost(c) \/ \E t \in Task : At(t, "evict") /\ Uses(t, c)
  <1>1. ASSUME TypeOK, [Next]_vars
        PROVE  Kept
    <2>1. ASSUME NEW t \in Task, NEW c \in Conn, Dialed(t, c)
          PROVE  Kept
      BY <1>1, <2>1, TunnelAssumption
      DEF Dialed, Lands, Cached, Open, Lost, TypeOK, Connection, Held
    <2>2. ASSUME NEW t \in Task, Evict(t)
          PROVE  Kept
      BY <2>2 DEF Evict, Unusable, Uses
    <2>3. ASSUME NEW t \in Task,
                 \/ Accept(t) \/ DialFails(t) \/ OpenFails(t) \/ OpenTimeout(t) \/ OpenStream(t)
                 \/ HandshakeTimeout(t) \/ ConnectionFails(t)
                 \/ StatusOk(t) \/ Rejected(t) \/ PipeEnds(t) \/ StreamReset(t)
          PROVE  cache' = cache
      BY <2>3 DEF Accept, DialFails, OpenFails, OpenTimeout, OpenStream, HandshakeTimeout,
                  ConnectionFails, StatusOk, Rejected, PipeEnds, StreamReset
    <2>4. ASSUME NEW c \in Conn, Platform(c)
          PROVE  cache' = cache
      BY <2>4 DEF Platform, ConnectionLost, Stall, StreamFreed, Dropped, Environment
    <2>5. UNCHANGED vars => cache' = cache
      BY DEF vars
    <2> QED
      BY <1>1, <2>1, <2>2, <2>3, <2>4, <2>5 DEF Next, Continues, Platform
  <1>2. TypeOK /\ [Next]_vars => [Kept]_vars
    BY <1>1
  <1> QED
    BY <1>2, CacheTypeCorrect, PTL DEF Spec, ReplacementKept
=============================================================================
