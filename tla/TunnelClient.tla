---------------------------- MODULE TunnelClient ----------------------------
(***************************************************************************)
(* The tunnel client's shared gateway connection                           *)
(* (crates/tcp-tunnel/src/bin/client.rs).  Every local TCP connection is a *)
(* task of a multi-threaded runtime; the tasks share one cache of the      *)
(* gateway connection behind a mutex that is never held across an await.   *)
(* An action is the code between two awaits, or one holding of the lock.   *)
(* Deadlines are untimed: one that is armed may pass at any moment.        *)
(***************************************************************************)
EXTENDS Naturals, FiniteSets

CONSTANTS
  Conn,        \* gateway connections that exist at once
  Task,        \* local TCP connections served at once
  None,        \* no connection
  MaxStreams   \* the gateway's limit of concurrent streams of a connection

ASSUME TunnelAssumption == None \notin Conn /\ IsFiniteSet(Task) /\ MaxStreams \in Nat \ {0}

VARIABLES
  cache,  \* SharedConn
  conn,   \* per connection: what iroh knows of it, and what happened to it
  task    \* per task: the await it is parked at and the handle it holds

vars == <<cache, conn, task>>

\* streams: charged against MaxStreams; stalled: the gateway no longer answers although
\* the transport is healthy.  For the properties: evicted, and the phases in
\* which a task has timed out on the connection.
Absent == [state |-> "none", stalled |-> FALSE, streams |-> 0, evicted |-> FALSE, timedout |-> {}]
Fresh == [Absent EXCEPT !.state = "open"]
Idle == [at |-> "idle", conn |-> None]

Open(c) == conn[c].state = "open"
Lost(c) == conn[c].state = "closed"
Uses(t, c) == task[t].conn = c
Held(c) == cache = c \/ \E t \in Task : Uses(t, c)
Streaming(c) == {t \in Task : Uses(t, c) /\ task[t].at \in {"handshake", "pipe"}}

Init ==
  /\ cache = None
  /\ conn = [c \in Conn |-> Absent]
  /\ task = [t \in Task |-> Idle]

At(t, at) == task[t].at = at
Goes(t, at) == task' = [task EXCEPT ![t].at = at]
OpensOn(t, c) == task' = [task EXCEPT ![t] = [at |-> "open", conn |-> c]]

\* The task ends and its handle is dropped.
Return(t) == task' = [task EXCEPT ![t] = Idle]

-----------------------------------------------------------------------------
(* get_or_dial *)

Cached == cache # None /\ Open(cache)

Accept(t) ==
  /\ At(t, "idle")
  /\ IF Cached THEN OpensOn(t, cache) ELSE Goes(t, "dial")
  /\ UNCHANGED <<cache, conn>>

DialFails(t) ==
  /\ At(t, "dial")
  /\ Return(t)
  /\ UNCHANGED <<cache, conn>>

\* Slip: the cache is not looked at again after the dial.
Lands_Last == TRUE

\* Whichever dial lands first wins the slot; a later one is dropped for it.
Lands == ~Cached

Dialed(t, c) ==
  /\ At(t, "dial") /\ conn[c] = Absent
  /\ IF Lands
     THEN /\ cache' = c
          /\ conn' = [conn EXCEPT ![c] = Fresh]
          /\ OpensOn(t, c)
     ELSE OpensOn(t, cache) /\ UNCHANGED <<cache, conn>>

-----------------------------------------------------------------------------
(* tunnel_one and drive_client *)

TimedOut(c, phase) == conn' = [conn EXCEPT ![c].timedout = @ \cup {phase}]

OpenFails(t) ==
  /\ At(t, "open") /\ Lost(task[t].conn)
  /\ Return(t)
  /\ UNCHANGED <<cache, conn>>

\* OPEN_STREAM_TIMEOUT: the error leaves tunnel_one by the question mark.
OpenTimeout(t) ==
  LET c == task[t].conn
  IN  /\ At(t, "open") /\ Open(c) /\ conn[c].streams = MaxStreams
      /\ TimedOut(c, "capacity")
      /\ Return(t)
      /\ UNCHANGED cache

OpenStream(t) ==
  LET c == task[t].conn
  IN  /\ At(t, "open") /\ Open(c) /\ conn[c].streams < MaxStreams
      /\ conn' = [conn EXCEPT ![c].streams = @ + 1]
      /\ Goes(t, "handshake")
      /\ UNCHANGED cache

Answered(t) == At(t, "handshake") /\ Open(task[t].conn) /\ ~conn[task[t].conn].stalled

StatusOk(t) ==
  /\ Answered(t)
  /\ Goes(t, "pipe")
  /\ UNCHANGED <<cache, conn>>

\* A terminal status, or the end of the stream without one.
Rejected(t) ==
  /\ Answered(t)
  /\ Return(t)
  /\ UNCHANGED <<cache, conn>>

\* Slip: only a lost connection ends the wait for a status.
HandshakeExpires_Never(t) == FALSE

\* CLIENT_HANDSHAKE_TIMEOUT
HandshakeExpires(t) == At(t, "handshake") /\ Open(task[t].conn)

HandshakeTimeout(t) ==
  /\ HandshakeExpires(t)
  /\ TimedOut(task[t].conn, "status")
  /\ Goes(t, "evict")
  /\ UNCHANGED cache

ConnectionFails(t) ==
  /\ task[t].at \in {"handshake", "pipe"} /\ Lost(task[t].conn)
  /\ Goes(t, "evict")
  /\ UNCHANGED <<cache, conn>>

\* Both directions are finished, or the copy failed in a way that does not count as lost.
PipeEnds(t) ==
  /\ At(t, "pipe")
  /\ Return(t)
  /\ UNCHANGED <<cache, conn>>

\* is_connection_lost: a ConnectionReset of the local socket, or of this one stream
\* when the gateway stops it.
StreamReset(t) ==
  /\ task[t].at \in {"handshake", "pipe"} /\ Open(task[t].conn)
  /\ Goes(t, "evict")
  /\ UNCHANGED <<cache, conn>>

\* Slips: whatever is cached goes; only what the transport reports lost goes.
Unusable_Any(c, own) == TRUE
Unusable_Lost(c, own) == Lost(c)

Unusable(c, own) == Lost(c) \/ c = own

Evict(t) ==
  /\ At(t, "evict")
  /\ Return(t)
  /\ IF cache # None /\ Unusable(cache, task[t].conn)
     THEN cache' = None /\ conn' = [conn EXCEPT ![cache].evicted = TRUE]
     ELSE UNCHANGED <<cache, conn>>

-----------------------------------------------------------------------------
(* iroh and the gateway *)

Environment == UNCHANGED <<cache, task>>

ConnectionLost(c) ==
  /\ Open(c)
  /\ conn' = [conn EXCEPT ![c].state = "closed"]
  /\ Environment

\* The gateway stops answering, or answers again.
Stall(c) ==
  /\ Open(c)
  /\ conn' = [conn EXCEPT ![c].stalled = ~@]
  /\ Environment

\* The gateway gives back the place of a stream that both sides have left.
StreamFreed(c) ==
  /\ Open(c) /\ ~conn[c].stalled
  /\ Cardinality(Streaming(c)) < conn[c].streams
  /\ conn' = [conn EXCEPT ![c].streams = @ - 1]
  /\ Environment

\* The last handle is dropped, which closes the connection.
Dropped(c) ==
  /\ conn[c] # Absent /\ ~Held(c)
  /\ conn' = [conn EXCEPT ![c] = Absent]
  /\ Environment

Continues(t) ==
  \/ DialFails(t) \/ OpenFails(t) \/ OpenTimeout(t) \/ OpenStream(t)
  \/ HandshakeTimeout(t) \/ ConnectionFails(t) \/ Evict(t)
  \/ \E c \in Conn : Dialed(t, c)

Next ==
  \/ \E t \in Task :
       \/ Accept(t) \/ Continues(t) \/ StatusOk(t) \/ Rejected(t) \/ PipeEnds(t) \/ StreamReset(t)
  \/ \E c \in Conn : ConnectionLost(c) \/ Stall(c) \/ StreamFreed(c) \/ Dropped(c)

Spec == Init /\ [][Next]_vars

\* A dial ends, and a task that can go on or whose deadline is armed does; no answer of
\* the gateway is counted on, nor that a tunnel ends.
FairSpec == Spec /\ \A t \in Task : WF_vars(Continues(t))

-----------------------------------------------------------------------------
Connection ==
  [state : {"none", "open", "closed"}, stalled : BOOLEAN, streams : 0..MaxStreams,
   evicted : BOOLEAN, timedout : SUBSET {"status", "capacity"}]

Handler == [at : {"idle", "dial", "open", "handshake", "pipe", "evict"}, conn : Conn \cup {None}]

\* A task has a handle from the end of get_or_dial to its own end, and what is cached
\* or held exists.
TypeOK ==
  /\ cache \in Conn \cup {None}
  /\ conn \in [Conn -> Connection]
  /\ task \in [Task -> Handler]
  /\ \A t \in Task : task[t].conn = None <=> task[t].at \in {"idle", "dial"}
  /\ \A c \in Conn : Held(c) => conn[c].state # "none"

\* Tasks that dial at the same time end up on one connection (client.rs:184-186): an
\* open connection in use is the cached one, unless it has been evicted.
SharedConnection ==
  \A c \in Conn : Open(c) /\ Held(c) => cache = c \/ conn[c].evicted

Leaving(c, phase) == phase \in conn[c].timedout => \E t \in Task : At(t, "evict") /\ Uses(t, c)

\* "keeping the cache entry would repeat the same stall for every later connection"
\* (client.rs:147-149): a connection on which a handshake timed out is cached only until
\* the task that saw it takes the lock, and never again.
StalledRecycled == cache # None => Leaving(cache, "status")

\* The same of the timeout that waits for stream capacity, which reports the same
\* "tunnel handshake timed out" (client.rs:127, 151).
FullRecycled == cache # None => Leaving(cache, "capacity")

\* "another task may have already redialled and cached a healthy replacement, which must
\* not be discarded" (client.rs:141-143): a healthy connection leaves the
\* cache only by a task that failed on it.
ReplacementKept ==
  [][\A c \in Conn : cache = c /\ cache' # c =>
       Lost(c) \/ \E t \in Task : At(t, "evict") /\ Uses(t, c)]_vars

\* "must not park the client task and its local socket forever" (lib.rs:384): whatever
\* the gateway does, a local connection reaches its tunnel or is dropped.
HandshakesEnd ==
  \A t \in Task : task[t].at \in {"dial", "open", "handshake", "evict"} ~> task[t].at \in {"pipe", "idle"}
=============================================================================
