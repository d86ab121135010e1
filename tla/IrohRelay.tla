----------------------------- MODULE IrohRelay -----------------------------
(***************************************************************************)
(* The relay Durable Object (infra/cloudflare/worker/src/iroh-relay.js).   *)
(*                                                                         *)
(* One object serves one room.  Its handlers (fetch, webSocketMessage,     *)
(* webSocketClose, alarm) are single-threaded JavaScript: a handler runs   *)
(* without interruption up to its next await.  A task is one running       *)
(* handler, task[t].op the await it is parked at, and every action below   *)
(* is the code from one await to the next.                                 *)
(*                                                                         *)
(* InputGates is the platform: TRUE when no event is delivered while a     *)
(* handler waits for storage (Cloudflare's input gates; only the signature *)
(* check then lets other events in), FALSE under the weaker assumption     *)
(* that any await lets any other handler run.                              *)
(***************************************************************************)
EXTENDS Naturals, FiniteSets, FiniteSetsExt

CONSTANTS
  Socket,         \* WebSockets that may be upgraded over the room's life
  Identity,       \* EndpointIds that may authenticate
  Task,           \* handlers that may be in progress at once
  None,           \* no socket, no identity
  InputGates,     \* see above
  MaxLive,        \* 4 in the code: sockets open at once
  MaxAttempts,    \* 20: upgrades in the life of a room
  MaxIdentities,  \* 2: identities in the life of a room
  MaxMessages,    \* 10000: frames of one connection
  Pings,          \* PING_SECONDS
  AuthTimeout,    \* 10 s: deadline of the challenge
  PongTimeout,    \* 5 s: deadline of a server ping
  Expires,        \* the instant the room token expires (RELAY_TTL)
  Linger,         \* 1 h: how long the statistics outlive the room
  AlarmDelay,     \* how late the platform may deliver an alarm
  Horizon,        \* bound on the clock
  MaxRestarts     \* bound on restarts of the object

ASSUME ConstantsAssumption ==
  /\ None \notin Socket \cup Identity
  /\ InputGates \in BOOLEAN
  /\ {MaxLive, MaxAttempts, MaxIdentities, MaxMessages, AuthTimeout, PongTimeout,
      Expires, Linger, AlarmDelay, Horizon, MaxRestarts} \subseteq Nat
  /\ Pings \subseteq Nat \ {0}

VARIABLES
  now,         \* Date.now(); 0 stands for an unset time everywhere
  sock,        \* per socket: the attachment, the link, the close reason
  meta,        \* storage "meta": [ping, next_ping]; ping = 0 when absent
  attempts,    \* storage "attempts"
  identities,  \* storage "identities"
  closed,      \* storage "closed": [connections, n]
  alarm,       \* the storage alarm
  task,        \* the handlers in progress
  restarts     \* restarts so far

stored == <<meta, attempts, identities, closed>>
vars == <<now, sock, meta, attempts, identities, closed, alarm, task, restarts>>

Counts == [messages : Nat, datagram : Nat, forwarded : Nat, dropped : Nat]
counters == [messages |-> 0, datagram |-> 0, forwarded |-> 0, dropped |-> 0]

addCounters(total, values) == [k \in DOMAIN total |-> total[k] + values[k]]

Unused == [phase |-> "none", id |-> None, deadline |-> 0, pinged |-> FALSE,
           archived |-> FALSE, n |-> counters, open |-> FALSE, reason |-> "none"]

NoMeta == [ping |-> 0, next_ping |-> 0]

\* ws, id: the handler's own socket and identity; victim, tally: the socket that
\* finish is retiring and the counters it read; rest, meta: the sockets a loop
\* has still to visit and the meta record alarm read; cont: the await at which the
\* caller of finish goes on.
Idle == [op |-> "idle", cont |-> "idle", ws |-> None, id |-> None, victim |-> None,
         tally |-> counters, rest |-> {}, meta |-> NoMeta]

Accepted == {s \in Socket : sock[s].phase \notin {"none", "lost"}}
Live(s) == s \in Accepted /\ ~sock[s].archived
Routes(s, i) == Live(s) /\ sock[s].phase = "authenticated" /\ sock[s].id = i

AwaitsStorage(t) == task[t].op \notin {"idle", "verify"}
MayRun(t) == InputGates => \A u \in Task \ {t} : ~AwaitsStorage(u)
Starts(t) == task[t].op = "idle" /\ MayRun(t)
Resumes(t, op) == task[t].op = op /\ MayRun(t)

Init ==
  /\ now = 1
  /\ sock = [s \in Socket |-> Unused]
  /\ meta = NoMeta /\ attempts = 0 /\ identities = {}
  /\ closed = [connections |-> 0, n |-> counters]
  /\ alarm = 0
  /\ task = [t \in Task |-> Idle]
  /\ restarts = 0

-----------------------------------------------------------------------------
(* finish: retire v unless it already is, then go on at after. *)

\* Slip: finish forgets that it may run twice.
IsRetired_Never(a) == FALSE

IsRetired(a) == a.archived

Finish(t, socks, v, why, after) ==
  IF IsRetired(socks[v])
  THEN sock' = socks /\ task' = [task EXCEPT ![t] = after]
  ELSE /\ sock' = [socks EXCEPT ![v].archived = TRUE, ![v].reason = why]
       /\ task' = [task EXCEPT ![t] =
                     [after EXCEPT !.op = "closed", !.cont = after.op,
                                   !.victim = v, !.tally = socks[v].n]]

\* The transaction that adds the retired socket to "closed"; the EndpointGone
\* frames that follow change only byte and frame tallies that are left out.
Closed(t) ==
  /\ Resumes(t, "closed")
  /\ closed' = [connections |-> closed.connections + 1,
                n |-> addCounters(closed.n, task[t].tally)]
  /\ task' = [task EXCEPT ![t].op = "sched", ![t].victim = None, ![t].tally = counters]
  /\ UNCHANGED <<now, sock, meta, attempts, identities, alarm, restarts>>

\* Slip: only pings and the end of the room are scheduled.
NextAlarm_NoDeadlines == Max({now + 1, IF meta.next_ping = 0 THEN Expires ELSE meta.next_ping})

NextAlarm ==
  LET active == {s \in Socket : Live(s)}
      due == {Expires} \cup (({meta.next_ping} \cup {sock[s].deadline : s \in active}) \ {0})
  IN  Max({now + 1, IF active = {} THEN Expires + Linger ELSE Min(due)})

\* Slip: the timer is only kept up while somebody is connected.
Armed_WhileConnected == IF \A s \in Socket : ~Live(s) THEN alarm ELSE NextAlarm

Armed == IF meta = NoMeta THEN alarm ELSE NextAlarm

Schedule(t) ==
  /\ Resumes(t, "sched")
  /\ alarm' = Armed
  /\ task' = [task EXCEPT ![t] = IF task[t].cont = "idle" THEN Idle
                                 ELSE [task[t] EXCEPT !.op = task[t].cont, !.cont = "idle"]]
  /\ UNCHANGED <<now, sock, stored, restarts>>

Scheduling == [Idle EXCEPT !.op = "sched"]

-----------------------------------------------------------------------------
(* fetch *)

\* Slip: only the lifetime cap is enforced.
Admits_Attempts(ping) ==
  (meta # NoMeta => meta.ping = ping) /\ attempts < MaxAttempts

Admits(ping) ==
  /\ meta # NoMeta => meta.ping = ping
  /\ attempts < MaxAttempts
  /\ Cardinality({s \in Socket : Live(s) /\ sock[s].open}) < MaxLive

Fetch(t, ping) ==
  /\ Starts(t)
  /\ now < Expires
  /\ Admits(ping)
  /\ meta' = IF meta = NoMeta THEN [ping |-> ping, next_ping |-> 0] ELSE meta
  /\ attempts' = attempts + 1
  /\ task' = [task EXCEPT ![t].op = "accept"]
  /\ UNCHANGED <<now, sock, identities, closed, alarm, restarts>>

Accept(t) ==
  /\ Resumes(t, "accept")
  /\ \E s \in Socket :
       /\ sock[s].phase = "none"
       /\ sock' = [sock EXCEPT ![s] = [Unused EXCEPT !.phase = "challenge", !.open = TRUE,
                                                     !.deadline = now + AuthTimeout]]
  /\ task' = [task EXCEPT ![t] = Scheduling]
  /\ UNCHANGED <<now, stored, alarm, restarts>>

-----------------------------------------------------------------------------
(* webSocketMessage *)

Counted(ws) == [sock EXCEPT ![ws].n.messages = @ + 1]

Receives(t, ws) == Starts(t) /\ Live(ws) /\ sock[ws].open
WithinBudget(ws) == now < Expires /\ sock[ws].n.messages < MaxMessages

\* Every way to throw before an await.  Not counted: a frame after the expiry or one
\* that is not binary.  Counted: budget, a frame while the signature is being checked,
\* a challenge answered too late, and, once authenticated, a malformed frame or a pong
\* that answers no ping.
Refuse(t, ws) ==
  /\ Receives(t, ws)
  /\ \/ Finish(t, sock, ws, "policy", Idle)
     \/ /\ now < Expires
        /\ WithinBudget(ws) /\ sock[ws].phase = "challenge" => now >= sock[ws].deadline
        /\ Finish(t, Counted(ws), ws, "policy", Idle)
  /\ UNCHANGED <<now, stored, alarm, restarts>>

Authorize(t, ws, id) ==
  /\ Receives(t, ws) /\ WithinBudget(ws)
  /\ sock[ws].phase = "challenge" /\ now < sock[ws].deadline
  /\ sock' = [Counted(ws) EXCEPT ![ws].phase = "verifying"]
  /\ task' = [task EXCEPT ![t] = [Idle EXCEPT !.op = "verify", !.ws = ws, !.id = id]]
  /\ UNCHANGED <<now, stored, alarm, restarts>>

Serves(t, ws) ==
  Receives(t, ws) /\ WithinBudget(ws) /\ sock[ws].phase = "authenticated"

Ping(t, ws) ==
  /\ Serves(t, ws)
  /\ sock' = Counted(ws)
  /\ UNCHANGED <<now, stored, alarm, task, restarts>>

Pong(t, ws) ==
  /\ Serves(t, ws) /\ sock[ws].pinged
  /\ sock' = [Counted(ws) EXCEPT ![ws].pinged = FALSE, ![ws].deadline = 0]
  /\ task' = [task EXCEPT ![t] = Scheduling]
  /\ UNCHANGED <<now, stored, alarm, restarts>>

\* route: a datagram for dest.  Sending to a socket whose link is down may throw.
Datagram(t, ws, dest) ==
  /\ Serves(t, ws)
  /\ LET received == [Counted(ws) EXCEPT ![ws].n.datagram = @ + 1]
         targets == {p \in Socket \ {ws} : Routes(p, dest)}
     IN  \/ /\ targets = {}
            /\ sock' = [received EXCEPT ![ws].n.dropped = @ + 1]
            /\ UNCHANGED task
         \/ /\ targets # {}
            /\ sock' = [received EXCEPT ![ws].n.forwarded = @ + 1]
            /\ UNCHANGED task
         \/ \E p \in targets :
              /\ ~sock[p].open
              /\ Finish(t, received, p, "undeliverable",
                        [Idle EXCEPT !.op = "undelivered", !.ws = ws])
  /\ UNCHANGED <<now, stored, alarm, restarts>>

\* Slips: the attachment read before the await is written back; the drop is not counted.
Dropped_Stale(ws) == [sock EXCEPT ![ws].n.dropped = @ + 1, ![ws].archived = FALSE]
Dropped_Late(ws) == [sock EXCEPT ![ws].n.dropped = @ + 1]
Dropped_Uncounted(ws) == sock

Dropped(ws) ==
  IF sock[ws].archived THEN sock ELSE [sock EXCEPT ![ws].n.dropped = @ + 1]

Undelivered(t) ==
  /\ Resumes(t, "undelivered")
  /\ sock' = Dropped(task[t].ws)
  /\ task' = [task EXCEPT ![t] = Idle]
  /\ UNCHANGED <<now, stored, alarm, restarts>>

-----------------------------------------------------------------------------
(* authorize, after the signature check *)

Verify(t) ==
  /\ Resumes(t, "verify")
  /\ \/ Finish(t, sock, task[t].ws, "policy", Idle)
     \/ task' = [task EXCEPT ![t].op = "claim"] /\ UNCHANGED sock
  /\ UNCHANGED <<now, stored, alarm, restarts>>

\* The loop over getWebSockets(), in whatever order the platform lists them: the
\* first other socket of the same identity is retired, sockets listed before it
\* are never looked at again.
\* Slip: sockets whose link is already down are skipped.
Predecessors_Open(socks, rest, ws, id) ==
  {s \in rest \ {ws} : socks[s].id = id /\ ~socks[s].archived /\ socks[s].open}

Predecessors(socks, rest, ws, id) ==
  {s \in rest \ {ws} : socks[s].id = id /\ ~socks[s].archived}

Supplant(t, socks, rest) ==
  LET ws == task[t].ws
      old == Predecessors(socks, rest, ws, task[t].id)
  IN  \/ \E s \in old, passed \in SUBSET (rest \ old) :
           Finish(t, socks, s, "superseded",
                  [task[t] EXCEPT !.op = "evict", !.rest = rest \ ({s} \cup passed)])
      \/ /\ old = {}
         /\ \/ /\ socks[ws].archived \/ ~socks[ws].open
               /\ Finish(t, socks, ws, "policy", Idle)
            \/ /\ ~socks[ws].archived
               /\ sock' = socks
               /\ task' = [task EXCEPT ![t] = [Idle EXCEPT !.op = "confirm", !.ws = ws]]

\* Slip: off by one.
Allowed_OneMore(id) == Cardinality(identities) <= MaxIdentities

Allowed(id) == Cardinality(identities \cup {id}) <= MaxIdentities

\* Slip: the attachment is not read again after the signature check.
ClaimRefused_Stale(ws, id) == ~Allowed(id) \/ now >= Expires

ClaimRefused(ws, id) ==
  ~Allowed(id) \/ sock[ws].archived \/ now >= sock[ws].deadline \/ now >= Expires

Authenticated(ws, id) ==
  [sock EXCEPT ![ws].id = id, ![ws].phase = "authenticated", ![ws].deadline = 0]

Claim(t) ==
  LET ws == task[t].ws
      id == task[t].id
  IN  /\ Resumes(t, "claim")
      /\ identities' = IF Allowed(id) THEN identities \cup {id} ELSE identities
      /\ IF ClaimRefused(ws, id)
         THEN Finish(t, sock, ws, "policy", Idle)
         ELSE Supplant(t, Authenticated(ws, id), Accepted)
      /\ UNCHANGED <<now, meta, attempts, closed, alarm, restarts>>

Evict(t) ==
  /\ Resumes(t, "evict")
  /\ Supplant(t, sock, task[t].rest)
  /\ UNCHANGED <<now, stored, alarm, restarts>>

\* Without a meta record the handler throws and its socket is retired.
Confirm(t) ==
  /\ Resumes(t, "confirm")
  /\ \/ /\ meta = NoMeta
        /\ Finish(t, sock, task[t].ws, "policy", Idle)
        /\ UNCHANGED meta
     \/ /\ meta # NoMeta
        /\ meta' = IF meta.next_ping = 0 THEN [meta EXCEPT !.next_ping = now + meta.ping] ELSE meta
        /\ task' = [task EXCEPT ![t] = Scheduling]
        /\ UNCHANGED sock
  /\ UNCHANGED <<now, attempts, identities, closed, alarm, restarts>>

-----------------------------------------------------------------------------
(* alarm *)

\* The platform runs one alarm handler at a time.
AlarmRunning == \E t \in Task : task[t].meta # NoMeta

AlarmFires(t) ==
  /\ Starts(t)
  /\ alarm # 0 /\ now >= alarm
  /\ ~AlarmRunning
  /\ alarm' = 0
  /\ \/ meta = NoMeta /\ UNCHANGED <<stored, task>>
     \/ /\ meta # NoMeta /\ now >= Expires + Linger
        /\ meta' = NoMeta /\ attempts' = 0 /\ identities' = {}
        /\ closed' = [connections |-> 0, n |-> counters]
        /\ UNCHANGED task
     \/ /\ meta # NoMeta /\ now < Expires + Linger
        /\ task' = [task EXCEPT ![t] = [Idle EXCEPT !.op = "sweep", !.meta = meta, !.rest = Accepted]]
        /\ UNCHANGED stored
  /\ UNCHANGED <<now, sock, restarts>>

\* Slip: the end of the room is left to the clients.
Overdue_Deadline(s) == sock[s].deadline # 0 /\ now >= sock[s].deadline

Overdue(s) == now >= Expires \/ (sock[s].deadline # 0 /\ now >= sock[s].deadline)
PingDue(m) == m.next_ping # 0 /\ now >= m.next_ping
Pinged(s) == [sock[s] EXCEPT !.pinged = TRUE, !.deadline = now + PongTimeout]

\* One stretch of the loop: passed are visited first and at most pinged, then
\* either one socket is retired or the loop is over and meta is written back.
Sweep(t) ==
  LET m == task[t].meta
      due == {s \in task[t].rest : Live(s) /\ Overdue(s)}
      quiet == {s \in task[t].rest : /\ Live(s) /\ ~Overdue(s) /\ PingDue(m)
                                     /\ sock[s].phase = "authenticated" /\ ~sock[s].pinged}
      after(passed) == [s \in Socket |-> IF s \in passed \cap quiet THEN Pinged(s) ELSE sock[s]]
  IN  /\ Resumes(t, "sweep")
      /\ \/ \E passed \in SUBSET (task[t].rest \ due), s \in task[t].rest :
              /\ s \notin passed
              /\ LET left == [task[t] EXCEPT !.rest = @ \ ({s} \cup passed)]
                 IN  \/ /\ s \in due
                        /\ Finish(t, after(passed), s, "timeout", left)
                     \/ /\ s \in quiet /\ ~sock[s].open
                        /\ Finish(t, after(passed \cup {s}), s, "unreachable", left)
              /\ UNCHANGED meta
         \/ /\ due = {}
            /\ sock' = after(quiet)
            /\ meta' = IF PingDue(m) THEN [m EXCEPT !.next_ping = now + m.ping] ELSE m
            /\ task' = [task EXCEPT ![t] = [Scheduling EXCEPT !.meta = m]]
      /\ UNCHANGED <<now, attempts, identities, closed, alarm, restarts>>

-----------------------------------------------------------------------------
(* webSocketClose and webSocketError, and the environment *)

Disconnect(ws) ==
  /\ ws \in Accepted /\ sock[ws].open
  /\ sock' = [sock EXCEPT ![ws].open = FALSE]
  /\ UNCHANGED <<now, stored, alarm, task, restarts>>

webSocketClose(t, ws) ==
  /\ Starts(t) /\ Live(ws) /\ ~sock[ws].open
  /\ Finish(t, sock, ws, "closed", Idle)
  /\ UNCHANGED <<now, stored, alarm, restarts>>

\* The process is replaced: handlers in progress and connections are gone,
\* storage and the alarm stay, and an alarm that was being handled is delivered again.
Restart ==
  /\ restarts < MaxRestarts
  /\ restarts' = restarts + 1
  /\ task' = [t \in Task |-> Idle]
  /\ sock' = [s \in Socket |-> IF s \in Accepted THEN [sock[s] EXCEPT !.phase = "lost", !.open = FALSE]
                               ELSE sock[s]]
  /\ alarm' = IF AlarmRunning /\ alarm = 0 THEN now ELSE alarm
  /\ UNCHANGED <<now, stored>>

\* Storage answers within one unit of time, and an alarm is delivered at most
\* AlarmDelay late.
Tick ==
  /\ now < Horizon
  /\ \A t \in Task : ~AwaitsStorage(t)
  /\ alarm # 0 => now < alarm + AlarmDelay
  /\ now' = now + 1
  /\ UNCHANGED <<sock, stored, alarm, task, restarts>>

Continue(t) ==
  \/ Accept(t) \/ Schedule(t) \/ Closed(t) \/ Undelivered(t)
  \/ Verify(t) \/ Claim(t) \/ Evict(t) \/ Confirm(t) \/ Sweep(t)

Message(t, ws) ==
  \/ Refuse(t, ws) \/ Ping(t, ws) \/ Pong(t, ws)
  \/ \E id \in Identity : Authorize(t, ws, id) \/ Datagram(t, ws, id)

Next ==
  \/ \E t \in Task :
       \/ Continue(t) \/ AlarmFires(t)
       \/ \E ping \in Pings : Fetch(t, ping)
       \/ \E ws \in Socket : Message(t, ws) \/ webSocketClose(t, ws)
  \/ \E ws \in Socket : Disconnect(ws)
  \/ Restart
  \/ Tick

Spec == Init /\ [][Next]_vars

\* Handlers that were started run on, a due alarm is delivered, time passes.
\* Nothing is assumed of the clients.
FairSpec ==
  /\ Spec
  /\ \A t \in Task : WF_vars(Continue(t))
  /\ WF_vars(\E t \in Task : AlarmFires(t))
  /\ WF_vars(Tick)

-----------------------------------------------------------------------------
Phases == {"none", "challenge", "verifying", "authenticated", "lost"}
Reasons == {"none", "policy", "superseded", "timeout", "undeliverable", "unreachable", "closed"}

Attachment ==
  [phase : Phases, id : Identity \cup {None}, deadline : Nat, pinged : BOOLEAN,
   archived : BOOLEAN, n : Counts, open : BOOLEAN, reason : Reasons]

Meta == [ping : Nat, next_ping : Nat]

Awaits == {"idle", "accept", "verify", "claim", "evict", "confirm", "closed", "sched",
           "undelivered", "sweep"}

Handler ==
  [op : Awaits, cont : Awaits, ws : Socket \cup {None}, id : Identity \cup {None},
   victim : Socket \cup {None}, tally : Counts, rest : SUBSET Socket, meta : Meta]

\* Every variable keeps the shape the handlers rely on: storage records,
\* attachments and the state of each handler in progress.
TypeOK ==
  /\ now \in Nat /\ alarm \in Nat /\ attempts \in Nat /\ restarts \in Nat
  /\ sock \in [Socket -> Attachment]
  /\ meta \in Meta
  /\ identities \in SUBSET Identity
  /\ closed \in [connections : Nat, n : Counts]
  /\ task \in [Task -> Handler]

\* "simultaneous reconnects must not leave two authenticated sockets routing the
\* same EndpointId" (iroh-relay.js:85-86): at no await is an identity routed to
\* two sockets, whatever handlers are interleaved.
OneRoute ==
  \A i \in Identity : \A r, s \in Socket : Routes(r, i) /\ Routes(s, i) => r = s

\* A room serves at most MaxIdentities identities in its life, and until its storage
\* is deleted a socket is routed only under an identity the room has stored, even when
\* several first authentications race for the last place.
RegisteredIdentities ==
  /\ Cardinality(identities) <= MaxIdentities
  /\ meta # NoMeta => \A s \in Socket :
       Live(s) /\ sock[s].phase = "authenticated" => sock[s].id \in identities

Total(f, S) == SumFunctionOnSet([s \in Socket |-> sock[s].n[f]], S)

\* The counters of a closed socket reach storage exactly once: "closed" is at every
\* moment the sum over the retired sockets, but for those a finish in progress is
\* still to add.
LedgerBalanced ==
  LET pending == {task[t].victim : t \in {u \in Task : task[u].op = "closed"}}
      settled == {s \in Socket : sock[s].archived} \ pending
  IN  meta # NoMeta =>
        /\ closed.connections = Cardinality(settled)
        /\ \A f \in DOMAIN counters : closed.n[f] = Total(f, settled)

\* Every datagram of a live socket is counted forwarded or dropped, once; only
\* those whose failed delivery is being handled are still open.
DatagramsAccounted ==
  \A s \in Socket : Live(s) =>
    sock[s].n.datagram = sock[s].n.forwarded + sock[s].n.dropped
      + Cardinality({t \in Task : task[t].ws = s /\ "undelivered" \in {task[t].op, task[t].cont}})

\* The route of an identity and the retired sockets, as the abstract directory
\* sees them.
route ==
  [i \in Identity |-> IF \E s \in Socket : Routes(s, i)
                      THEN CHOOSE s \in Socket : Routes(s, i) ELSE None]
retired == {s \in Socket : sock[s].archived \/ sock[s].phase = "lost"}

Directory == INSTANCE RelayDirectory

\* The relay implements the directory: a reconnect replaces the route in one step
\* and nothing a handler does later undoes it.
ImplementsDirectory == Directory!Spec

\* No handler brings a retired socket back or counts anything on it, not even one
\* that read the attachment before an await and writes it after.
ArchivedIsFinal ==
  [][\A s \in Socket : sock[s].archived => sock'[s].archived /\ sock'[s].n = sock[s].n]_vars

\* A socket is told "identity reconnected" only while another socket of the
\* identity takes over its route.
SupersededHasSuccessor ==
  [][\A s \in Socket :
       sock[s].reason # "superseded" /\ sock'[s].reason = "superseded" =>
         \E r \in Socket \ {s} : Routes(r, sock[s].id)']_vars

Quiescent == \A t \in Task : ~AwaitsStorage(t)

\* At most MaxLive sockets are open at once (README of infra/cloudflare, E7).
LiveCap == Cardinality({s \in Socket : Live(s) /\ sock[s].open}) <= MaxLive

\* Whenever no handler waits for storage, an alarm is set that comes in time for
\* the deadline of every live socket, for the next ping of an authenticated one and
\* for the end of the room: nothing is left that no event will ever look at.
DeadlinesCovered ==
  Quiescent /\ meta # NoMeta =>
    /\ alarm # 0
    /\ \A s \in Socket : Live(s) =>
         /\ alarm <= Max({now + 1, Expires})
         /\ sock[s].deadline # 0 => alarm <= Max({now + 1, sock[s].deadline})
         /\ sock[s].phase = "authenticated" =>
              meta.next_ping # 0 /\ alarm <= Max({now + 1, meta.next_ping})

\* Every socket is retired in the end, at the latest because the room expires.
SocketsRetired == \A s \in Socket : Live(s) ~> ~Live(s)

\* The statistics of a room are deleted in the end (README of infra/cloudflare, E7).
StorageReclaimed == meta # NoMeta ~> meta = NoMeta
=============================================================================
