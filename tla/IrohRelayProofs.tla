-------------------------- MODULE IrohRelayProofs --------------------------
(***************************************************************************)
(* Safety of the relay object, for any number of sockets, identities and   *)
(* handlers, with and without input gates: its type, who is routed, that   *)
(* retirement is final, the directory it implements, and the identities of *)
(* a room.                                                                 *)
(*                                                                         *)
(* Every step but the claim and the restart is tame: it gives no socket an *)
(* identity and no socket the authenticated phase, and it leaves retired   *)
(* sockets alone.  Only the claim needs an argument of its own.            *)
(***************************************************************************)
EXTENDS IrohRelay, TLAPS, WellFoundedInduction, FiniteSetTheorems

\* A handler parked at an await knows the socket and the identity it works for, and
\* the code after finish is never finish again.
Named(h) ==
  /\ {h.op, h.cont} \cap {"verify", "claim", "evict", "confirm", "undelivered"} # {}
       => h.ws \in Socket
  /\ {h.op, h.cont} \cap {"verify", "claim", "evict"} # {} => h.id \in Identity
  /\ h.op = "closed" => h.victim \in Socket
  /\ h.cont # "closed"

HandlersNamed == \A t \in Task : Named(task[t])

Shape == TypeOK /\ HandlersNamed

-----------------------------------------------------------------------------
(* The operators the actions are built from. *)

\* A nonempty set of naturals has a least element, so Min picks one of its elements.
LEMMA MinInSet ==
  ASSUME NEW S \in SUBSET Nat, S # {}
  PROVE  Min(S) \in S
<1> DEFINE R == {ss \in Nat \X Nat : ss[1] < ss[2]}
<1>1. IsWellFoundedOn(R, Nat)
  BY NatLessThanWellFounded DEF OpToRel
<1>2. PICK x \in S : \A y \in S : ~ (<<y, x>> \in R)
  BY <1>1, WFMin
<1>3. ASSUME NEW y \in S PROVE x <= y
  <2>1. x \in Nat /\ y \in Nat /\ ~ (<<y, x>> \in R)
    BY <1>2
  <2>2. ~ (y < x)
    BY <2>1
  <2>. QED  BY <2>1, <2>2
<1>. QED  BY <1>3 DEF Min

LEMMA MaxOfTwo ==
  ASSUME NEW a \in Nat, NEW b \in Nat
  PROVE  Max({a, b}) \in Nat
<1>1. \E x \in {a, b} : \A y \in {a, b} : x >= y
  OBVIOUS
<1>. QED  BY <1>1 DEF Max

\* schedule computes an instant.
LEMMA NextAlarmTyped ==
  ASSUME TypeOK
  PROVE  NextAlarm \in Nat
<1> DEFINE active == {s \in Socket : Live(s)}
           due == {Expires} \cup (({meta.next_ping} \cup {sock[s].deadline : s \in active}) \ {0})
<1>1. due \in SUBSET Nat /\ due # {}
  <2>1. \A s \in active : sock[s].deadline \in Nat
    BY DEF TypeOK, Attachment
  <2>2. meta.next_ping \in Nat /\ Expires \in Nat
    BY ConstantsAssumption DEF TypeOK, Meta
  <2>. QED  BY <2>1, <2>2
<1>2. Min(due) \in Nat
  BY <1>1, MinInSet
<1>3. now + 1 \in Nat /\ Expires + Linger \in Nat
  BY ConstantsAssumption DEF TypeOK
<1>. QED  BY <1>2, <1>3, MaxOfTwo DEF NextAlarm

LEMMA CountersTyped == counters \in Counts /\ \A a, b \in Counts : addCounters(a, b) \in Counts
BY DEF counters, Counts, addCounters

LEMMA IdleTyped ==
  /\ Idle \in Handler /\ Scheduling \in Handler
  /\ Named(Idle) /\ Named(Scheduling)
  /\ Idle.op = "idle" /\ Idle.cont = "idle"
BY CountersTyped DEF Idle, Scheduling, Handler, Awaits, Meta, NoMeta, Named

\* finish keeps attachments and handlers in shape, whichever handler calls it.
LEMMA FinishShape ==
  ASSUME Shape, NEW t \in Task, NEW socks \in [Socket -> Attachment], NEW v \in Socket,
         NEW why \in Reasons, NEW after \in Handler, Named(after), after.op # "closed",
         Finish(t, socks, v, why, after)
  PROVE  sock' \in [Socket -> Attachment] /\ task' \in [Task -> Handler] /\ HandlersNamed'
<1>1. CASE IsRetired(socks[v])
  BY <1>1 DEF Shape, TypeOK, Finish, HandlersNamed
<1>2. CASE ~IsRetired(socks[v])
  <2> DEFINE h == [after EXCEPT !.op = "closed", !.cont = after.op, !.victim = v, !.tally = socks[v].n]
  <2>1. sock' = [socks EXCEPT ![v].archived = TRUE, ![v].reason = why] /\ task' = [task EXCEPT ![t] = h]
    BY <1>2 DEF Finish
  <2>2. sock' \in [Socket -> Attachment]
    <3>1. [socks[v] EXCEPT !.archived = TRUE, !.reason = why] \in Attachment
      BY DEF Attachment
    <3>2. sock' = [socks EXCEPT ![v] = [socks[v] EXCEPT !.archived = TRUE, !.reason = why]]
      BY <2>1
    <3>. QED  BY <3>1, <3>2
  <2>3. h \in Handler
    BY DEF Handler, Attachment, Awaits
  <2>4. Named(h)
    BY DEF Named, Handler
  <2>5. task' \in [Task -> Handler] /\ HandlersNamed'
    BY <2>1, <2>3, <2>4 DEF Shape, TypeOK, HandlersNamed
  <2>. QED  BY <2>2, <2>5
<1>. QED  BY <1>1, <1>2

-----------------------------------------------------------------------------
(* One lemma per action: the step keeps the shape of the state. *)

LEMMA CountedTyped ==
  ASSUME TypeOK, NEW ws \in Socket
  PROVE  Counted(ws) \in [Socket -> Attachment]
BY DEF TypeOK, Counted, Attachment, Counts

LEMMA ConstantsTyped ==
  /\ AuthTimeout \in Nat /\ PongTimeout \in Nat /\ Expires \in Nat /\ Linger \in Nat
  /\ \A p \in Pings : p \in Nat
BY ConstantsAssumption

LEMMA ClosedShape ==
  ASSUME Shape, NEW t \in Task, Closed(t)
  PROVE  Shape'
<1>1. task[t] \in Handler /\ Named(task[t]) /\ task[t].op = "closed"
  BY DEF Shape, TypeOK, HandlersNamed, Closed, Resumes
<1>2. closed' \in [connections : Nat, n : Counts]
  BY <1>1, CountersTyped DEF Closed, Shape, TypeOK, Handler
<1> DEFINE h == [task[t] EXCEPT !.op = "sched", !.victim = None, !.tally = counters]
<1>3. h \in Handler /\ Named(h)
  BY <1>1, CountersTyped DEF Handler, Named, Awaits
<1>4. task' = [task EXCEPT ![t] = h]
  BY DEF Closed
<1>. QED  BY <1>2, <1>3, <1>4 DEF Closed, Shape, TypeOK, HandlersNamed

LEMMA ScheduleShape ==
  ASSUME Shape, NEW t \in Task, Schedule(t)
  PROVE  Shape'
<1>1. task[t] \in Handler /\ Named(task[t])
  BY DEF Shape, TypeOK, HandlersNamed
<1>2. alarm' \in Nat
  BY NextAlarmTyped DEF Schedule, Armed, Shape, TypeOK
<1> DEFINE h == [task[t] EXCEPT !.op = task[t].cont, !.cont = "idle"]
<1>3. h \in Handler /\ Named(h)
  BY <1>1 DEF Handler, Named, Awaits
<1>4. \E g \in {Idle, h} : task' = [task EXCEPT ![t] = g]
  BY DEF Schedule
<1>. QED  BY <1>2, <1>3, <1>4, IdleTyped DEF Schedule, Shape, TypeOK, HandlersNamed, stored

LEMMA FetchShape ==
  ASSUME Shape, NEW t \in Task, NEW ping \in Pings, Fetch(t, ping)
  PROVE  Shape'
<1>1. task[t] \in Handler /\ Named(task[t])
  BY DEF Shape, TypeOK, HandlersNamed
<1> DEFINE h == [task[t] EXCEPT !.op = "accept"]
<1>2. h \in Handler /\ Named(h)
  BY <1>1 DEF Handler, Named, Awaits
<1>3. task' = [task EXCEPT ![t] = h]
  BY DEF Fetch
<1>4. meta' \in Meta
  BY ConstantsTyped DEF Fetch, Shape, TypeOK, Meta
<1>. QED  BY <1>2, <1>3, <1>4 DEF Fetch, Shape, TypeOK, HandlersNamed

LEMMA AcceptShape ==
  ASSUME Shape, NEW t \in Task, Accept(t)
  PROVE  Shape'
<1> DEFINE a == [Unused EXCEPT !.phase = "challenge", !.open = TRUE, !.deadline = now + AuthTimeout]
<1>0. now + AuthTimeout \in Nat
  BY ConstantsTyped DEF Shape, TypeOK
<1>1. a \in Attachment
  BY <1>0, CountersTyped DEF Unused, Attachment, Phases, Reasons
<1>2. sock' \in [Socket -> Attachment]
  BY <1>1 DEF Accept, Shape, TypeOK
<1>3. task' = [task EXCEPT ![t] = Scheduling]
  BY DEF Accept
<1>. QED  BY <1>2, <1>3, IdleTyped DEF Accept, Shape, TypeOK, HandlersNamed, stored

LEMMA RefuseShape ==
  ASSUME Shape, NEW t \in Task, NEW ws \in Socket, Refuse(t, ws)
  PROVE  Shape'
<1>1. PICK socks \in {sock, Counted(ws)} : Finish(t, socks, ws, "policy", Idle)
  BY DEF Refuse
<1>2. socks \in [Socket -> Attachment]
  BY CountedTyped DEF Shape, TypeOK
<1>3. sock' \in [Socket -> Attachment] /\ task' \in [Task -> Handler] /\ HandlersNamed'
  BY <1>1, <1>2, FinishShape, IdleTyped DEF Reasons
<1>. QED  BY <1>3 DEF Refuse, Shape, TypeOK, stored

LEMMA AuthorizeShape ==
  ASSUME Shape, NEW t \in Task, NEW ws \in Socket, NEW id \in Identity, Authorize(t, ws, id)
  PROVE  Shape'
<1>0. Counted(ws) \in [Socket -> Attachment] /\ "verifying" \in Phases
  BY CountedTyped DEF Shape, Phases
<1>1. sock' \in [Socket -> Attachment]
  BY <1>0 DEF Authorize, Attachment
<1> DEFINE h == [Idle EXCEPT !.op = "verify", !.ws = ws, !.id = id]
<1>2. h \in Handler /\ Named(h)
  BY CountersTyped DEF Idle, Handler, Named, Awaits, Meta, NoMeta
<1>3. task' = [task EXCEPT ![t] = h]
  BY DEF Authorize
<1>. QED  BY <1>1, <1>2, <1>3 DEF Authorize, Shape, TypeOK, HandlersNamed, stored

LEMMA PingPongShape ==
  ASSUME Shape, NEW t \in Task, NEW ws \in Socket, Ping(t, ws) \/ Pong(t, ws)
  PROVE  Shape'
<1>1. CASE Ping(t, ws)
  BY <1>1, CountedTyped DEF Ping, Shape, TypeOK, HandlersNamed, stored
<1>2. CASE Pong(t, ws)
  <2>0. Counted(ws) \in [Socket -> Attachment]
    BY CountedTyped DEF Shape
  <2>1. sock' \in [Socket -> Attachment]
    <3>1. [Counted(ws)[ws] EXCEPT !.pinged = FALSE, !.deadline = 0] \in Attachment
      <4>1. Counted(ws)[ws] \in Attachment /\ 0 \in Nat
        BY <2>0
      <4>. QED  BY <4>1 DEF Attachment
    <3>2. sock' = [Counted(ws) EXCEPT ![ws] = [Counted(ws)[ws] EXCEPT !.pinged = FALSE, !.deadline = 0]]
      BY <1>2, <2>0 DEF Pong
    <3>. QED  BY <2>0, <3>1, <3>2
  <2>2. task' = [task EXCEPT ![t] = Scheduling]
    BY <1>2 DEF Pong
  <2>. QED  BY <1>2, <2>1, <2>2, IdleTyped DEF Pong, Shape, TypeOK, HandlersNamed, stored
<1>. QED  BY <1>1, <1>2

LEMMA DatagramShape ==
  ASSUME Shape, NEW t \in Task, NEW ws \in Socket, NEW dest \in Identity, Datagram(t, ws, dest)
  PROVE  Shape'
<1> DEFINE received == [Counted(ws) EXCEPT ![ws].n.datagram = @ + 1]
           waiting == [Idle EXCEPT !.op = "undelivered", !.ws = ws]
<1>0. Counted(ws) \in [Socket -> Attachment]
  BY CountedTyped DEF Shape
<1>1. received \in [Socket -> Attachment]
  BY <1>0 DEF Attachment, Counts
<1> HIDE DEF received
<1>2. [received EXCEPT ![ws].n.dropped = @ + 1] \in [Socket -> Attachment]
      /\ [received EXCEPT ![ws].n.forwarded = @ + 1] \in [Socket -> Attachment]
  BY <1>1 DEF Attachment, Counts
<1>3. waiting \in Handler /\ Named(waiting) /\ waiting.op # "closed"
  BY CountersTyped DEF Idle, Handler, Named, Awaits, Meta, NoMeta
<1>4. ASSUME NEW p \in Socket, Finish(t, received, p, "undeliverable", waiting)
      PROVE  sock' \in [Socket -> Attachment] /\ task' \in [Task -> Handler] /\ HandlersNamed'
  BY <1>1, <1>3, <1>4, FinishShape DEF Reasons
<1>5. \/ sock' \in [Socket -> Attachment] /\ task' = task
      \/ \E p \in Socket : Finish(t, received, p, "undeliverable", waiting)
  BY <1>2 DEF Datagram, received
<1>6. sock' \in [Socket -> Attachment] /\ task' \in [Task -> Handler] /\ HandlersNamed'
  BY <1>4, <1>5 DEF Shape, TypeOK, HandlersNamed
<1>. QED  BY <1>6 DEF Datagram, Shape, TypeOK, stored

LEMMA UndeliveredShape ==
  ASSUME Shape, NEW t \in Task, Undelivered(t)
  PROVE  Shape'
<1>1. task[t].ws \in Socket
  BY DEF Shape, HandlersNamed, Named, Undelivered, Resumes
<1>2. sock' \in [Socket -> Attachment]
  <2>1. PICK ws \in Socket : ws = task[t].ws
    BY <1>1
  <2>2. sock' = sock \/ sock' = [sock EXCEPT ![ws].n.dropped = @ + 1]
    BY <2>1 DEF Undelivered, Dropped
  <2>3. [sock[ws] EXCEPT !.n.dropped = @ + 1] \in Attachment
    BY DEF Shape, TypeOK, Attachment, Counts
  <2>4. sock \in [Socket -> Attachment]
    BY DEF Shape, TypeOK
  <2>. QED  BY <2>2, <2>3, <2>4
<1>3. task' = [task EXCEPT ![t] = Idle]
  BY DEF Undelivered
<1>. QED  BY <1>2, <1>3, IdleTyped DEF Undelivered, Shape, TypeOK, HandlersNamed, stored

LEMMA VerifyShape ==
  ASSUME Shape, NEW t \in Task, Verify(t)
  PROVE  Shape'
<1>1. task[t] \in Handler /\ Named(task[t]) /\ task[t].op = "verify"
  BY DEF Shape, TypeOK, HandlersNamed, Verify, Resumes
<1>2. task[t].ws \in Socket
  BY <1>1 DEF Named
<1> DEFINE h == [task[t] EXCEPT !.op = "claim"]
<1>3. h \in Handler /\ Named(h)
  BY <1>1 DEF Handler, Named, Awaits
<1>4. CASE Finish(t, sock, task[t].ws, "policy", Idle)
  <2>1. sock' \in [Socket -> Attachment] /\ task' \in [Task -> Handler] /\ HandlersNamed'
    BY <1>2, <1>4, FinishShape, IdleTyped DEF Reasons, Shape, TypeOK
  <2>. QED  BY <2>1 DEF Verify, Shape, TypeOK, stored
<1>5. CASE task' = [task EXCEPT ![t] = h] /\ UNCHANGED sock
  BY <1>3, <1>5 DEF Verify, Shape, TypeOK, HandlersNamed, stored
<1>. QED  BY <1>4, <1>5 DEF Verify

\* The loop over the predecessors, from the claim or from a later await.
LEMMA SupplantShape ==
  ASSUME Shape, NEW t \in Task, NEW socks \in [Socket -> Attachment], NEW rest \in SUBSET Socket,
         task[t].op \in {"claim", "evict"}, Supplant(t, socks, rest)
  PROVE  sock' \in [Socket -> Attachment] /\ task' \in [Task -> Handler] /\ HandlersNamed'
<1>1. task[t] \in Handler /\ Named(task[t])
  BY DEF Shape, TypeOK, HandlersNamed
<1>2. task[t].ws \in Socket /\ task[t].id \in Identity
  BY <1>1 DEF Named
<1> DEFINE old == Predecessors(socks, rest, task[t].ws, task[t].id)
<1>3. old \subseteq Socket
  BY DEF Predecessors
<1>4. ASSUME NEW s \in old, NEW passed \in SUBSET (rest \ old),
             Finish(t, socks, s, "superseded",
                    [task[t] EXCEPT !.op = "evict", !.rest = rest \ ({s} \cup passed)])
      PROVE  sock' \in [Socket -> Attachment] /\ task' \in [Task -> Handler] /\ HandlersNamed'
  <2> DEFINE h == [task[t] EXCEPT !.op = "evict", !.rest = rest \ ({s} \cup passed)]
  <2>1. h \in Handler /\ Named(h) /\ h.op # "closed"
    BY <1>1, <1>2 DEF Handler, Named, Awaits
  <2>2. s \in Socket /\ "superseded" \in Reasons
    BY <1>3 DEF Reasons
  <2>. QED  BY <1>4, <2>1, <2>2, FinishShape
<1>5. CASE Finish(t, socks, task[t].ws, "policy", Idle)
  BY <1>2, <1>5, FinishShape, IdleTyped DEF Reasons
<1>6. CASE sock' = socks /\ task' = [task EXCEPT ![t] = [Idle EXCEPT !.op = "confirm", !.ws = task[t].ws]]
  <2> DEFINE h == [Idle EXCEPT !.op = "confirm", !.ws = task[t].ws]
  <2>1. h \in Handler /\ Named(h)
    BY <1>2, CountersTyped DEF Idle, Handler, Named, Awaits, Meta, NoMeta
  <2>. QED  BY <1>6, <2>1 DEF Shape, TypeOK, HandlersNamed
<1>. QED  BY <1>4, <1>5, <1>6 DEF Supplant

LEMMA AuthenticatedTyped ==
  ASSUME TypeOK, NEW ws \in Socket, NEW id \in Identity
  PROVE  Authenticated(ws, id) \in [Socket -> Attachment]
<1> DEFINE a == [sock[ws] EXCEPT !.id = id, !.phase = "authenticated", !.deadline = 0]
<1>1. sock[ws] \in Attachment /\ "authenticated" \in Phases
  BY DEF TypeOK, Phases
<1>2. a \in Attachment
  BY <1>1 DEF Attachment
<1>3. Authenticated(ws, id) = [sock EXCEPT ![ws] = a]
  BY DEF Authenticated, TypeOK
<1>. QED  BY <1>2, <1>3 DEF TypeOK

LEMMA ClaimShape ==
  ASSUME Shape, NEW t \in Task, Claim(t)
  PROVE  Shape'
<1>1. task[t] \in Handler /\ Named(task[t]) /\ task[t].op = "claim"
  BY DEF Shape, TypeOK, HandlersNamed, Claim, Resumes
<1>2. task[t].ws \in Socket /\ task[t].id \in Identity
  BY <1>1 DEF Named
<1>3. identities' \in SUBSET Identity
  BY <1>2 DEF Claim, Shape, TypeOK
<1>4. sock' \in [Socket -> Attachment] /\ task' \in [Task -> Handler] /\ HandlersNamed'
  <2>1. CASE Finish(t, sock, task[t].ws, "policy", Idle)
    BY <1>2, <2>1, FinishShape, IdleTyped DEF Reasons, Shape, TypeOK
  <2>2. CASE Supplant(t, Authenticated(task[t].ws, task[t].id), Accepted)
    <3>1. Accepted \in SUBSET Socket /\ Authenticated(task[t].ws, task[t].id) \in [Socket -> Attachment]
      BY <1>2, AuthenticatedTyped DEF Accepted, Shape
    <3>. QED  BY <1>1, <2>2, <3>1, SupplantShape
  <2>. QED  BY <2>1, <2>2 DEF Claim
<1>. QED  BY <1>3, <1>4 DEF Claim, Shape, TypeOK

LEMMA EvictShape ==
  ASSUME Shape, NEW t \in Task, Evict(t)
  PROVE  Shape'
<1>1. task[t] \in Handler /\ task[t].op = "evict" /\ sock \in [Socket -> Attachment]
  BY DEF Shape, TypeOK, Evict, Resumes
<1>2. task[t].rest \in SUBSET Socket
  BY <1>1 DEF Handler
<1>3. sock' \in [Socket -> Attachment] /\ task' \in [Task -> Handler] /\ HandlersNamed'
  BY <1>1, <1>2, SupplantShape DEF Evict
<1>. QED  BY <1>3 DEF Evict, Shape, TypeOK, stored

LEMMA ConfirmShape ==
  ASSUME Shape, NEW t \in Task, Confirm(t)
  PROVE  Shape'
<1>1. task[t].ws \in Socket
  BY DEF Shape, HandlersNamed, Named, Confirm, Resumes
<1>2. CASE Finish(t, sock, task[t].ws, "policy", Idle) /\ UNCHANGED meta
  <2>1. sock' \in [Socket -> Attachment] /\ task' \in [Task -> Handler] /\ HandlersNamed'
    BY <1>1, <1>2, FinishShape, IdleTyped DEF Reasons, Shape, TypeOK
  <2>. QED  BY <1>2, <2>1 DEF Confirm, Shape, TypeOK
<1>3. CASE /\ meta' = IF meta.next_ping = 0 THEN [meta EXCEPT !.next_ping = now + meta.ping] ELSE meta
           /\ task' = [task EXCEPT ![t] = Scheduling]
           /\ UNCHANGED sock
  <2>1. meta' \in Meta
    BY <1>3 DEF Shape, TypeOK, Meta
  <2>. QED  BY <1>3, <2>1, IdleTyped DEF Confirm, Shape, TypeOK, HandlersNamed
<1>. QED  BY <1>2, <1>3 DEF Confirm

LEMMA AlarmFiresShape ==
  ASSUME Shape, NEW t \in Task, AlarmFires(t)
  PROVE  Shape'
<1> DEFINE h == [Idle EXCEPT !.op = "sweep", !.meta = meta, !.rest = Accepted]
<1>1. h \in Handler /\ Named(h)
  BY CountersTyped DEF Idle, Handler, Named, Awaits, Accepted, Shape, TypeOK
<1>2. /\ meta' \in Meta /\ attempts' \in Nat /\ identities' \in SUBSET Identity
      /\ closed' \in [connections : Nat, n : Counts]
  BY CountersTyped DEF AlarmFires, Shape, TypeOK, Meta, NoMeta, stored
<1>3. task' = task \/ task' = [task EXCEPT ![t] = h]
  BY DEF AlarmFires
<1>4. task' \in [Task -> Handler] /\ HandlersNamed'
  BY <1>1, <1>3 DEF Shape, TypeOK, HandlersNamed
<1>. QED  BY <1>2, <1>4 DEF AlarmFires, Shape, TypeOK

LEMMA SweepShape ==
  ASSUME Shape, NEW t \in Task, Sweep(t)
  PROVE  Shape'
<1> DEFINE m == task[t].meta
           due == {s \in task[t].rest : Live(s) /\ Overdue(s)}
           quiet == {s \in task[t].rest : /\ Live(s) /\ ~Overdue(s) /\ PingDue(m)
                                          /\ sock[s].phase = "authenticated" /\ ~sock[s].pinged}
           after(passed) == [s \in Socket |-> IF s \in passed \cap quiet THEN Pinged(s) ELSE sock[s]]
<1>1. task[t] \in Handler /\ Named(task[t])
  BY DEF Shape, TypeOK, HandlersNamed
<1>2. m \in Meta /\ task[t].rest \in SUBSET Socket /\ task[t].op = "sweep"
  BY <1>1 DEF Handler, Sweep, Resumes
<1>3. \A s \in Socket : Pinged(s) \in Attachment
  <2>1. now + PongTimeout \in Nat
    BY ConstantsTyped DEF Shape, TypeOK
  <2>. QED  BY <2>1 DEF Pinged, Shape, TypeOK, Attachment
<1>4. \A passed : after(passed) \in [Socket -> Attachment]
  BY <1>3 DEF Shape, TypeOK
<1>5. ASSUME NEW passed, NEW seen, NEW s \in task[t].rest, NEW why \in Reasons,
             Finish(t, after(seen), s, why, [task[t] EXCEPT !.rest = @ \ ({s} \cup passed)])
      PROVE  sock' \in [Socket -> Attachment] /\ task' \in [Task -> Handler] /\ HandlersNamed'
  <2> DEFINE h == [task[t] EXCEPT !.rest = @ \ ({s} \cup passed)]
  <2>1. h \in Handler /\ Named(h) /\ h.op # "closed"
    BY <1>1, <1>2 DEF Handler, Named
  <2>2. after(seen) \in [Socket -> Attachment] /\ s \in Socket
    BY <1>2, <1>4
  <2>. QED
    <3> HIDE DEF h, after
    <3>. QED  BY <1>5, <2>1, <2>2, FinishShape DEF h
<1>6. CASE /\ sock' = after(quiet)
           /\ meta' = IF PingDue(m) THEN [m EXCEPT !.next_ping = now + m.ping] ELSE m
           /\ task' = [task EXCEPT ![t] = [Scheduling EXCEPT !.meta = m]]
  <2> DEFINE h == [Scheduling EXCEPT !.meta = m]
  <2>1. h \in Handler /\ Named(h)
    BY <1>2, CountersTyped DEF Idle, Scheduling, Handler, Named, Awaits
  <2>2. meta' \in Meta
    BY <1>2, <1>6 DEF Meta, Shape, TypeOK
  <2>. QED  BY <1>4, <1>6, <2>1, <2>2 DEF Sweep, Shape, TypeOK, HandlersNamed
<1>7. CASE \E passed \in SUBSET (task[t].rest \ due), s \in task[t].rest :
             /\ \/ Finish(t, after(passed), s, "timeout", [task[t] EXCEPT !.rest = @ \ ({s} \cup passed)])
                \/ Finish(t, after(passed \cup {s}), s, "unreachable",
                          [task[t] EXCEPT !.rest = @ \ ({s} \cup passed)])
             /\ UNCHANGED meta
  <2>1. "timeout" \in Reasons /\ "unreachable" \in Reasons
    BY DEF Reasons
  <2>2. sock' \in [Socket -> Attachment] /\ task' \in [Task -> Handler] /\ HandlersNamed'
    BY <1>5, <1>7, <2>1
  <2>. QED  BY <1>7, <2>2 DEF Sweep, Shape, TypeOK
<1>. QED  BY <1>6, <1>7 DEF Sweep

LEMMA EnvironmentShape ==
  ASSUME Shape, \/ \E ws \in Socket : Disconnect(ws)
                \/ Restart
                \/ Tick
  PROVE  Shape'
<1>1. ASSUME NEW ws \in Socket, Disconnect(ws)
      PROVE  Shape'
  <2>1. sock' \in [Socket -> Attachment]
    <3>1. [sock[ws] EXCEPT !.open = FALSE] \in Attachment
      BY DEF Shape, TypeOK, Attachment
    <3>. QED  BY <1>1, <3>1 DEF Disconnect, Shape, TypeOK
  <2>. QED  BY <1>1, <2>1 DEF Disconnect, Shape, TypeOK, HandlersNamed, stored
<1>2. CASE Restart
  <2>1. sock' \in [Socket -> Attachment]
    <3>1. \A s \in Socket : [sock[s] EXCEPT !.phase = "lost", !.open = FALSE] \in Attachment
      BY DEF Shape, TypeOK, Attachment, Phases
    <3>. QED  BY <1>2, <3>1 DEF Restart, Shape, TypeOK
  <2>2. task' \in [Task -> Handler] /\ HandlersNamed'
    BY <1>2, IdleTyped DEF Restart, HandlersNamed
  <2>3. restarts' = restarts + 1 /\ alarm' \in {alarm, now}
    BY <1>2 DEF Restart
  <2>4. alarm' \in Nat /\ restarts' \in Nat
    BY <2>3 DEF Shape, TypeOK
  <2>. QED  BY <1>2, <2>1, <2>2, <2>4 DEF Restart, Shape, TypeOK, stored
<1>3. CASE Tick
  BY <1>3 DEF Tick, Shape, TypeOK, HandlersNamed, stored
<1>. QED  BY <1>1, <1>2, <1>3

LEMMA webSocketCloseShape ==
  ASSUME Shape, NEW t \in Task, NEW ws \in Socket, webSocketClose(t, ws)
  PROVE  Shape'
<1>1. sock' \in [Socket -> Attachment] /\ task' \in [Task -> Handler] /\ HandlersNamed'
  BY FinishShape, IdleTyped DEF webSocketClose, Reasons, Shape, TypeOK
<1>. QED  BY <1>1 DEF webSocketClose, Shape, TypeOK, stored

-----------------------------------------------------------------------------
LEMMA InitShape == Init => Shape
<1>1. Unused \in Attachment
  BY CountersTyped DEF Unused, Attachment, Phases, Reasons
<1>. QED  BY <1>1, IdleTyped, CountersTyped DEF Init, Shape, TypeOK, HandlersNamed, Meta, NoMeta

LEMMA NextShape == Shape /\ [Next]_vars => Shape'
<1> SUFFICES ASSUME Shape, [Next]_vars PROVE Shape'
  OBVIOUS
<1>1. ASSUME NEW t \in Task, Continue(t) PROVE Shape'
  BY <1>1, AcceptShape, ScheduleShape, ClosedShape, UndeliveredShape, VerifyShape, ClaimShape,
     EvictShape, ConfirmShape, SweepShape DEF Continue
<1>2. ASSUME NEW t \in Task, NEW ws \in Socket, Message(t, ws) \/ webSocketClose(t, ws) PROVE Shape'
  BY <1>2, RefuseShape, PingPongShape, AuthorizeShape, DatagramShape, webSocketCloseShape DEF Message
<1>3. ASSUME NEW t \in Task, AlarmFires(t) \/ \E ping \in Pings : Fetch(t, ping) PROVE Shape'
  BY <1>3, AlarmFiresShape, FetchShape
<1>4. CASE UNCHANGED vars
  BY <1>4 DEF vars, stored, Shape, TypeOK, HandlersNamed
<1>. QED  BY <1>1, <1>2, <1>3, <1>4, EnvironmentShape DEF Next

\* Storage records, attachments and running handlers always have the shape that the
\* handlers of iroh-relay.js read them with.
THEOREM TypeCorrect == Spec => []TypeOK
<1>1. Spec => []Shape
  BY InitShape, NextShape, PTL DEF Spec
<1>2. Shape => TypeOK
  BY DEF Shape
<1>. QED  BY <1>1, <1>2, PTL

-----------------------------------------------------------------------------
(* Whom handlers work for, and which steps change a socket. *)

\* Only an authenticated socket has an identity, even after its process is gone, and
\* a socket that was never accepted is not retired.
SocketsNamed ==
  \A s \in Socket :
    /\ sock[s].id # None => sock[s].phase \in {"authenticated", "lost"}
    /\ sock[s].phase = "none" => ~sock[s].archived

SignOps == {"verify", "claim"}
Signs(h) == h.op \in SignOps

\* Handlers work on sockets that were accepted, and a socket whose signature is being
\* checked has one handler doing it.
HandlersServe ==
  \A t \in Task :
    /\ task[t].ws \in Socket => sock[task[t].ws].phase # "none"
    /\ \A s \in task[t].rest : sock[s].phase # "none"
    /\ task[t].cont \notin SignOps
    /\ Signs(task[t]) =>
         /\ sock[task[t].ws].phase = "verifying"
         /\ \A u \in Task \ {t} : Signs(task[u]) => task[u].ws # task[t].ws

Known == Shape /\ SocketsNamed /\ HandlersServe

\* What a step other than a claim or a restart may do to the sockets.
Tame(old, new) ==
  \A s \in Socket :
    /\ new[s].id = old[s].id
    /\ old[s].archived => new[s].archived /\ new[s].n = old[s].n
    /\ new[s].phase = "authenticated" <=> old[s].phase = "authenticated"
    /\ new[s].phase = "lost" <=> old[s].phase = "lost"
    /\ old[s].phase = "verifying" => new[s].phase = "verifying"
    /\ new[s].phase = "none" => old[s].phase = "none" /\ (new[s].archived => old[s].archived)

-----------------------------------------------------------------------------
LEMMA TameStutter == \A socks : Tame(socks, socks)
BY DEF Tame

\* finish is tame when the sockets it is given are, and it passes on the socket and
\* the sockets to visit of its caller.
LEMMA FinishTame ==
  ASSUME Shape, NEW t \in Task, NEW socks \in [Socket -> Attachment], NEW v \in Socket,
         NEW why, NEW after \in Handler, Finish(t, socks, v, why, after),
         {after.op, after.cont} \cap SignOps = {},
         Tame(sock, socks), socks[v].phase # "none"
  PROVE  /\ Tame(sock, sock')
         /\ \E h \in Handler : /\ task' = [task EXCEPT ![t] = h]
                               /\ h.ws = after.ws /\ h.rest = after.rest
                               /\ {h.op, h.cont} \cap SignOps = {}
<1>1. CASE IsRetired(socks[v])
  BY <1>1 DEF Finish
<1>2. CASE ~IsRetired(socks[v])
  <2> DEFINE h == [after EXCEPT !.op = "closed", !.cont = after.op, !.victim = v, !.tally = socks[v].n]
  <2>1. /\ sock' = [socks EXCEPT ![v].archived = TRUE, ![v].reason = why]
        /\ task' = [task EXCEPT ![t] = h]
    BY <1>2 DEF Finish
  <2>2. /\ h \in Handler /\ h.ws = after.ws /\ h.rest = after.rest
        /\ {h.op, h.cont} \cap SignOps = {}
    BY DEF Handler, Attachment, Awaits, SignOps
  <2>3. \A s \in Socket : /\ sock'[s].id = socks[s].id /\ sock'[s].phase = socks[s].phase
                          /\ sock'[s].n = socks[s].n
                          /\ socks[s].archived => sock'[s].archived
                          /\ s # v => sock'[s].archived = socks[s].archived
    BY <2>1 DEF Attachment
  <2>4. ~socks[v].archived
    BY <1>2 DEF IsRetired
  <2>5. Tame(sock, sock')
    BY <2>3, <2>4 DEF Tame
  <2>. QED  BY <2>1, <2>2, <2>5
<1>. QED  BY <1>1, <1>2

\* The steps that keep HandlersServe: one handler takes up accepted sockets, but no
\* signature.
LEMMA ServeStep ==
  ASSUME Known, Tame(sock, sock'), NEW t \in Task, NEW h \in Handler, task' = [task EXCEPT ![t] = h],
         h.ws \in Socket => sock[h.ws].phase # "none",
         \A s \in h.rest : sock[s].phase # "none",
         h.cont \notin SignOps,
         Signs(h) => Signs(task[t]) /\ h.ws = task[t].ws
  PROVE  HandlersServe'
<1>1. task \in [Task -> Handler]
  BY DEF Known, Shape, TypeOK
<1>2. \A u \in Task : /\ task[u].rest \subseteq Socket
                      /\ Signs(task[u]) => task[u].ws \in Socket
  BY <1>1 DEF Handler, Known, Shape, HandlersNamed, Named, Signs, SignOps
<1>3. h.rest \subseteq Socket
  BY DEF Handler
<1>4. task'[t] = h /\ \A u \in Task \ {t} : task'[u] = task[u]
  BY <1>1
<1>5. \A s \in Socket : /\ sock[s].phase # "none" => sock'[s].phase # "none"
                        /\ sock[s].phase = "verifying" => sock'[s].phase = "verifying"
  BY DEF Tame
<1>6. \A u \in Task : Signs(task'[u]) => Signs(task[u]) /\ task'[u].ws = task[u].ws
  BY <1>4
<1>7. ASSUME NEW u \in Task
      PROVE  /\ task'[u].ws \in Socket => sock'[task'[u].ws].phase # "none"
             /\ \A s \in task'[u].rest : sock'[s].phase # "none"
             /\ task'[u].cont \notin SignOps
  <2>1. /\ h.ws \in Socket => sock'[h.ws].phase # "none"
        /\ \A s \in h.rest : sock'[s].phase # "none"
    BY <1>3, <1>5
  <2>2. /\ task[u].ws \in Socket => sock'[task[u].ws].phase # "none"
        /\ \A s \in task[u].rest : sock'[s].phase # "none"
        /\ task[u].cont \notin SignOps
    BY <1>2, <1>5 DEF Known, HandlersServe
  <2>3. task'[u] = h \/ task'[u] = task[u]
    BY <1>4
  <2>. QED  BY <2>1, <2>2, <2>3
<1>8. ASSUME NEW u \in Task, Signs(task'[u])
      PROVE  /\ sock'[task'[u].ws].phase = "verifying"
             /\ \A w \in Task \ {u} : Signs(task'[w]) => task'[w].ws # task'[u].ws
  <2>1. Signs(task[u]) /\ task'[u].ws = task[u].ws
    BY <1>6, <1>8
  <2>2. sock'[task'[u].ws].phase = "verifying"
    BY <1>2, <1>5, <2>1 DEF Known, HandlersServe
  <2>3. ASSUME NEW w \in Task \ {u}, Signs(task'[w]) PROVE task'[w].ws # task'[u].ws
    <3>1. Signs(task[w]) /\ task'[w].ws = task[w].ws
      BY <1>6, <2>3
    <3>. QED  BY <2>1, <3>1 DEF Known, HandlersServe
  <2>. QED  BY <2>2, <2>3
<1>. QED  BY <1>7, <1>8 DEF HandlersServe, Signs

LEMMA ServeStutter ==
  ASSUME Known, Tame(sock, sock'), UNCHANGED task
  PROVE  HandlersServe'
<1>1. \A u \in Task : /\ task[u].rest \subseteq Socket
                      /\ Signs(task[u]) => task[u].ws \in Socket
  BY DEF Known, Shape, TypeOK, Handler, HandlersNamed, Named, Signs, SignOps
<1>. QED  BY <1>1 DEF Known, HandlersServe, Tame

\* A handler that goes idle, or on to schedule, serves no socket any more.
LEMMA IdleServes ==
  /\ Idle.ws \notin Socket /\ Idle.rest = {}
  /\ Scheduling.ws \notin Socket /\ Scheduling.rest = {}
  /\ {Idle.op, Idle.cont, Scheduling.op, Scheduling.cont} \cap SignOps = {}
BY ConstantsAssumption DEF Idle, Scheduling, SignOps

LEMMA IdleStep ==
  ASSUME Known, Tame(sock, sock'), NEW t \in Task,
         task' = [task EXCEPT ![t] = Idle] \/ task' = [task EXCEPT ![t] = Scheduling]
  PROVE  HandlersServe'
BY ServeStep, IdleServes, IdleTyped DEF Signs

LEMMA FinishServes ==
  ASSUME Known, NEW t \in Task, NEW socks \in [Socket -> Attachment], NEW v \in Socket,
         NEW why, NEW after \in Handler, Finish(t, socks, v, why, after),
         Tame(sock, socks), socks[v].phase # "none",
         after.ws \in Socket => sock[after.ws].phase # "none",
         \A s \in after.rest : sock[s].phase # "none",
         {after.op, after.cont} \cap SignOps = {}
  PROVE  Tame(sock, sock') /\ HandlersServe'
BY FinishTame, ServeStep DEF Known, Signs

LEMMA FinishIdle ==
  ASSUME Known, NEW t \in Task, NEW socks \in [Socket -> Attachment], NEW v \in Socket,
         NEW why, Finish(t, socks, v, why, Idle), Tame(sock, socks), socks[v].phase # "none"
  PROVE  Tame(sock, sock') /\ HandlersServe'
BY FinishServes, IdleServes, IdleTyped

LEMMA CountedTame ==
  ASSUME Known, NEW ws \in Socket, Live(ws)
  PROVE  /\ Counted(ws) \in [Socket -> Attachment]
         /\ Tame(sock, Counted(ws))
         /\ Counted(ws)[ws].phase # "none"
<1>1. sock \in [Socket -> Attachment] /\ ~sock[ws].archived /\ sock[ws].phase # "none"
  BY DEF Known, Shape, TypeOK, Live, Accepted
<1>2. \A s \in Socket : /\ Counted(ws)[s].id = sock[s].id /\ Counted(ws)[s].phase = sock[s].phase
                        /\ Counted(ws)[s].archived = sock[s].archived
                        /\ s # ws => Counted(ws)[s].n = sock[s].n
  BY <1>1 DEF Counted, Attachment
<1>. QED  BY <1>1, <1>2, CountedTyped DEF Tame, Known, Shape

-----------------------------------------------------------------------------
(* The tame actions. *)

LEMMA StorageStepsTame ==
  ASSUME Known, NEW t \in Task,
         Closed(t) \/ Schedule(t) \/ Confirm(t) \/ AlarmFires(t) \/ \E ping \in Pings : Fetch(t, ping)
  PROVE  Tame(sock, sock') /\ HandlersServe'
<1>1. /\ task[t] \in Handler /\ (task[t].ws \in Socket => sock[task[t].ws].phase # "none")
      /\ \A s \in task[t].rest : sock[s].phase # "none"
      /\ task[t].cont \notin SignOps
  BY DEF Known, Shape, TypeOK, HandlersServe
<1>2. UNCHANGED sock => Tame(sock, sock')
  BY TameStutter
<1>3. CASE Closed(t)
  <2> DEFINE h == [task[t] EXCEPT !.op = "sched", !.victim = None, !.tally = counters]
  <2>1. h \in Handler /\ h.ws = task[t].ws /\ h.rest = task[t].rest /\ h.cont = task[t].cont /\ ~Signs(h)
    BY <1>1, CountersTyped DEF Handler, Awaits, Signs, SignOps
  <2>2. UNCHANGED sock /\ task' = [task EXCEPT ![t] = h]
    BY <1>3 DEF Closed
  <2>. QED  BY <1>1, <1>2, <2>1, <2>2, ServeStep
<1>4. CASE Schedule(t)
  <2> DEFINE h == [task[t] EXCEPT !.op = task[t].cont, !.cont = "idle"]
  <2>1. /\ h \in Handler /\ h.ws = task[t].ws /\ h.rest = task[t].rest
        /\ h.cont \notin SignOps /\ ~Signs(h)
    BY <1>1 DEF Handler, Awaits, Signs, SignOps
  <2>2. UNCHANGED sock
    BY <1>4 DEF Schedule
  <2>3. task' = [task EXCEPT ![t] = h] \/ task' = [task EXCEPT ![t] = Idle]
    BY <1>4 DEF Schedule
  <2>4. CASE task' = [task EXCEPT ![t] = h]
    BY <1>1, <1>2, <2>1, <2>2, <2>4, ServeStep
  <2>. QED  BY <1>2, <2>2, <2>3, <2>4, IdleStep
<1>5. CASE Confirm(t)
  <2>1. task[t].ws \in Socket /\ sock \in [Socket -> Attachment]
    BY <1>5 DEF Known, Shape, TypeOK, HandlersNamed, Named, Confirm, Resumes
  <2>2. CASE Finish(t, sock, task[t].ws, "policy", Idle)
    BY <1>1, <2>1, <2>2, FinishIdle, TameStutter
  <2>3. CASE task' = [task EXCEPT ![t] = Scheduling] /\ UNCHANGED sock
    BY <1>2, <2>3, IdleStep
  <2>. QED  BY <1>5, <2>2, <2>3 DEF Confirm
<1>6. CASE AlarmFires(t)
  <2> DEFINE h == [Idle EXCEPT !.op = "sweep", !.meta = meta, !.rest = Accepted]
  <2>1. h \in Handler
    BY CountersTyped DEF Idle, Handler, Awaits, Accepted, Known, Shape, TypeOK
  <2>2. /\ h.ws \notin Socket /\ \A s \in h.rest : sock[s].phase # "none"
        /\ h.cont \notin SignOps /\ ~Signs(h)
    BY ConstantsAssumption DEF Idle, Accepted, Signs, SignOps
  <2>3. UNCHANGED sock /\ (UNCHANGED task \/ task' = [task EXCEPT ![t] = h])
    BY <1>6 DEF AlarmFires
  <2>4. CASE task' = [task EXCEPT ![t] = h]
    <3> HIDE DEF h
    <3>. QED  BY <1>2, <2>1, <2>2, <2>3, <2>4, ServeStep
  <2>. QED  BY <1>2, <2>3, <2>4, ServeStutter
<1>7. ASSUME NEW ping \in Pings, Fetch(t, ping) PROVE Tame(sock, sock') /\ HandlersServe'
  <2> DEFINE h == [task[t] EXCEPT !.op = "accept"]
  <2>1. h \in Handler /\ h.ws = task[t].ws /\ h.rest = task[t].rest /\ h.cont = task[t].cont /\ ~Signs(h)
    BY <1>1 DEF Handler, Awaits, Signs, SignOps
  <2>2. UNCHANGED sock /\ task' = [task EXCEPT ![t] = h]
    BY <1>7 DEF Fetch
  <2>. QED  BY <1>1, <1>2, <2>1, <2>2, ServeStep
<1>. QED  BY <1>3, <1>4, <1>5, <1>6, <1>7

LEMMA AcceptTame ==
  ASSUME Known, NEW t \in Task, Accept(t)
  PROVE  Tame(sock, sock') /\ HandlersServe'
<1> DEFINE a == [Unused EXCEPT !.phase = "challenge", !.open = TRUE, !.deadline = now + AuthTimeout]
<1>1. PICK s \in Socket : sock[s].phase = "none" /\ sock' = [sock EXCEPT ![s] = a]
  BY DEF Accept
<1>2. a.id = None /\ a.phase = "challenge" /\ ~a.archived
  BY DEF Unused
<1>3. sock[s].id = None /\ ~sock[s].archived /\ sock \in [Socket -> Attachment]
  BY <1>1 DEF Known, SocketsNamed, Shape, TypeOK
<1> HIDE DEF a
<1>4. Tame(sock, sock')
  BY <1>1, <1>2, <1>3 DEF Tame
<1>. QED  BY <1>4, IdleStep DEF Accept

LEMMA MessageTame ==
  ASSUME Known, NEW t \in Task, NEW ws \in Socket, Message(t, ws)
  PROVE  Tame(sock, sock') /\ HandlersServe'
<1> DEFINE counted == Counted(ws)
<1>1. Live(ws)
  BY DEF Message, Refuse, Ping, Pong, Authorize, Datagram, Serves, Receives
<1>2. /\ counted \in [Socket -> Attachment]
      /\ Tame(sock, counted)
      /\ counted[ws].phase # "none"
  BY <1>1, CountedTame
<1>3. sock \in [Socket -> Attachment] /\ sock[ws].phase # "none" /\ ~sock[ws].archived
  BY <1>1 DEF Known, Shape, TypeOK, Live, Accepted
<1> HIDE DEF counted
<1>4. CASE Refuse(t, ws)
  <2>1. PICK socks \in {sock, counted} : Finish(t, socks, ws, "policy", Idle)
    BY <1>4 DEF Refuse, counted
  <2>2. socks \in [Socket -> Attachment] /\ Tame(sock, socks) /\ socks[ws].phase # "none"
    BY <1>2, <1>3, TameStutter
  <2>. QED  BY <2>1, <2>2, FinishIdle
<1>5. CASE Ping(t, ws)
  BY <1>2, <1>5, ServeStutter DEF Ping, counted
<1>6. CASE Pong(t, ws)
  <2>1. sock' = [counted EXCEPT ![ws].pinged = FALSE, ![ws].deadline = 0]
    BY <1>6 DEF Pong, counted
  <2>2. \A s \in Socket : /\ sock'[s].id = counted[s].id /\ sock'[s].phase = counted[s].phase
                          /\ sock'[s].archived = counted[s].archived /\ sock'[s].n = counted[s].n
    BY <1>2, <2>1 DEF Attachment
  <2>3. Tame(sock, sock')
    BY <1>2, <2>2 DEF Tame
  <2>. QED  BY <1>6, <2>3, IdleStep DEF Pong
<1>7. ASSUME NEW id \in Identity, Authorize(t, ws, id) PROVE Tame(sock, sock') /\ HandlersServe'
  <2>1. sock' = [counted EXCEPT ![ws].phase = "verifying"] /\ sock[ws].phase = "challenge"
    BY <1>7 DEF Authorize, counted
  <2>2. \A s \in Socket : /\ sock'[s].id = counted[s].id
                          /\ sock'[s].archived = counted[s].archived /\ sock'[s].n = counted[s].n
                          /\ s # ws => sock'[s].phase = counted[s].phase
                          /\ s = ws => sock'[s].phase = "verifying"
    BY <1>2, <2>1 DEF Attachment
  <2>3. Tame(sock, sock')
    BY <1>2, <2>1, <2>2 DEF Tame
  <2> DEFINE h == [Idle EXCEPT !.op = "verify", !.ws = ws, !.id = id]
  <2>4. h \in Handler /\ h.ws = ws /\ h.rest = {} /\ h.cont \notin SignOps
    BY CountersTyped DEF Idle, Handler, Awaits, Meta, NoMeta, SignOps
  <2>5. task' = [task EXCEPT ![t] = h] /\ task \in [Task -> Handler]
    BY <1>7 DEF Authorize, Known, Shape, TypeOK
  <2>6. \A u \in Task : /\ task[u].rest \subseteq Socket
                        /\ Signs(task[u]) => task[u].ws \in Socket
    BY <2>5 DEF Handler, Known, Shape, HandlersNamed, Named, Signs, SignOps
  <2>7. task'[t] = h /\ \A u \in Task \ {t} : task'[u] = task[u]
    BY <2>5
  <2>8. \A u \in Task \ {t} : Signs(task[u]) => task[u].ws # ws
    BY <2>1 DEF Known, HandlersServe
  <2>9. \A s \in Socket : /\ sock[s].phase # "none" => sock'[s].phase # "none"
                          /\ sock[s].phase = "verifying" => sock'[s].phase = "verifying"
    BY <2>3 DEF Tame
  <2>10. sock'[ws].phase = "verifying"
    BY <2>2
  <2> HIDE DEF h
  <2>11. ASSUME NEW u \in Task
         PROVE  /\ task'[u].ws \in Socket => sock'[task'[u].ws].phase # "none"
                /\ \A s \in task'[u].rest : sock'[s].phase # "none"
                /\ task'[u].cont \notin SignOps
    BY <1>3, <2>4, <2>6, <2>7, <2>9 DEF Known, HandlersServe
  <2>12. ASSUME NEW u \in Task, Signs(task'[u])
         PROVE  /\ sock'[task'[u].ws].phase = "verifying"
                /\ \A w \in Task \ {u} : Signs(task'[w]) => task'[w].ws # task'[u].ws
    BY <2>4, <2>6, <2>7, <2>8, <2>9, <2>10, <2>12 DEF Known, HandlersServe
  <2>13. HandlersServe'
    BY <2>11, <2>12 DEF HandlersServe, Signs
  <2>. QED  BY <2>3, <2>13
<1>8. ASSUME NEW dest \in Identity, Datagram(t, ws, dest) PROVE Tame(sock, sock') /\ HandlersServe'
  <2> DEFINE received == [counted EXCEPT ![ws].n.datagram = @ + 1]
             waiting == [Idle EXCEPT !.op = "undelivered", !.ws = ws]
  <2>1. received \in [Socket -> Attachment]
    BY <1>2 DEF Attachment, Counts
  <2>2. \A s \in Socket : /\ received[s].id = counted[s].id /\ received[s].phase = counted[s].phase
                          /\ received[s].archived = counted[s].archived
                          /\ s # ws => received[s].n = counted[s].n
    BY <1>2 DEF Attachment
  <2> HIDE DEF received
  <2>3. Tame(sock, received)
    BY <1>2, <1>3, <2>2 DEF Tame
  <2>4. ASSUME NEW f \in {"dropped", "forwarded"}, sock' = [received EXCEPT ![ws].n[f] = @ + 1]
        PROVE  Tame(sock, sock')
    <3>1. \A s \in Socket : /\ sock'[s].id = received[s].id /\ sock'[s].phase = received[s].phase
                            /\ sock'[s].archived = received[s].archived
                            /\ s # ws => sock'[s].n = received[s].n
      BY <2>1, <2>4 DEF Attachment
    <3>. QED  BY <1>3, <2>3, <3>1 DEF Tame
  <2>5. ASSUME NEW p \in Socket, Routes(p, dest), Finish(t, received, p, "undeliverable", waiting)
        PROVE  Tame(sock, sock') /\ HandlersServe'
    <3>1. /\ waiting \in Handler /\ waiting.ws = ws /\ waiting.rest = {}
          /\ {waiting.op, waiting.cont} \cap SignOps = {}
      BY CountersTyped DEF Idle, Handler, Awaits, Meta, NoMeta, SignOps
    <3>2. received[p].phase # "none"
      BY <1>2, <2>2, <2>3, <2>5 DEF Routes, Live, Accepted, Tame
    <3> HIDE DEF waiting
    <3>. QED  BY <1>3, <2>1, <2>3, <2>5, <3>1, <3>2, FinishServes
  <2>6. \/ UNCHANGED task /\ \E f \in {"dropped", "forwarded"} : sock' = [received EXCEPT ![ws].n[f] = @ + 1]
        \/ \E p \in Socket : Routes(p, dest) /\ Finish(t, received, p, "undeliverable", waiting)
    BY <1>8 DEF Datagram, received, counted
  <2>. QED  BY <2>4, <2>5, <2>6, ServeStutter
<1>. QED  BY <1>4, <1>5, <1>6, <1>7, <1>8 DEF Message

LEMMA UndeliveredTame ==
  ASSUME Known, NEW t \in Task, Undelivered(t)
  PROVE  Tame(sock, sock') /\ HandlersServe'
<1>1. task[t].ws \in Socket /\ sock \in [Socket -> Attachment]
  BY DEF Known, Shape, TypeOK, HandlersNamed, Named, Undelivered, Resumes
<1>2. sock' = Dropped(task[t].ws) /\ task' = [task EXCEPT ![t] = Idle]
  BY DEF Undelivered
<1>3. CASE sock[task[t].ws].archived
  BY <1>2, <1>3, TameStutter, IdleStep DEF Dropped
<1>4. CASE ~sock[task[t].ws].archived
  <2>1. sock' = [sock EXCEPT ![task[t].ws].n.dropped = @ + 1]
    BY <1>2, <1>4 DEF Dropped
  <2>2. \A s \in Socket : /\ sock'[s].id = sock[s].id /\ sock'[s].phase = sock[s].phase
                          /\ sock'[s].archived = sock[s].archived
                          /\ s # task[t].ws => sock'[s].n = sock[s].n
    BY <1>1, <2>1 DEF Attachment
  <2>3. Tame(sock, sock')
    BY <1>4, <2>2 DEF Tame
  <2>. QED  BY <1>2, <2>3, IdleStep
<1>. QED  BY <1>3, <1>4

LEMMA VerifyTame ==
  ASSUME Known, NEW t \in Task, Verify(t)
  PROVE  Tame(sock, sock') /\ HandlersServe'
<1>1. /\ task[t] \in Handler /\ task[t].ws \in Socket /\ sock \in [Socket -> Attachment]
      /\ sock[task[t].ws].phase # "none" /\ \A s \in task[t].rest : sock[s].phase # "none"
      /\ Signs(task[t]) /\ task[t].cont \notin SignOps
  BY DEF Known, Shape, TypeOK, HandlersNamed, HandlersServe, Named, Verify, Resumes, Signs, SignOps
<1>2. CASE Finish(t, sock, task[t].ws, "policy", Idle)
  BY <1>1, <1>2, FinishIdle, TameStutter
<1>3. CASE task' = [task EXCEPT ![t].op = "claim"] /\ UNCHANGED sock
  <2> DEFINE h == [task[t] EXCEPT !.op = "claim"]
  <2>1. h \in Handler /\ h.ws = task[t].ws /\ h.rest = task[t].rest /\ h.cont = task[t].cont
    BY <1>1 DEF Handler, Awaits
  <2>2. task' = [task EXCEPT ![t] = h]
    BY <1>3
  <2>. QED  BY <1>1, <1>3, <2>1, <2>2, ServeStep, TameStutter
<1>. QED  BY <1>2, <1>3 DEF Verify

\* One turn of the loop over the predecessors: it retires one of them, or there is
\* none and the newcomer is at most refused itself.
Retiring(socks, new, v) ==
  /\ new \in [Socket -> Attachment]
  /\ new[v].archived
  /\ \A s \in Socket : /\ new[s].id = socks[s].id /\ new[s].phase = socks[s].phase /\ new[s].n = socks[s].n
                       /\ s # v => new[s].archived = socks[s].archived

LEMMA RetiringTame ==
  ASSUME NEW socks \in [Socket -> Attachment], NEW new, NEW v \in Socket, Retiring(socks, new, v),
         socks[v].phase # "none"
  PROVE  Tame(socks, new)
BY DEF Retiring, Tame

LEMMA SupplantStep ==
  ASSUME Shape, NEW t \in Task, NEW socks \in [Socket -> Attachment], NEW rest \in SUBSET Socket,
         task[t].op \in {"claim", "evict"}, task[t].cont \notin SignOps, Supplant(t, socks, rest)
  PROVE  LET ws == task[t].ws
             old == Predecessors(socks, rest, ws, task[t].id)
         IN  /\ \/ \E s \in old : Retiring(socks, sock', s)
                \/ old = {} /\ (sock' = socks \/ Retiring(socks, sock', ws))
             /\ \E h \in Handler : /\ task' = [task EXCEPT ![t] = h]
                                   /\ h.ws \in {ws, None} /\ h.rest \subseteq rest
                                   /\ {h.op, h.cont} \cap SignOps = {}
<1> DEFINE ws == task[t].ws
           old == Predecessors(socks, rest, ws, task[t].id)
<1>1. task[t] \in Handler /\ ws \in Socket /\ task[t].id \in Identity
  BY DEF Shape, TypeOK, HandlersNamed, Named
<1>2. old \subseteq Socket /\ \A s \in old : ~socks[s].archived
  BY DEF Predecessors
<1>3. ASSUME NEW v \in Socket, NEW why \in Reasons, sock' = [socks EXCEPT ![v].archived = TRUE, ![v].reason = why]
      PROVE  Retiring(socks, sock', v)
  <2>1. PICK a : a = [socks[v] EXCEPT !.archived = TRUE, !.reason = why]
    OBVIOUS
  <2>2. /\ a \in Attachment /\ a.archived
        /\ a.id = socks[v].id /\ a.phase = socks[v].phase /\ a.n = socks[v].n
    BY <2>1 DEF Attachment
  <2>3. sock' = [socks EXCEPT ![v] = a]
    BY <1>3, <2>1
  <2>. QED  BY <2>2, <2>3 DEF Retiring
<1>4. "superseded" \in Reasons /\ "policy" \in Reasons
  BY DEF Reasons
<1> HIDE DEF old
<1>5. ASSUME NEW s \in old, NEW passed \in SUBSET (rest \ old),
             Finish(t, socks, s, "superseded",
                    [task[t] EXCEPT !.op = "evict", !.rest = rest \ ({s} \cup passed)])
      PROVE  /\ Retiring(socks, sock', s)
             /\ \E h \in Handler : /\ task' = [task EXCEPT ![t] = h]
                                   /\ h.ws \in {ws, None} /\ h.rest \subseteq rest
                                   /\ {h.op, h.cont} \cap SignOps = {}
  <2> DEFINE e == [task[t] EXCEPT !.op = "evict", !.rest = rest \ ({s} \cup passed)]
             h == [e EXCEPT !.op = "closed", !.cont = e.op, !.victim = s, !.tally = socks[s].n]
  <2>1. e \in Handler /\ e.ws = ws /\ e.rest \subseteq rest /\ {e.op, e.cont} \cap SignOps = {}
    BY <1>1 DEF Handler, Awaits, SignOps
  <2> HIDE DEF e
  <2>2. h \in Handler /\ h.ws = ws /\ h.rest \subseteq rest /\ {h.op, h.cont} \cap SignOps = {}
    BY <1>2, <2>1 DEF Handler, Awaits, Attachment, SignOps
  <2>3. sock' = [socks EXCEPT ![s].archived = TRUE, ![s].reason = "superseded"]
        /\ task' = [task EXCEPT ![t] = h]
    BY <1>2, <1>5 DEF Finish, IsRetired, e
  <2>. QED  BY <1>2, <1>3, <1>4, <2>2, <2>3
<1>6. ASSUME old = {}, Finish(t, socks, ws, "policy", Idle)
      PROVE  /\ sock' = socks \/ Retiring(socks, sock', ws)
             /\ \E h \in Handler : /\ task' = [task EXCEPT ![t] = h]
                                   /\ h.ws \in {ws, None} /\ h.rest \subseteq rest
                                   /\ {h.op, h.cont} \cap SignOps = {}
  <2> DEFINE h == [Idle EXCEPT !.op = "closed", !.cont = "idle", !.victim = ws, !.tally = socks[ws].n]
  <2>1. /\ h \in Handler /\ h.ws = None /\ h.rest = {} /\ Idle.ws = None /\ Idle.rest = {}
        /\ {h.op, h.cont, Idle.op, Idle.cont} \cap SignOps = {}
    BY <1>1, CountersTyped DEF Idle, Handler, Awaits, Attachment, Meta, NoMeta, SignOps
  <2>2. \/ sock' = socks /\ task' = [task EXCEPT ![t] = Idle]
        \/ /\ sock' = [socks EXCEPT ![ws].archived = TRUE, ![ws].reason = "policy"]
           /\ task' = [task EXCEPT ![t] = h]
    BY <1>6, IdleTyped DEF Finish
  <2> HIDE DEF h
  <2>. QED  BY <1>1, <1>3, <1>4, <2>1, <2>2, IdleTyped
<1>7. ASSUME old = {}, sock' = socks, task' = [task EXCEPT ![t] = [Idle EXCEPT !.op = "confirm", !.ws = ws]]
      PROVE  \E h \in Handler : /\ task' = [task EXCEPT ![t] = h]
                                /\ h.ws \in {ws, None} /\ h.rest \subseteq rest
                                /\ {h.op, h.cont} \cap SignOps = {}
  <2> DEFINE h == [Idle EXCEPT !.op = "confirm", !.ws = ws]
  <2>1. h \in Handler /\ h.ws = ws /\ h.rest = {} /\ {h.op, h.cont} \cap SignOps = {}
    BY <1>1, CountersTyped DEF Idle, Handler, Awaits, Meta, NoMeta, SignOps
  <2>. QED  BY <1>7, <2>1
<1>8. \/ \E s \in old, passed \in SUBSET (rest \ old) :
           Finish(t, socks, s, "superseded",
                  [task[t] EXCEPT !.op = "evict", !.rest = rest \ ({s} \cup passed)])
      \/ /\ old = {}
         /\ \/ Finish(t, socks, ws, "policy", Idle)
            \/ /\ sock' = socks
               /\ task' = [task EXCEPT ![t] = [Idle EXCEPT !.op = "confirm", !.ws = ws]]
  BY DEF Supplant, old
<1>. QED  BY <1>5, <1>6, <1>7, <1>8 DEF old

LEMMA EvictTame ==
  ASSUME Known, NEW t \in Task, Evict(t)
  PROVE  Tame(sock, sock') /\ HandlersServe'
<1> DEFINE ws == task[t].ws
           old == Predecessors(sock, task[t].rest, ws, task[t].id)
<1>1. /\ task[t] \in Handler /\ task[t].op = "evict" /\ ws \in Socket /\ sock \in [Socket -> Attachment]
      /\ sock[ws].phase # "none" /\ \A s \in task[t].rest : sock[s].phase # "none"
      /\ task[t].cont \notin SignOps
  BY DEF Known, Shape, TypeOK, HandlersNamed, HandlersServe, Named, Evict, Resumes
<1>2. task[t].rest \in SUBSET Socket /\ old \subseteq task[t].rest
  BY <1>1 DEF Handler, Predecessors
<1>3. Supplant(t, sock, task[t].rest) /\ Shape
  BY DEF Evict, Known
<1> HIDE DEF old
<1>4. /\ \/ \E s \in old : Retiring(sock, sock', s)
         \/ sock' = sock \/ Retiring(sock, sock', ws)
      /\ \E h \in Handler : /\ task' = [task EXCEPT ![t] = h]
                            /\ h.ws \in {ws, None} /\ h.rest \subseteq task[t].rest
                            /\ {h.op, h.cont} \cap SignOps = {}
  BY <1>1, <1>2, <1>3, SupplantStep DEF old
<1>5. Tame(sock, sock')
  BY <1>1, <1>2, <1>4, RetiringTame, TameStutter
<1>6. PICK h \in Handler : /\ task' = [task EXCEPT ![t] = h]
                           /\ h.ws \in {ws, None} /\ h.rest \subseteq task[t].rest
                           /\ {h.op, h.cont} \cap SignOps = {}
  BY <1>4
<1>7. None \notin Socket
  BY ConstantsAssumption
<1>. QED  BY <1>1, <1>5, <1>6, <1>7, ServeStep DEF Signs

LEMMA SweepTame ==
  ASSUME Known, NEW t \in Task, Sweep(t)
  PROVE  Tame(sock, sock') /\ HandlersServe'
<1> DEFINE m == task[t].meta
           due == {s \in task[t].rest : Live(s) /\ Overdue(s)}
           quiet == {s \in task[t].rest : /\ Live(s) /\ ~Overdue(s) /\ PingDue(m)
                                          /\ sock[s].phase = "authenticated" /\ ~sock[s].pinged}
           after(passed) == [s \in Socket |-> IF s \in passed \cap quiet THEN Pinged(s) ELSE sock[s]]
<1>1. /\ task[t] \in Handler /\ m \in Meta /\ sock \in [Socket -> Attachment]
      /\ task[t].rest \in SUBSET Socket
  BY DEF Known, Shape, TypeOK, Handler
<1>2. /\ task[t].ws \in Socket => sock[task[t].ws].phase # "none"
      /\ \A s \in task[t].rest : sock[s].phase # "none"
      /\ {task[t].op, task[t].cont} \cap SignOps = {}
  BY DEF Known, HandlersServe, Sweep, Resumes, SignOps
<1>3. \A s \in Socket : /\ Pinged(s) \in Attachment
                        /\ Pinged(s).id = sock[s].id /\ Pinged(s).phase = sock[s].phase
                        /\ Pinged(s).archived = sock[s].archived /\ Pinged(s).n = sock[s].n
  <2>1. now + PongTimeout \in Nat
    BY ConstantsTyped DEF Known, Shape, TypeOK
  <2>. QED  BY <1>1, <2>1 DEF Pinged, Attachment
<1>4. ASSUME NEW passed
      PROVE  /\ after(passed) \in [Socket -> Attachment]
             /\ Tame(sock, after(passed))
             /\ \A s \in Socket : after(passed)[s].phase = sock[s].phase
  BY <1>1, <1>3 DEF Tame
<1>5. ASSUME NEW passed, NEW seen, NEW s \in task[t].rest, NEW why,
             Finish(t, after(seen), s, why, [task[t] EXCEPT !.rest = @ \ ({s} \cup passed)])
      PROVE  Tame(sock, sock') /\ HandlersServe'
  <2> DEFINE h == [task[t] EXCEPT !.rest = @ \ ({s} \cup passed)]
  <2>1. /\ h \in Handler /\ h.ws = task[t].ws /\ h.rest \subseteq task[t].rest
        /\ h.op = task[t].op /\ h.cont = task[t].cont
    BY <1>1 DEF Handler
  <2>2. s \in Socket /\ sock[s].phase # "none"
    BY <1>1, <1>2
  <2> HIDE DEF h, after
  <2>3. after(seen) \in [Socket -> Attachment] /\ Tame(sock, after(seen)) /\ after(seen)[s].phase # "none"
    BY <1>4, <2>2
  <2>. QED  BY <1>2, <1>5, <2>1, <2>2, <2>3, FinishServes DEF h
<1>6. CASE /\ sock' = after(quiet)
           /\ task' = [task EXCEPT ![t] = [Scheduling EXCEPT !.meta = m]]
  <2> DEFINE h == [Scheduling EXCEPT !.meta = m]
  <2>1. h \in Handler /\ h.ws \notin Socket /\ h.rest = {} /\ h.cont \notin SignOps /\ ~Signs(h)
    BY <1>1, CountersTyped, ConstantsAssumption DEF Idle, Scheduling, Handler, Awaits, Signs, SignOps
  <2> HIDE DEF h
  <2>. QED  BY <1>4, <1>6, <2>1, ServeStep DEF h
<1>7. CASE \E passed \in SUBSET (task[t].rest \ due), s \in task[t].rest :
             \/ Finish(t, after(passed), s, "timeout", [task[t] EXCEPT !.rest = @ \ ({s} \cup passed)])
             \/ Finish(t, after(passed \cup {s}), s, "unreachable",
                       [task[t] EXCEPT !.rest = @ \ ({s} \cup passed)])
  BY <1>5, <1>7
<1>. QED  BY <1>6, <1>7 DEF Sweep

LEMMA EnvironmentTame ==
  ASSUME Known, \/ \E ws \in Socket : Disconnect(ws) \/ \E t \in Task : webSocketClose(t, ws)
                \/ Tick
  PROVE  Tame(sock, sock') /\ HandlersServe'
<1>1. sock \in [Socket -> Attachment]
  BY DEF Known, Shape, TypeOK
<1>2. ASSUME NEW ws \in Socket, Disconnect(ws)
      PROVE  Tame(sock, sock') /\ HandlersServe'
  <2>1. sock' = [sock EXCEPT ![ws].open = FALSE] /\ UNCHANGED task
    BY <1>2 DEF Disconnect
  <2>2. Tame(sock, sock')
    BY <1>1, <2>1 DEF Tame, Attachment
  <2>. QED  BY <2>1, <2>2, ServeStutter
<1>3. ASSUME NEW ws \in Socket, NEW t \in Task, webSocketClose(t, ws)
      PROVE  Tame(sock, sock') /\ HandlersServe'
  <2>1. sock[ws].phase # "none" /\ Finish(t, sock, ws, "closed", Idle)
    BY <1>3 DEF webSocketClose, Live, Accepted
  <2>. QED  BY <1>1, <2>1, FinishIdle, TameStutter
<1>4. CASE Tick
  BY <1>4, TameStutter, ServeStutter DEF Tick
<1>. QED  BY <1>2, <1>3, <1>4

\* A restart takes every accepted socket and every handler away.
Replaces(old, new) ==
  \A s \in Socket :
    /\ new[s].id = old[s].id /\ new[s].archived = old[s].archived /\ new[s].n = old[s].n
    /\ new[s].phase = IF old[s].phase = "none" THEN "none" ELSE "lost"

LEMMA RestartReplaces ==
  ASSUME Known, Restart
  PROVE  Replaces(sock, sock') /\ HandlersServe'
<1>1. sock \in [Socket -> Attachment]
  BY DEF Known, Shape, TypeOK
<1>2. \A s \in Socket : IF sock[s].phase \in {"none", "lost"} THEN sock'[s] = sock[s]
                        ELSE sock'[s] = [sock[s] EXCEPT !.phase = "lost", !.open = FALSE]
  BY DEF Restart, Accepted
<1>3. \A s \in Socket : LET a == [sock[s] EXCEPT !.phase = "lost", !.open = FALSE]
                        IN  a.id = sock[s].id /\ a.phase = "lost" /\ a.archived = sock[s].archived
                            /\ a.n = sock[s].n
  BY <1>1 DEF Attachment
<1>4. Replaces(sock, sock')
  BY <1>2, <1>3 DEF Replaces
<1>5. \A t \in Task : task'[t] = Idle
  BY DEF Restart
<1>. QED  BY <1>4, <1>5, IdleServes DEF HandlersServe, Signs

-----------------------------------------------------------------------------
(* The claim. *)

\* ws becomes the route of id, which the room has stored; the first predecessor found goes
\* in the same step, and if there is none the newcomer is at most retired itself.
Takes(ws, id) ==
  LET socks == Authenticated(ws, id)
      old == Predecessors(socks, Accepted, ws, id)
  IN  /\ sock[ws].phase = "verifying" /\ ~sock[ws].archived /\ id \in identities'
      /\ \/ \E s \in old : Retiring(socks, sock', s)
         \/ old = {} /\ (sock' = socks \/ Retiring(socks, sock', ws))

LEMMA AuthenticatedFields ==
  ASSUME TypeOK, NEW ws \in Socket, NEW id \in Identity
  PROVE  LET socks == Authenticated(ws, id)
         IN  /\ socks \in [Socket -> Attachment]
             /\ socks[ws].id = id /\ socks[ws].phase = "authenticated"
             /\ \A s \in Socket : /\ socks[s].archived = sock[s].archived /\ socks[s].n = sock[s].n
                                  /\ s # ws => socks[s] = sock[s]
<1> DEFINE a == [sock[ws] EXCEPT !.id = id, !.phase = "authenticated", !.deadline = 0]
<1>1. Authenticated(ws, id) = [sock EXCEPT ![ws] = a] /\ sock \in [Socket -> Attachment]
  BY DEF Authenticated, TypeOK
<1>2. a.id = id /\ a.phase = "authenticated" /\ a.archived = sock[ws].archived /\ a.n = sock[ws].n
  BY <1>1 DEF Attachment
<1> HIDE DEF a
<1>. QED  BY <1>1, <1>2, AuthenticatedTyped

LEMMA ClaimStep ==
  ASSUME Known, NEW t \in Task, Claim(t)
  PROVE  /\ task[t].ws \in Socket /\ task[t].id \in Identity
         /\ Tame(sock, sock') \/ Takes(task[t].ws, task[t].id)
         /\ SocketsNamed'
         /\ HandlersServe'
<1> DEFINE ws == task[t].ws
           id == task[t].id
           socks == Authenticated(ws, id)
           old == Predecessors(socks, Accepted, ws, id)
<1>1. /\ task[t] \in Handler /\ task[t].op = "claim" /\ ws \in Socket /\ id \in Identity
      /\ sock \in [Socket -> Attachment] /\ sock[ws].phase = "verifying" /\ Shape /\ TypeOK
      /\ Signs(task[t]) /\ task[t].cont \notin SignOps
  BY DEF Known, Shape, TypeOK, HandlersNamed, HandlersServe, Named, Claim, Resumes, Signs, SignOps
<1>2. Tame(sock, sock') => SocketsNamed'
  BY DEF Known, SocketsNamed, Tame
<1>3. CASE Finish(t, sock, ws, "policy", Idle)
  BY <1>1, <1>2, <1>3, FinishIdle, TameStutter
<1>4. CASE ~ClaimRefused(ws, id) /\ Supplant(t, socks, Accepted)
  <2>1. /\ socks \in [Socket -> Attachment]
        /\ socks[ws].id = id /\ socks[ws].phase = "authenticated"
        /\ \A s \in Socket : /\ socks[s].archived = sock[s].archived /\ socks[s].n = sock[s].n
                             /\ s # ws => socks[s] = sock[s]
    BY <1>1, AuthenticatedFields
  <2>2. ~sock[ws].archived /\ id \in identities'
    BY <1>4 DEF ClaimRefused, Claim
  <2>3. Accepted \in SUBSET Socket /\ \A s \in Accepted : sock[s].phase # "none"
    BY DEF Accepted
  <2>4. old \subseteq Accepted
    BY DEF Predecessors
  <2> HIDE DEF socks, old
  <2>5. /\ \/ \E s \in old : Retiring(socks, sock', s)
           \/ old = {} /\ (sock' = socks \/ Retiring(socks, sock', ws))
        /\ \E h \in Handler : /\ task' = [task EXCEPT ![t] = h]
                              /\ h.ws \in {ws, None} /\ h.rest \subseteq Accepted
                              /\ {h.op, h.cont} \cap SignOps = {}
    BY <1>1, <1>4, <2>1, <2>3, SupplantStep DEF old
  <2>6. Takes(ws, id)
    BY <1>1, <2>2, <2>5 DEF Takes, socks, old
  <2>7. PICK v \in Socket : /\ sock[v].phase # "none"
                            /\ \A s \in Socket : /\ sock'[s].id = socks[s].id /\ sock'[s].phase = socks[s].phase
                                                 /\ s # v => sock'[s].archived = socks[s].archived
    BY <1>1, <2>1, <2>3, <2>4, <2>5 DEF Retiring
  <2>8. SocketsNamed'
    BY <1>1, <2>1, <2>7 DEF Known, SocketsNamed
  <2>9. HandlersServe'
    <3>1. PICK h \in Handler : /\ task' = [task EXCEPT ![t] = h]
                               /\ h.ws \in {ws, None} /\ h.rest \subseteq Accepted
                               /\ {h.op, h.cont} \cap SignOps = {}
      BY <2>5
    <3>2. \A s \in Socket : /\ sock[s].phase # "none" => sock'[s].phase # "none"
                            /\ sock[s].phase = "verifying" /\ s # ws => sock'[s].phase = "verifying"
      BY <2>1, <2>7
    <3>3. /\ task \in [Task -> Handler] /\ \A u \in Task : task[u].rest \subseteq Socket
          /\ \A u \in Task : Signs(task[u]) => task[u].ws \in Socket
      BY <1>1 DEF TypeOK, Handler, Shape, HandlersNamed, Named, Signs, SignOps
    <3>4. task'[t] = h /\ ~Signs(h) /\ \A u \in Task \ {t} : task'[u] = task[u]
      BY <3>1, <3>3 DEF Signs
    <3>5. \A u \in Task \ {t} : Signs(task[u]) => task[u].ws # ws
      BY <1>1 DEF Known, HandlersServe
    <3>6. None \notin Socket
      BY ConstantsAssumption
    <3>7. ASSUME NEW u \in Task
          PROVE  /\ task'[u].ws \in Socket => sock'[task'[u].ws].phase # "none"
                 /\ \A s \in task'[u].rest : sock'[s].phase # "none"
                 /\ task'[u].cont \notin SignOps
      BY <1>1, <2>3, <3>1, <3>2, <3>3, <3>4, <3>6 DEF Known, HandlersServe
    <3>8. ASSUME NEW u \in Task, Signs(task'[u])
          PROVE  /\ sock'[task'[u].ws].phase = "verifying"
                 /\ \A w \in Task \ {u} : Signs(task'[w]) => task'[w].ws # task'[u].ws
      BY <3>2, <3>3, <3>4, <3>5, <3>8 DEF Known, HandlersServe
    <3>. QED  BY <3>7, <3>8 DEF HandlersServe, Signs
  <2>. QED  BY <1>1, <2>6, <2>8, <2>9
<1>. QED  BY <1>3, <1>4 DEF Claim

-----------------------------------------------------------------------------
(* Every step is tame, a claim or a restart. *)

LEMMA StepTame ==
  ASSUME Known, [Next]_vars
  PROVE  /\ HandlersServe' /\ SocketsNamed'
         /\ \/ Tame(sock, sock')
            \/ Replaces(sock, sock')
            \/ \E t \in Task, ws \in Socket, id \in Identity :
                 Claim(t) /\ ws = task[t].ws /\ id = task[t].id /\ Takes(ws, id)
<1>1. ASSUME NEW t \in Task, Claim(t)
      PROVE  /\ HandlersServe' /\ SocketsNamed'
             /\ \/ Tame(sock, sock')
                \/ \E ws \in Socket, id \in Identity :
                     ws = task[t].ws /\ id = task[t].id /\ Takes(ws, id)
  BY <1>1, ClaimStep
<1>2. Tame(sock, sock') \/ Replaces(sock, sock') => SocketsNamed'
  BY DEF Known, SocketsNamed, Tame, Replaces
<1>3. ASSUME NEW t \in Task, Continue(t), ~Claim(t) PROVE Tame(sock, sock') /\ HandlersServe'
  BY <1>3, AcceptTame, StorageStepsTame, UndeliveredTame, VerifyTame, EvictTame, SweepTame DEF Continue
<1>4. ASSUME NEW t \in Task, AlarmFires(t) \/ \E ping \in Pings : Fetch(t, ping)
      PROVE  Tame(sock, sock') /\ HandlersServe'
  BY <1>4, StorageStepsTame
<1>5. ASSUME NEW t \in Task, NEW ws \in Socket, Message(t, ws) PROVE Tame(sock, sock') /\ HandlersServe'
  BY <1>5, MessageTame
<1>6. CASE UNCHANGED vars
  BY <1>2, <1>6, TameStutter, ServeStutter DEF vars
<1>. QED  BY <1>1, <1>2, <1>3, <1>4, <1>5, <1>6, EnvironmentTame, RestartReplaces DEF Next

LEMMA InitKnown == Init => Known
<1>1. Init => SocketsNamed
  BY DEF Init, SocketsNamed, Unused
<1>2. Init => HandlersServe
  BY IdleServes DEF Init, HandlersServe, Signs
<1>. QED  BY <1>1, <1>2, InitShape DEF Known

LEMMA NextKnown == Known /\ [Next]_vars => Known'
BY NextShape, StepTame DEF Known

LEMMA AlwaysKnown == Spec => []Known
BY InitKnown, NextKnown, PTL DEF Spec

LEMMA OneRouteStep == Known /\ OneRoute /\ [Next]_vars => OneRoute'
<1> SUFFICES ASSUME Known, OneRoute, [Next]_vars PROVE OneRoute'
  OBVIOUS
<1>1. CASE Tame(sock, sock') \/ Replaces(sock, sock')
  <2>1. \A s \in Socket, i \in Identity : Routes(s, i)' => Routes(s, i)
    BY <1>1 DEF Tame, Replaces, Routes, Live, Accepted
  <2>. QED  BY <2>1 DEF OneRoute
<1>2. ASSUME NEW ws \in Socket, NEW id \in Identity, Takes(ws, id)
      PROVE  OneRoute'
  <2> DEFINE socks == Authenticated(ws, id)
             old == Predecessors(socks, Accepted, ws, id)
  <2>1. /\ socks \in [Socket -> Attachment]
        /\ socks[ws].id = id /\ socks[ws].phase = "authenticated"
        /\ \A s \in Socket : /\ socks[s].archived = sock[s].archived
                             /\ s # ws => socks[s] = sock[s]
    BY AuthenticatedFields DEF Known, Shape
  <2>2. old = {s \in Accepted \ {ws} : socks[s].id = id /\ ~socks[s].archived}
    BY DEF Predecessors
  <2>3. \/ \E s \in old : Retiring(socks, sock', s)
        \/ old = {} /\ (sock' = socks \/ Retiring(socks, sock', ws))
    BY <1>2 DEF Takes
  <2>4. id # None
    BY ConstantsAssumption
  <2>5. \A s \in Socket : s \in old <=> s # ws /\ Routes(s, id)
    BY <2>1, <2>2, <2>4 DEF Known, SocketsNamed, Routes, Live, Accepted
  <2> HIDE DEF socks, old
  <2>6. \A s \in Socket, i \in Identity : Routes(s, i)' /\ s # ws => Routes(s, i)
    BY <2>1, <2>3 DEF Retiring, Routes, Live, Accepted
  <2>7. \A s \in Socket : s # ws => ~Routes(s, id)'
    <3>1. CASE old = {}
      BY <2>5, <2>6, <3>1
    <3>2. ASSUME NEW v \in old, Retiring(socks, sock', v)
          PROVE  \A s \in Socket : s # ws => ~Routes(s, id)'
      <4>1. v \in Socket /\ ~Routes(v, id)'
        BY <3>2 DEF Retiring, Routes, Live, old, Predecessors, Accepted
      <4>. QED  BY <2>5, <2>6, <4>1 DEF OneRoute
    <3>. QED  BY <2>3, <3>1, <3>2
  <2>8. \A i \in Identity : Routes(ws, i)' => i = id
    BY <2>1, <2>3 DEF Retiring, Routes
  <2>. QED  BY <2>6, <2>7, <2>8 DEF OneRoute
<1>. QED  BY <1>1, <1>2, StepTame

\* At no moment is an identity routed to two sockets, for any number of sockets and of
\* handlers and whichever awaits other handlers run at: the claim retires the only
\* possible predecessor before its first await (iroh-relay.js:85-90).
THEOREM OneRouteAlways == Spec => []OneRoute
<1>1. Init => OneRoute
  BY DEF Init, OneRoute, Routes, Unused
<1>. QED  BY <1>1, AlwaysKnown, OneRouteStep, PTL DEF Spec

LEMMA ArchivedStep ==
  ASSUME Known, [Next]_vars, NEW s \in Socket, sock[s].archived
  PROVE  sock'[s].archived /\ sock'[s].n = sock[s].n
<1>1. CASE Tame(sock, sock') \/ Replaces(sock, sock')
  BY <1>1 DEF Tame, Replaces
<1>2. ASSUME NEW ws \in Socket, NEW id \in Identity, Takes(ws, id)
      PROVE  sock'[s].archived /\ sock'[s].n = sock[s].n
  <2> DEFINE socks == Authenticated(ws, id)
  <2>1. \A r \in Socket : socks[r].archived = sock[r].archived /\ socks[r].n = sock[r].n
    BY AuthenticatedFields DEF Known, Shape
  <2> HIDE DEF socks
  <2>2. sock' = socks \/ \E v \in Socket : Retiring(socks, sock', v)
    BY <1>2 DEF Takes, Predecessors, Accepted, socks
  <2>. QED  BY <2>1, <2>2 DEF Retiring
<1>. QED  BY <1>1, <1>2, StepTame

\* A retired socket stays retired and its counters are closed, even against a handler
\* that read the attachment before an await (iroh-relay.js:109).
THEOREM ArchivedStays == Spec => ArchivedIsFinal
<1>1. Known /\ [Next]_vars => [\A s \in Socket : sock[s].archived => sock'[s].archived /\ sock'[s].n = sock[s].n]_vars
  BY ArchivedStep
<1>. QED  BY <1>1, AlwaysKnown, PTL DEF Spec, ArchivedIsFinal

-----------------------------------------------------------------------------
(* The relay implements the directory. *)

LEMMA RouteOf ==
  OneRoute => \A i \in Identity :
    /\ \A s \in Socket : Routes(s, i) => route[i] = s
    /\ (\A s \in Socket : ~Routes(s, i)) => route[i] = None
BY DEF OneRoute, route

LEMMA RouteOfNext ==
  OneRoute' => \A i \in Identity :
    /\ \A s \in Socket : Routes(s, i)' => route'[i] = s
    /\ (\A s \in Socket : ~Routes(s, i)') => route'[i] = None
BY DEF OneRoute, route

\* A step that routes less, and only because of sockets it retires, is a Retire.
LEMMA RetireStep ==
  ASSUME OneRoute, OneRoute', retired \subseteq retired',
         \A s \in Socket, i \in Identity : Routes(s, i)' <=> Routes(s, i) /\ s \notin retired'
  PROVE  Directory!Next
<1> DEFINE S == retired' \ retired
<1>1. S \in SUBSET Socket /\ retired' = retired \cup S
  BY DEF retired
<1>2. ASSUME NEW i \in Identity
      PROVE  route'[i] = IF route[i] \in S THEN None ELSE route[i]
  <2>1. CASE \E s \in Socket : Routes(s, i)
    <3>1. PICK s \in Socket : Routes(s, i)
      BY <2>1
    <3>2. route[i] = s /\ s \notin retired
      BY <3>1, RouteOf DEF Routes, Live, Accepted, retired
    <3>3. CASE s \in S
      <4>1. \A r \in Socket : ~Routes(r, i)'
        BY <3>1, <3>3 DEF OneRoute
      <4>. QED  BY <3>2, <3>3, <4>1, RouteOfNext
    <3>4. CASE s \notin S
      <4>1. Routes(s, i)'
        BY <3>1, <3>2, <3>4
      <4>. QED  BY <3>2, <3>4, <4>1, RouteOfNext
    <3>. QED  BY <3>3, <3>4
  <2>2. CASE \A s \in Socket : ~Routes(s, i)
    <3>1. route[i] = None /\ route'[i] = None
      BY <2>2, RouteOf, RouteOfNext
    <3>. QED  BY <3>1
  <2>. QED  BY <2>1, <2>2
<1>3. route' = [i \in Identity |-> route'[i]]
  BY DEF route
<1>4. Directory!Retire(S)
  BY <1>1, <1>2, <1>3 DEF Directory!Retire
<1>. QED  BY <1>1, <1>4 DEF Directory!Next

LEMMA TakesStep ==
  ASSUME Known, OneRoute, OneRoute', NEW ws \in Socket, NEW id \in Identity, Takes(ws, id)
  PROVE  Directory!Next
<1> DEFINE socks == Authenticated(ws, id)
           old == Predecessors(socks, Accepted, ws, id)
<1>1. /\ socks \in [Socket -> Attachment]
      /\ socks[ws].id = id /\ socks[ws].phase = "authenticated"
      /\ \A s \in Socket : /\ socks[s].archived = sock[s].archived
                           /\ s # ws => socks[s] = sock[s]
  BY AuthenticatedFields DEF Known, Shape
<1>2. old = {s \in Accepted \ {ws} : socks[s].id = id /\ ~socks[s].archived}
  BY DEF Predecessors
<1>3. /\ sock[ws].phase = "verifying" /\ ~sock[ws].archived
      /\ \/ \E s \in old : Retiring(socks, sock', s)
         \/ old = {} /\ (sock' = socks \/ Retiring(socks, sock', ws))
  BY DEF Takes
<1>4. id # None /\ None \notin Socket
  BY ConstantsAssumption
<1>5. \A s \in Socket : s \in old <=> s # ws /\ Routes(s, id)
  BY <1>1, <1>2, <1>4 DEF Known, SocketsNamed, Routes, Live, Accepted
<1>6. ws \notin retired /\ \A i \in Identity : ~Routes(ws, i)
  BY <1>3 DEF retired, Routes
<1>7. \A i \in Identity : route[i] # ws
  <2>1. \A i \in Identity : (\E s \in Socket : Routes(s, i)) \/ (\A s \in Socket : ~Routes(s, i))
    OBVIOUS
  <2>. QED  BY <1>4, <1>6, <2>1, RouteOf
<1> HIDE DEF socks, old
<1>8. CASE old = {} /\ Retiring(socks, sock', ws)
  <2>1. \A s \in Socket : /\ s # ws => sock'[s].phase = sock[s].phase /\ sock'[s].id = sock[s].id
                                       /\ sock'[s].archived = sock[s].archived
                          /\ s = ws => sock'[s].archived
    BY <1>1, <1>8 DEF Retiring
  <2>2. retired \subseteq retired'
    BY <1>6, <2>1 DEF retired
  <2>3. \A s \in Socket, i \in Identity : Routes(s, i)' <=> Routes(s, i) /\ s \notin retired'
    BY <1>6, <2>1 DEF retired, Routes, Live, Accepted
  <2>. QED  BY <2>2, <2>3, RetireStep
<1>9. CASE \/ old = {} /\ sock' = socks
           \/ \E s \in old : Retiring(socks, sock', s)
  <2> DEFINE gone == {route[id]} \ {None}
  <2>1. /\ gone \subseteq Socket
        /\ ws \notin gone
        /\ \A s \in Socket : /\ s # ws => sock'[s].phase = sock[s].phase /\ sock'[s].id = sock[s].id
                             /\ sock'[s].archived <=> sock[s].archived \/ s \in gone
    <3>1. CASE old = {} /\ sock' = socks
      <4>1. route[id] = None
        BY <1>5, <1>6, <3>1, RouteOf
      <4>. QED  BY <1>1, <3>1, <4>1
    <3>2. ASSUME NEW s \in old, Retiring(socks, sock', s)
          PROVE  /\ gone \subseteq Socket
                 /\ ws \notin gone
                 /\ \A r \in Socket : /\ r # ws => sock'[r].phase = sock[r].phase /\ sock'[r].id = sock[r].id
                                      /\ sock'[r].archived <=> sock[r].archived \/ r \in gone
      <4>1. s \in Socket /\ s # ws /\ route[id] = s
        BY <1>2, <1>5, RouteOf DEF Accepted
      <4>2. gone = {s} /\ ws \notin {s}
        BY <1>4, <4>1
      <4>3. \A r \in Socket : /\ r # ws => sock'[r].phase = sock[r].phase /\ sock'[r].id = sock[r].id
                              /\ sock'[r].archived <=> sock[r].archived \/ r \in {s}
        BY <1>1, <3>2 DEF Retiring, Attachment
      <4>. QED  BY <4>1, <4>2, <4>3
    <3> HIDE DEF gone
    <3>. QED  BY <1>9, <3>1, <3>2
  <2>2. sock'[ws].phase = "authenticated" /\ sock'[ws].id = id /\ ~sock'[ws].archived
    <3>1. sock' = socks \/ \E s \in Socket : Retiring(socks, sock', s)
      BY <1>9 DEF old, Predecessors, Accepted
    <3>. QED  BY <1>1, <1>3, <2>1, <3>1 DEF Retiring
  <2>3. retired' = retired \cup ({route[id]} \ {None})
    BY <1>3, <2>1, <2>2 DEF retired
  <2>4. ASSUME NEW i \in Identity PROVE route'[i] = IF i = id THEN ws ELSE route[i]
    <3>1. CASE i = id
      BY <2>2, <3>1, RouteOfNext DEF Routes, Live, Accepted
    <3>2. CASE i # id
      <4>1. \A s \in Socket : Routes(s, i)' <=> Routes(s, i)
        <5>1. \A s \in gone : ~Routes(s, i) /\ ~Routes(s, i)'
          <6>1. \A s \in gone : Routes(s, id)
            BY <2>1, RouteOf
          <6>. QED  BY <2>1, <3>2, <6>1 DEF Routes, Live
        <5>2. \A s \in Socket : s # ws /\ s \notin gone => (Routes(s, i)' <=> Routes(s, i))
          BY <2>1 DEF Routes, Live, Accepted
        <5>3. ~Routes(ws, i) /\ ~Routes(ws, i)'
          BY <1>6, <2>2, <3>2 DEF Routes
        <5>. QED  BY <5>1, <5>2, <5>3
      <4>2. CASE \E s \in Socket : Routes(s, i)
        BY <3>2, <4>1, <4>2, RouteOf, RouteOfNext
      <4>3. CASE \A s \in Socket : ~Routes(s, i)
        BY <3>2, <4>1, <4>3, RouteOf, RouteOfNext
      <4>. QED  BY <4>2, <4>3
    <3>. QED  BY <3>1, <3>2
  <2>5. route' = [route EXCEPT ![id] = ws]
    <3>1. route' = [i \in Identity |-> route'[i]] /\ route = [i \in Identity |-> route[i]]
      BY DEF route
    <3>. QED  BY <2>4, <3>1
  <2>6. Directory!Claim(id, ws)
    BY <1>6, <1>7, <2>3, <2>5 DEF Directory!Claim
  <2>. QED  BY <2>6 DEF Directory!Next
<1>. QED  BY <1>3, <1>8, <1>9

\* The relay implements the directory (RelayDirectory): a reconnect replaces the route of
\* its identity in one step and retires the socket it replaces, and nothing that a
\* handler, an alarm or a restart does later brings a retired socket back.
THEOREM RelayImplementsDirectory == Spec => ImplementsDirectory
<1>1. Init => Directory!Init
  BY DEF Init, Directory!Init, route, retired, Routes, Unused
<1>2. Known /\ OneRoute /\ OneRoute' /\ [Next]_vars => [Directory!Next]_<<route, retired>>
  <2> SUFFICES ASSUME Known, OneRoute, OneRoute', [Next]_vars PROVE Directory!Next
    OBVIOUS
  <2>1. CASE Tame(sock, sock') \/ Replaces(sock, sock')
    <3>1. retired \subseteq retired'
      BY <2>1 DEF Tame, Replaces, retired
    <3>2. \A s \in Socket, i \in Identity : Routes(s, i)' <=> Routes(s, i) /\ s \notin retired'
      BY <2>1 DEF Tame, Replaces, retired, Routes, Live, Accepted
    <3>. QED  BY <3>1, <3>2, RetireStep
  <2>. QED  BY <2>1, StepTame, TakesStep
<1>. QED  BY <1>1, <1>2, AlwaysKnown, OneRouteAlways, PTL DEF Spec, ImplementsDirectory, Directory!Spec

-----------------------------------------------------------------------------
(* The await a handler is parked at, and the one its caller goes on at. *)

Ops(h) == {h.op, h.cont}

\* Only finish and schedule return to a caller, an alarm, an eviction or a failed
\* delivery; a handler that is over remembers nothing.
Phased(h) ==
  /\ h.op = "idle" => h = Idle
  /\ h.op \notin {"closed", "sched"} => h.cont = "idle"
  /\ h.cont \in {"idle", "undelivered", "evict", "sweep"}

AllPhased == \A t \in Task : Phased(task[t])

\* h goes on with the work of g: it takes up no upgrade, alarm, eviction or delivery.
Follows(g, h) ==
  /\ Phased(h) /\ h.op # "accept"
  /\ h.meta # NoMeta => h.meta = g.meta
  /\ "sweep" \in Ops(h) => "sweep" \in Ops(g) /\ h.meta = g.meta
  /\ "evict" \in Ops(h) => g.op = "claim" \/ "evict" \in Ops(g)
  /\ "evict" \in Ops(h) => h.ws = g.ws /\ h.id = g.id
  /\ "undelivered" \in Ops(h) => "undelivered" \in Ops(g) /\ h.ws = g.ws
  /\ "undelivered" \in Ops(g) => "undelivered" \in Ops(h)

LEMMA IdlePhased ==
  /\ Phased(Idle) /\ Phased(Scheduling)
  /\ Ops(Idle) = {"idle"} /\ Ops(Scheduling) = {"sched", "idle"}
  /\ Idle.meta = NoMeta /\ Scheduling.meta = NoMeta /\ Scheduling.op = "sched"
BY DEF Phased, Ops, Idle, Scheduling

LEMMA FinishTurns ==
  ASSUME Shape, NEW t \in Task, NEW socks \in [Socket -> Attachment], NEW v \in Socket,
         NEW why, NEW after \in Handler, Finish(t, socks, v, why, after),
         Phased(after), after.op \in {"idle", "undelivered", "evict", "sweep"}
  PROVE  \E h \in Handler : /\ task' = [task EXCEPT ![t] = h]
                            /\ Phased(h) /\ h.op # "accept"
                            /\ h.ws = after.ws /\ h.id = after.id /\ h.meta = after.meta
                            /\ h.op \in {"closed", after.op}
                            /\ \A op \in {"undelivered", "evict", "sweep"} : op \in Ops(h) <=> op = after.op
<1>1. after.cont = "idle"
  BY DEF Phased
<1>2. CASE IsRetired(socks[v])
  BY <1>1, <1>2 DEF Finish, Ops
<1>3. CASE ~IsRetired(socks[v])
  <2> DEFINE h == [after EXCEPT !.op = "closed", !.cont = after.op, !.victim = v, !.tally = socks[v].n]
  <2>1. task' = [task EXCEPT ![t] = h]
    BY <1>3 DEF Finish
  <2>2. /\ h \in Handler /\ h.ws = after.ws /\ h.id = after.id /\ h.meta = after.meta
        /\ h.op = "closed" /\ h.cont = after.op
    BY DEF Handler, Attachment, Awaits
  <2> HIDE DEF h
  <2>3. Phased(h) /\ \A op \in {"undelivered", "evict", "sweep"} : op \in Ops(h) <=> op = after.op
    BY <2>2 DEF Phased, Ops
  <2>. QED  BY <2>1, <2>2, <2>3
<1>. QED  BY <1>2, <1>3

LEMMA FinishIdleFollows ==
  ASSUME Shape, NEW t \in Task, NEW socks \in [Socket -> Attachment], NEW v \in Socket,
         NEW why, Finish(t, socks, v, why, Idle), "undelivered" \notin Ops(task[t])
  PROVE  \E h \in Handler : /\ task' = [task EXCEPT ![t] = h]
                            /\ h.op \in {"closed", "idle"}
                            /\ Follows(task[t], h)
<1>1. PICK h \in Handler : /\ task' = [task EXCEPT ![t] = h]
                           /\ Phased(h) /\ h.op # "accept" /\ h.meta = Idle.meta
                           /\ h.op \in {"closed", "idle"}
                           /\ \A op \in {"undelivered", "evict", "sweep"} : op \in Ops(h) <=> op = "idle"
  BY FinishTurns, IdlePhased, IdleTyped
<1>. QED  BY <1>1, IdlePhased DEF Follows

LEMMA ToIdleFollows ==
  ASSUME NEW g, "undelivered" \notin Ops(g)
  PROVE  Follows(g, Idle) /\ Follows(g, Scheduling)
BY IdlePhased, IdleTyped DEF Follows

-----------------------------------------------------------------------------
\* The handler at work goes on with what it was doing.
Turns(t) == \E h \in Handler : task' = [task EXCEPT ![t] = h] /\ Follows(task[t], h)

LEMMA ToIdleTurns ==
  ASSUME NEW t \in Task, "undelivered" \notin Ops(task[t]),
         task' = [task EXCEPT ![t] = Idle] \/ task' = [task EXCEPT ![t] = Scheduling]
  PROVE  Turns(t)
BY ToIdleFollows, IdleTyped DEF Turns

LEMMA FinishIdleTurns ==
  ASSUME Shape, NEW t \in Task, NEW socks \in [Socket -> Attachment], NEW v \in Socket,
         NEW why, Finish(t, socks, v, why, Idle), "undelivered" \notin Ops(task[t])
  PROVE  Turns(t)
BY FinishIdleFollows DEF Turns

LEMMA StorageTurns ==
  ASSUME Known, AllPhased, NEW t \in Task, Closed(t) \/ Schedule(t) \/ Accept(t) \/ Confirm(t)
  PROVE  Turns(t)
<1>1. task[t] \in Handler /\ Phased(task[t]) /\ sock \in [Socket -> Attachment]
  BY DEF AllPhased, Known, Shape, TypeOK
<1>2. CASE Closed(t)
  <2> DEFINE h == [task[t] EXCEPT !.op = "sched", !.victim = None, !.tally = counters]
  <2>1. /\ h \in Handler /\ h.op = "sched" /\ h.cont = task[t].cont
        /\ h.ws = task[t].ws /\ h.id = task[t].id /\ h.meta = task[t].meta
    BY <1>1, CountersTyped DEF Handler, Awaits
  <2>2. task' = [task EXCEPT ![t] = h] /\ task[t].op = "closed"
    BY <1>2 DEF Closed, Resumes
  <2> HIDE DEF h
  <2>3. Follows(task[t], h)
    BY <1>1, <2>1, <2>2 DEF Follows, Phased, Ops
  <2>. QED  BY <2>1, <2>2, <2>3 DEF Turns
<1>3. CASE Schedule(t)
  <2>1. task[t].op = "sched"
    BY <1>3 DEF Schedule, Resumes
  <2>2. CASE task[t].cont = "idle"
    <3>1. task' = [task EXCEPT ![t] = Idle] /\ "undelivered" \notin Ops(task[t])
      BY <1>3, <2>1, <2>2 DEF Schedule, Ops
    <3>. QED  BY <3>1, ToIdleTurns
  <2>3. CASE task[t].cont # "idle"
    <3> DEFINE h == [task[t] EXCEPT !.op = task[t].cont, !.cont = "idle"]
    <3>1. /\ h \in Handler /\ h.op = task[t].cont /\ h.cont = "idle"
          /\ h.ws = task[t].ws /\ h.id = task[t].id /\ h.meta = task[t].meta
      BY <1>1 DEF Handler, Awaits
    <3>2. task' = [task EXCEPT ![t] = h]
      BY <1>3, <2>3 DEF Schedule
    <3> HIDE DEF h
    <3>3. Follows(task[t], h)
      BY <1>1, <2>1, <2>3, <3>1 DEF Follows, Phased, Ops
    <3>. QED  BY <3>1, <3>2, <3>3 DEF Turns
  <2>. QED  BY <2>2, <2>3
<1>4. CASE Accept(t)
  BY <1>1, <1>4, ToIdleTurns DEF Accept, Resumes, Phased, Ops
<1>5. CASE Confirm(t)
  <2>1. task[t].ws \in Socket /\ task[t].op = "confirm" /\ Shape /\ "undelivered" \notin Ops(task[t])
    BY <1>1, <1>5 DEF Known, Shape, HandlersNamed, Named, Confirm, Resumes, Phased, Ops
  <2>2. Finish(t, sock, task[t].ws, "policy", Idle) \/ task' = [task EXCEPT ![t] = Scheduling]
    BY <1>5 DEF Confirm
  <2>. QED  BY <1>1, <2>1, <2>2, FinishIdleTurns, ToIdleTurns
<1>. QED  BY <1>2, <1>3, <1>4, <1>5

LEMMA MessageTurns ==
  ASSUME Known, AllPhased, NEW t \in Task, NEW ws \in Socket,
         \/ Refuse(t, ws) \/ Pong(t, ws) \/ webSocketClose(t, ws)
         \/ \E id \in Identity : Authorize(t, ws, id)
  PROVE  Turns(t)
<1>1. Shape /\ sock \in [Socket -> Attachment] /\ Counted(ws) \in [Socket -> Attachment]
  BY CountedTyped DEF Known, Shape, TypeOK
<1>2. task[t] = Idle /\ "undelivered" \notin Ops(task[t])
  <2>1. task[t].op = "idle"
    BY DEF Refuse, Pong, webSocketClose, Authorize, Serves, Receives, Starts
  <2>. QED  BY <2>1, IdlePhased DEF AllPhased, Phased
<1>3. CASE Refuse(t, ws) \/ webSocketClose(t, ws)
  <2>1. \E socks \in {sock, Counted(ws)}, why \in {"policy", "closed"} : Finish(t, socks, ws, why, Idle)
    BY <1>3 DEF Refuse, webSocketClose
  <2>. QED  BY <1>1, <1>2, <2>1, FinishIdleTurns
<1>4. CASE Pong(t, ws)
  BY <1>2, <1>4, ToIdleTurns DEF Pong
<1>5. ASSUME NEW id \in Identity, Authorize(t, ws, id) PROVE Turns(t)
  <2> DEFINE h == [Idle EXCEPT !.op = "verify", !.ws = ws, !.id = id]
  <2>1. h \in Handler /\ h.op = "verify" /\ h.cont = "idle" /\ h.meta = NoMeta
    BY CountersTyped DEF Idle, Handler, Awaits, Meta, NoMeta
  <2>2. task' = [task EXCEPT ![t] = h]
    BY <1>5 DEF Authorize
  <2> HIDE DEF h
  <2>3. Follows(task[t], h)
    BY <1>2, <2>1 DEF Follows, Phased, Ops
  <2>. QED  BY <2>1, <2>2, <2>3 DEF Turns
<1>. QED  BY <1>3, <1>4, <1>5

\* The loop over the predecessors, from the claim or from an eviction.
LEMMA SupplantTurns ==
  ASSUME Shape, AllPhased, NEW t \in Task, NEW socks \in [Socket -> Attachment],
         NEW rest \in SUBSET Socket,
         task[t].op \in {"claim", "evict"}, Supplant(t, socks, rest)
  PROVE  Turns(t)
<1> DEFINE ws == task[t].ws
           old == Predecessors(socks, rest, ws, task[t].id)
<1>1. /\ task[t] \in Handler /\ Phased(task[t]) /\ ws \in Socket /\ old \subseteq Socket
      /\ task[t].cont = "idle" /\ "undelivered" \notin Ops(task[t])
  BY DEF Shape, TypeOK, HandlersNamed, Named, AllPhased, Phased, Predecessors, Ops
<1>2. ASSUME NEW s \in old, NEW passed \in SUBSET (rest \ old),
             Finish(t, socks, s, "superseded",
                    [task[t] EXCEPT !.op = "evict", !.rest = rest \ ({s} \cup passed)])
      PROVE  Turns(t)
  <2> DEFINE e == [task[t] EXCEPT !.op = "evict", !.rest = rest \ ({s} \cup passed)]
  <2>1. /\ e \in Handler /\ e.op = "evict" /\ e.cont = "idle"
        /\ e.ws = ws /\ e.id = task[t].id /\ e.meta = task[t].meta
    BY <1>1 DEF Handler, Awaits
  <2>2. Finish(t, socks, s, "superseded", e) /\ s \in Socket
    BY <1>1, <1>2
  <2> HIDE DEF e
  <2>3. Phased(e)
    BY <2>1 DEF Phased
  <2>4. PICK h \in Handler : /\ task' = [task EXCEPT ![t] = h]
                             /\ Phased(h) /\ h.op # "accept"
                             /\ h.ws = e.ws /\ h.id = e.id /\ h.meta = e.meta
                             /\ \A op \in {"undelivered", "evict", "sweep"} : op \in Ops(h) <=> op = e.op
    BY <2>1, <2>2, <2>3, FinishTurns
  <2>5. Follows(task[t], h)
    BY <1>1, <2>1, <2>4 DEF Follows, Ops
  <2>. QED  BY <2>4, <2>5 DEF Turns
<1>3. CASE Finish(t, socks, ws, "policy", Idle)
  BY <1>1, <1>3, FinishIdleTurns
<1>4. CASE task' = [task EXCEPT ![t] = [Idle EXCEPT !.op = "confirm", !.ws = ws]]
  <2> DEFINE h == [Idle EXCEPT !.op = "confirm", !.ws = ws]
  <2>1. h \in Handler /\ h.op = "confirm" /\ h.cont = "idle" /\ h.meta = NoMeta
    BY <1>1, CountersTyped DEF Idle, Handler, Awaits, Meta, NoMeta
  <2>2. task' = [task EXCEPT ![t] = h]
    BY <1>4
  <2> HIDE DEF h
  <2>3. Follows(task[t], h)
    BY <1>1, <2>1 DEF Follows, Phased, Ops
  <2>. QED  BY <2>1, <2>2, <2>3 DEF Turns
<1>. QED  BY <1>2, <1>3, <1>4 DEF Supplant

LEMMA AuthorizeTurns ==
  ASSUME Known, AllPhased, NEW t \in Task, Verify(t) \/ Claim(t) \/ Evict(t)
  PROVE  Turns(t)
<1>1. /\ task[t] \in Handler /\ Phased(task[t]) /\ sock \in [Socket -> Attachment]
      /\ task[t].op \in {"verify", "claim", "evict"}
      /\ task[t].ws \in Socket /\ task[t].id \in Identity /\ Shape
  BY DEF AllPhased, Known, Shape, TypeOK, HandlersNamed, Named, Verify, Claim, Evict, Resumes
<1>2. "undelivered" \notin Ops(task[t])
  BY <1>1 DEF Phased, Ops
<1>3. CASE Finish(t, sock, task[t].ws, "policy", Idle)
  BY <1>1, <1>2, <1>3, FinishIdleTurns
<1>4. CASE Verify(t) /\ task' = [task EXCEPT ![t].op = "claim"]
  <2> DEFINE h == [task[t] EXCEPT !.op = "claim"]
  <2>1. /\ h \in Handler /\ h.op = "claim" /\ h.cont = task[t].cont
        /\ h.ws = task[t].ws /\ h.id = task[t].id /\ h.meta = task[t].meta
    BY <1>1 DEF Handler, Awaits
  <2>2. task' = [task EXCEPT ![t] = h]
    BY <1>4
  <2> HIDE DEF h
  <2>3. task[t].op = "verify"
    BY <1>4 DEF Verify, Resumes
  <2>4. Follows(task[t], h)
    BY <1>1, <2>1, <2>3 DEF Follows, Phased, Ops
  <2>. QED  BY <2>1, <2>2, <2>4 DEF Turns
<1>5. CASE Claim(t) /\ Supplant(t, Authenticated(task[t].ws, task[t].id), Accepted)
  <2>1. Accepted \in SUBSET Socket /\ Authenticated(task[t].ws, task[t].id) \in [Socket -> Attachment]
    BY <1>1, AuthenticatedTyped DEF Accepted, Shape
  <2>2. task[t].op = "claim"
    BY <1>5 DEF Claim, Resumes
  <2>. QED  BY <1>1, <1>5, <2>1, <2>2, SupplantTurns
<1>6. CASE Evict(t)
  <2>1. task[t].rest \in SUBSET Socket /\ task[t].op = "evict" /\ Supplant(t, sock, task[t].rest)
    BY <1>1, <1>6 DEF Handler, Evict, Resumes
  <2>. QED  BY <1>1, <2>1, SupplantTurns
<1>. QED  BY <1>3, <1>4, <1>5, <1>6 DEF Verify, Claim

LEMMA SweepTurns ==
  ASSUME Known, AllPhased, NEW t \in Task, Sweep(t)
  PROVE  Turns(t)
<1> DEFINE m == task[t].meta
           due == {s \in task[t].rest : Live(s) /\ Overdue(s)}
           quiet == {s \in task[t].rest : /\ Live(s) /\ ~Overdue(s) /\ PingDue(m)
                                          /\ sock[s].phase = "authenticated" /\ ~sock[s].pinged}
           after(passed) == [s \in Socket |-> IF s \in passed \cap quiet THEN Pinged(s) ELSE sock[s]]
<1>1. /\ task[t] \in Handler /\ Phased(task[t]) /\ task[t].op = "sweep" /\ task[t].cont = "idle"
      /\ m \in Meta /\ task[t].rest \in SUBSET Socket /\ sock \in [Socket -> Attachment] /\ Shape
  BY DEF AllPhased, Phased, Known, Shape, TypeOK, Handler, Sweep, Resumes
<1>2. \A s \in Socket : Pinged(s) \in Attachment
  <2>1. now + PongTimeout \in Nat
    BY ConstantsTyped DEF Known, Shape, TypeOK
  <2>. QED  BY <1>1, <2>1 DEF Pinged, Attachment
<1>3. \A passed : after(passed) \in [Socket -> Attachment]
  BY <1>1, <1>2
<1> HIDE DEF after
<1>4. ASSUME NEW passed, NEW seen, NEW s \in task[t].rest, NEW why,
             Finish(t, after(seen), s, why, [task[t] EXCEPT !.rest = @ \ ({s} \cup passed)])
      PROVE  Turns(t)
  <2> DEFINE e == [task[t] EXCEPT !.rest = @ \ ({s} \cup passed)]
  <2>1. /\ e \in Handler /\ e.op = "sweep" /\ e.cont = "idle" /\ e.meta = task[t].meta
    BY <1>1 DEF Handler
  <2>2. Finish(t, after(seen), s, why, e) /\ s \in Socket /\ after(seen) \in [Socket -> Attachment]
    BY <1>1, <1>3, <1>4
  <2> HIDE DEF e
  <2>3. Phased(e)
    BY <2>1 DEF Phased
  <2>4. PICK h \in Handler : /\ task' = [task EXCEPT ![t] = h]
                             /\ Phased(h) /\ h.op # "accept" /\ h.meta = e.meta
                             /\ \A op \in {"undelivered", "evict", "sweep"} : op \in Ops(h) <=> op = e.op
    BY <1>1, <2>1, <2>2, <2>3, FinishTurns
  <2>5. Follows(task[t], h)
    BY <1>1, <2>1, <2>4 DEF Follows, Ops
  <2>. QED  BY <2>4, <2>5 DEF Turns
<1>5. CASE task' = [task EXCEPT ![t] = [Scheduling EXCEPT !.meta = m]]
  <2> DEFINE h == [Scheduling EXCEPT !.meta = m]
  <2>1. h \in Handler /\ h.op = "sched" /\ h.cont = "idle" /\ h.meta = m
    BY <1>1, CountersTyped DEF Idle, Scheduling, Handler, Awaits
  <2>2. task' = [task EXCEPT ![t] = h]
    BY <1>5
  <2> HIDE DEF h
  <2>3. Follows(task[t], h)
    BY <1>1, <2>1 DEF Follows, Phased, Ops
  <2>. QED  BY <2>1, <2>2, <2>3 DEF Turns
<1>6. CASE \E passed \in SUBSET (task[t].rest \ due), s \in task[t].rest :
             \/ Finish(t, after(passed), s, "timeout", [task[t] EXCEPT !.rest = @ \ ({s} \cup passed)])
             \/ Finish(t, after(passed \cup {s}), s, "unreachable",
                       [task[t] EXCEPT !.rest = @ \ ({s} \cup passed)])
  BY <1>4, <1>6
<1>. QED  BY <1>5, <1>6 DEF Sweep, after

\* The handlers that take up something new.
LEMMA FetchTurns ==
  ASSUME Known, AllPhased, NEW t \in Task, NEW ping \in Pings, Fetch(t, ping)
  PROVE  \E h \in Handler : /\ task' = [task EXCEPT ![t] = h] /\ task[t] = Idle
                            /\ Phased(h) /\ h.op = "accept" /\ h.cont = "idle" /\ h.meta = NoMeta
<1>1. task[t] = Idle
  BY DEF Fetch, Starts, AllPhased, Phased
<1> DEFINE h == [Idle EXCEPT !.op = "accept"]
<1>2. h \in Handler /\ h.op = "accept" /\ h.cont = "idle" /\ h.meta = NoMeta
  BY CountersTyped DEF Idle, Handler, Awaits, Meta, NoMeta
<1>3. task' = [task EXCEPT ![t] = h]
  BY <1>1 DEF Fetch
<1> HIDE DEF h
<1>. QED  BY <1>1, <1>2, <1>3 DEF Phased

LEMMA AlarmTurns ==
  ASSUME Known, AllPhased, NEW t \in Task, AlarmFires(t)
  PROVE  \/ UNCHANGED task
         \/ \E h \in Handler : /\ task' = [task EXCEPT ![t] = h] /\ task[t] = Idle
                               /\ meta # NoMeta /\ UNCHANGED stored
                               /\ Phased(h) /\ h.op = "sweep" /\ h.cont = "idle" /\ h.meta = meta
                               /\ h.rest = Accepted
<1>1. task[t] = Idle
  BY DEF AlarmFires, Starts, AllPhased, Phased
<1> DEFINE h == [Idle EXCEPT !.op = "sweep", !.meta = meta, !.rest = Accepted]
<1>2. h \in Handler /\ h.op = "sweep" /\ h.cont = "idle" /\ h.meta = meta /\ h.rest = Accepted
  BY CountersTyped DEF Idle, Handler, Awaits, Accepted, Known, Shape, TypeOK
<1>3. UNCHANGED task \/ (meta # NoMeta /\ UNCHANGED stored /\ task' = [task EXCEPT ![t] = h])
  BY DEF AlarmFires
<1> HIDE DEF h
<1>. QED  BY <1>1, <1>2, <1>3 DEF Phased

LEMMA DatagramTurns ==
  ASSUME Known, AllPhased, NEW t \in Task, NEW ws \in Socket, NEW dest \in Identity, Datagram(t, ws, dest)
  PROVE  \/ UNCHANGED task
         \/ \E h \in Handler : /\ task' = [task EXCEPT ![t] = h] /\ task[t] = Idle
                               /\ Phased(h) /\ h.ws = ws /\ h.meta = NoMeta
                               /\ h.op = "closed" /\ h.cont = "undelivered"
<1>1. task[t] = Idle /\ sock \in [Socket -> Attachment] /\ sock[ws].phase # "none" /\ ~sock[ws].archived
  BY DEF Datagram, Serves, Receives, Live, Accepted, Starts, AllPhased, Phased, Known, Shape, TypeOK
<1> DEFINE received == [Counted(ws) EXCEPT ![ws].n.datagram = @ + 1]
           waiting == [Idle EXCEPT !.op = "undelivered", !.ws = ws]
<1>2. UNCHANGED task \/ \E p \in Socket : /\ p # ws /\ Live(p)
                                          /\ Finish(t, received, p, "undeliverable", waiting)
  BY DEF Datagram, Routes
<1>3. ASSUME NEW p \in Socket, p # ws, Live(p), Finish(t, received, p, "undeliverable", waiting)
      PROVE  \E h \in Handler : /\ task' = [task EXCEPT ![t] = h]
                                /\ Phased(h) /\ h.ws = ws /\ h.meta = NoMeta
                                /\ h.op = "closed" /\ h.cont = "undelivered"
  <2>1. received \in [Socket -> Attachment] /\ received[p] = sock[p]
    BY <1>1, <1>3, CountedTyped DEF Counted, Attachment, Counts, Known, Shape
  <2>2. ~IsRetired(received[p])
    BY <1>3, <2>1 DEF Live, IsRetired
  <2>3. waiting \in Handler /\ waiting.op = "undelivered" /\ waiting.ws = ws /\ waiting.meta = NoMeta
    BY CountersTyped DEF Idle, Handler, Awaits, Meta, NoMeta
  <2> HIDE DEF received, waiting
  <2> DEFINE h == [waiting EXCEPT !.op = "closed", !.cont = waiting.op, !.victim = p, !.tally = received[p].n]
  <2>4. task' = [task EXCEPT ![t] = h]
    BY <1>3, <2>2 DEF Finish
  <2>5. h \in Handler /\ h.ws = ws /\ h.meta = NoMeta /\ h.op = "closed" /\ h.cont = "undelivered"
    BY <2>1, <2>3 DEF Handler, Awaits, Attachment
  <2> HIDE DEF h
  <2>. QED  BY <2>4, <2>5 DEF Phased
<1>. QED  BY <1>1, <1>2, <1>3

\* One step is the work of at most one handler.  It goes on with what it was doing, or
\* it is one of four that start or end a job of their own.
LEMMA TurnStep ==
  ASSUME Known, AllPhased, [Next]_vars
  PROVE  \/ UNCHANGED task
         \/ Restart
         \/ \E t \in Task : /\ MayRun(t)
                            /\ \/ Turns(t)
                               \/ \E ping \in Pings : Fetch(t, ping)
                               \/ AlarmFires(t)
                               \/ Undelivered(t)
                               \/ \E ws \in Socket, dest \in Identity : Datagram(t, ws, dest)
<1>1. ASSUME NEW t \in Task, Continue(t), ~Undelivered(t) PROVE Turns(t)
  BY <1>1, StorageTurns, AuthorizeTurns, SweepTurns DEF Continue
<1>2. ASSUME NEW t \in Task, NEW ws \in Socket, Message(t, ws) \/ webSocketClose(t, ws)
      PROVE  UNCHANGED task \/ Turns(t) \/ \E dest \in Identity : Datagram(t, ws, dest)
  BY <1>2, MessageTurns DEF Message, Ping
<1>4. ASSUME NEW t \in Task, \/ Continue(t) \/ AlarmFires(t) \/ \E ping \in Pings : Fetch(t, ping)
                             \/ \E ws \in Socket : Message(t, ws) \/ webSocketClose(t, ws)
      PROVE  MayRun(t)
  <2>1. CASE Continue(t)
    BY <2>1 DEF Continue, Accept, Schedule, Closed, Undelivered, Verify, Claim, Evict, Confirm, Sweep, Resumes
  <2>2. ASSUME NEW ws \in Socket, Message(t, ws) \/ webSocketClose(t, ws) PROVE MayRun(t)
    BY <2>2 DEF Message, Refuse, Ping, Pong, Authorize, Datagram, webSocketClose, Serves, Receives, Starts
  <2>. QED  BY <1>4, <2>1, <2>2 DEF AlarmFires, Fetch, Starts
<1>3. (\E ws \in Socket : Disconnect(ws)) \/ Tick \/ UNCHANGED vars => UNCHANGED task
  BY DEF Disconnect, Tick, vars
<1>. QED  BY <1>1, <1>2, <1>3, <1>4 DEF Next

LEMMA PhasedStep == Known /\ AllPhased /\ [Next]_vars => AllPhased'
<1> SUFFICES ASSUME Known, AllPhased, [Next]_vars PROVE AllPhased'
  OBVIOUS
<1>1. task \in [Task -> Handler]
  BY DEF Known, Shape, TypeOK
<1>2. ASSUME NEW t \in Task, NEW h, task' = [task EXCEPT ![t] = h], Phased(h)
      PROVE  AllPhased'
  BY <1>1, <1>2 DEF AllPhased
<1>3. CASE Restart
  BY <1>3, IdlePhased DEF Restart, AllPhased
<1>4. ASSUME NEW t \in Task, Turns(t) PROVE AllPhased'
  BY <1>2, <1>4 DEF Turns, Follows
<1>5. ASSUME NEW t \in Task, Undelivered(t) PROVE AllPhased'
  BY <1>2, <1>5, IdlePhased DEF Undelivered
<1>6. CASE UNCHANGED task
  BY <1>6 DEF AllPhased
<1>7. ASSUME NEW t \in Task, \/ \E ping \in Pings : Fetch(t, ping)
                             \/ AlarmFires(t)
                             \/ \E ws \in Socket, dest \in Identity : Datagram(t, ws, dest)
      PROVE  AllPhased'
  BY <1>2, <1>6, <1>7, FetchTurns, AlarmTurns, DatagramTurns
<1>. QED  BY <1>3, <1>4, <1>5, <1>6, <1>7, TurnStep

-----------------------------------------------------------------------------
(* The life of the room's storage. *)

\* A stored meta record has a ping period, so no write can bring the record back once
\* it is deleted; while an alarm handler works, the record is there; and before the
\* first upgrade of a room there is no socket and no handler.
RoomBegun ==
  /\ meta # NoMeta => meta.ping # 0
  /\ \A t \in Task : task[t].meta # NoMeta => task[t].meta.ping # 0 /\ meta # NoMeta
  /\ \A t \in Task : "sweep" \in Ops(task[t]) => task[t].meta # NoMeta
  /\ meta = NoMeta /\ now < Expires => Accepted = {} /\ \A t \in Task : task[t].op = "idle"

\* What a step may do to the record: the first upgrade writes it, the alarm deletes it
\* after the room, everything else keeps it and its period.
LEMMA MetaStep ==
  ASSUME Known, AllPhased, RoomBegun, [Next]_vars
  PROVE  \/ UNCHANGED meta
         \/ /\ meta = NoMeta /\ now < Expires /\ meta' # NoMeta /\ meta'.ping # 0
            /\ UNCHANGED <<now, sock, identities>>
         \/ meta # NoMeta /\ meta' # NoMeta /\ meta'.ping # 0
         \/ /\ meta # NoMeta /\ meta' = NoMeta /\ now >= Expires + Linger /\ UNCHANGED <<now, sock, task>>
            /\ \A t \in Task : task[t].meta = NoMeta
<1>0. meta \in Meta /\ \A t \in Task : task[t].meta \in Meta
  BY DEF Known, Shape, TypeOK, Handler
<1>1. ASSUME NEW t \in Task, Confirm(t), meta' # meta
      PROVE  meta # NoMeta /\ meta' # NoMeta /\ meta'.ping # 0
  <2>1. meta # NoMeta /\ meta' = [meta EXCEPT !.next_ping = now + meta.ping]
    BY <1>1 DEF Confirm
  <2>2. meta'.ping = meta.ping
    BY <1>0, <2>1 DEF Meta
  <2>. QED  BY <2>1, <2>2 DEF RoomBegun, NoMeta
<1>2. ASSUME NEW t \in Task, Sweep(t), meta' # meta
      PROVE  meta # NoMeta /\ meta' # NoMeta /\ meta'.ping # 0
  <2> DEFINE m == task[t].meta
  <2>1. task[t].op = "sweep" /\ (meta' = m \/ meta' = [m EXCEPT !.next_ping = now + m.ping])
    BY <1>2 DEF Sweep, Resumes
  <2>2. m # NoMeta /\ m.ping # 0 /\ meta # NoMeta
    BY <2>1 DEF RoomBegun, Ops
  <2>3. meta'.ping = m.ping
    BY <1>0, <2>1 DEF Meta
  <2>. QED  BY <2>2, <2>3 DEF NoMeta
<1>3. ASSUME NEW t \in Task, NEW ping \in Pings, Fetch(t, ping), meta' # meta
      PROVE  /\ meta = NoMeta /\ now < Expires /\ meta' # NoMeta /\ meta'.ping # 0
             /\ UNCHANGED <<now, sock, identities>>
  <2>1. meta = NoMeta /\ meta' = [ping |-> ping, next_ping |-> 0] /\ ping # 0
    BY <1>3, ConstantsAssumption DEF Fetch
  <2>2. meta'.ping # 0
    BY <2>1
  <2>. QED  BY <1>3, <2>1, <2>2 DEF Fetch, NoMeta
<1>4. ASSUME NEW t \in Task, AlarmFires(t), meta' # meta
      PROVE  /\ meta # NoMeta /\ meta' = NoMeta /\ now >= Expires + Linger /\ UNCHANGED <<now, sock, task>>
             /\ \A u \in Task : task[u].meta = NoMeta
  BY <1>4 DEF AlarmFires, AlarmRunning, stored
<1>5. ASSUME NEW t \in Task, Continue(t), ~Confirm(t), ~Sweep(t) PROVE UNCHANGED meta
  BY <1>5 DEF Continue, Accept, Schedule, Closed, Undelivered, Verify, Claim, Evict, stored
<1>6. ASSUME NEW t \in Task, NEW ws \in Socket, Message(t, ws) \/ webSocketClose(t, ws) PROVE UNCHANGED meta
  BY <1>6 DEF Message, Refuse, Ping, Pong, Authorize, Datagram, webSocketClose, stored
<1>7. (\E ws \in Socket : Disconnect(ws)) \/ Restart \/ Tick \/ UNCHANGED vars => UNCHANGED meta
  BY DEF Disconnect, Restart, Tick, vars, stored
<1>. QED  BY <1>1, <1>2, <1>3, <1>4, <1>5, <1>6, <1>7 DEF Next

LEMMA ClockStep == Known /\ [Next]_vars => now' >= now
<1>1. Known => now \in Nat
  BY DEF Known, Shape, TypeOK
<1>2. Tick => now' = now + 1
  BY DEF Tick
<1>3. ASSUME NEW t \in Task, Continue(t) PROVE UNCHANGED now
  BY <1>3 DEF Continue, Accept, Schedule, Closed, Undelivered, Verify, Claim, Evict, Confirm, Sweep
<1>4. ASSUME NEW t \in Task, NEW ws \in Socket, Message(t, ws) \/ webSocketClose(t, ws) PROVE UNCHANGED now
  BY <1>4 DEF Message, Refuse, Ping, Pong, Authorize, Datagram, webSocketClose
<1>5. ASSUME NEW t \in Task, AlarmFires(t) \/ \E ping \in Pings : Fetch(t, ping) PROVE UNCHANGED now
  BY <1>5 DEF AlarmFires, Fetch
<1>6. (\E ws \in Socket : Disconnect(ws)) \/ Restart \/ UNCHANGED vars => UNCHANGED now
  BY DEF Disconnect, Restart, vars
<1>7. [Next]_vars => UNCHANGED now \/ now' = now + 1
  BY <1>2, <1>3, <1>4, <1>5, <1>6 DEF Next
<1>. QED  BY <1>1, <1>7

\* Before the first upgrade nothing but the upgrade happens to the room.
LEMMA UnbegunStep ==
  ASSUME Accepted = {}, \A t \in Task : task[t].op = "idle", meta = NoMeta, meta' = NoMeta, [Next]_vars
  PROVE  Accepted' = {} /\ \A t \in Task : task'[t].op = "idle"
<1>1. ASSUME NEW t \in Task, Continue(t) PROVE FALSE
  BY <1>1 DEF Continue, Accept, Schedule, Closed, Undelivered, Verify, Claim, Evict, Confirm, Sweep, Resumes
<1>2. ASSUME NEW t \in Task, NEW ws \in Socket, Message(t, ws) \/ webSocketClose(t, ws) PROVE FALSE
  BY <1>2 DEF Message, Refuse, Ping, Pong, Authorize, Datagram, webSocketClose, Serves, Receives, Live
<1>3. ASSUME NEW t \in Task, NEW ping \in Pings, Fetch(t, ping) PROVE FALSE
  <2>1. meta' = [ping |-> ping, next_ping |-> 0] /\ ping # 0
    BY <1>3, ConstantsAssumption DEF Fetch
  <2>. QED  BY <2>1 DEF NoMeta
<1>4. ASSUME NEW t \in Task, AlarmFires(t) PROVE UNCHANGED <<sock, task>>
  BY <1>4 DEF AlarmFires
<1>5. CASE Restart
  BY <1>5, IdleTyped DEF Restart, Accepted
<1>6. (\E ws \in Socket : Disconnect(ws)) \/ Tick \/ UNCHANGED vars => UNCHANGED <<sock, task>>
  BY DEF Disconnect, Tick, vars
<1>7. UNCHANGED <<sock, task>> \/ Restart
  BY <1>1, <1>2, <1>3, <1>4, <1>6 DEF Next
<1>. QED  BY <1>5, <1>7 DEF Accepted

LEMMA RoomBegunStep == Known /\ AllPhased /\ RoomBegun /\ [Next]_vars => RoomBegun'
<1> SUFFICES ASSUME Known, AllPhased, RoomBegun, [Next]_vars PROVE RoomBegun'
  OBVIOUS
<1> DEFINE Kept == /\ \A u \in Task : task'[u].meta # NoMeta => task'[u].meta.ping # 0 /\ meta' # NoMeta
                   /\ \A u \in Task : "sweep" \in Ops(task'[u]) => task'[u].meta # NoMeta
<1>1. meta' # NoMeta => meta'.ping # 0
  BY MetaStep DEF RoomBegun
<1>2. task \in [Task -> Handler]
  BY DEF Known, Shape, TypeOK
<1>3. meta' = NoMeta /\ now' < Expires => Accepted' = {} /\ \A t \in Task : task'[t].op = "idle"
  <2> SUFFICES ASSUME meta' = NoMeta, now' < Expires PROVE Accepted' = {} /\ \A t \in Task : task'[t].op = "idle"
    OBVIOUS
  <2>1. now \in Nat /\ now' \in Nat /\ Expires \in Nat /\ Linger \in Nat
    BY NextShape, ConstantsTyped DEF Known, Shape, TypeOK
  <2>2. now < Expires /\ ~(now >= Expires + Linger)
    BY <2>1, ClockStep
  <2>3. meta = NoMeta
    BY <2>2, MetaStep
  <2>. QED  BY <2>2, <2>3, UnbegunStep DEF RoomBegun
<1>4. ASSUME UNCHANGED task PROVE Kept
  <2>1. \A u \in Task : task[u].meta # NoMeta => meta' # NoMeta
    BY MetaStep DEF RoomBegun
  <2>. QED  BY <1>4, <2>1 DEF RoomBegun
<1>5. ASSUME task' # task PROVE Kept
  <2>1. meta # NoMeta => meta' # NoMeta
    BY <1>5, MetaStep
  <2>2. ASSUME NEW t \in Task, NEW h, task' = [task EXCEPT ![t] = h],
               h.meta # NoMeta => h.meta.ping # 0 /\ meta # NoMeta,
               "sweep" \in Ops(h) => h.meta # NoMeta
        PROVE  Kept
    BY <1>2, <2>1, <2>2 DEF RoomBegun
  <2>3. CASE Restart
    <3>1. \A u \in Task : task'[u] = Idle
      BY <2>3 DEF Restart
    <3>2. "sweep" \notin Ops(Idle) /\ Idle.meta = NoMeta
      BY IdlePhased
    <3>3. \A u \in Task : task'[u].meta = NoMeta /\ Ops(task'[u]) = Ops(Idle)
      BY <3>1, <3>2
    <3>. QED  BY <3>2, <3>3
  <2>4. ASSUME NEW t \in Task, Turns(t)
        PROVE  Kept
    <3>1. PICK h \in Handler : task' = [task EXCEPT ![t] = h] /\ Follows(task[t], h)
      BY <2>4 DEF Turns
    <3>2. /\ h.meta # NoMeta => h.meta.ping # 0 /\ meta # NoMeta
          /\ "sweep" \in Ops(h) => h.meta # NoMeta
      BY <3>1 DEF Follows, RoomBegun
    <3>. QED  BY <2>2, <3>1, <3>2
  <2>5. ASSUME NEW t \in Task, NEW h \in Handler, task' = [task EXCEPT ![t] = h], "sweep" \notin Ops(h),
               h.meta = NoMeta
        PROVE  Kept
    BY <2>2, <2>5
  <2>6. ASSUME NEW t \in Task, Undelivered(t)
        PROVE  Kept
    <3>1. \E h \in Handler : task' = [task EXCEPT ![t] = h] /\ "sweep" \notin Ops(h) /\ h.meta = NoMeta
      BY <2>6, IdlePhased, IdleTyped DEF Undelivered
    <3>. QED  BY <2>5, <3>1
  <2>7. ASSUME NEW t \in Task, NEW ping \in Pings, Fetch(t, ping)
        PROVE  Kept
    <3>1. \E h \in Handler : task' = [task EXCEPT ![t] = h] /\ "sweep" \notin Ops(h) /\ h.meta = NoMeta
      BY <2>7, FetchTurns DEF Ops
    <3>. QED  BY <2>5, <3>1
  <2>8. ASSUME NEW t \in Task, NEW ws \in Socket, NEW dest \in Identity, Datagram(t, ws, dest)
        PROVE  Kept
    <3>1. \E h \in Handler : task' = [task EXCEPT ![t] = h] /\ "sweep" \notin Ops(h) /\ h.meta = NoMeta
      BY <1>5, <2>8, DatagramTurns DEF Ops
    <3>. QED  BY <2>5, <3>1
  <2>9. ASSUME NEW t \in Task, AlarmFires(t)
        PROVE  Kept
    <3>1. PICK h \in Handler : task' = [task EXCEPT ![t] = h] /\ meta # NoMeta /\ h.meta = meta
      BY <1>5, <2>9, AlarmTurns
    <3>2. h.meta.ping # 0
      BY <3>1 DEF RoomBegun
    <3>. QED  BY <2>2, <3>1, <3>2
  <2>. QED  BY <1>5, <2>3, <2>4, <2>6, <2>7, <2>8, <2>9, TurnStep
<1>6. Kept => /\ \A t \in Task : task'[t].meta # NoMeta => task'[t].meta.ping # 0 /\ meta' # NoMeta
              /\ \A t \in Task : "sweep" \in Ops(task'[t]) => task'[t].meta # NoMeta
  OBVIOUS
<1>. QED  BY <1>1, <1>3, <1>4, <1>5, <1>6 DEF RoomBegun, Ops

Orderly == Known /\ AllPhased /\ RoomBegun

LEMMA AlwaysOrderly == Spec => []Orderly
<1>1. Init => AllPhased /\ RoomBegun
  <2>1. Init => AllPhased
    BY IdlePhased DEF Init, AllPhased
  <2>2. ASSUME Init PROVE RoomBegun
    <3>1. \A t \in Task : task[t] = Idle
      BY <2>2 DEF Init
    <3>2. "sweep" \notin Ops(Idle) /\ Idle.meta = NoMeta /\ Idle.op = "idle"
      BY IdlePhased, IdleTyped
    <3>3. \A t \in Task : task[t].meta = NoMeta /\ Ops(task[t]) = Ops(Idle) /\ task[t].op = "idle"
      BY <3>1, <3>2
    <3>4. meta = NoMeta /\ Accepted = {}
      BY <2>2 DEF Init, Accepted, Unused
    <3>. QED  BY <3>2, <3>3, <3>4 DEF RoomBegun
  <2>. QED  BY <2>1, <2>2
<1>2. AllPhased /\ RoomBegun /\ Known /\ [Next]_vars => AllPhased' /\ RoomBegun'
  BY PhasedStep, RoomBegunStep
<1>. QED  BY <1>1, <1>2, AlwaysKnown, PTL DEF Spec, Orderly

-----------------------------------------------------------------------------
(* The identities of the room. *)

LEMMA IdentitiesStep ==
  ASSUME [Next]_vars
  PROVE  \/ UNCHANGED identities
         \/ \E id : Allowed(id) /\ identities' = identities \cup {id}
         \/ identities' = {} /\ meta' = NoMeta
<1>1. ASSUME NEW t \in Task, Claim(t)
      PROVE  UNCHANGED identities \/ \E id : Allowed(id) /\ identities' = identities \cup {id}
  BY <1>1 DEF Claim
<1>2. ASSUME NEW t \in Task, AlarmFires(t) PROVE UNCHANGED identities \/ (identities' = {} /\ meta' = NoMeta)
  BY <1>2 DEF AlarmFires, stored
<1>3. ASSUME NEW t \in Task, Continue(t), ~Claim(t) PROVE UNCHANGED identities
  BY <1>3 DEF Continue, Accept, Schedule, Closed, Undelivered, Verify, Evict, Confirm, Sweep, stored
<1>4. ASSUME NEW t \in Task, NEW ws \in Socket, Message(t, ws) \/ webSocketClose(t, ws) PROVE UNCHANGED identities
  BY <1>4 DEF Message, Refuse, Ping, Pong, Authorize, Datagram, webSocketClose, stored
<1>5. ASSUME NEW t \in Task, NEW ping \in Pings, Fetch(t, ping) PROVE UNCHANGED identities
  BY <1>5 DEF Fetch
<1>6. (\E ws \in Socket : Disconnect(ws)) \/ Restart \/ Tick \/ UNCHANGED vars => UNCHANGED identities
  BY DEF Disconnect, Restart, Tick, vars, stored
<1>. QED  BY <1>1, <1>2, <1>3, <1>4, <1>5, <1>6 DEF Next

LEMMA RegisteredStep == Orderly /\ RegisteredIdentities /\ [Next]_vars => RegisteredIdentities'
<1> SUFFICES ASSUME Orderly, RegisteredIdentities, [Next]_vars PROVE RegisteredIdentities'
  OBVIOUS
<1> USE DEF Orderly
<1>1. Cardinality(identities') <= MaxIdentities
  <2>1. 0 <= MaxIdentities /\ Cardinality({}) = 0
    BY ConstantsAssumption, FS_EmptySet
  <2>. QED  BY <2>1, IdentitiesStep DEF Allowed, RegisteredIdentities
<1>2. ASSUME meta' # NoMeta, NEW s \in Socket, Live(s)', sock'[s].phase = "authenticated"
      PROVE  sock'[s].id \in identities'
  <2>1. identities \subseteq identities'
    BY <1>2, IdentitiesStep
  <2>2. CASE meta = NoMeta
    <3>1. now < Expires /\ UNCHANGED sock
      BY <1>2, <2>2, MetaStep
    <3>2. Accepted = {}
      BY <2>2, <3>1 DEF RoomBegun
    <3>. QED  BY <1>2, <3>1, <3>2 DEF Live, Accepted
  <2>3. CASE meta # NoMeta /\ (Tame(sock, sock') \/ Replaces(sock, sock'))
    <3>1. Live(s) /\ sock[s].phase = "authenticated" /\ sock'[s].id = sock[s].id
      BY <1>2, <2>3 DEF Tame, Replaces, Live, Accepted
    <3>. QED  BY <2>1, <2>3, <3>1 DEF RegisteredIdentities
  <2>4. ASSUME meta # NoMeta, NEW ws \in Socket, NEW id \in Identity, Takes(ws, id)
        PROVE  sock'[s].id \in identities'
    <3> DEFINE socks == Authenticated(ws, id)
    <3>1. /\ socks[ws].id = id
          /\ \A r \in Socket : socks[r].archived = sock[r].archived /\ (r # ws => socks[r] = sock[r])
      BY AuthenticatedFields DEF Known, Shape
    <3> HIDE DEF socks
    <3>2. id \in identities' /\ (sock' = socks \/ \E v \in Socket : Retiring(socks, sock', v))
      BY <2>4 DEF Takes, Predecessors, Accepted, socks
    <3>3. CASE s = ws
      BY <3>1, <3>2, <3>3 DEF Retiring
    <3>4. CASE s # ws
      <4>1. Live(s) /\ sock[s].phase = "authenticated" /\ sock'[s].id = sock[s].id
        BY <1>2, <3>1, <3>2, <3>4 DEF Retiring, Live, Accepted
      <4>. QED  BY <2>1, <2>4, <4>1 DEF RegisteredIdentities
    <3>. QED  BY <3>3, <3>4
  <2>. QED  BY <2>2, <2>3, <2>4, StepTame
<1>. QED  BY <1>1, <1>2 DEF RegisteredIdentities

\* At most MaxIdentities identities in the life of a room, and no socket is routed under
\* another one, whichever first authentications race for the last place and in whatever
\* order a restart, an expiry or the deletion of the storage comes between: the check and
\* the insertion are one transaction (iroh-relay.js:75-84).
THEOREM IdentitiesRegistered == Spec => []RegisteredIdentities
<1>1. Init => RegisteredIdentities
  <2>1. 0 <= MaxIdentities /\ Cardinality({}) = 0
    BY ConstantsAssumption, FS_EmptySet
  <2>. QED  BY <2>1 DEF Init, RegisteredIdentities
<1>. QED  BY <1>1, AlwaysOrderly, RegisteredStep, PTL DEF Spec

=============================================================================
