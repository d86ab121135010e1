-------------------------- MODULE IrohRelayAwaits --------------------------
(***************************************************************************)
(* What the handlers of the relay object may rely on across their awaits,  *)
(* for any number of sockets, identities and handlers.  The counts of the  *)
(* datagrams and the ledger of the closed sockets hold whatever comes in   *)
(* between; the limit of open sockets, the successor of a superseded       *)
(* socket and the alarm rest on input gates, and without them TLC refutes  *)
(* each of the three.                                                      *)
(***************************************************************************)
EXTENDS IrohRelayProofs

-----------------------------------------------------------------------------
(* What most steps leave alone: no socket is opened, no datagram is counted, *)
(* nobody is told that the identity reconnected.                             *)

Still(old, new) ==
  \A s \in Socket :
    /\ old[s].phase = "none" => new[s].phase = "none"
    /\ new[s].open => old[s].open
    /\ new[s].n.datagram = old[s].n.datagram
    /\ new[s].n.forwarded = old[s].n.forwarded
    /\ new[s].n.dropped = old[s].n.dropped

Polite(old, new) ==
  \A s \in Socket : new[s].reason = "superseded" => old[s].reason = "superseded"

Steady(old, new) == Still(old, new) /\ Polite(old, new)

LEMMA SteadyStutter == \A socks : Steady(socks, socks)
BY DEF Steady, Still, Polite

LEMMA FinishSteady ==
  ASSUME NEW t \in Task, NEW socks \in [Socket -> Attachment], NEW v \in Socket,
         NEW why, NEW after, Finish(t, socks, v, why, after), Still(sock, socks)
  PROVE  /\ Still(sock, sock')
         /\ Polite(sock, socks) /\ why # "superseded" => Polite(sock, sock')
<1>1. CASE IsRetired(socks[v])
  BY <1>1 DEF Finish
<1>2. CASE ~IsRetired(socks[v])
  <2>1. sock' = [socks EXCEPT ![v].archived = TRUE, ![v].reason = why]
    BY <1>2 DEF Finish
  <2>2. \A s \in Socket : /\ sock'[s].phase = socks[s].phase /\ sock'[s].open = socks[s].open
                          /\ sock'[s].n = socks[s].n
                          /\ s # v => sock'[s].reason = socks[s].reason
                          /\ s = v => sock'[s].reason = why
    BY <2>1 DEF Attachment
  <2>. QED  BY <2>2 DEF Still, Polite
<1>. QED  BY <1>1, <1>2

LEMMA CountedSteady ==
  ASSUME Known, NEW ws \in Socket
  PROVE  Counted(ws) \in [Socket -> Attachment] /\ Steady(sock, Counted(ws))
<1>1. sock \in [Socket -> Attachment]
  BY DEF Known, Shape, TypeOK
<1>2. \A s \in Socket : /\ Counted(ws)[s].phase = sock[s].phase /\ Counted(ws)[s].open = sock[s].open
                        /\ Counted(ws)[s].reason = sock[s].reason
                        /\ Counted(ws)[s].n.datagram = sock[s].n.datagram
                        /\ Counted(ws)[s].n.forwarded = sock[s].n.forwarded
                        /\ Counted(ws)[s].n.dropped = sock[s].n.dropped
  BY <1>1 DEF Counted, Attachment, Counts
<1>. QED  BY <1>2, CountedTyped DEF Steady, Still, Polite, Known, Shape

LEMMA AuthenticatedSteady ==
  ASSUME Known, NEW ws \in Socket, NEW id \in Identity, sock[ws].phase = "verifying"
  PROVE  Steady(sock, Authenticated(ws, id))
<1> DEFINE a == [sock[ws] EXCEPT !.id = id, !.phase = "authenticated", !.deadline = 0]
<1>1. Authenticated(ws, id) = [sock EXCEPT ![ws] = a] /\ sock \in [Socket -> Attachment]
  BY DEF Authenticated, Known, Shape, TypeOK
<1>2. a.open = sock[ws].open /\ a.reason = sock[ws].reason /\ a.n = sock[ws].n
  BY <1>1 DEF Attachment
<1> HIDE DEF a
<1>. QED  BY <1>1, <1>2 DEF Steady, Still, Polite

LEMMA StorageSteady ==
  ASSUME Known, NEW t \in Task,
         \/ Closed(t) \/ Schedule(t) \/ Confirm(t) \/ AlarmFires(t) \/ Verify(t)
         \/ \E ping \in Pings : Fetch(t, ping)
  PROVE  Steady(sock, sock')
<1>1. sock \in [Socket -> Attachment] /\ HandlersNamed
  BY DEF Known, Shape, TypeOK
<1>2. CASE UNCHANGED sock
  BY <1>2, SteadyStutter
<1>3. CASE (Confirm(t) \/ Verify(t)) /\ Finish(t, sock, task[t].ws, "policy", Idle)
  <2>1. task[t].ws \in Socket
    BY <1>1, <1>3 DEF HandlersNamed, Named, Confirm, Verify, Resumes
  <2>. QED  BY <1>1, <1>3, <2>1, FinishSteady, SteadyStutter DEF Steady
<1>. QED  BY <1>2, <1>3 DEF Closed, Schedule, Confirm, AlarmFires, Verify, Fetch

LEMMA MessageSteady ==
  ASSUME Known, NEW t \in Task, NEW ws \in Socket,
         \/ Refuse(t, ws) \/ Ping(t, ws) \/ Pong(t, ws) \/ webSocketClose(t, ws)
         \/ \E id \in Identity : Authorize(t, ws, id)
  PROVE  Steady(sock, sock')
<1>1. /\ sock \in [Socket -> Attachment] /\ Counted(ws) \in [Socket -> Attachment]
      /\ Steady(sock, Counted(ws)) /\ Steady(sock, sock)
  BY CountedSteady, SteadyStutter DEF Known, Shape, TypeOK
<1>2. CASE Refuse(t, ws) \/ webSocketClose(t, ws)
  <2>1. PICK socks \in {sock, Counted(ws)}, why \in {"policy", "closed"} : Finish(t, socks, ws, why, Idle)
    BY <1>2 DEF Refuse, webSocketClose
  <2>. QED  BY <1>1, <2>1, FinishSteady DEF Steady
<1>3. CASE Ping(t, ws)
  BY <1>1, <1>3 DEF Ping
<1>4. CASE Pong(t, ws)
  <2>1. sock' = [Counted(ws) EXCEPT ![ws].pinged = FALSE, ![ws].deadline = 0]
    BY <1>4 DEF Pong
  <2>2. \A s \in Socket : /\ sock'[s].phase = Counted(ws)[s].phase /\ sock'[s].open = Counted(ws)[s].open
                          /\ sock'[s].n = Counted(ws)[s].n /\ sock'[s].reason = Counted(ws)[s].reason
    BY <1>1, <2>1 DEF Attachment
  <2>. QED  BY <1>1, <2>2 DEF Steady, Still, Polite
<1>5. ASSUME NEW id \in Identity, Authorize(t, ws, id) PROVE Steady(sock, sock')
  <2>1. sock' = [Counted(ws) EXCEPT ![ws].phase = "verifying"] /\ sock[ws].phase = "challenge"
    BY <1>5 DEF Authorize
  <2>2. \A s \in Socket : /\ sock'[s].open = Counted(ws)[s].open
                          /\ s # ws => sock'[s].phase = Counted(ws)[s].phase
                          /\ sock'[s].n = Counted(ws)[s].n /\ sock'[s].reason = Counted(ws)[s].reason
    BY <1>1, <2>1 DEF Attachment
  <2>. QED  BY <1>1, <2>1, <2>2 DEF Steady, Still, Polite
<1>. QED  BY <1>2, <1>3, <1>4, <1>5

LEMMA SweepSteady ==
  ASSUME Known, NEW t \in Task, Sweep(t)
  PROVE  Steady(sock, sock')
<1> DEFINE m == task[t].meta
           due == {s \in task[t].rest : Live(s) /\ Overdue(s)}
           quiet == {s \in task[t].rest : /\ Live(s) /\ ~Overdue(s) /\ PingDue(m)
                                          /\ sock[s].phase = "authenticated" /\ ~sock[s].pinged}
           after(passed) == [s \in Socket |-> IF s \in passed \cap quiet THEN Pinged(s) ELSE sock[s]]
<1>1. sock \in [Socket -> Attachment] /\ task[t].rest \in SUBSET Socket
  BY DEF Known, Shape, TypeOK, Handler
<1>2. \A s \in Socket : /\ Pinged(s) \in Attachment
                        /\ Pinged(s).phase = sock[s].phase /\ Pinged(s).open = sock[s].open
                        /\ Pinged(s).reason = sock[s].reason /\ Pinged(s).n = sock[s].n
  <2>1. now + PongTimeout \in Nat
    BY ConstantsTyped DEF Known, Shape, TypeOK
  <2>. QED  BY <1>1, <2>1 DEF Pinged, Attachment
<1>3. ASSUME NEW passed PROVE after(passed) \in [Socket -> Attachment] /\ Steady(sock, after(passed))
  BY <1>1, <1>2 DEF Steady, Still, Polite
<1> HIDE DEF after
<1>4. CASE sock' = after(quiet)
  BY <1>3, <1>4
<1>5. ASSUME NEW passed, NEW s \in task[t].rest, NEW h, NEW why \in {"timeout", "unreachable"},
             Finish(t, after(passed), s, why, h)
      PROVE  Steady(sock, sock')
  BY <1>1, <1>3, <1>5, FinishSteady DEF Steady
<1>6. CASE \E passed \in SUBSET (task[t].rest \ due), s \in task[t].rest :
             \/ Finish(t, after(passed), s, "timeout", [task[t] EXCEPT !.rest = @ \ ({s} \cup passed)])
             \/ Finish(t, after(passed \cup {s}), s, "unreachable",
                       [task[t] EXCEPT !.rest = @ \ ({s} \cup passed)])
  BY <1>5, <1>6
<1>. QED  BY <1>4, <1>6 DEF Sweep, after

\* The claim and the eviction tell only predecessors that the identity reconnected.
LEMMA SupplantSteady ==
  ASSUME Shape, NEW t \in Task, NEW socks \in [Socket -> Attachment], NEW rest \in SUBSET Socket,
         task[t].op \in {"claim", "evict"}, Supplant(t, socks, rest), Steady(sock, socks)
  PROVE  LET old == Predecessors(socks, rest, task[t].ws, task[t].id)
         IN  Still(sock, sock') /\ (old = {} => Polite(sock, sock'))
<1> DEFINE old == Predecessors(socks, rest, task[t].ws, task[t].id)
<1>1. task[t].ws \in Socket /\ old \subseteq Socket
  BY DEF Shape, HandlersNamed, Named, Predecessors
<1>2. \/ \E s \in old : \E after : Finish(t, socks, s, "superseded", after)
      \/ old = {} /\ Finish(t, socks, task[t].ws, "policy", Idle)
      \/ old = {} /\ sock' = socks
  <2>1. ASSUME NEW s \in old, NEW after, Finish(t, socks, s, "superseded", after)
        PROVE  \E r \in old : \E h : Finish(t, socks, r, "superseded", h)
    BY <2>1
  <2>. QED  BY <2>1 DEF Supplant
<1> HIDE DEF old
<1>3. ASSUME NEW s \in old, NEW after, Finish(t, socks, s, "superseded", after)
      PROVE  Still(sock, sock') /\ old # {}
  <2>1. s \in Socket /\ Still(sock, socks)
    BY <1>1 DEF Steady
  <2>. QED  BY <1>3, <2>1, FinishSteady
<1>. QED  BY <1>1, <1>2, <1>3, FinishSteady DEF Steady, old

LEMMA ClaimSteady ==
  ASSUME Known, NEW t \in Task, Claim(t) \/ Evict(t)
  PROVE  Still(sock, sock')
<1>1. /\ sock \in [Socket -> Attachment] /\ Shape /\ Steady(sock, sock) /\ task[t].op \in {"claim", "evict"}
      /\ task[t].ws \in Socket /\ task[t].id \in Identity /\ task[t] \in Handler
  BY SteadyStutter DEF Known, Shape, TypeOK, HandlersNamed, Named, Claim, Evict, Resumes
<1>2. CASE Claim(t)
  <2>1. sock[task[t].ws].phase = "verifying"
    BY <1>2 DEF Known, HandlersServe, Signs, SignOps, Claim, Resumes
  <2>2. /\ Authenticated(task[t].ws, task[t].id) \in [Socket -> Attachment]
        /\ Steady(sock, Authenticated(task[t].ws, task[t].id)) /\ Accepted \in SUBSET Socket
    BY <1>1, <2>1, AuthenticatedTyped, AuthenticatedSteady DEF Shape, Accepted
  <2>3. Finish(t, sock, task[t].ws, "policy", Idle) \/ Supplant(t, Authenticated(task[t].ws, task[t].id), Accepted)
    BY <1>2 DEF Claim
  <2>. QED  BY <1>1, <2>2, <2>3, FinishSteady, SupplantSteady DEF Steady
<1>3. CASE Evict(t)
  <2>1. task[t].rest \in SUBSET Socket
    BY <1>1 DEF Handler
  <2>. QED  BY <1>1, <1>3, <2>1, SupplantSteady DEF Evict
<1>. QED  BY <1>2, <1>3

LEMMA EnvironmentSteady ==
  ASSUME Known, \/ \E ws \in Socket : Disconnect(ws)
                \/ Restart \/ Tick \/ UNCHANGED vars
  PROVE  Steady(sock, sock')
<1>1. sock \in [Socket -> Attachment]
  BY DEF Known, Shape, TypeOK
<1>2. ASSUME NEW ws \in Socket, Disconnect(ws) PROVE Steady(sock, sock')
  <2>1. sock' = [sock EXCEPT ![ws].open = FALSE]
    BY <1>2 DEF Disconnect
  <2>. QED  BY <1>1, <2>1 DEF Steady, Still, Polite, Attachment
<1>3. CASE Restart
  <2>1. \A s \in Socket : sock'[s] = sock[s] \/ (s \in Accepted /\ sock'[s] = [sock[s] EXCEPT !.phase = "lost", !.open = FALSE])
    BY <1>3 DEF Restart
  <2>2. \A s \in Socket : LET a == [sock[s] EXCEPT !.phase = "lost", !.open = FALSE]
                          IN  ~a.open /\ a.n = sock[s].n /\ a.reason = sock[s].reason
    BY <1>1 DEF Attachment
  <2>3. \A s \in Accepted : sock[s].phase # "none"
    BY DEF Accepted
  <2>. QED  BY <2>1, <2>2, <2>3 DEF Steady, Still, Polite
<1>4. CASE Tick \/ UNCHANGED vars
  BY <1>4, SteadyStutter DEF Tick, vars
<1>. QED  BY <1>2, <1>3, <1>4

LEMMA SteadyStep ==
  ASSUME Known, [Next]_vars
  PROVE  \/ Steady(sock, sock')
         \/ \E t \in Task : \/ Accept(t) \/ Undelivered(t)
                            \/ Claim(t) /\ Still(sock, sock')
                            \/ Evict(t) /\ Still(sock, sock')
                            \/ \E ws \in Socket, dest \in Identity : Datagram(t, ws, dest)
<1>1. ASSUME NEW t \in Task, Continue(t), ~Accept(t), ~Undelivered(t), ~Claim(t), ~Evict(t)
      PROVE  Steady(sock, sock')
  BY <1>1, StorageSteady, SweepSteady DEF Continue
<1>2. ASSUME NEW t \in Task, AlarmFires(t) \/ \E ping \in Pings : Fetch(t, ping) PROVE Steady(sock, sock')
  BY <1>2, StorageSteady
<1>3. ASSUME NEW t \in Task, NEW ws \in Socket, Message(t, ws) \/ webSocketClose(t, ws)
      PROVE  Steady(sock, sock') \/ \E dest \in Identity : Datagram(t, ws, dest)
  BY <1>3, MessageSteady DEF Message
<1>. QED  BY <1>1, <1>2, <1>3, ClaimSteady, EnvironmentSteady DEF Next

LEMMA LiveStep ==
  ASSUME Known, [Next]_vars, \A s \in Socket : sock[s].phase = "none" => sock'[s].phase = "none"
  PROVE  \A s \in Socket : Live(s)' => Live(s)
<1>1. CASE Tame(sock, sock') \/ Replaces(sock, sock')
  BY <1>1 DEF Tame, Replaces, Live, Accepted
<1>2. ASSUME NEW ws \in Socket, NEW id \in Identity, Takes(ws, id)
      PROVE  \A s \in Socket : Live(s)' => Live(s)
  <2> DEFINE socks == Authenticated(ws, id)
  <2>1. \A r \in Socket : socks[r].archived = sock[r].archived /\ (r # ws => socks[r] = sock[r])
    BY AuthenticatedFields DEF Known, Shape
  <2> HIDE DEF socks
  <2>2. /\ sock[ws].phase = "verifying" /\ ~sock[ws].archived
        /\ sock' = socks \/ \E v \in Socket : Retiring(socks, sock', v)
    BY <1>2 DEF Takes, Predecessors, Accepted, socks
  <2>. QED  BY <2>1, <2>2 DEF Retiring, Live, Accepted
<1>. QED  BY <1>1, <1>2, StepTame

-----------------------------------------------------------------------------
(* Every datagram is accounted for. *)

\* The handlers that are still to count a failed delivery of s.
Deliveries(s) == {t \in Task : task[t].ws = s /\ "undelivered" \in Ops(task[t])}

Accounted(s) ==
  /\ IsFiniteSet(Deliveries(s))
  /\ sock[s].n.datagram = sock[s].n.forwarded + sock[s].n.dropped + Cardinality(Deliveries(s))

AllAccounted == \A s \in Socket : Live(s) => Accounted(s)

\* A step that leaves the counters and the open deliveries of s alone.
LEMMA AccountedSame ==
  ASSUME NEW s \in Socket, Accounted(s), Deliveries(s)' = Deliveries(s),
         sock'[s].n.datagram = sock[s].n.datagram,
         sock'[s].n.forwarded = sock[s].n.forwarded,
         sock'[s].n.dropped = sock[s].n.dropped
  PROVE  Accounted(s)'
BY DEF Accounted

LEMMA OtherDeliveries ==
  ASSUME Shape, NEW t \in Task, NEW h, task' = [task EXCEPT ![t] = h], NEW s,
         task[t].ws = s /\ "undelivered" \in Ops(task[t]) <=> h.ws = s /\ "undelivered" \in Ops(h)
  PROVE  Deliveries(s)' = Deliveries(s)
<1>1. task'[t] = h /\ \A u \in Task \ {t} : task'[u] = task[u]
  BY DEF Shape, TypeOK
<1>2. \A u \in Task : task'[u].ws = s /\ "undelivered" \in Ops(task'[u])
                      <=> task[u].ws = s /\ "undelivered" \in Ops(task[u])
  BY <1>1
<1>. QED  BY <1>2 DEF Deliveries, Ops

LEMMA AccountedUndelivered ==
  ASSUME Known, AllPhased, AllAccounted, NEW t \in Task, Undelivered(t), NEW s \in Socket, Live(s)'
  PROVE  Accounted(s)'
<1> DEFINE ws == task[t].ws
<1>1. /\ ws \in Socket /\ task[t].op = "undelivered" /\ task' = [task EXCEPT ![t] = Idle]
      /\ sock' = Dropped(ws) /\ sock \in [Socket -> Attachment] /\ task \in [Task -> Handler]
  BY DEF Known, Shape, TypeOK, HandlersNamed, Named, Undelivered, Resumes
<1>2. Idle.ws = None /\ None \notin Socket /\ "undelivered" \notin Ops(Idle)
  BY IdlePhased, ConstantsAssumption DEF Idle
<1>3. CASE sock[ws].archived \/ s # ws
  <2>1. Deliveries(s)' = Deliveries(s) \/ s = ws
    BY <1>1, <1>2, OtherDeliveries DEF Known
  <2>2. sock'[s] = sock[s]
    BY <1>1, <1>3 DEF Dropped
  <2>3. Live(s)
    BY <2>2 DEF Live, Accepted
  <2>4. s # ws
    BY <1>3, <2>3 DEF Live
  <2>. QED  BY <2>1, <2>2, <2>3, <2>4, AccountedSame DEF AllAccounted
<1>4. CASE ~sock[ws].archived /\ s = ws
  <2>1. sock' = [sock EXCEPT ![ws].n.dropped = @ + 1]
    BY <1>1, <1>4 DEF Dropped
  <2>2. /\ sock'[s].phase = sock[s].phase /\ sock'[s].archived = sock[s].archived
        /\ sock'[s].n.datagram = sock[s].n.datagram /\ sock'[s].n.forwarded = sock[s].n.forwarded
        /\ sock'[s].n.dropped = sock[s].n.dropped + 1
    BY <1>1, <1>4, <2>1 DEF Attachment, Counts
  <2>3. Live(s)
    BY <2>2 DEF Live, Accepted
  <2>4. Accounted(s)
    BY <2>3 DEF AllAccounted
  <2>5. t \in Deliveries(s)
    BY <1>1, <1>4 DEF Deliveries, Ops
  <2>6. Deliveries(s)' = Deliveries(s) \ {t}
    <3>1. task'[t] = Idle /\ \A u \in Task \ {t} : task'[u] = task[u]
      BY <1>1
    <3>2. \A u \in Task : task'[u].ws = s /\ "undelivered" \in Ops(task'[u])
                          <=> u # t /\ task[u].ws = s /\ "undelivered" \in Ops(task[u])
      BY <1>2, <3>1
    <3>. QED  BY <3>2 DEF Deliveries, Ops
  <2>7. /\ IsFiniteSet(Deliveries(s)')
        /\ Cardinality(Deliveries(s)') = Cardinality(Deliveries(s)) - 1
        /\ Cardinality(Deliveries(s)) \in Nat
    BY <2>4, <2>5, <2>6, FS_RemoveElement, FS_CardinalityType DEF Accounted
  <2>8. sock[s].n.datagram \in Nat /\ sock[s].n.forwarded \in Nat /\ sock[s].n.dropped \in Nat
    BY <1>1 DEF Attachment, Counts
  <2>9. sock[s].n.datagram = sock[s].n.forwarded + sock[s].n.dropped + Cardinality(Deliveries(s))
    BY <2>4 DEF Accounted
  <2>10. sock'[s].n.datagram = sock'[s].n.forwarded + sock'[s].n.dropped + Cardinality(Deliveries(s)')
    BY <2>2, <2>7, <2>8, <2>9
  <2>. QED  BY <2>7, <2>10 DEF Accounted
<1>. QED  BY <1>3, <1>4

\* What a datagram counts on its sender, and that it is a failed delivery that is still
\* to be counted or else counted at once.
LEMMA DatagramCounts ==
  ASSUME Known, AllPhased, NEW t \in Task, NEW ws \in Socket, NEW dest \in Identity, Datagram(t, ws, dest)
  PROVE  /\ \A s \in Socket \ {ws} : Live(s)' => Live(s) /\ sock'[s].n = sock[s].n
         /\ Live(ws)
         /\ sock'[ws].n.datagram = sock[ws].n.datagram + 1
         /\ \/ /\ UNCHANGED task /\ sock'[ws].n.dropped = sock[ws].n.dropped + 1
               /\ sock'[ws].n.forwarded = sock[ws].n.forwarded
            \/ /\ UNCHANGED task /\ sock'[ws].n.forwarded = sock[ws].n.forwarded + 1
               /\ sock'[ws].n.dropped = sock[ws].n.dropped
            \/ /\ sock'[ws].n.forwarded = sock[ws].n.forwarded /\ sock'[ws].n.dropped = sock[ws].n.dropped
               /\ \E h : task' = [task EXCEPT ![t] = h] /\ task[t] = Idle
                         /\ h.ws = ws /\ "undelivered" \in Ops(h)
<1> DEFINE counted == Counted(ws)
           received == [counted EXCEPT ![ws].n.datagram = @ + 1]
           waiting == [Idle EXCEPT !.op = "undelivered", !.ws = ws]
<1>1. Live(ws) /\ sock \in [Socket -> Attachment]
  BY DEF Datagram, Serves, Receives, Known, Shape, TypeOK
<1>2. /\ counted \in [Socket -> Attachment]
      /\ \A s \in Socket \ {ws} : counted[s] = sock[s]
      /\ counted[ws].n.datagram = sock[ws].n.datagram
      /\ counted[ws].n.forwarded = sock[ws].n.forwarded
      /\ counted[ws].n.dropped = sock[ws].n.dropped
  BY <1>1, CountedTyped DEF Counted, Attachment, Counts, Known, Shape
<1> HIDE DEF counted
<1>3. /\ received \in [Socket -> Attachment]
      /\ \A s \in Socket \ {ws} : received[s] = sock[s]
      /\ received[ws].n.datagram = sock[ws].n.datagram + 1
      /\ received[ws].n.forwarded = sock[ws].n.forwarded
      /\ received[ws].n.dropped = sock[ws].n.dropped
  BY <1>1, <1>2 DEF Attachment, Counts
<1> HIDE DEF received
<1>4. \/ UNCHANGED task /\ \E f \in {"dropped", "forwarded"} : sock' = [received EXCEPT ![ws].n[f] = @ + 1]
      \/ \E p \in Socket : p # ws /\ Live(p) /\ Finish(t, received, p, "undeliverable", waiting)
  BY DEF Datagram, received, counted, Routes
<1>5. CASE UNCHANGED task /\ sock' = [received EXCEPT ![ws].n.dropped = @ + 1]
  <2>1. /\ \A s \in Socket \ {ws} : sock'[s] = sock[s]
        /\ sock'[ws].n.datagram = sock[ws].n.datagram + 1
        /\ sock'[ws].n.forwarded = sock[ws].n.forwarded
        /\ sock'[ws].n.dropped = sock[ws].n.dropped + 1
    BY <1>3, <1>5 DEF Attachment, Counts
  <2>. QED  BY <1>1, <1>5, <2>1 DEF Live, Accepted
<1>6. CASE UNCHANGED task /\ sock' = [received EXCEPT ![ws].n.forwarded = @ + 1]
  <2>1. /\ \A s \in Socket \ {ws} : sock'[s] = sock[s]
        /\ sock'[ws].n.datagram = sock[ws].n.datagram + 1
        /\ sock'[ws].n.forwarded = sock[ws].n.forwarded + 1
        /\ sock'[ws].n.dropped = sock[ws].n.dropped
    BY <1>3, <1>6 DEF Attachment, Counts
  <2>. QED  BY <1>1, <1>6, <2>1 DEF Live, Accepted
<1>7. ASSUME NEW p \in Socket, p # ws, Live(p), Finish(t, received, p, "undeliverable", waiting)
      PROVE  /\ \A s \in Socket \ {ws} : Live(s)' => Live(s) /\ sock'[s].n = sock[s].n
             /\ sock'[ws].n = received[ws].n
             /\ \E h : task' = [task EXCEPT ![t] = h] /\ task[t] = Idle
                       /\ h.ws = ws /\ "undelivered" \in Ops(h)
  <2>1. ~IsRetired(received[p])
    BY <1>3, <1>7 DEF Live, IsRetired
  <2>2. sock' = [received EXCEPT ![p].archived = TRUE, ![p].reason = "undeliverable"]
    BY <1>7, <2>1 DEF Finish
  <2>3. /\ \A s \in Socket \ {p} : sock'[s] = received[s]
        /\ sock'[p].archived
    BY <1>3, <2>2 DEF Attachment
  <2>4. \A s \in Socket \ {ws} : Live(s)' => s # p
    BY <2>3 DEF Live
  <2>5. \E h \in Handler : /\ task' = [task EXCEPT ![t] = h] /\ task[t] = Idle
                           /\ h.ws = ws /\ h.cont = "undelivered"
    <3>1. task' # task
      <4>1. task' = [task EXCEPT ![t] = [waiting EXCEPT !.op = "closed", !.cont = waiting.op,
                                           !.victim = p, !.tally = received[p].n]]
        BY <1>7, <2>1 DEF Finish
      <4>2. task[t] = Idle /\ task \in [Task -> Handler]
        BY DEF AllPhased, Phased, Datagram, Serves, Receives, Starts, Known, Shape, TypeOK
      <4>3. task'[t].op = "closed" /\ task[t].op = "idle"
        BY <4>1, <4>2, IdleTyped DEF Idle
      <4>. QED  BY <4>3
    <3>. QED  BY <3>1, DatagramTurns
  <2>6. \A s \in Socket \ {ws} : Live(s)' => Live(s) /\ sock'[s].n = sock[s].n
    <3>1. \A s \in Socket \ {ws} : s # p => sock'[s] = sock[s]
      BY <1>3, <2>3
    <3>. QED  BY <2>4, <3>1 DEF Live, Accepted
  <2>7. sock'[ws].n = received[ws].n
    BY <1>7, <2>3
  <2>8. \A h : h.cont = "undelivered" => "undelivered" \in Ops(h)
    BY DEF Ops
  <2>. QED  BY <2>5, <2>6, <2>7, <2>8
<1>8. (\E f \in {"dropped", "forwarded"} : sock' = [received EXCEPT ![ws].n[f] = @ + 1])
      => \/ sock' = [received EXCEPT ![ws].n.dropped = @ + 1]
         \/ sock' = [received EXCEPT ![ws].n.forwarded = @ + 1]
  OBVIOUS
<1>. QED  BY <1>1, <1>3, <1>4, <1>5, <1>6, <1>7, <1>8

LEMMA AccountedDatagram ==
  ASSUME Known, AllPhased, AllAccounted, NEW t \in Task, NEW ws \in Socket, NEW dest \in Identity,
         Datagram(t, ws, dest), NEW s \in Socket, Live(s)'
  PROVE  Accounted(s)'
<1>1. CASE s # ws
  <2>1. Live(s) /\ sock'[s].n = sock[s].n
    BY <1>1, DatagramCounts
  <2>2. UNCHANGED task \/ \E h : task' = [task EXCEPT ![t] = h] /\ task[t] = Idle /\ h.ws = ws
    BY DatagramCounts
  <2>3. Idle.ws # s
    BY ConstantsAssumption DEF Idle
  <2>4. Deliveries(s)' = Deliveries(s)
    <3>1. CASE UNCHANGED task
      BY <3>1 DEF Deliveries
    <3>. QED  BY <1>1, <2>2, <2>3, <3>1, OtherDeliveries DEF Known
  <2>. QED  BY <2>1, <2>4, AccountedSame DEF AllAccounted
<1>2. CASE s = ws
  <2>1. Accounted(s)
    BY <1>2, DatagramCounts DEF AllAccounted
  <2>2. sock[s].n.datagram \in Nat /\ sock[s].n.forwarded \in Nat /\ sock[s].n.dropped \in Nat
    BY DEF Known, Shape, TypeOK, Attachment, Counts
  <2>3. /\ IsFiniteSet(Deliveries(s)) /\ Cardinality(Deliveries(s)) \in Nat
        /\ sock[s].n.datagram = sock[s].n.forwarded + sock[s].n.dropped + Cardinality(Deliveries(s))
    BY <2>1, FS_CardinalityType DEF Accounted
  <2>4. CASE UNCHANGED task
    <3>1. Deliveries(s)' = Deliveries(s)
      BY <2>4 DEF Deliveries
    <3>2. \/ /\ sock'[s].n.datagram = sock[s].n.datagram + 1
             /\ sock'[s].n.dropped = sock[s].n.dropped + 1
             /\ sock'[s].n.forwarded = sock[s].n.forwarded
          \/ /\ sock'[s].n.datagram = sock[s].n.datagram + 1
             /\ sock'[s].n.forwarded = sock[s].n.forwarded + 1
             /\ sock'[s].n.dropped = sock[s].n.dropped
      <4>1. ASSUME NEW h, task' = [task EXCEPT ![t] = h], task[t] = Idle, "undelivered" \in Ops(h)
            PROVE  FALSE
        <5>1. task'[t] = h /\ task'[t] = Idle
          BY <2>4, <4>1 DEF Known, Shape, TypeOK
        <5>. QED  BY <4>1, <5>1, IdlePhased
      <4>. QED  BY <1>2, <4>1, DatagramCounts
    <3>3. sock'[s].n.datagram = sock'[s].n.forwarded + sock'[s].n.dropped + Cardinality(Deliveries(s))
      BY <2>2, <2>3, <3>2
    <3>. QED  BY <2>3, <3>1, <3>3 DEF Accounted
  <2>5. ASSUME NEW h, task' = [task EXCEPT ![t] = h], task[t] = Idle, h.ws = ws, "undelivered" \in Ops(h),
               sock'[ws].n.forwarded = sock[ws].n.forwarded, sock'[ws].n.dropped = sock[ws].n.dropped
        PROVE  Accounted(s)'
    <3>1. "undelivered" \notin Ops(task[t]) /\ task'[t] = h /\ \A u \in Task \ {t} : task'[u] = task[u]
      BY <2>5, IdlePhased DEF Known, Shape, TypeOK
    <3>2. \A u \in Task : task'[u].ws = s /\ "undelivered" \in Ops(task'[u])
                          <=> u = t \/ (task[u].ws = s /\ "undelivered" \in Ops(task[u]))
      BY <1>2, <2>5, <3>1
    <3>3. Deliveries(s)' = Deliveries(s) \cup {t} /\ t \notin Deliveries(s)
      BY <3>1, <3>2 DEF Deliveries, Ops
    <3>4. IsFiniteSet(Deliveries(s)') /\ Cardinality(Deliveries(s)') = Cardinality(Deliveries(s)) + 1
      BY <2>3, <3>3, FS_AddElement
    <3>5. sock'[s].n.datagram = sock[s].n.datagram + 1
      BY <1>2, DatagramCounts
    <3>6. sock'[s].n.datagram = sock'[s].n.forwarded + sock'[s].n.dropped + Cardinality(Deliveries(s)')
      BY <1>2, <2>2, <2>3, <2>5, <3>4, <3>5
    <3>. QED  BY <3>4, <3>6 DEF Accounted
  <2>. QED  BY <2>4, <2>5, DatagramCounts
<1>. QED  BY <1>1, <1>2

LEMMA AccountedAccept ==
  ASSUME Known, AllPhased, AllAccounted, NEW t \in Task, Accept(t), NEW s \in Socket, Live(s)'
  PROVE  Accounted(s)'
<1> DEFINE a == [Unused EXCEPT !.phase = "challenge", !.open = TRUE, !.deadline = now + AuthTimeout]
<1>1. PICK r \in Socket : sock[r].phase = "none" /\ sock' = [sock EXCEPT ![r] = a]
  BY DEF Accept
<1>2. a.n = counters /\ counters.datagram = 0 /\ counters.forwarded = 0 /\ counters.dropped = 0
  BY DEF Unused, counters
<1>3. task[t].op = "accept" /\ task' = [task EXCEPT ![t] = Scheduling] /\ task[t].cont = "idle"
  BY DEF Accept, Resumes, AllPhased, Phased
<1>4. "undelivered" \notin Ops(task[t]) /\ "undelivered" \notin Ops(Scheduling)
  BY <1>3, IdlePhased DEF Ops
<1>5. Deliveries(s)' = Deliveries(s)
  BY <1>3, <1>4, OtherDeliveries DEF Known
<1> HIDE DEF a
<1>6. CASE s = r
  <2>1. Deliveries(s) = {}
    BY <1>1, <1>6 DEF Known, HandlersServe, Deliveries
  <2>2. sock'[s] = a
    BY <1>1, <1>6 DEF Known, Shape, TypeOK
  <2>3. IsFiniteSet({}) /\ Cardinality({}) = 0
    BY FS_EmptySet
  <2>. QED  BY <1>2, <1>5, <2>1, <2>2, <2>3 DEF Accounted
<1>7. CASE s # r
  <2>1. sock'[s] = sock[s]
    BY <1>1, <1>7
  <2>2. Live(s)
    BY <2>1 DEF Live, Accepted
  <2>. QED  BY <1>5, <2>1, <2>2, AccountedSame DEF AllAccounted
<1>. QED  BY <1>6, <1>7

LEMMA AccountedStep == Known /\ AllPhased /\ AllAccounted /\ [Next]_vars => AllAccounted'
<1> SUFFICES ASSUME Known, AllPhased, AllAccounted, [Next]_vars, NEW s \in Socket, Live(s)'
             PROVE  Accounted(s)'
  BY DEF AllAccounted
<1>1. CASE \E t \in Task : \/ Undelivered(t) \/ Accept(t)
                           \/ \E ws \in Socket, dest \in Identity : Datagram(t, ws, dest)
  BY <1>1, AccountedUndelivered, AccountedAccept, AccountedDatagram
<1>2. CASE ~ \E t \in Task : \/ Undelivered(t) \/ Accept(t)
                             \/ \E ws \in Socket, dest \in Identity : Datagram(t, ws, dest)
  <2>1. Still(sock, sock')
    BY <1>2, SteadyStep DEF Steady
  <2>2. Live(s)
    BY <2>1, LiveStep DEF Still
  <2>3. ASSUME NEW t \in Task, Turns(t) PROVE Deliveries(s)' = Deliveries(s)
    <3>1. PICK h \in Handler : task' = [task EXCEPT ![t] = h] /\ Follows(task[t], h)
      BY <2>3 DEF Turns
    <3>2. task[t].ws = s /\ "undelivered" \in Ops(task[t]) <=> h.ws = s /\ "undelivered" \in Ops(h)
      BY <3>1 DEF Follows
    <3>. QED  BY <3>1, <3>2, OtherDeliveries DEF Known
  <2>4. ASSUME NEW t \in Task, AlarmFires(t) \/ \E ping \in Pings : Fetch(t, ping)
        PROVE  Deliveries(s)' = Deliveries(s)
    <3>1. \/ UNCHANGED task
          \/ \E h : task' = [task EXCEPT ![t] = h] /\ task[t] = Idle /\ "undelivered" \notin Ops(h)
      BY <2>4, AlarmTurns, FetchTurns DEF Ops
    <3>2. "undelivered" \notin Ops(Idle)
      BY IdlePhased
    <3>3. CASE UNCHANGED task
      BY <3>3 DEF Deliveries
    <3>4. ASSUME NEW h, task' = [task EXCEPT ![t] = h], task[t] = Idle, "undelivered" \notin Ops(h)
          PROVE  Deliveries(s)' = Deliveries(s)
      BY <3>2, <3>4, OtherDeliveries DEF Known
    <3>. QED  BY <3>1, <3>3, <3>4
  <2>5. ASSUME UNCHANGED task PROVE Deliveries(s)' = Deliveries(s)
    BY <2>5 DEF Deliveries
  <2>6. ~Restart
    <3>1. ASSUME Restart PROVE FALSE
      <4>1. sock'[s] = IF s \in Accepted THEN [sock[s] EXCEPT !.phase = "lost", !.open = FALSE] ELSE sock[s]
        BY <3>1 DEF Restart
      <4>2. sock[s] \in Attachment
        BY DEF Known, Shape, TypeOK
      <4>. QED  BY <4>1, <4>2 DEF Live, Accepted, Attachment
    <3>. QED  BY <3>1
  <2>7. Deliveries(s)' = Deliveries(s)
    BY <1>2, <2>3, <2>4, <2>5, <2>6, TurnStep
  <2>. QED  BY <2>1, <2>2, <2>7, AccountedSame DEF AllAccounted, Still
<1>. QED  BY <1>1, <1>2

\* Every datagram a live socket sent is counted forwarded or dropped, once, but for those
\* whose failed delivery is being handled: however many deliveries of a socket fail at
\* once, each handler that comes back from finish counts its own drop and no other
\* (iroh-relay.js:99-110).
THEOREM DatagramsCounted == Spec => []DatagramsAccounted
<1>1. Init => AllAccounted
  BY DEF Init, AllAccounted, Live, Accepted, Unused
<1>2. Known /\ AllPhased /\ AllAccounted /\ [Next]_vars => AllAccounted'
  BY AccountedStep
<1>3. AllAccounted => DatagramsAccounted
  BY DEF AllAccounted, Accounted, Deliveries, DatagramsAccounted, Ops
<1>. QED  BY <1>1, <1>2, <1>3, AlwaysOrderly, PTL DEF Spec, Orderly

-----------------------------------------------------------------------------
(* With input gates: how many sockets are open at once. *)

\* What a handler has at storage stays while any other handler may not run.
LEMMA AwaitsKept ==
  ASSUME InputGates, NEW t \in Task, MayRun(t), NEW u \in Task, AwaitsStorage(u)
  PROVE  u = t
BY DEF MayRun

-----------------------------------------------------------------------------
(* No step but the acceptance of an upgrade opens a socket. *)

Shut(old, new) ==
  \A s \in Socket : /\ old[s].phase = "none" => new[s].phase = "none"
                    /\ new[s].open => old[s].open

LEMMA FinishShut ==
  ASSUME NEW t \in Task, NEW socks \in [Socket -> Attachment], NEW v \in Socket,
         NEW why, why # "superseded", NEW after, Finish(t, socks, v, why, after),
         Shut(sock, socks), Polite(sock, socks)
  PROVE  Shut(sock, sock') /\ Polite(sock, sock')
<1>1. CASE IsRetired(socks[v])
  BY <1>1 DEF Finish
<1>2. CASE ~IsRetired(socks[v])
  <2>1. sock' = [socks EXCEPT ![v].archived = TRUE, ![v].reason = why]
    BY <1>2 DEF Finish
  <2>2. \A s \in Socket : /\ sock'[s].phase = socks[s].phase /\ sock'[s].open = socks[s].open
                          /\ s # v => sock'[s].reason = socks[s].reason
                          /\ s = v => sock'[s].reason = why
    BY <2>1 DEF Attachment
  <2>. QED  BY <2>2 DEF Shut, Polite
<1>. QED  BY <1>1, <1>2

LEMMA UndeliveredShut ==
  ASSUME Known, NEW t \in Task, Undelivered(t)
  PROVE  Shut(sock, sock') /\ Polite(sock, sock')
<1> DEFINE ws == task[t].ws
<1>1. ws \in Socket /\ sock \in [Socket -> Attachment]
  BY DEF Known, Shape, TypeOK, HandlersNamed, Named, Undelivered, Resumes
<1>2. sock' = sock \/ sock' = [sock EXCEPT ![ws].n.dropped = @ + 1]
  BY DEF Undelivered, Dropped
<1>3. \A s \in Socket : /\ sock'[s].phase = sock[s].phase /\ sock'[s].open = sock[s].open
                        /\ sock'[s].reason = sock[s].reason
  BY <1>1, <1>2 DEF Attachment
<1>. QED  BY <1>3 DEF Shut, Polite

LEMMA DatagramShut ==
  ASSUME Known, NEW t \in Task, NEW ws \in Socket, NEW dest \in Identity, Datagram(t, ws, dest)
  PROVE  Shut(sock, sock') /\ Polite(sock, sock')
<1> DEFINE counted == Counted(ws)
           received == [counted EXCEPT ![ws].n.datagram = @ + 1]
           waiting == [Idle EXCEPT !.op = "undelivered", !.ws = ws]
<1>1. counted \in [Socket -> Attachment] /\ Steady(sock, counted)
  BY CountedSteady
<1> HIDE DEF counted
<1>2. /\ received \in [Socket -> Attachment]
      /\ \A s \in Socket : /\ received[s].phase = counted[s].phase /\ received[s].open = counted[s].open
                           /\ received[s].reason = counted[s].reason
  BY <1>1 DEF Attachment, Counts
<1>3. Shut(sock, received) /\ Polite(sock, received)
  BY <1>1, <1>2 DEF Steady, Still, Shut, Polite
<1> HIDE DEF received
<1>4. \/ \E f \in {"dropped", "forwarded"} : sock' = [received EXCEPT ![ws].n[f] = @ + 1]
      \/ \E p \in Socket : Finish(t, received, p, "undeliverable", waiting)
  BY DEF Datagram, received, counted
<1> HIDE DEF waiting
<1>5. ASSUME NEW f \in {"dropped", "forwarded"}, sock' = [received EXCEPT ![ws].n[f] = @ + 1]
      PROVE  Shut(sock, sock') /\ Polite(sock, sock')
  <2>1. \A s \in Socket : /\ sock'[s].phase = received[s].phase /\ sock'[s].open = received[s].open
                          /\ sock'[s].reason = received[s].reason
    BY <1>2, <1>5 DEF Attachment
  <2>. QED  BY <1>3, <2>1 DEF Shut, Polite
<1>6. ASSUME NEW p \in Socket, Finish(t, received, p, "undeliverable", waiting)
      PROVE  Shut(sock, sock') /\ Polite(sock, sock')
  BY <1>2, <1>3, <1>6, FinishShut
<1>. QED  BY <1>4, <1>5, <1>6

LEMMA ShutStep ==
  ASSUME Known, [Next]_vars
  PROVE  \/ Shut(sock, sock') /\ Polite(sock, sock')
         \/ \E t \in Task : Accept(t) \/ (Claim(t) /\ Shut(sock, sock')) \/ (Evict(t) /\ Shut(sock, sock'))
<1>1. Still(sock, sock') => Shut(sock, sock')
  BY DEF Still, Shut
<1>. QED  BY <1>1, SteadyStep, UndeliveredShut, DatagramShut DEF Steady

-----------------------------------------------------------------------------
(* The cap on the sockets that are open at once. *)

Opened == {s \in Socket : Live(s) /\ sock[s].open}

\* The count that fetch checked still holds when it accepts.
Roomy ==
  /\ IsFiniteSet(Opened)
  /\ Cardinality(Opened) <= MaxLive
  /\ \A t \in Task : task[t].op = "accept" => Cardinality(Opened) < MaxLive

LEMMA OpenedShut ==
  ASSUME Known, [Next]_vars, Shut(sock, sock')
  PROVE  Opened' \subseteq Opened
<1>1. \A s \in Socket : Live(s)' => Live(s)
  BY LiveStep DEF Shut
<1>. QED  BY <1>1 DEF Opened, Shut

LEMMA AcceptingStep ==
  ASSUME Known, AllPhased, [Next]_vars, NEW u \in Task, task'[u].op = "accept"
  PROVE  task[u].op = "accept" \/ \E t \in Task, ping \in Pings : Fetch(t, ping)
<1>1. task \in [Task -> Handler]
  BY DEF Known, Shape, TypeOK
<1>2. ASSUME NEW t \in Task, NEW h, task' = [task EXCEPT ![t] = h], h.op # "accept"
      PROVE  task[u].op = "accept"
  BY <1>1, <1>2
<1>3. ~Restart
  BY IdleTyped DEF Restart
<1>4. ASSUME NEW t \in Task, Undelivered(t) \/ Turns(t) PROVE task[u].op = "accept"
  <2>1. \E h : task' = [task EXCEPT ![t] = h] /\ h.op # "accept"
    BY <1>4, IdleTyped DEF Turns, Follows, Undelivered
  <2>. QED  BY <1>2, <2>1
<1>5. ASSUME NEW t \in Task, AlarmFires(t) \/ \E ws \in Socket, dest \in Identity : Datagram(t, ws, dest)
      PROVE  task[u].op = "accept"
  <2>1. UNCHANGED task \/ \E h : task' = [task EXCEPT ![t] = h] /\ h.op # "accept"
    BY <1>5, AlarmTurns, DatagramTurns
  <2>. QED  BY <1>2, <2>1
<1>. QED  BY <1>3, <1>4, <1>5, TurnStep

LEMMA RoomyStep ==
  InputGates /\ Known /\ AllPhased /\ Roomy /\ [Next]_vars => Roomy'
<1> SUFFICES ASSUME InputGates, Known, AllPhased, Roomy, [Next]_vars PROVE Roomy'
  OBVIOUS
<1>1. Cardinality(Opened) \in Nat /\ MaxLive \in Nat /\ IsFiniteSet(Opened)
  BY FS_CardinalityType, ConstantsAssumption DEF Roomy
<1>2. ASSUME NEW t \in Task, Accept(t) PROVE Roomy'
  <2>1. PICK s \in Socket : \E a : sock' = [sock EXCEPT ![s] = a]
    BY <1>2 DEF Accept
  <2>2. \A r \in Socket : r # s => sock'[r] = sock[r]
    BY <2>1
  <2>3. Opened' \subseteq Opened \cup {s}
    BY <2>2 DEF Opened, Live, Accepted
  <2>4. /\ IsFiniteSet(Opened \cup {s})
        /\ Cardinality(Opened \cup {s}) <= Cardinality(Opened) + 1
        /\ Cardinality(Opened \cup {s}) \in Nat
    <3>1. IsFiniteSet(Opened \cup {s})
      BY <1>1, FS_AddElement
    <3>2. Cardinality(Opened \cup {s}) = IF s \in Opened THEN Cardinality(Opened) ELSE Cardinality(Opened) + 1
      BY <1>1, FS_AddElement
    <3>. QED  BY <1>1, <3>1, <3>2
  <2>5. IsFiniteSet(Opened') /\ Cardinality(Opened') <= Cardinality(Opened) + 1 /\ Cardinality(Opened') \in Nat
    BY <1>1, <2>3, <2>4, FS_Subset, FS_CardinalityType
  <2>6. task[t].op = "accept" /\ MayRun(t) /\ task' = [task EXCEPT ![t] = Scheduling]
    BY <1>2 DEF Accept, Resumes
  <2>7. Cardinality(Opened) < MaxLive
    BY <2>6 DEF Roomy
  <2>8. \A u \in Task : task'[u].op # "accept"
    <3>1. Scheduling.op # "accept" /\ task \in [Task -> Handler]
      BY IdlePhased DEF Known, Shape, TypeOK
    <3>2. \A u \in Task \ {t} : task[u].op # "accept"
      BY <2>6, AwaitsKept DEF AwaitsStorage
    <3>. QED  BY <2>6, <3>1, <3>2
  <2>. QED  BY <1>1, <2>5, <2>7, <2>8 DEF Roomy
<1>3. ASSUME ~ \E t \in Task : Accept(t) PROVE Roomy'
  <2>1. Shut(sock, sock')
    BY <1>3, ShutStep
  <2>2. Opened' \subseteq Opened
    BY <2>1, OpenedShut
  <2>3. IsFiniteSet(Opened') /\ Cardinality(Opened') <= Cardinality(Opened) /\ Cardinality(Opened') \in Nat
    BY <1>1, <2>2, FS_Subset, FS_CardinalityType
  <2>4. ASSUME NEW t \in Task, NEW ping \in Pings, Fetch(t, ping) PROVE Cardinality(Opened) < MaxLive
    BY <2>4 DEF Fetch, Admits, Opened
  <2>5. ASSUME NEW u \in Task, task'[u].op = "accept" PROVE Cardinality(Opened) < MaxLive
    BY <2>4, <2>5, AcceptingStep DEF Roomy
  <2>. QED  BY <1>1, <2>3, <2>5 DEF Roomy
<1>. QED  BY <1>2, <1>3

\* With input gates at most MaxLive sockets are open at once, however many upgrades are
\* requested together: no event is let in between the count of the open sockets and
\* acceptWebSocket, although the handler waits for storage there
\* (iroh-relay.js:27-45).
THEOREM LiveCapped ==
  ASSUME InputGates
  PROVE  Spec => []LiveCap
<1>1. Init => Roomy
  <2> SUFFICES ASSUME Init PROVE Roomy
    OBVIOUS
  <2>1. Opened = {} /\ \A t \in Task : task[t] = Idle
    BY DEF Init, Opened, Live, Accepted, Unused
  <2>2. IsFiniteSet({}) /\ Cardinality({}) = 0 /\ 0 <= MaxLive
    BY FS_EmptySet, ConstantsAssumption
  <2>3. Idle.op # "accept"
    BY IdleTyped
  <2>. QED  BY <2>1, <2>2, <2>3 DEF Roomy
<1>2. Known /\ AllPhased /\ Roomy /\ [Next]_vars => Roomy'
  BY RoomyStep
<1>3. Roomy => LiveCap
  BY DEF Roomy, LiveCap, Opened
<1>. QED  BY <1>1, <1>2, <1>3, AlwaysOrderly, PTL DEF Spec, Orderly

-----------------------------------------------------------------------------
(* Who is told that the identity reconnected. *)

\* While a handler still has predecessors to retire, its own socket holds the route.
EvictorRoutes == \A t \in Task : "evict" \in Ops(task[t]) => Routes(task[t].ws, task[t].id)

\* A predecessor goes while the newcomer stays, and the other reasons are not "superseded".
LEMMA SupplantReason ==
  ASSUME Shape, NEW t \in Task, NEW socks \in [Socket -> Attachment], NEW rest \in SUBSET Socket,
         task[t].op \in {"claim", "evict"}, Supplant(t, socks, rest)
  PROVE  \/ /\ sock'[task[t].ws] = socks[task[t].ws]
            /\ \A s \in Socket : sock'[s].reason = "superseded" =>
                 socks[s].reason = "superseded"
                   \/ (s # task[t].ws /\ sock'[s].id = task[t].id)
         \/ /\ "evict" \notin Ops(task'[t])
            /\ \A s \in Socket : sock'[s].reason = "superseded" => socks[s].reason = "superseded"
<1> DEFINE ws == task[t].ws
           old == Predecessors(socks, rest, ws, task[t].id)
<1>1. ws \in Socket /\ task \in [Task -> Handler]
  BY DEF Shape, TypeOK, HandlersNamed, Named
<1>2. \A s \in old : s \in Socket /\ s # ws /\ socks[s].id = task[t].id /\ ~socks[s].archived
  BY DEF Predecessors
<1>3. \/ \E s \in old : \E after : Finish(t, socks, s, "superseded", after)
      \/ old = {} /\ Finish(t, socks, ws, "policy", Idle)
      \/ old = {} /\ sock' = socks
  <2>1. ASSUME NEW s \in old, NEW after, Finish(t, socks, s, "superseded", after)
        PROVE  \E r \in old : \E h : Finish(t, socks, r, "superseded", h)
    BY <2>1
  <2>. QED  BY <2>1 DEF Supplant
<1> HIDE DEF old
<1>4. ASSUME NEW s \in old, NEW after, Finish(t, socks, s, "superseded", after)
      PROVE  /\ sock'[ws] = socks[ws]
             /\ \A r \in Socket : sock'[r].reason = "superseded" =>
                  socks[r].reason = "superseded" \/ (r # ws /\ sock'[r].id = task[t].id)
  <2>1. sock' = [socks EXCEPT ![s].archived = TRUE, ![s].reason = "superseded"]
    BY <1>2, <1>4 DEF Finish, IsRetired
  <2>2. s \in Socket /\ s # ws /\ sock'[s].id = socks[s].id /\ \A r \in Socket \ {s} : sock'[r] = socks[r]
    BY <1>2, <2>1 DEF Attachment
  <2>. QED  BY <1>1, <1>2, <2>2
<1>5. ASSUME Finish(t, socks, ws, "policy", Idle)
      PROVE  /\ "evict" \notin Ops(task'[t])
             /\ \A s \in Socket : sock'[s].reason = "superseded" => socks[s].reason = "superseded"
  <2>1. Polite(socks, socks) /\ Still(socks, socks)
    BY DEF Polite, Still
  <2>2. \A s \in Socket : sock'[s].reason = "superseded" => socks[s].reason = "superseded"
    <3>1. CASE IsRetired(socks[ws])
      BY <1>5, <3>1 DEF Finish
    <3>2. CASE ~IsRetired(socks[ws])
      <4>1. sock' = [socks EXCEPT ![ws].archived = TRUE, ![ws].reason = "policy"]
        BY <1>5, <3>2 DEF Finish
      <4>2. sock'[ws].reason = "policy" /\ \A s \in Socket \ {ws} : sock'[s] = socks[s]
        BY <1>1, <4>1 DEF Attachment
      <4>. QED  BY <4>2
    <3>. QED  BY <3>1, <3>2
  <2>3. PICK h \in Handler : /\ task' = [task EXCEPT ![t] = h]
                             /\ \A op \in {"undelivered", "evict", "sweep"} : op \in Ops(h) <=> op = Idle.op
    BY <1>1, <1>5, FinishTurns, IdlePhased, IdleTyped
  <2>4. task'[t] = h
    BY <1>1, <2>3
  <2>5. "evict" \notin Ops(h)
    BY <2>3, IdleTyped
  <2>. QED  BY <2>2, <2>4, <2>5
<1>. QED  BY <1>1, <1>3, <1>4, <1>5

\* The claim and the eviction that follows it: the newcomer holds the route while a
\* predecessor is told, and for as long as there may be another one.
LEMMA EvictingStep ==
  ASSUME Known, AllPhased, EvictorRoutes, NEW t \in Task, Claim(t) \/ Evict(t),
         NEW ws \in Socket, NEW id \in Identity, ws = task[t].ws, id = task[t].id
  PROVE  /\ "evict" \in Ops(task'[t]) => Routes(ws, id)'
         /\ \A s \in Socket : sock[s].reason # "superseded" /\ sock'[s].reason = "superseded" =>
              \E r \in Socket \ {s} : Routes(r, sock[s].id)'
<1> DEFINE socks == Authenticated(ws, id)
<1>1. /\ sock \in [Socket -> Attachment] /\ Shape /\ task[t].op \in {"claim", "evict"}
      /\ task[t] \in Handler /\ TypeOK
  BY DEF Known, Shape, TypeOK, Claim, Evict, Resumes
<1>2. ASSUME NEW old \in [Socket -> Attachment], NEW rest \in SUBSET Socket, Supplant(t, old, rest),
             \A s \in Socket : old[s].reason = sock[s].reason,
             old[ws].phase = "authenticated" /\ old[ws].id = id /\ ~old[ws].archived
      PROVE  /\ "evict" \in Ops(task'[t]) => Routes(ws, id)'
             /\ \A s \in Socket : sock[s].reason # "superseded" /\ sock'[s].reason = "superseded" =>
                  \E r \in Socket \ {s} : Routes(r, sock[s].id)'
  <2>1. sock'[ws] = old[ws] => Routes(ws, id)'
    BY <1>1, <1>2 DEF Routes, Live, Accepted
  <2>2. \/ /\ sock'[ws] = old[ws]
           /\ \A s \in Socket : sock'[s].reason = "superseded" =>
                old[s].reason = "superseded" \/ (s # ws /\ sock'[s].id = id)
        \/ /\ "evict" \notin Ops(task'[t])
           /\ \A s \in Socket : sock'[s].reason = "superseded" => old[s].reason = "superseded"
    BY <1>1, <1>2, SupplantReason
  <2>3. CASE sock'[ws] = old[ws] /\ \A s \in Socket : sock'[s].reason = "superseded" =>
                                    old[s].reason = "superseded" \/ (s # ws /\ sock'[s].id = id)
    <3>1. ASSUME NEW s \in Socket, sock[s].reason # "superseded", sock'[s].reason = "superseded"
          PROVE  \E r \in Socket \ {s} : Routes(r, sock[s].id)'
      <4>1. s # ws /\ sock'[s].id = id
        BY <1>2, <2>3, <3>1
      <4>2. Routes(ws, sock[s].id)'
        BY <2>1, <2>3, <4>1 DEF Routes
      <4>. QED  BY <4>1, <4>2
    <3>. QED  BY <2>1, <2>3, <3>1
  <2>. QED  BY <1>2, <2>2, <2>3
<1>3. CASE Claim(t) /\ ClaimRefused(ws, id)
  <2>1. Finish(t, sock, ws, "policy", Idle)
    BY <1>3 DEF Claim
  <2>2. "undelivered" \notin Ops(task[t])
    BY <1>1 DEF AllPhased, Phased, Ops
  <2>3. PICK h \in Handler : /\ task' = [task EXCEPT ![t] = h]
                             /\ \A op \in {"undelivered", "evict", "sweep"} : op \in Ops(h) <=> op = Idle.op
    BY <1>1, <2>1, FinishTurns, IdlePhased, IdleTyped
  <2>4. "evict" \notin Ops(task'[t])
    <3>1. task'[t] = h /\ "evict" \notin Ops(h)
      BY <1>1, <2>3, IdleTyped DEF TypeOK
    <3>. QED  BY <3>1
  <2>5. Polite(sock, sock')
    BY <1>1, <2>1, FinishShut DEF Shut, Polite
  <2>. QED  BY <2>4, <2>5 DEF Polite
<1>4. CASE Claim(t) /\ ~ClaimRefused(ws, id)
  <2>1. Supplant(t, socks, Accepted) /\ ~sock[ws].archived /\ task[t].op = "claim"
    BY <1>4 DEF Claim, ClaimRefused, Resumes
  <2>2. /\ socks \in [Socket -> Attachment] /\ socks[ws].id = id /\ socks[ws].phase = "authenticated"
        /\ ~socks[ws].archived /\ \A s \in Socket \ {ws} : socks[s] = sock[s]
    BY <1>1, <2>1, AuthenticatedFields
  <2>3. socks[ws].reason = sock[ws].reason
    BY <1>1 DEF Authenticated, Attachment
  <2>4. Accepted \in SUBSET Socket
    BY DEF Accepted
  <2> HIDE DEF socks
  <2>5. \A s \in Socket : socks[s].reason = sock[s].reason
    BY <2>2, <2>3
  <2>. QED  BY <1>2, <2>1, <2>2, <2>4, <2>5
<1>5. CASE Evict(t)
  <2>1. Supplant(t, sock, task[t].rest) /\ task[t].op = "evict" /\ task[t].rest \in SUBSET Socket
    BY <1>1, <1>5 DEF Evict, Resumes, Handler
  <2>2. Routes(ws, id)
    BY <2>1 DEF EvictorRoutes, Ops
  <2>. QED  BY <1>1, <1>2, <2>1, <2>2 DEF Routes, Live
<1>. QED  BY <1>3, <1>4, <1>5


\* While a handler waits for storage nothing runs but that handler and the network.
LEMMA GatedStep ==
  ASSUME InputGates, NEW u \in Task, AwaitsStorage(u), [Next]_vars
  PROVE  Continue(u) \/ (\E ws \in Socket : Disconnect(ws)) \/ Restart \/ UNCHANGED vars
<1>1. ASSUME NEW t \in Task, Continue(t) PROVE Continue(u)
  <2>1. MayRun(t)
    BY <1>1 DEF Continue, Accept, Schedule, Closed, Undelivered, Verify, Claim, Evict, Confirm, Sweep, Resumes
  <2>. QED  BY <1>1, <2>1, AwaitsKept
<1>2. \A t \in Task : ~Starts(t)
  BY AwaitsKept DEF Starts, AwaitsStorage
<1>3. ASSUME NEW t \in Task, NEW ws \in Socket, Message(t, ws) \/ webSocketClose(t, ws) PROVE FALSE
  BY <1>2, <1>3 DEF Message, Refuse, Ping, Pong, Authorize, Datagram, webSocketClose, Serves, Receives
<1>4. ASSUME NEW t \in Task, AlarmFires(t) \/ \E ping \in Pings : Fetch(t, ping) PROVE FALSE
  BY <1>2, <1>4 DEF AlarmFires, Fetch
<1>5. ~Tick
  BY DEF Tick
<1>. QED  BY <1>1, <1>3, <1>4, <1>5 DEF Next

LEMMA EvictingComes ==
  ASSUME Known, AllPhased, [Next]_vars, NEW u \in Task, "evict" \in Ops(task'[u])
  PROVE  "evict" \in Ops(task[u]) \/ task[u].op = "claim"
<1>1. task \in [Task -> Handler]
  BY DEF Known, Shape, TypeOK
<1>2. ASSUME NEW t \in Task, NEW h, task' = [task EXCEPT ![t] = h],
             "evict" \in Ops(h) => task[t].op = "claim" \/ "evict" \in Ops(task[t])
      PROVE  "evict" \in Ops(task[u]) \/ task[u].op = "claim"
  <2>1. task'[t] = h /\ \A r \in Task \ {t} : task'[r] = task[r]
    BY <1>1, <1>2
  <2>. QED  BY <1>2, <2>1
<1>3. ~Restart
  <2>1. ASSUME Restart PROVE FALSE
    <3>1. task'[u] = Idle /\ "evict" \notin Ops(Idle)
      BY <2>1, IdlePhased DEF Restart
    <3>. QED  BY <3>1
  <2>. QED  BY <2>1
<1>4. ASSUME NEW t \in Task, Turns(t) PROVE "evict" \in Ops(task[u]) \/ task[u].op = "claim"
  <2>1. PICK h \in Handler : task' = [task EXCEPT ![t] = h] /\ Follows(task[t], h)
    BY <1>4 DEF Turns
  <2>. QED  BY <1>2, <2>1 DEF Follows
<1>5. ASSUME NEW t \in Task, \/ Undelivered(t)
                             \/ AlarmFires(t)
                             \/ \E ping \in Pings : Fetch(t, ping)
                             \/ \E ws \in Socket, dest \in Identity : Datagram(t, ws, dest)
      PROVE  "evict" \in Ops(task[u]) \/ task[u].op = "claim"
  <2>1. "evict" \notin Ops(Idle)
    BY IdlePhased
  <2>2. \A h : h.op \in {"accept", "sweep", "closed"} /\ h.cont \in {"idle", "undelivered"} => "evict" \notin Ops(h)
    BY DEF Ops
  <2>3. UNCHANGED task \/ \E h : task' = [task EXCEPT ![t] = h] /\ "evict" \notin Ops(h)
    BY <1>5, <2>1, <2>2, AlarmTurns, FetchTurns, DatagramTurns DEF Undelivered
  <2>4. UNCHANGED task => "evict" \in Ops(task[u])
    OBVIOUS
  <2>. QED  BY <1>2, <2>3, <2>4
<1>6. UNCHANGED task => "evict" \in Ops(task[u])
  OBVIOUS
<1>. QED  BY <1>3, <1>4, <1>5, <1>6, TurnStep

LEMMA EvictorStep ==
  InputGates /\ Known /\ AllPhased /\ EvictorRoutes /\ [Next]_vars => EvictorRoutes'
<1> SUFFICES ASSUME InputGates, Known, AllPhased, EvictorRoutes, [Next]_vars,
                    NEW u \in Task, "evict" \in Ops(task'[u])
             PROVE  Routes(task[u].ws, task[u].id)'
  BY DEF EvictorRoutes, Ops
<1>1. task \in [Task -> Handler] /\ sock \in [Socket -> Attachment]
  BY DEF Known, Shape, TypeOK
<1>2. Phased(task[u]) /\ ("evict" \in Ops(task[u]) \/ task[u].op = "claim")
  BY EvictingComes DEF AllPhased
<1>3. AwaitsStorage(u) /\ task[u].op \in {"claim", "evict", "closed", "sched"}
  BY <1>2 DEF AwaitsStorage, Phased, Ops
<1>4. PICK ws \in Socket, id \in Identity : ws = task[u].ws /\ id = task[u].id
  BY <1>2, <1>3 DEF Known, Shape, HandlersNamed, Named, Ops
<1>5. ASSUME UNCHANGED <<task, sock>> PROVE Routes(task[u].ws, task[u].id)'
  <2>1. "evict" \in Ops(task[u])
    BY <1>5
  <2>. QED  BY <1>5, <2>1 DEF EvictorRoutes, Routes, Live, Accepted
<1>6. ASSUME NEW s \in Socket, Disconnect(s) PROVE Routes(task[u].ws, task[u].id)'
  <2>1. UNCHANGED task /\ sock' = [sock EXCEPT ![s].open = FALSE]
    BY <1>6 DEF Disconnect
  <2>2. \A r \in Socket : sock'[r].phase = sock[r].phase /\ sock'[r].archived = sock[r].archived
                          /\ sock'[r].id = sock[r].id
    BY <1>1, <2>1 DEF Attachment
  <2>3. "evict" \in Ops(task[u])
    BY <2>1
  <2>4. Routes(ws, id)
    BY <1>4, <2>3 DEF EvictorRoutes
  <2>. QED  BY <1>4, <2>1, <2>2, <2>4 DEF Routes, Live, Accepted
<1>7. ~Restart
  <2>1. ASSUME Restart PROVE FALSE
    <3>1. task'[u] = Idle /\ "evict" \notin Ops(Idle)
      BY <2>1, IdlePhased DEF Restart
    <3>. QED  BY <3>1
  <2>. QED  BY <2>1
<1>8. ASSUME Continue(u) PROVE Routes(task[u].ws, task[u].id)'
  <2>1. Claim(u) \/ Evict(u) \/ Closed(u) \/ Schedule(u)
    BY <1>3, <1>8 DEF Continue, Accept, Undelivered, Verify, Confirm, Sweep, Resumes
  <2>2. PICK h \in Handler : task' = [task EXCEPT ![u] = h] /\ Follows(task[u], h)
    BY <2>1, StorageTurns, AuthorizeTurns DEF Turns
  <2>3. task'[u] = h
    BY <1>1, <2>2
  <2>4. task'[u].ws = ws /\ task'[u].id = id
    BY <1>4, <2>2, <2>3 DEF Follows
  <2>5. CASE Claim(u) \/ Evict(u)
    <3>1. Routes(ws, id)'
      BY <1>4, <2>5, EvictingStep
    <3>. QED  BY <2>4, <3>1 DEF Routes
  <2>6. CASE Closed(u) \/ Schedule(u)
    <3>1. UNCHANGED sock /\ task[u].op # "claim"
      BY <2>6 DEF Closed, Schedule, Resumes
    <3>2. Routes(ws, id)
      BY <1>2, <1>4, <3>1 DEF EvictorRoutes
    <3>3. Routes(ws, id)'
      BY <3>1, <3>2 DEF Routes, Live, Accepted
    <3>. QED  BY <2>4, <3>3 DEF Routes
  <2>. QED  BY <2>1, <2>5, <2>6
<1>. QED  BY <1>3, <1>5, <1>6, <1>7, <1>8, GatedStep DEF vars

\* With input gates a socket is told "identity reconnected" only while another socket
\* holds the route of its identity, for every predecessor the loop comes to and not only
\* for the first: the newcomer claims the route before the first await and no event is
\* let in while finish writes (iroh-relay.js:85-91).
THEOREM SupersededSucceeded ==
  ASSUME InputGates
  PROVE  Spec => SupersededHasSuccessor
<1>1. Init => EvictorRoutes
  <2> SUFFICES ASSUME Init, NEW t \in Task PROVE "evict" \notin Ops(task[t])
    BY DEF EvictorRoutes
  <2>1. task[t] = Idle /\ "evict" \notin Ops(Idle)
    BY IdlePhased DEF Init
  <2>. QED  BY <2>1
<1>2. Known /\ AllPhased /\ EvictorRoutes /\ [Next]_vars => EvictorRoutes'
  BY EvictorStep
<1>3. ASSUME Known, AllPhased, EvictorRoutes, [Next]_vars, NEW s \in Socket,
             sock[s].reason # "superseded", sock'[s].reason = "superseded"
      PROVE  \E r \in Socket \ {s} : Routes(r, sock[s].id)'
  <2>1. ~Polite(sock, sock')
    BY <1>3 DEF Polite
  <2>2. ASSUME NEW t \in Task, Claim(t) \/ Evict(t) PROVE \E r \in Socket \ {s} : Routes(r, sock[s].id)'
    <3>1. task[t].ws \in Socket /\ task[t].id \in Identity
      BY <1>3, <2>2 DEF Known, Shape, HandlersNamed, Named, Claim, Evict, Resumes
    <3>. QED  BY <1>3, <2>2, <3>1, EvictingStep
  <2>3. ASSUME NEW t \in Task, Accept(t) PROVE FALSE
    <3> DEFINE a == [Unused EXCEPT !.phase = "challenge", !.open = TRUE, !.deadline = now + AuthTimeout]
    <3>1. PICK r \in Socket : sock' = [sock EXCEPT ![r] = a]
      BY <2>3 DEF Accept
    <3>2. a.reason = "none" /\ sock \in [Socket -> Attachment]
      BY <1>3 DEF Unused, Known, Shape, TypeOK
    <3> HIDE DEF a
    <3>. QED  BY <1>3, <3>1, <3>2
  <2>. QED  BY <1>3, <2>1, <2>2, <2>3, ShutStep
<1>4. Known /\ AllPhased /\ EvictorRoutes /\ [Next]_vars =>
        [\A s \in Socket :
           sock[s].reason # "superseded" /\ sock'[s].reason = "superseded" =>
             \E r \in Socket \ {s} : Routes(r, sock[s].id)']_vars
  BY <1>3
<1>. QED  BY <1>1, <1>2, <1>4, AlwaysOrderly, PTL DEF Spec, Orderly, SupersededHasSuccessor

-----------------------------------------------------------------------------
(* With input gates: what an alarm handler works with is what is stored. *)

SweepFresh == \A t \in Task : "sweep" \in Ops(task[t]) => task[t].meta = meta

LEMMA SweepingComes ==
  ASSUME Known, AllPhased, [Next]_vars, NEW u \in Task, "sweep" \in Ops(task'[u])
  PROVE  "sweep" \in Ops(task[u]) \/ (UNCHANGED meta /\ task'[u].meta = meta)
<1>1. task \in [Task -> Handler]
  BY DEF Known, Shape, TypeOK
<1>2. ASSUME NEW t \in Task, NEW h, task' = [task EXCEPT ![t] = h],
             "sweep" \in Ops(h) => "sweep" \in Ops(task[t]) \/ (UNCHANGED meta /\ h.meta = meta)
      PROVE  "sweep" \in Ops(task[u]) \/ (UNCHANGED meta /\ task'[u].meta = meta)
  <2>1. task'[t] = h /\ \A r \in Task \ {t} : task'[r] = task[r]
    BY <1>1, <1>2
  <2>. QED  BY <1>2, <2>1
<1>3. ~Restart
  <2>1. ASSUME Restart PROVE FALSE
    <3>1. task'[u] = Idle /\ "sweep" \notin Ops(Idle)
      BY <2>1, IdlePhased DEF Restart
    <3>. QED  BY <3>1
  <2>. QED  BY <2>1
<1>4. ASSUME NEW t \in Task, Turns(t)
      PROVE  "sweep" \in Ops(task[u]) \/ (UNCHANGED meta /\ task'[u].meta = meta)
  <2>1. PICK h \in Handler : task' = [task EXCEPT ![t] = h] /\ Follows(task[t], h)
    BY <1>4 DEF Turns
  <2>. QED  BY <1>2, <2>1 DEF Follows
<1>5. ASSUME NEW t \in Task, \/ Undelivered(t)
                             \/ \E ping \in Pings : Fetch(t, ping)
                             \/ \E ws \in Socket, dest \in Identity : Datagram(t, ws, dest)
      PROVE  "sweep" \in Ops(task[u])
  <2>1. "sweep" \notin Ops(Idle)
    BY IdlePhased
  <2>2. \A h : h.op \in {"accept", "closed"} /\ h.cont \in {"idle", "undelivered"} => "sweep" \notin Ops(h)
    BY DEF Ops
  <2>3. UNCHANGED task \/ \E h : task' = [task EXCEPT ![t] = h] /\ "sweep" \notin Ops(h)
    BY <1>5, <2>1, <2>2, FetchTurns, DatagramTurns DEF Undelivered
  <2>4. UNCHANGED task => "sweep" \in Ops(task[u])
    OBVIOUS
  <2>5. ASSUME NEW h, task' = [task EXCEPT ![t] = h], "sweep" \notin Ops(h) PROVE "sweep" \in Ops(task[u])
    <3>1. task'[t] = h /\ \A r \in Task \ {t} : task'[r] = task[r]
      BY <1>1, <2>5
    <3>. QED  BY <2>5, <3>1
  <2>. QED  BY <2>3, <2>4, <2>5
<1>6. ASSUME NEW t \in Task, AlarmFires(t)
      PROVE  "sweep" \in Ops(task[u]) \/ (UNCHANGED meta /\ task'[u].meta = meta)
  <2>1. UNCHANGED task \/ \E h : task' = [task EXCEPT ![t] = h] /\ UNCHANGED meta /\ h.meta = meta
    BY <1>6, AlarmTurns DEF stored
  <2>2. UNCHANGED task => "sweep" \in Ops(task[u])
    OBVIOUS
  <2>. QED  BY <1>2, <2>1, <2>2
<1>7. UNCHANGED task => "sweep" \in Ops(task[u])
  OBVIOUS
<1>. QED  BY <1>3, <1>4, <1>5, <1>6, <1>7, TurnStep

LEMMA SweepFreshStep ==
  InputGates /\ Known /\ AllPhased /\ SweepFresh /\ [Next]_vars => SweepFresh'
<1> SUFFICES ASSUME InputGates, Known, AllPhased, SweepFresh, [Next]_vars,
                    NEW u \in Task, "sweep" \in Ops(task'[u])
             PROVE  task'[u].meta = meta'
  BY DEF SweepFresh, Ops
<1>1. task \in [Task -> Handler] /\ Phased(task[u])
  BY DEF Known, Shape, TypeOK, AllPhased
<1>2. CASE "sweep" \notin Ops(task[u])
  BY <1>2, SweepingComes
<1>3. CASE "sweep" \in Ops(task[u])
  <2>1. AwaitsStorage(u) /\ task[u].op \in {"sweep", "closed", "sched"} /\ task[u].meta = meta
    BY <1>1, <1>3 DEF AwaitsStorage, Phased, Ops, SweepFresh
  <2>2. CASE Continue(u)
    <3>1. Closed(u) \/ Schedule(u) \/ Sweep(u)
      BY <2>1, <2>2 DEF Continue, Accept, Undelivered, Verify, Claim, Evict, Confirm, Resumes
    <3>2. PICK h \in Handler : task' = [task EXCEPT ![u] = h] /\ Follows(task[u], h)
      BY <3>1, StorageTurns, SweepTurns DEF Turns
    <3>3. task'[u] = h
      BY <1>1, <3>2
    <3>4. task'[u].meta = meta
      BY <2>1, <3>2, <3>3 DEF Follows
    <3>5. UNCHANGED meta
      <4>1. CASE Closed(u) \/ Schedule(u)
        BY <4>1 DEF Closed, Schedule, stored
      <4>2. CASE Sweep(u)
        <5>1. UNCHANGED meta \/ task' = [task EXCEPT ![u] = [Scheduling EXCEPT !.meta = task[u].meta]]
          BY <4>2 DEF Sweep
        <5>2. ASSUME task' = [task EXCEPT ![u] = [Scheduling EXCEPT !.meta = task[u].meta]] PROVE FALSE
          <6> DEFINE g == [Scheduling EXCEPT !.meta = task[u].meta]
          <6>1. g.op = "sched" /\ g.cont = "idle"
            BY DEF Scheduling, Idle
          <6> HIDE DEF g
          <6>2. task'[u] = g /\ "sweep" \notin Ops(g)
            BY <1>1, <5>2, <6>1 DEF g, Ops
          <6>. QED  BY <6>2
        <5>. QED  BY <5>1, <5>2
      <4>. QED  BY <3>1, <4>1, <4>2
    <3>. QED  BY <3>4, <3>5
  <2>3. CASE UNCHANGED <<task, meta>>
    BY <2>1, <2>3
  <2>4. ~Restart
    <3>1. ASSUME Restart PROVE FALSE
      <4>1. task'[u] = Idle /\ "sweep" \notin Ops(Idle)
        BY <3>1, IdlePhased DEF Restart
      <4>. QED  BY <4>1
    <3>. QED  BY <3>1
  <2>. QED  BY <2>1, <2>2, <2>3, <2>4, GatedStep DEF Disconnect, vars, stored
<1>. QED  BY <1>2, <1>3

-----------------------------------------------------------------------------
(* With input gates: an authenticated socket has a next ping. *)

\* The handler that authenticated s has not come to write next_ping yet.
Registers(t, s) == task[t].ws = s /\ {"evict", "confirm"} \cap Ops(task[t]) # {}

PingSet ==
  meta # NoMeta => \A s \in Socket :
    Live(s) /\ sock[s].phase = "authenticated" => meta.next_ping # 0 \/ \E t \in Task : Registers(t, s)

LEMMA RegistersAwaits ==
  ASSUME AllPhased, NEW t \in Task, NEW s, Registers(t, s)
  PROVE  AwaitsStorage(t) /\ task[t].op \in {"evict", "confirm", "closed", "sched"}
BY DEF AllPhased, Phased, Registers, Ops, AwaitsStorage

\* Whatever the loop over the predecessors does next, the newcomer is retired or its
\* handler goes on to write next_ping.
LEMMA SupplantRegisters ==
  ASSUME Shape, NEW t \in Task, NEW socks \in [Socket -> Attachment], NEW rest \in SUBSET Socket,
         task[t].op \in {"claim", "evict"}, task[t].cont = "idle", Supplant(t, socks, rest),
         NEW ws \in Socket, ws = task[t].ws
  PROVE  sock'[ws].archived \/ Registers(t, ws)'
<1> DEFINE old == Predecessors(socks, rest, ws, task[t].id)
<1>1. task \in [Task -> Handler] /\ task[t] \in Handler /\ old \subseteq Socket
  BY DEF Shape, TypeOK, Predecessors
<1>2. ASSUME NEW s \in old, NEW passed,
             Finish(t, socks, s, "superseded",
                    [task[t] EXCEPT !.op = "evict", !.rest = rest \ ({s} \cup passed)])
      PROVE  Registers(t, ws)'
  <2> DEFINE e == [task[t] EXCEPT !.op = "evict", !.rest = rest \ ({s} \cup passed)]
  <2>1. e \in Handler /\ e.op = "evict" /\ e.cont = "idle" /\ e.ws = ws
    BY <1>1 DEF Handler, Awaits
  <2>2. Finish(t, socks, s, "superseded", e) /\ s \in Socket
    BY <1>1, <1>2
  <2> HIDE DEF e
  <2>3. Phased(e)
    BY <2>1 DEF Phased
  <2>4. PICK h \in Handler : /\ task' = [task EXCEPT ![t] = h] /\ h.ws = e.ws
                             /\ \A op \in {"undelivered", "evict", "sweep"} : op \in Ops(h) <=> op = e.op
    BY <2>1, <2>2, <2>3, FinishTurns
  <2>5. task'[t] = h
    BY <1>1, <2>4
  <2>6. h.ws = ws /\ "evict" \in Ops(h)
    BY <2>1, <2>4
  <2>. QED  BY <2>5, <2>6 DEF Registers, Ops
<1>3. ASSUME Finish(t, socks, ws, "policy", Idle) PROVE sock'[ws].archived
  BY <1>3 DEF Finish, IsRetired, Attachment
<1>4. ASSUME task' = [task EXCEPT ![t] = [Idle EXCEPT !.op = "confirm", !.ws = ws]] PROVE Registers(t, ws)'
  <2>1. task'[t] = [Idle EXCEPT !.op = "confirm", !.ws = ws]
    BY <1>1, <1>4
  <2>2. task'[t].op = "confirm" /\ task'[t].ws = ws
    BY <2>1 DEF Idle
  <2>. QED  BY <2>2 DEF Registers, Ops
<1>. QED  BY <1>2, <1>3, <1>4 DEF Supplant

LEMMA MetaChanges ==
  ASSUME [Next]_vars
  PROVE  \/ UNCHANGED meta
         \/ meta = NoMeta
         \/ meta' = NoMeta
         \/ \E t \in Task : Confirm(t) \/ Sweep(t)
<1>1. ASSUME NEW t \in Task, Continue(t), ~Confirm(t), ~Sweep(t) PROVE UNCHANGED meta
  BY <1>1 DEF Continue, Accept, Schedule, Closed, Undelivered, Verify, Claim, Evict, stored
<1>2. ASSUME NEW t \in Task, NEW ws \in Socket, Message(t, ws) \/ webSocketClose(t, ws) PROVE UNCHANGED meta
  BY <1>2 DEF Message, Refuse, Ping, Pong, Authorize, Datagram, webSocketClose, stored
<1>3. ASSUME NEW t \in Task, AlarmFires(t) \/ \E ping \in Pings : Fetch(t, ping)
      PROVE  UNCHANGED meta \/ meta' = NoMeta \/ meta = NoMeta
  BY <1>3 DEF AlarmFires, Fetch, stored
<1>4. (\E ws \in Socket : Disconnect(ws)) \/ Restart \/ Tick \/ UNCHANGED vars => UNCHANGED meta
  BY DEF Disconnect, Restart, Tick, vars, stored
<1>. QED  BY <1>1, <1>2, <1>3, <1>4 DEF Next

\* A ping that is set is only ever put off.
LEMMA NextPingKept ==
  ASSUME Known, AllPhased, RoomBegun, SweepFresh, [Next]_vars, meta # NoMeta, meta' # NoMeta,
         meta.next_ping # 0
  PROVE  meta'.next_ping # 0
<1>1. meta \in Meta /\ meta.ping # 0 /\ now \in Nat
  BY DEF Known, Shape, TypeOK, RoomBegun
<1>2. ASSUME NEW t \in Task, Confirm(t) PROVE meta' = meta
  BY <1>2 DEF Confirm
<1>3. ASSUME NEW t \in Task, Sweep(t) PROVE meta'.next_ping # 0
  <2>1. task[t].meta = meta
    BY <1>3 DEF Sweep, Resumes, SweepFresh, Ops
  <2>2. meta' = meta \/ meta' = [meta EXCEPT !.next_ping = now + meta.ping]
    BY <1>3, <2>1 DEF Sweep
  <2>3. now + meta.ping # 0 /\ meta.ping \in Nat
    BY <1>1 DEF Meta
  <2>. QED  BY <1>1, <2>2, <2>3 DEF Meta
<1>. QED  BY <1>2, <1>3, MetaChanges

\* The handler that is to write next_ping does, or its socket is retired.
LEMMA RegistersStep ==
  ASSUME InputGates, Known, AllPhased, RoomBegun, [Next]_vars, meta # NoMeta,
         NEW u \in Task, NEW s \in Socket, Registers(u, s), Live(s)'
  PROVE  meta'.next_ping # 0 \/ Registers(u, s)'
<1>1. /\ task \in [Task -> Handler] /\ sock \in [Socket -> Attachment] /\ Phased(task[u])
      /\ meta \in Meta /\ now \in Nat /\ meta.ping # 0 /\ meta.ping \in Nat /\ Shape
  BY DEF Known, Shape, TypeOK, AllPhased, Meta, RoomBegun
<1>2. AwaitsStorage(u) /\ task[u].op \in {"evict", "confirm", "closed", "sched"} /\ task[u].ws = s
  BY RegistersAwaits DEF Registers
<1>3. ASSUME UNCHANGED task PROVE Registers(u, s)'
  BY <1>3 DEF Registers, Ops
<1>4. ~Restart
  <2>1. ASSUME Restart PROVE FALSE
    BY <2>1, RestartReplaces DEF Replaces, Live, Accepted
  <2>. QED  BY <2>1
<1>5. ASSUME Continue(u) PROVE meta'.next_ping # 0 \/ Registers(u, s)'
  <2>1. Closed(u) \/ Schedule(u) \/ Evict(u) \/ Confirm(u)
    BY <1>2, <1>5 DEF Continue, Accept, Undelivered, Verify, Claim, Sweep, Resumes
  <2>2. CASE Closed(u)
    <3> DEFINE h == [task[u] EXCEPT !.op = "sched", !.victim = None, !.tally = counters]
    <3>1. task' = [task EXCEPT ![u] = h] /\ task[u].op = "closed"
      BY <2>2 DEF Closed, Resumes
    <3>2. h.op = "sched" /\ h.cont = task[u].cont /\ h.ws = task[u].ws
      BY <1>1 DEF Handler
    <3> HIDE DEF h
    <3>3. task'[u] = h /\ task[u].cont = "evict"
      BY <1>1, <3>1 DEF Registers, Phased, Ops
    <3>. QED  BY <1>2, <3>2, <3>3 DEF Registers, Ops
  <2>3. CASE Schedule(u)
    <3> DEFINE h == [task[u] EXCEPT !.op = task[u].cont, !.cont = "idle"]
    <3>1. task[u].op = "sched" /\ task[u].cont = "evict"
      BY <1>1, <2>3 DEF Schedule, Resumes, Registers, Phased, Ops
    <3>2. task' = [task EXCEPT ![u] = h]
      BY <2>3, <3>1 DEF Schedule
    <3>3. h.op = "evict" /\ h.ws = task[u].ws
      BY <1>1, <3>1 DEF Handler
    <3> HIDE DEF h
    <3>4. task'[u] = h
      BY <1>1, <3>2
    <3>. QED  BY <1>2, <3>3, <3>4 DEF Registers, Ops
  <2>4. CASE Evict(u)
    <3>1. Supplant(u, sock, task[u].rest) /\ task[u].op = "evict" /\ task[u].cont = "idle"
          /\ task[u].rest \in SUBSET Socket
      BY <1>1, <2>4 DEF Evict, Resumes, Phased, Handler
    <3>2. sock'[s].archived \/ Registers(u, s)'
      BY <1>1, <1>2, <3>1, SupplantRegisters
    <3>. QED  BY <3>2 DEF Live
  <2>5. CASE Confirm(u)
    <3>1. meta' = IF meta.next_ping = 0 THEN [meta EXCEPT !.next_ping = now + meta.ping] ELSE meta
      BY <2>5 DEF Confirm
    <3>2. now + meta.ping # 0
      BY <1>1
    <3>. QED  BY <1>1, <3>1, <3>2 DEF Meta
  <2>. QED  BY <2>1, <2>2, <2>3, <2>4, <2>5
<1>. QED  BY <1>2, <1>3, <1>4, <1>5, GatedStep DEF Disconnect, vars

LEMMA PingSetStep ==
  InputGates /\ Orderly /\ SweepFresh /\ PingSet /\ [Next]_vars => PingSet'
<1> SUFFICES ASSUME InputGates, Known, AllPhased, RoomBegun, SweepFresh, PingSet, [Next]_vars, meta' # NoMeta,
                    NEW s \in Socket, Live(s)', sock'[s].phase = "authenticated"
             PROVE  meta'.next_ping # 0 \/ \E t \in Task : Registers(t, s)'
  BY DEF PingSet, Orderly
<1>1. meta # NoMeta
  <2>1. ASSUME meta = NoMeta PROVE FALSE
    <3>1. now < Expires /\ UNCHANGED sock
      BY <2>1, MetaStep
    <3>2. Accepted = {}
      BY <2>1, <3>1 DEF RoomBegun
    <3>. QED  BY <3>1, <3>2 DEF Live, Accepted
  <2>. QED  BY <2>1
<1>2. ASSUME Live(s), sock[s].phase = "authenticated"
      PROVE  meta'.next_ping # 0 \/ \E t \in Task : Registers(t, s)'
  <2>1. meta.next_ping # 0 \/ \E t \in Task : Registers(t, s)
    BY <1>1, <1>2 DEF PingSet
  <2>. QED  BY <1>1, <2>1, NextPingKept, RegistersStep
<1>3. CASE Tame(sock, sock') \/ Replaces(sock, sock')
  <2>1. Live(s) /\ sock[s].phase = "authenticated"
    BY <1>3 DEF Tame, Replaces, Live, Accepted
  <2>. QED  BY <1>2, <2>1
<1>4. ASSUME NEW t \in Task, NEW ws \in Socket, NEW id \in Identity,
             Claim(t), ws = task[t].ws, id = task[t].id, Takes(ws, id)
      PROVE  meta'.next_ping # 0 \/ \E u \in Task : Registers(u, s)'
  <2> DEFINE socks == Authenticated(ws, id)
  <2>1. /\ socks \in [Socket -> Attachment]
        /\ \A r \in Socket : socks[r].archived = sock[r].archived /\ (r # ws => socks[r] = sock[r])
        /\ sock \in [Socket -> Attachment]
    BY AuthenticatedFields DEF Known, Shape, TypeOK
  <2>2. task[t].op = "claim" /\ task[t].cont = "idle" /\ Shape /\ sock[ws].phase = "verifying"
    BY <1>4 DEF Claim, Resumes, AllPhased, Phased, Known, Takes
  <2> HIDE DEF socks
  <2>3. CASE ClaimRefused(ws, id)
    <3>1. Finish(t, sock, ws, "policy", Idle)
      BY <1>4, <2>3 DEF Claim
    <3>2. sock' = sock \/ sock' = [sock EXCEPT ![ws].archived = TRUE, ![ws].reason = "policy"]
      BY <3>1 DEF Finish
    <3>3. \A r \in Socket : sock'[r].phase = sock[r].phase /\ (sock[r].archived => sock'[r].archived)
      BY <2>1, <3>2 DEF Attachment
    <3>. QED  BY <1>2, <3>3 DEF Live, Accepted
  <2>4. CASE ~ClaimRefused(ws, id) /\ s = ws
    <3>1. Supplant(t, socks, Accepted) /\ Accepted \in SUBSET Socket
      BY <1>4, <2>4 DEF Claim, Accepted, socks
    <3>2. sock'[ws].archived \/ Registers(t, ws)'
      BY <1>4, <2>1, <2>2, <3>1, SupplantRegisters
    <3>. QED  BY <2>4, <3>2 DEF Live
  <2>5. CASE s # ws
    <3>1. sock' = socks \/ \E v \in Socket : Retiring(socks, sock', v)
      BY <1>4 DEF Takes, Predecessors, Accepted, socks
    <3>2. Live(s) /\ sock[s].phase = "authenticated"
      BY <2>1, <2>5, <3>1 DEF Retiring, Live, Accepted
    <3>. QED  BY <1>2, <3>2
  <2>. QED  BY <2>3, <2>4, <2>5
<1>. QED  BY <1>3, <1>4, StepTame

-----------------------------------------------------------------------------
(* With input gates: an alarm comes in time for everything that is due. *)

LEMMA MaxPair ==
  ASSUME NEW a \in Nat, NEW b \in Nat
  PROVE  Max({a, b}) = IF a >= b THEN a ELSE b
<1>1. \E x \in {a, b} : \A y \in {a, b} : x >= y
  OBVIOUS
<1>2. Max({a, b}) \in {a, b} /\ \A y \in {a, b} : Max({a, b}) >= y
  BY <1>1 DEF Max
<1>. QED  BY <1>2

LEMMA MinBelow ==
  ASSUME NEW S \in SUBSET Nat, NEW x \in S
  PROVE  Min(S) \in Nat /\ Min(S) <= x
<1> DEFINE R == {ss \in Nat \X Nat : ss[1] < ss[2]}
<1>1. IsWellFoundedOn(R, Nat)
  BY NatLessThanWellFounded DEF OpToRel
<1>2. PICK m \in S : \A y \in S : ~ (<<y, m>> \in R)
  BY <1>1, WFMin
<1>3. ASSUME NEW y \in S PROVE m <= y
  <2>1. m \in Nat /\ y \in Nat /\ ~ (<<y, m>> \in R)
    BY <1>2
  <2>2. ~ (y < m)
    BY <2>1
  <2>. QED  BY <2>1, <2>2
<1>4. Min(S) \in S /\ \A y \in S : Min(S) <= y
  BY <1>3 DEF Min
<1>. QED  BY <1>4

CoveredSocket(s) ==
  /\ alarm <= Max({now + 1, Expires})
  /\ sock[s].deadline # 0 => alarm <= Max({now + 1, sock[s].deadline})
  /\ sock[s].phase = "authenticated" => meta.next_ping # 0 /\ alarm <= Max({now + 1, meta.next_ping})

Covered == alarm # 0 /\ \A s \in Socket : Live(s) => CoveredSocket(s)

\* Nobody is between a change of the sockets and the schedule that takes note of it.
RestOps == {"idle", "verify", "claim", "undelivered"}
Restful == \A t \in Task : task[t].op \in RestOps

\* Until the first restart, and again whenever a socket is connected.
Attended == restarts = 0 \/ \E s \in Socket : Live(s)

DueCovered == meta # NoMeta /\ Restful /\ Attended => Covered

\* The live sockets after a step, and what is due of them, were there before.
Calm ==
  \A s \in Socket : Live(s)' =>
    /\ Live(s) /\ sock'[s].deadline = sock[s].deadline
    /\ sock'[s].phase = "authenticated" => sock[s].phase = "authenticated"

LEMMA CoveredKept ==
  ASSUME Shape, Shape', Covered, Calm, UNCHANGED <<alarm, meta>>, now' >= now
  PROVE  Covered'
<1>1. /\ now \in Nat /\ now' \in Nat /\ alarm \in Nat /\ meta.next_ping \in Nat /\ Expires \in Nat
      /\ \A s \in Socket : sock[s].deadline \in Nat
  BY ConstantsTyped DEF Shape, TypeOK, Meta, Attachment
<1>2. ASSUME NEW b \in Nat, alarm <= Max({now + 1, b}) PROVE alarm <= Max({now' + 1, b})
  <2> DEFINE m == now + 1
             n == now' + 1
  <2>1. m \in Nat /\ n \in Nat /\ m <= n /\ alarm \in Nat
    <3>1. now \in Nat /\ now' \in Nat /\ now' >= now /\ alarm \in Nat
      BY <1>1
    <3>2. \A i, j \in Nat : j >= i => i + 1 \in Nat /\ j + 1 \in Nat /\ i + 1 <= j + 1
      OBVIOUS
    <3>. QED  BY <3>1, <3>2
  <2> HIDE DEF m, n
  <2>2. Max({m, b}) = (IF m >= b THEN m ELSE b) /\ Max({n, b}) = (IF n >= b THEN n ELSE b)
    BY <2>1, MaxPair
  <2>3. alarm <= Max({m, b})
    BY <1>2 DEF m
  <2>4. alarm <= Max({n, b})
    BY <2>1, <2>2, <2>3
  <2>. QED  BY <2>4 DEF n
<1>3. ASSUME NEW s \in Socket, Live(s)' PROVE CoveredSocket(s)'
  <2>1. CoveredSocket(s) /\ sock'[s].deadline = sock[s].deadline
        /\ (sock'[s].phase = "authenticated" => sock[s].phase = "authenticated")
    BY <1>3 DEF Calm, Covered
  <2>. QED  BY <1>1, <1>2, <2>1 DEF CoveredSocket
<1>. QED  BY <1>3 DEF Covered

LEMMA ScheduleCovers ==
  ASSUME Shape, NEW t \in Task, Schedule(t), meta # NoMeta,
         \A s \in Socket : Live(s) /\ sock[s].phase = "authenticated" => meta.next_ping # 0
  PROVE  Covered'
<1> DEFINE active == {s \in Socket : Live(s)}
           due == {Expires} \cup (({meta.next_ping} \cup {sock[s].deadline : s \in active}) \ {0})
<1>1. /\ now \in Nat /\ Expires \in Nat /\ Linger \in Nat /\ meta.next_ping \in Nat
      /\ \A s \in Socket : sock[s].deadline \in Nat
  BY ConstantsTyped DEF Shape, TypeOK, Meta, Attachment
<1>2. alarm' = NextAlarm /\ UNCHANGED <<now, sock, meta>>
  BY DEF Schedule, Armed, stored
<1>3. now + 1 \in Nat /\ Expires + Linger \in Nat
  BY <1>1
<1>4. due \in SUBSET Nat /\ Expires \in due
  BY <1>1
<1>5. Min(due) \in Nat /\ \A x \in due : Min(due) <= x
  BY <1>4, MinBelow
<1>6. NextAlarm = Max({now + 1, IF active = {} THEN Expires + Linger ELSE Min(due)})
  BY DEF NextAlarm
<1>7. \A s \in active : sock[s].deadline # 0 => sock[s].deadline \in due
  OBVIOUS
<1>8. meta.next_ping # 0 => meta.next_ping \in due
  OBVIOUS
<1> HIDE DEF due
<1>9. alarm' # 0
  <2> DEFINE b == IF active = {} THEN Expires + Linger ELSE Min(due)
  <2>1. b \in Nat
    BY <1>3, <1>5
  <2> HIDE DEF b
  <2>2. Max({now + 1, b}) = IF now + 1 >= b THEN now + 1 ELSE b
    BY <1>3, <2>1, MaxPair
  <2>. QED  BY <1>1, <1>2, <1>6, <2>1, <2>2 DEF b
<1>10. ASSUME NEW s \in Socket, Live(s) PROVE CoveredSocket(s)'
  <2>1. alarm' = Max({now + 1, Min(due)})
    BY <1>2, <1>6, <1>10
  <2>2. ASSUME NEW x \in due PROVE alarm' <= Max({now + 1, x})
    <3>1. x \in Nat /\ Min(due) <= x
      BY <1>4, <1>5, <2>2
    <3>2. Max({now + 1, x}) = (IF now + 1 >= x THEN now + 1 ELSE x)
          /\ Max({now + 1, Min(due)}) = (IF now + 1 >= Min(due) THEN now + 1 ELSE Min(due))
      BY <1>3, <1>5, <3>1, MaxPair
    <3>. QED  BY <1>3, <1>5, <2>1, <3>1, <3>2
  <2>3. alarm' <= Max({now + 1, Expires})
    BY <1>4, <2>2
  <2>4. sock[s].deadline # 0 => alarm' <= Max({now + 1, sock[s].deadline})
    BY <1>7, <1>10, <2>2
  <2>5. sock[s].phase = "authenticated" => meta.next_ping # 0 /\ alarm' <= Max({now + 1, meta.next_ping})
    BY <1>8, <1>10, <2>2
  <2>. QED  BY <1>2, <2>3, <2>4, <2>5 DEF CoveredSocket
<1>. QED  BY <1>2, <1>9, <1>10 DEF Covered, Live, Accepted

-----------------------------------------------------------------------------
\* The steps that do not leave anything to schedule.
Rests == Restful /\ Calm /\ UNCHANGED <<alarm, meta, restarts>>

LEMMA RestfulBefore ==
  ASSUME InputGates, AllPhased, NEW t \in Task, MayRun(t), task[t].op \in RestOps
  PROVE  Restful
BY DEF MayRun, AwaitsStorage, Restful, RestOps

LEMMA Restless ==
  ASSUME Shape, NEW t \in Task, NEW h, task' = [task EXCEPT ![t] = h], h.op \notin RestOps
  PROVE  ~Restful'
<1>1. task'[t] = h
  BY DEF Shape, TypeOK
<1>. QED  BY <1>1 DEF Restful

LEMMA FinishRests ==
  ASSUME Shape, NEW t \in Task, NEW socks \in [Socket -> Attachment], NEW v \in Socket,
         NEW why, NEW after \in Handler, Finish(t, socks, v, why, after), Restful'
  PROVE  socks[v].archived /\ sock' = socks
<1>1. ASSUME ~IsRetired(socks[v]) PROVE FALSE
  <2> DEFINE h == [after EXCEPT !.op = "closed", !.cont = after.op, !.victim = v, !.tally = socks[v].n]
  <2>1. task' = [task EXCEPT ![t] = h] /\ h.op = "closed"
    BY <1>1 DEF Finish, Handler
  <2> HIDE DEF h
  <2>. QED  BY <2>1, Restless DEF RestOps
<1>. QED  BY <1>1 DEF Finish, IsRetired

LEMMA CalmSame == UNCHANGED sock => Calm
BY DEF Calm, Live, Accepted

LEMMA SupplantRestless ==
  ASSUME Shape, NEW t \in Task, NEW socks \in [Socket -> Attachment], NEW rest \in SUBSET Socket,
         Supplant(t, socks, rest), task[t].ws \in Socket, ~socks[task[t].ws].archived
  PROVE  ~Restful'
<1> DEFINE ws == task[t].ws
           old == Predecessors(socks, rest, ws, task[t].id)
<1>1. task[t] \in Handler /\ \A s \in old : s \in Socket /\ ~socks[s].archived
  BY DEF Shape, TypeOK, Predecessors
<1>2. ASSUME NEW s \in old, NEW passed,
             Finish(t, socks, s, "superseded",
                    [task[t] EXCEPT !.op = "evict", !.rest = rest \ ({s} \cup passed)])
      PROVE  ~Restful'
  <2>1. [task[t] EXCEPT !.op = "evict", !.rest = rest \ ({s} \cup passed)] \in Handler
    BY <1>1 DEF Handler, Awaits
  <2>. QED  BY <1>1, <1>2, <2>1, FinishRests
<1>3. ASSUME Finish(t, socks, ws, "policy", Idle) PROVE ~Restful'
  BY <1>3, FinishRests, IdleTyped
<1>4. ASSUME task' = [task EXCEPT ![t] = [Idle EXCEPT !.op = "confirm", !.ws = ws]] PROVE ~Restful'
  <2> DEFINE h == [Idle EXCEPT !.op = "confirm", !.ws = ws]
  <2>1. task' = [task EXCEPT ![t] = h] /\ h.op = "confirm"
    BY <1>4 DEF Idle
  <2> HIDE DEF h
  <2>. QED  BY <2>1, Restless DEF RestOps
<1>. QED  BY <1>2, <1>3, <1>4 DEF Supplant

LEMMA StorageRests ==
  ASSUME InputGates, Known, AllPhased, EvictorRoutes, Restful', meta' # NoMeta, NEW t \in Task,
         \/ Accept(t) \/ Closed(t) \/ Undelivered(t) \/ Verify(t) \/ Claim(t) \/ Evict(t) \/ Confirm(t)
  PROVE  Rests
<1>1. sock \in [Socket -> Attachment] /\ Shape /\ task[t] \in Handler /\ task \in [Task -> Handler]
  BY DEF Known, Shape, TypeOK
<1>2. \A h : task' = [task EXCEPT ![t] = h] => h.op \in RestOps
  BY <1>1, Restless
<1>3. Scheduling.op = "sched" /\ Idle \in Handler
  BY IdlePhased, IdleTyped
<1>4. ~Accept(t)
  BY <1>2, <1>3 DEF Accept, RestOps
<1>5. ~Closed(t)
  <2> DEFINE h == [task[t] EXCEPT !.op = "sched", !.victim = None, !.tally = counters]
  <2>1. h.op = "sched"
    BY <1>1 DEF Handler
  <2>2. Closed(t) => task' = [task EXCEPT ![t] = h]
    BY DEF Closed
  <2> HIDE DEF h
  <2>. QED  BY <1>2, <2>1, <2>2 DEF RestOps
<1>6. CASE Undelivered(t)
  <2>1. task[t].ws \in Socket /\ task[t].op = "undelivered" /\ MayRun(t)
    BY <1>6 DEF Known, Shape, HandlersNamed, Named, Undelivered, Resumes
  <2>2. \A s \in Socket : /\ sock'[s].phase = sock[s].phase /\ sock'[s].archived = sock[s].archived
                          /\ sock'[s].deadline = sock[s].deadline
    BY <1>1, <1>6, <2>1 DEF Undelivered, Dropped, Attachment
  <2>3. Calm
    BY <2>2 DEF Calm, Live, Accepted
  <2>4. Restful
    BY <2>1, RestfulBefore DEF RestOps
  <2>. QED  BY <1>6, <2>3, <2>4 DEF Rests, Undelivered, stored
<1>7. CASE Verify(t)
  <2>1. task[t].ws \in Socket /\ task[t].op = "verify" /\ MayRun(t)
    BY <1>7 DEF Known, Shape, HandlersNamed, Named, Verify, Resumes
  <2>2. UNCHANGED sock
    BY <1>1, <1>3, <1>7, <2>1, FinishRests DEF Verify
  <2>3. Restful
    BY <2>1, RestfulBefore DEF RestOps
  <2>. QED  BY <1>7, <2>2, <2>3, CalmSame DEF Rests, Verify, stored
<1>8. CASE Claim(t)
  <2>1. /\ task[t].ws \in Socket /\ task[t].id \in Identity /\ task[t].op = "claim" /\ MayRun(t)
        /\ UNCHANGED <<alarm, meta, restarts>>
    BY <1>8 DEF Known, Shape, HandlersNamed, Named, Claim, Resumes
  <2>2. Restful
    BY <2>1, RestfulBefore DEF RestOps
  <2>3. CASE ClaimRefused(task[t].ws, task[t].id)
    <3>1. Finish(t, sock, task[t].ws, "policy", Idle)
      BY <1>8, <2>3 DEF Claim
    <3>2. UNCHANGED sock
      BY <1>1, <1>3, <2>1, <3>1, FinishRests
    <3>. QED  BY <2>1, <2>2, <3>2, CalmSame DEF Rests
  <2>4. CASE ~ClaimRefused(task[t].ws, task[t].id)
    <3> DEFINE socks == Authenticated(task[t].ws, task[t].id)
    <3>1. Supplant(t, socks, Accepted) /\ ~sock[task[t].ws].archived /\ Accepted \in SUBSET Socket
      BY <1>8, <2>4 DEF Claim, ClaimRefused, Accepted
    <3>2. socks \in [Socket -> Attachment] /\ ~socks[task[t].ws].archived
      BY <1>1, <2>1, <3>1, AuthenticatedFields DEF Shape
    <3> HIDE DEF socks
    <3>. QED  BY <1>1, <2>1, <3>1, <3>2, SupplantRestless
  <2>. QED  BY <2>3, <2>4
<1>9. ~Evict(t)
  <2>1. ASSUME Evict(t) PROVE FALSE
    <3>1. Supplant(t, sock, task[t].rest) /\ task[t].op = "evict" /\ task[t].rest \in SUBSET Socket
          /\ task[t].ws \in Socket
      BY <1>1, <2>1 DEF Evict, Resumes, Handler, Shape, HandlersNamed, Named
    <3>2. ~sock[task[t].ws].archived
      BY <3>1 DEF EvictorRoutes, Ops, Routes, Live
    <3>. QED  BY <1>1, <3>1, <3>2, SupplantRestless
  <2>. QED  BY <2>1
<1>10. ~Confirm(t)
  BY <1>2, <1>3 DEF Confirm, RestOps
<1>. QED  BY <1>4, <1>5, <1>6, <1>7, <1>8, <1>9, <1>10

LEMMA MessageRests ==
  ASSUME InputGates, Known, AllPhased, Restful', NEW t \in Task, NEW ws \in Socket,
         Message(t, ws) \/ webSocketClose(t, ws)
  PROVE  Rests
<1>1. /\ sock \in [Socket -> Attachment] /\ Shape /\ task \in [Task -> Handler]
      /\ Counted(ws) \in [Socket -> Attachment] /\ Idle \in Handler
  BY CountedTyped, IdleTyped DEF Known, Shape, TypeOK
<1>2. \A s \in Socket : /\ Counted(ws)[s].phase = sock[s].phase /\ Counted(ws)[s].deadline = sock[s].deadline
                        /\ Counted(ws)[s].archived = sock[s].archived
  BY <1>1 DEF Counted, Attachment, Counts
<1>3. Live(ws) /\ Starts(t) /\ Restful
  <2>1. Live(ws) /\ Starts(t)
    BY DEF Message, Refuse, Ping, Pong, Authorize, Datagram, webSocketClose, Serves, Receives
  <2>. QED  BY <2>1, RestfulBefore DEF Starts, RestOps
<1>4. UNCHANGED <<alarm, meta, restarts>>
  BY DEF Message, Refuse, Ping, Pong, Authorize, Datagram, webSocketClose, stored
<1>5. ~Refuse(t, ws) /\ ~webSocketClose(t, ws)
  <2>1. ASSUME NEW socks \in {sock, Counted(ws)}, NEW why, Finish(t, socks, ws, why, Idle) PROVE FALSE
    <3>1. socks \in [Socket -> Attachment] /\ ~socks[ws].archived
      BY <1>1, <1>2, <1>3 DEF Live
    <3>. QED  BY <1>1, <2>1, <3>1, FinishRests
  <2>. QED  BY <2>1 DEF Refuse, webSocketClose
<1>6. ~Pong(t, ws)
  BY <1>1, Restless, IdlePhased DEF Pong, RestOps
<1>7. ASSUME NEW socks, sock' = socks,
             \A s \in Socket : /\ socks[s].phase = "authenticated" => sock[s].phase = "authenticated"
                               /\ socks[s].phase \notin {"none", "lost"} => sock[s].phase \notin {"none", "lost"}
                               /\ socks[s].deadline = sock[s].deadline /\ socks[s].archived = sock[s].archived
      PROVE  Rests
  <2>1. Calm
    BY <1>7 DEF Calm, Live, Accepted
  <2>. QED  BY <1>3, <1>4, <2>1 DEF Rests
<1>8. ASSUME Ping(t, ws) PROVE Rests
  BY <1>2, <1>7, <1>8 DEF Ping
<1>9. ASSUME NEW id \in Identity, Authorize(t, ws, id) PROVE Rests
  <2>1. sock' = [Counted(ws) EXCEPT ![ws].phase = "verifying"] /\ sock[ws].phase = "challenge"
    BY <1>9 DEF Authorize
  <2>2. \A s \in Socket : /\ sock'[s].deadline = Counted(ws)[s].deadline
                          /\ sock'[s].archived = Counted(ws)[s].archived
                          /\ s # ws => sock'[s].phase = Counted(ws)[s].phase
                          /\ s = ws => sock'[s].phase = "verifying"
    BY <1>1, <2>1 DEF Attachment
  <2>3. \A s \in Socket : /\ sock'[s].phase = "authenticated" => sock[s].phase = "authenticated"
                          /\ sock'[s].phase \notin {"none", "lost"} => sock[s].phase \notin {"none", "lost"}
                          /\ sock'[s].deadline = sock[s].deadline /\ sock'[s].archived = sock[s].archived
    <3>1. \A s \in Socket \ {ws} : sock'[s].phase = sock[s].phase
      BY <1>2, <2>2
    <3>2. sock'[ws].phase = "verifying"
      BY <2>2
    <3>. QED  BY <1>2, <2>1, <2>2, <3>1, <3>2
  <2>. QED  BY <1>7, <2>3
<1>10. ASSUME NEW dest \in Identity, Datagram(t, ws, dest) PROVE Rests
  <2> DEFINE counted == Counted(ws)
             received == [counted EXCEPT ![ws].n.datagram = @ + 1]
             waiting == [Idle EXCEPT !.op = "undelivered", !.ws = ws]
  <2>1. counted \in [Socket -> Attachment]
    BY <1>1
  <2>2. \A s \in Socket : /\ counted[s].phase = sock[s].phase /\ counted[s].deadline = sock[s].deadline
                          /\ counted[s].archived = sock[s].archived
    BY <1>2
  <2> HIDE DEF counted
  <2>3. /\ received \in [Socket -> Attachment]
        /\ \A s \in Socket : /\ received[s].phase = sock[s].phase /\ received[s].deadline = sock[s].deadline
                             /\ received[s].archived = sock[s].archived
    BY <2>1, <2>2 DEF Attachment, Counts
  <2> HIDE DEF received
  <2>4. \/ \E f \in {"dropped", "forwarded"} : sock' = [received EXCEPT ![ws].n[f] = @ + 1]
        \/ \E p \in Socket : Live(p) /\ Finish(t, received, p, "undeliverable", waiting)
    BY <1>10 DEF Datagram, received, counted, Routes
  <2>5. waiting \in Handler
    BY <1>1, CountersTyped DEF Idle, Handler, Awaits, Meta, NoMeta
  <2> HIDE DEF waiting
  <2>6. ASSUME NEW p \in Socket, Live(p), Finish(t, received, p, "undeliverable", waiting) PROVE FALSE
    <3>1. ~received[p].archived
      BY <2>3, <2>6 DEF Live
    <3>. QED  BY <1>1, <2>3, <2>5, <2>6, <3>1, FinishRests
  <2>7. ASSUME NEW f \in {"dropped", "forwarded"}, sock' = [received EXCEPT ![ws].n[f] = @ + 1] PROVE Rests
    <3>1. \A s \in Socket : /\ sock'[s].phase = sock[s].phase /\ sock'[s].deadline = sock[s].deadline
                            /\ sock'[s].archived = sock[s].archived
      BY <2>3, <2>7 DEF Attachment
    <3>. QED  BY <1>7, <3>1
  <2>. QED  BY <2>4, <2>6, <2>7
<1>. QED  BY <1>5, <1>6, <1>8, <1>9, <1>10 DEF Message

LEMMA AlarmRestless ==
  ASSUME Known, AllPhased, NEW t \in Task,
         \/ AlarmFires(t) /\ meta' # NoMeta
         \/ \E ping \in Pings : Fetch(t, ping)
         \/ Sweep(t)
  PROVE  ~Restful'
<1>1. /\ sock \in [Socket -> Attachment] /\ Shape /\ task[t] \in Handler /\ task \in [Task -> Handler]
      /\ now + PongTimeout \in Nat
  BY ConstantsTyped DEF Known, Shape, TypeOK
<1>2. ASSUME NEW ping \in Pings, Fetch(t, ping) PROVE ~Restful'
  BY <1>1, <1>2, FetchTurns, Restless DEF RestOps
<1>3. ASSUME AlarmFires(t), meta' # NoMeta PROVE ~Restful'
  <2> DEFINE h == [Idle EXCEPT !.op = "sweep", !.meta = meta, !.rest = Accepted]
  <2>1. task' = [task EXCEPT ![t] = h] /\ h.op = "sweep"
    BY <1>3 DEF AlarmFires, stored, Idle
  <2> HIDE DEF h
  <2>. QED  BY <1>1, <2>1, Restless DEF RestOps
<1>4. ASSUME Sweep(t) PROVE ~Restful'
  <2> DEFINE m == task[t].meta
             due == {s \in task[t].rest : Live(s) /\ Overdue(s)}
             quiet == {s \in task[t].rest : /\ Live(s) /\ ~Overdue(s) /\ PingDue(m)
                                            /\ sock[s].phase = "authenticated" /\ ~sock[s].pinged}
             after(passed) == [s \in Socket |-> IF s \in passed \cap quiet THEN Pinged(s) ELSE sock[s]]
  <2>1. \A s \in Socket : Pinged(s) \in Attachment /\ Pinged(s).archived = sock[s].archived
    BY <1>1 DEF Pinged, Attachment
  <2>2. \A passed : after(passed) \in [Socket -> Attachment]
                    /\ \A s \in Socket : after(passed)[s].archived = sock[s].archived
    BY <1>1, <2>1
  <2>3. task[t].rest \in SUBSET Socket
    BY <1>1 DEF Handler
  <2> HIDE DEF after
  <2>4. ASSUME NEW passed, NEW seen, NEW s \in task[t].rest, Live(s), NEW why,
               Finish(t, after(seen), s, why, [task[t] EXCEPT !.rest = @ \ ({s} \cup passed)])
        PROVE  ~Restful'
    <3> DEFINE e == [task[t] EXCEPT !.rest = @ \ ({s} \cup passed)]
    <3>1. e \in Handler /\ Finish(t, after(seen), s, why, e)
      BY <1>1, <2>4 DEF Handler
    <3>2. s \in Socket /\ after(seen) \in [Socket -> Attachment] /\ ~after(seen)[s].archived
      BY <2>2, <2>3, <2>4 DEF Live
    <3> HIDE DEF e
    <3>. QED  BY <1>1, <3>1, <3>2, FinishRests
  <2>5. ASSUME task' = [task EXCEPT ![t] = [Scheduling EXCEPT !.meta = m]] PROVE ~Restful'
    <3> DEFINE h == [Scheduling EXCEPT !.meta = m]
    <3>1. task' = [task EXCEPT ![t] = h] /\ h.op = "sched"
      BY <2>5 DEF Scheduling, Idle
    <3> HIDE DEF h
    <3>. QED  BY <1>1, <3>1, Restless DEF RestOps
  <2>6. ASSUME NEW passed \in SUBSET (task[t].rest \ due), NEW s \in task[t].rest,
               \/ s \in due /\ Finish(t, after(passed), s, "timeout",
                                      [task[t] EXCEPT !.rest = @ \ ({s} \cup passed)])
               \/ s \in quiet /\ Finish(t, after(passed \cup {s}), s, "unreachable",
                                        [task[t] EXCEPT !.rest = @ \ ({s} \cup passed)])
        PROVE  ~Restful'
    BY <2>4, <2>6
  <2>. QED  BY <1>4, <2>5, <2>6 DEF Sweep, after
<1>. QED  BY <1>2, <1>3, <1>4

\* A handler that comes to rest through schedule leaves nobody without a next ping.
LEMMA ScheduleRests ==
  ASSUME InputGates, Known, AllPhased, PingSet, meta # NoMeta, NEW t \in Task, Schedule(t), Restful'
  PROVE  Covered'
<1>1. Phased(task[t]) /\ task[t].op = "sched" /\ MayRun(t) /\ Shape /\ task[t] \in Handler
  BY DEF Schedule, Resumes, AllPhased, Known, Shape, TypeOK
<1>2. task[t].cont \in {"idle", "undelivered"}
  <2>1. ASSUME task[t].cont # "idle" PROVE task[t].cont \in RestOps
    <3> DEFINE h == [task[t] EXCEPT !.op = task[t].cont, !.cont = "idle"]
    <3>1. task' = [task EXCEPT ![t] = h]
      BY <2>1 DEF Schedule
    <3>2. h.op = task[t].cont
      BY <1>1 DEF Handler
    <3> HIDE DEF h
    <3>. QED  BY <1>1, <3>1, <3>2, Restless
  <2>. QED  BY <1>1, <2>1 DEF Phased, RestOps
<1>3. ASSUME NEW u \in Task, NEW s, Registers(u, s) PROVE FALSE
  <2>1. AwaitsStorage(u)
    BY <1>3, RegistersAwaits
  <2>2. u = t
    BY <1>1, <2>1, AwaitsKept
  <2>. QED  BY <1>1, <1>2, <1>3, <2>2 DEF Registers, Ops
<1>4. \A s \in Socket : Live(s) /\ sock[s].phase = "authenticated" => meta.next_ping # 0
  BY <1>3 DEF PingSet
<1>. QED  BY <1>1, <1>4, ScheduleCovers

LEMMA DueCoveredStep ==
  InputGates /\ Orderly /\ EvictorRoutes /\ SweepFresh /\ PingSet /\ DueCovered /\ [Next]_vars
    => DueCovered'
<1> SUFFICES ASSUME InputGates, Known, AllPhased, RoomBegun, EvictorRoutes, PingSet, DueCovered, [Next]_vars
             PROVE  DueCovered'
  BY DEF Orderly
<1> SUFFICES ASSUME meta' # NoMeta, Restful', Attended'
             PROVE  Covered'
  BY DEF DueCovered
<1>1. Shape /\ Shape' /\ now' >= now
  BY NextKnown, ClockStep DEF Known
<1>2. ASSUME Rests PROVE Covered'
  <2>1. Attended
    BY <1>2 DEF Attended, Rests, Calm
  <2>2. Covered
    BY <1>2, <2>1 DEF DueCovered, Rests
  <2>. QED  BY <1>1, <1>2, <2>2, CoveredKept DEF Rests
<1>3. ASSUME NEW t \in Task, Continue(t) PROVE Covered'
  <2>1. CASE Schedule(t)
    <3>1. meta # NoMeta
      BY <2>1 DEF Schedule, stored
    <3>. QED  BY <2>1, <3>1, ScheduleRests
  <2>2. CASE Sweep(t)
    BY <2>2, AlarmRestless
  <2>. QED  BY <1>2, <1>3, <2>1, <2>2, StorageRests DEF Continue
<1>4. ASSUME NEW t \in Task, AlarmFires(t) \/ \E ping \in Pings : Fetch(t, ping) PROVE Covered'
  BY <1>4, AlarmRestless
<1>5. ASSUME NEW t \in Task, NEW ws \in Socket, Message(t, ws) \/ webSocketClose(t, ws) PROVE Covered'
  BY <1>2, <1>5, MessageRests
<1>6. ASSUME NEW ws \in Socket, Disconnect(ws) PROVE Covered'
  <2>1. sock' = [sock EXCEPT ![ws].open = FALSE] /\ UNCHANGED <<alarm, meta, restarts, task>>
    BY <1>6 DEF Disconnect, stored
  <2>2. \A s \in Socket : /\ sock'[s].phase = sock[s].phase /\ sock'[s].deadline = sock[s].deadline
                          /\ sock'[s].archived = sock[s].archived
    BY <1>1, <2>1 DEF Shape, TypeOK, Attachment
  <2>3. Restful /\ Calm
    BY <2>1, <2>2 DEF Restful, Calm, Live, Accepted
  <2>. QED  BY <1>2, <2>1, <2>3 DEF Rests
<1>7. ASSUME Tick \/ UNCHANGED vars PROVE Covered'
  <2>1. UNCHANGED <<alarm, meta, restarts, task, sock>>
    BY <1>7 DEF Tick, vars, stored
  <2>2. Restful
    BY <2>1 DEF Restful
  <2>. QED  BY <1>2, <2>1, <2>2, CalmSame DEF Rests
<1>8. ~Restart
  <2>1. ASSUME Restart PROVE FALSE
    <3>1. restarts' # 0
      <4>1. restarts' = restarts + 1 /\ restarts \in Nat
        BY <1>1, <2>1 DEF Restart, Shape, TypeOK
      <4>. QED  BY <4>1
    <3>2. \A s \in Socket : ~Live(s)'
      BY <2>1, RestartReplaces DEF Replaces, Live, Accepted
    <3>. QED  BY <3>1, <3>2 DEF Attended
  <2>. QED  BY <2>1
<1>. QED  BY <1>3, <1>4, <1>5, <1>6, <1>7, <1>8 DEF Next

\* With input gates, until the first restart and again whenever a socket is connected, an
\* alarm is set that comes in time for the deadline of every live socket, for the next
\* ping and for the end of the room: whichever handlers came between, the last schedule
\* saw all of it (iroh-relay.js:115-127).  After a restart that left no socket it need
\* not be so: see StorageReclaimed.
THEOREM DeadlinesAlwaysCovered ==
  ASSUME InputGates
  PROVE  Spec => [](restarts = 0 \/ (\E s \in Socket : Live(s)) => DeadlinesCovered)
<1>1. Init => EvictorRoutes /\ SweepFresh /\ PingSet /\ DueCovered
  <2> SUFFICES ASSUME Init PROVE EvictorRoutes /\ SweepFresh /\ PingSet /\ DueCovered
    OBVIOUS
  <2>1. \A t \in Task : task[t] = Idle
    BY DEF Init
  <2>2. {"evict", "sweep"} \cap Ops(Idle) = {}
    BY IdlePhased
  <2>3. \A t \in Task : {"evict", "sweep"} \cap Ops(task[t]) = {}
    BY <2>1, <2>2
  <2>4. meta = NoMeta
    BY DEF Init
  <2>. QED  BY <2>3, <2>4 DEF EvictorRoutes, SweepFresh, PingSet, DueCovered
<1>2. Orderly /\ EvictorRoutes /\ SweepFresh /\ PingSet /\ DueCovered /\ [Next]_vars =>
        EvictorRoutes' /\ SweepFresh' /\ PingSet' /\ DueCovered'
  BY EvictorStep, SweepFreshStep, PingSetStep, DueCoveredStep DEF Orderly
<1>3. DueCovered /\ AllPhased => (restarts = 0 \/ (\E s \in Socket : Live(s)) => DeadlinesCovered)
  <2> SUFFICES ASSUME DueCovered, Attended, Quiescent, meta # NoMeta PROVE Covered
    BY DEF DeadlinesCovered, Attended, Covered, CoveredSocket
  <2>1. Restful
    BY DEF Quiescent, AwaitsStorage, Restful, RestOps
  <2>. QED  BY <2>1 DEF DueCovered
<1>. QED  BY <1>1, <1>2, <1>3, AlwaysOrderly, PTL DEF Spec, Orderly

-----------------------------------------------------------------------------
(* Sums over finite sets, by induction over their subsets: of the sets that *)
(* contradict a claim one is smallest.                                      *)

\* One step of the sum of g over s: the first element, and the rest.
First(s) == CHOOSE x \in s : TRUE

Adds(g, h, S) == h = [s \in SUBSET S |-> IF s = {} THEN 0 ELSE g[First(s)] + h[s \ {First(s)}]]

LEMMA SumIs ==
  ASSUME NEW g, NEW S
  PROVE  SumFunctionOnSet(g, S) = (CHOOSE h : Adds(g, h, S))[S]
BY DEF SumFunctionOnSet, FoldFunctionOnSet, MapThenFoldSet, Adds, First

LEMMA FirstIn == ASSUME NEW s, s # {} PROVE First(s) \in s
BY DEF First

\* Every non-empty set of finite sets has a member none of whose strict subsets is in it.
LEMMA SmallestSet ==
  ASSUME NEW S, IsFiniteSet(S), NEW B \in SUBSET (SUBSET S), B # {}
  PROVE  \E s \in B : \A r \in SUBSET s : r # s => r \notin B
<1>1. IsWellFoundedOn(StrictSubsetOrdering(S), FiniteSubsetsOf(S))
  BY FS_StrictSubsetOrderingWellFounded
<1>2. B \subseteq FiniteSubsetsOf(S)
  BY FS_Subset DEF FiniteSubsetsOf
<1>3. PICK s \in B : \A r \in B : <<r, s>> \notin StrictSubsetOrdering(S)
  BY <1>1, <1>2, WFMin
<1>. QED  BY <1>3 DEF StrictSubsetOrdering

LEMMA AddsOnce ==
  ASSUME NEW g, NEW S, IsFiniteSet(S), NEW T, IsFiniteSet(T), NEW h, Adds(g, h, S), NEW k, Adds(g, k, T),
         NEW r, r \subseteq S, r \subseteq T
  PROVE  h[r] = k[r]
<1> DEFINE Bad == {s \in SUBSET (S \cap T) : h[s] # k[s]}
<1>1. SUFFICES ASSUME Bad # {} PROVE FALSE
  <2>. QED  BY <1>1
<1>2. IsFiniteSet(S \cap T)
  BY FS_Subset
<1>3. Bad \in SUBSET (SUBSET (S \cap T))
  OBVIOUS
<1>4. PICK s \in Bad : \A q \in SUBSET s : q # s => q \notin Bad
  <2> HIDE DEF Bad
  <2>. QED  BY <1>1, <1>2, <1>3, SmallestSet
<1>5. s \in SUBSET S /\ s \in SUBSET T
  BY <1>4
<1>6. h[s] = IF s = {} THEN 0 ELSE g[First(s)] + h[s \ {First(s)}]
  BY <1>5 DEF Adds
<1>7. k[s] = IF s = {} THEN 0 ELSE g[First(s)] + k[s \ {First(s)}]
  BY <1>5 DEF Adds
<1>8. CASE s = {}
  BY <1>4, <1>6, <1>7, <1>8
<1>9. CASE s # {}
  <2>1. s \ {First(s)} \in SUBSET s /\ s \ {First(s)} # s
    BY <1>9, FirstIn
  <2>2. h[s \ {First(s)}] = k[s \ {First(s)}]
    BY <2>1, <1>4, <1>5
  <2>. QED  BY <2>2, <1>9, <1>6, <1>7, <1>4
<1>. QED  BY <1>8, <1>9

LEMMA AddsExists ==
  ASSUME NEW g, NEW S, IsFiniteSet(S)
  PROVE  \E h : Adds(g, h, S)
<1> DEFINE Bad == {T \in SUBSET S : ~\E h : Adds(g, h, T)}
<1>1. SUFFICES ASSUME Bad # {} PROVE FALSE
  <2>. QED  BY <1>1
<1>3. PICK T \in Bad : \A q \in SUBSET T : q # T => q \notin Bad
  <2>1. Bad \in SUBSET (SUBSET S)
    OBVIOUS
  <2> HIDE DEF Bad
  <2>. QED  BY <1>1, <2>1, SmallestSet
<1> DEFINE H(s) == CHOOSE h : Adds(g, h, s)
           V(s) == IF s = T THEN IF T = {} THEN 0 ELSE g[First(T)] + H(T \ {First(T)})[T \ {First(T)}]
                            ELSE H(s)[s]
           w == [s \in SUBSET T |-> V(s)]
<1>4. IsFiniteSet(T)
  BY <1>3, FS_Subset
<1>5. ASSUME NEW s \in SUBSET T, s # T PROVE Adds(g, H(s), s) /\ IsFiniteSet(s)
  BY <1>3, <1>4, <1>5, FS_Subset
<1>6. ASSUME NEW s \in SUBSET T
      PROVE  w[s] = IF s = {} THEN 0 ELSE g[First(s)] + w[s \ {First(s)}]
  <2> DEFINE r == s \ {First(s)}
  <2>1. w[s] = V(s)
    OBVIOUS
  <2>2. CASE s = {}
    <3>1. CASE s = T
      BY <3>1, <2>1, <2>2
    <3>2. CASE s # T
      <4>1. Adds(g, H(s), s)
        BY <3>2, <1>5
      <4>2. H(s)[s] = 0
        <5> HIDE DEF H
        <5>. QED  BY <4>1, <2>2 DEF Adds
      <4>. QED  BY <2>1, <3>2, <4>2, <2>2
    <3>. QED  BY <3>1, <3>2
  <2>3. CASE s # {}
    <3>1. r \in SUBSET T /\ r # T /\ r \in SUBSET s
      BY <2>3, FirstIn
    <3>2. w[r] = H(r)[r] /\ Adds(g, H(r), r) /\ IsFiniteSet(r)
      BY <3>1, <1>5
    <3>3. CASE s = T
      <4> HIDE DEF H
      <4>. QED  BY <2>1, <2>3, <3>2, <3>3
    <3>4. CASE s # T
      <4>1. Adds(g, H(s), s) /\ IsFiniteSet(s)
        BY <3>4, <1>5
      <4>2. w[s] = H(s)[s]
        BY <2>1, <3>4
      <4> HIDE DEF H
      <4>3. H(s)[s] = g[First(s)] + H(s)[r]
        BY <4>1, <2>3 DEF Adds
      <4>4. H(s)[r] = H(r)[r]
        <5> HIDE DEF r
        <5>. QED  BY <4>1, <3>1, <3>2, AddsOnce
      <4>. QED  BY <4>2, <4>3, <4>4, <3>2, <2>3
    <3>. QED  BY <3>3, <3>4
  <2>. QED  BY <2>2, <2>3
<1>7. Adds(g, w, T)
  <2>1. w = [s \in SUBSET T |-> w[s]]
    OBVIOUS
  <2> HIDE DEF w
  <2>. QED  BY <2>1, <1>6 DEF Adds
<1>. QED  BY <1>3, <1>7

LEMMA SumStep ==
  ASSUME NEW g, NEW S, IsFiniteSet(S)
  PROVE  SumFunctionOnSet(g, S) =
           IF S = {} THEN 0 ELSE g[First(S)] + SumFunctionOnSet(g, S \ {First(S)})
<1> DEFINE H(s) == CHOOSE h : Adds(g, h, s)
           r == S \ {First(S)}
<1>1. IsFiniteSet(r) /\ r \subseteq S
  BY FS_Subset
<1>2. Adds(g, H(S), S) /\ Adds(g, H(r), r)
  BY <1>1, AddsExists
<1>3. SumFunctionOnSet(g, S) = H(S)[S] /\ SumFunctionOnSet(g, r) = H(r)[r]
  BY SumIs
<1> HIDE DEF H
<1>4. H(S)[S] = IF S = {} THEN 0 ELSE g[First(S)] + H(S)[r]
  BY <1>2 DEF Adds
<1>5. H(S)[r] = H(r)[r]
  BY <1>1, <1>2, AddsOnce
<1>. QED  BY <1>3, <1>4, <1>5

LEMMA SumEmpty == ASSUME NEW g PROVE SumFunctionOnSet(g, {}) = 0
BY SumStep, FS_EmptySet

\* The sum looks at nothing but the values over the set, and is a number.
LEMMA SumAgrees ==
  ASSUME NEW S, IsFiniteSet(S), NEW g, NEW k, \A x \in S : g[x] = k[x] /\ g[x] \in Nat
  PROVE  SumFunctionOnSet(g, S) = SumFunctionOnSet(k, S) /\ SumFunctionOnSet(g, S) \in Nat
<1> DEFINE Bad == {T \in SUBSET S : ~(SumFunctionOnSet(g, T) = SumFunctionOnSet(k, T)
                                      /\ SumFunctionOnSet(g, T) \in Nat)}
<1>1. SUFFICES ASSUME Bad # {} PROVE FALSE
  <2>. QED  BY <1>1
<1>2. PICK T \in Bad : \A q \in SUBSET T : q # T => q \notin Bad
  <2>1. Bad \in SUBSET (SUBSET S)
    OBVIOUS
  <2> HIDE DEF Bad
  <2>. QED  BY <1>1, <2>1, SmallestSet
<1>3. IsFiniteSet(T) /\ T \in SUBSET S
  BY <1>2, FS_Subset
<1>4. CASE T = {}
  BY <1>2, <1>4, SumEmpty
<1>5. CASE T # {}
  <2> DEFINE r == T \ {First(T)}
  <2>1. First(T) \in S /\ r \in SUBSET T /\ r # T /\ r \in SUBSET S
    BY <1>3, <1>5, FirstIn
  <2>2. SumFunctionOnSet(g, r) = SumFunctionOnSet(k, r) /\ SumFunctionOnSet(g, r) \in Nat
    BY <2>1, <1>2
  <2>3. /\ SumFunctionOnSet(g, T) = g[First(T)] + SumFunctionOnSet(g, r)
        /\ SumFunctionOnSet(k, T) = k[First(T)] + SumFunctionOnSet(k, r)
    BY <1>3, <1>5, SumStep
  <2>4. g[First(T)] = k[First(T)] /\ g[First(T)] \in Nat
    BY <2>1
  <2> HIDE DEF r
  <2>5. SumFunctionOnSet(g, T) = SumFunctionOnSet(k, T) /\ SumFunctionOnSet(g, T) \in Nat
    BY <2>2, <2>3, <2>4
  <2>. QED  BY <2>5, <1>2
<1>. QED  BY <1>4, <1>5

\* Which element comes first makes no difference.
LEMMA SumRemove ==
  ASSUME NEW S, IsFiniteSet(S), NEW g, \A x \in S : g[x] \in Nat, NEW y \in S
  PROVE  SumFunctionOnSet(g, S) = g[y] + SumFunctionOnSet(g, S \ {y})
<1> DEFINE Bad == {T \in SUBSET S : \E x \in T :
                     SumFunctionOnSet(g, T) # g[x] + SumFunctionOnSet(g, T \ {x})}
<1>1. SUFFICES ASSUME Bad # {} PROVE FALSE
  <2>. QED  BY <1>1
<1>2. PICK T \in Bad : \A q \in SUBSET T : q # T => q \notin Bad
  <2>1. Bad \in SUBSET (SUBSET S)
    OBVIOUS
  <2> HIDE DEF Bad
  <2>. QED  BY <1>1, <2>1, SmallestSet
<1>3. PICK x \in T : SumFunctionOnSet(g, T) # g[x] + SumFunctionOnSet(g, T \ {x})
  BY <1>2
<1>4. IsFiniteSet(T) /\ T \in SUBSET S /\ T # {}
  BY <1>2, <1>3, FS_Subset
<1> DEFINE c == First(T)
           both == T \ {x, c}
<1>5. c \in T /\ SumFunctionOnSet(g, T) = g[c] + SumFunctionOnSet(g, T \ {c})
  BY <1>4, FirstIn, SumStep
<1>6. c # x
  BY <1>3, <1>5
<1>7. IsFiniteSet(both) /\ both \in SUBSET S
  BY <1>4, FS_Subset
<1>8. SumFunctionOnSet(g, both) \in Nat /\ g[x] \in Nat /\ g[c] \in Nat
  <2> HIDE DEF both, c
  <2>1. \A z \in both : g[z] = g[z] /\ g[z] \in Nat
    BY <1>7
  <2>. QED  BY <2>1, <1>4, <1>5, <1>7, SumAgrees
<1>9. SumFunctionOnSet(g, T \ {c}) = g[x] + SumFunctionOnSet(g, both)
  <2>1. T \ {c} \notin Bad /\ T \ {c} \in SUBSET S /\ x \in T \ {c} /\ (T \ {c}) \ {x} = both
    BY <1>2, <1>4, <1>5, <1>6
  <2> HIDE DEF both, c
  <2>. QED  BY <2>1
<1>10. SumFunctionOnSet(g, T \ {x}) = g[c] + SumFunctionOnSet(g, both)
  <2>1. T \ {x} \notin Bad /\ T \ {x} \in SUBSET S /\ c \in T \ {x} /\ (T \ {x}) \ {c} = both
    BY <1>2, <1>3, <1>4, <1>5, <1>6
  <2> HIDE DEF both, c
  <2>. QED  BY <2>1
<1> HIDE DEF both, c
<1>. QED  BY <1>3, <1>5, <1>8, <1>9, <1>10

-----------------------------------------------------------------------------
(* The ledger of the closed sockets: who retires a socket adds it, once. *)

Handled(t, h) ==
  /\ task' = [task EXCEPT ![t] = h] /\ task[t].op # "closed"
  /\ \/ h.op # "closed" /\ \A s \in Socket : sock'[s].archived = sock[s].archived
     \/ /\ h.op = "closed" /\ h.victim \in Socket
        /\ ~sock[h.victim].archived /\ sock'[h.victim].archived /\ h.tally = sock'[h.victim].n
        /\ \A s \in Socket \ {h.victim} : sock'[s].archived = sock[s].archived

\* A handler goes on, and if it retires a socket it is the one that will add it.
Handles(t) == \E h : Handled(t, h)

SameRetired(old, new) == \A s \in Socket : new[s].archived = old[s].archived

LEMMA FinishHandles ==
  ASSUME NEW t \in Task, NEW socks \in [Socket -> Attachment], NEW v \in Socket,
         NEW why, NEW after, after.op # "closed",
         after \in Handler,
         Finish(t, socks, v, why, after), SameRetired(sock, socks), task[t].op # "closed"
  PROVE  Handles(t)
<1>1. CASE IsRetired(socks[v])
  <2>1. sock' = socks /\ task' = [task EXCEPT ![t] = after]
    BY <1>1 DEF Finish
  <2>. QED  BY <2>1 DEF Handles, Handled, SameRetired
<1>2. CASE ~IsRetired(socks[v])
  <2> DEFINE h == [after EXCEPT !.op = "closed", !.cont = after.op, !.victim = v, !.tally = socks[v].n]
  <2>1. sock' = [socks EXCEPT ![v].archived = TRUE, ![v].reason = why] /\ task' = [task EXCEPT ![t] = h]
    BY <1>2 DEF Finish
  <2>2. h.op = "closed" /\ h.victim = v /\ h.tally = socks[v].n
    BY DEF Handler
  <2>3. /\ sock'[v].archived = TRUE /\ sock'[v].n = socks[v].n
        /\ \A s \in Socket \ {v} : sock'[s].archived = socks[s].archived
    BY <2>1 DEF Attachment
  <2>4. ~sock[v].archived
    BY <1>2 DEF IsRetired, SameRetired
  <2> HIDE DEF h
  <2>. QED  BY <2>1, <2>2, <2>3, <2>4 DEF Handles, Handled, SameRetired
<1>. QED  BY <1>1, <1>2

LEMMA GoesOnHandles ==
  ASSUME NEW t \in Task, NEW h, h.op # "closed", task' = [task EXCEPT ![t] = h],
         SameRetired(sock, sock'), task[t].op # "closed"
  PROVE  Handles(t)
BY DEF Handles, Handled, SameRetired

LEMMA NotClosing ==
  /\ Idle.op # "closed" /\ Scheduling.op # "closed" /\ Idle \in Handler /\ Scheduling \in Handler
BY IdleTyped DEF Idle, Scheduling

LEMMA CountedRetired ==
  ASSUME Known, NEW ws \in Socket
  PROVE  Counted(ws) \in [Socket -> Attachment] /\ SameRetired(sock, Counted(ws))
<1>1. sock \in [Socket -> Attachment]
  BY DEF Known, Shape, TypeOK
<1>2. \A s \in Socket : Counted(ws)[s].archived = sock[s].archived
  BY <1>1 DEF Counted, Attachment
<1>. QED  BY <1>2, CountedTyped DEF SameRetired, Known, Shape

LEMMA StorageHandles ==
  ASSUME Known, NEW t \in Task,
         \/ Schedule(t) \/ Confirm(t) \/ Verify(t) \/ Undelivered(t) \/ Accept(t)
         \/ \E ping \in Pings : Fetch(t, ping)
  PROVE  Handles(t)
<1>1. sock \in [Socket -> Attachment] /\ task \in [Task -> Handler] /\ SameRetired(sock, sock)
  BY DEF Known, Shape, TypeOK, SameRetired
<1>2. Named(task[t]) /\ SocketsNamed
  BY DEF Known, Shape, HandlersNamed
<1>3. CASE (Confirm(t) \/ Verify(t)) /\ Finish(t, sock, task[t].ws, "policy", Idle)
  <2>1. task[t].ws \in Socket /\ task[t].op # "closed"
    BY <1>2, <1>3 DEF Named, Confirm, Verify, Resumes
  <2>. QED  BY <1>1, <1>3, <2>1, FinishHandles, NotClosing
<1>4. CASE Confirm(t) /\ task' = [task EXCEPT ![t] = Scheduling] /\ UNCHANGED sock
  <2>1. task[t].op # "closed" /\ SameRetired(sock, sock')
    BY <1>1, <1>4 DEF Confirm, Resumes
  <2>. QED  BY <1>4, <2>1, GoesOnHandles, NotClosing
<1>5. ASSUME NEW op \in {"claim", "accept"}, task' = [task EXCEPT ![t].op = op], UNCHANGED sock, task[t].op # "closed"
      PROVE  Handles(t)
  <2> DEFINE h == [task[t] EXCEPT !.op = op]
  <2>1. h.op = op /\ task' = [task EXCEPT ![t] = h]
    BY <1>1, <1>5 DEF Handler
  <2> HIDE DEF h
  <2>. QED  BY <1>1, <1>5, <2>1, GoesOnHandles
<1>6. CASE Schedule(t)
  <2> DEFINE h == IF task[t].cont = "idle" THEN Idle ELSE [task[t] EXCEPT !.op = task[t].cont, !.cont = "idle"]
  <2>1. h.op # "closed"
    BY <1>1, <1>2, NotClosing DEF Named, Handler
  <2>2. task' = [task EXCEPT ![t] = h] /\ UNCHANGED sock /\ task[t].op # "closed"
    BY <1>6 DEF Schedule, Resumes
  <2> HIDE DEF h
  <2>. QED  BY <1>1, <2>1, <2>2, GoesOnHandles
<1>7. CASE Undelivered(t)
  <2>1. task[t].op # "closed" /\ task[t].ws \in Socket /\ task' = [task EXCEPT ![t] = Idle] /\ sock' = Dropped(task[t].ws)
    BY <1>2, <1>7 DEF Undelivered, Resumes, Named
  <2>2. SameRetired(sock, sock')
    BY <1>1, <2>1 DEF Dropped, SameRetired, Attachment
  <2>. QED  BY <2>1, <2>2, GoesOnHandles, NotClosing
<1>8. CASE Accept(t)
  <2>1. PICK s \in Socket : sock[s].phase = "none" /\
          sock' = [sock EXCEPT ![s] = [Unused EXCEPT !.phase = "challenge", !.open = TRUE, !.deadline = now + AuthTimeout]]
    BY <1>8 DEF Accept
  <2>2. [Unused EXCEPT !.phase = "challenge", !.open = TRUE, !.deadline = now + AuthTimeout].archived = FALSE
    BY DEF Unused
  <2>3. sock[s].archived = FALSE
    BY <1>1, <1>2, <2>1 DEF SocketsNamed, Attachment, Known
  <2>4. SameRetired(sock, sock')
    BY <1>1, <2>1, <2>2, <2>3 DEF SameRetired
  <2>5. task[t].op # "closed" /\ task' = [task EXCEPT ![t] = Scheduling]
    BY <1>8 DEF Accept, Resumes
  <2>. QED  BY <2>4, <2>5, GoesOnHandles, NotClosing
<1>9. ASSUME NEW ping \in Pings, Fetch(t, ping) PROVE Handles(t)
  BY <1>5, <1>9 DEF Fetch, Starts
<1>10. CASE Verify(t) /\ task' = [task EXCEPT ![t].op = "claim"] /\ UNCHANGED sock
  BY <1>5, <1>10 DEF Verify, Resumes
<1>. QED  BY <1>3, <1>4, <1>6, <1>7, <1>8, <1>9, <1>10 DEF Confirm, Verify

LEMMA MessageHandles ==
  ASSUME Known, NEW t \in Task, NEW ws \in Socket,
         \/ Refuse(t, ws) \/ Pong(t, ws) \/ webSocketClose(t, ws)
         \/ \E id \in Identity : Authorize(t, ws, id)
  PROVE  Handles(t)
<1>1. /\ sock \in [Socket -> Attachment] /\ Counted(ws) \in [Socket -> Attachment]
      /\ SameRetired(sock, Counted(ws)) /\ SameRetired(sock, sock) /\ task[t].op # "closed"
  BY CountedRetired DEF Known, Shape, TypeOK, SameRetired, Refuse, Pong, webSocketClose, Authorize, Serves, Receives, Starts
<1>2. CASE Refuse(t, ws) \/ webSocketClose(t, ws)
  <2>1. PICK socks \in {sock, Counted(ws)}, why \in {"policy", "closed"} : Finish(t, socks, ws, why, Idle)
    BY <1>2 DEF Refuse, webSocketClose
  <2>. QED  BY <1>1, <2>1, FinishHandles, NotClosing
<1>3. CASE Pong(t, ws)
  <2>1. sock' = [Counted(ws) EXCEPT ![ws].pinged = FALSE, ![ws].deadline = 0] /\ task' = [task EXCEPT ![t] = Scheduling]
    BY <1>3 DEF Pong
  <2>2. \A s \in Socket : sock'[s].archived = Counted(ws)[s].archived
    BY <1>1, <2>1 DEF Attachment
  <2>. QED  BY <1>1, <2>1, <2>2, GoesOnHandles, NotClosing DEF SameRetired
<1>4. ASSUME NEW id \in Identity, Authorize(t, ws, id) PROVE Handles(t)
  <2> DEFINE h == [Idle EXCEPT !.op = "verify", !.ws = ws, !.id = id]
  <2>1. sock' = [Counted(ws) EXCEPT ![ws].phase = "verifying"] /\ task' = [task EXCEPT ![t] = h]
    BY <1>4 DEF Authorize
  <2>2. \A s \in Socket : sock'[s].archived = Counted(ws)[s].archived
    BY <1>1, <2>1 DEF Attachment
  <2>3. h.op # "closed"
    BY DEF Idle
  <2> HIDE DEF h
  <2>. QED  BY <1>1, <2>1, <2>2, <2>3, GoesOnHandles DEF SameRetired
<1>. QED  BY <1>2, <1>3, <1>4

LEMMA DatagramHandles ==
  ASSUME Known, NEW t \in Task, NEW ws \in Socket, NEW dest \in Identity, Datagram(t, ws, dest)
  PROVE  Handles(t) \/ (UNCHANGED task /\ SameRetired(sock, sock'))
<1> DEFINE received == [Counted(ws) EXCEPT ![ws].n.datagram = @ + 1]
           h == [Idle EXCEPT !.op = "undelivered", !.ws = ws]
<1>1. /\ Counted(ws) \in [Socket -> Attachment] /\ SameRetired(sock, Counted(ws)) /\ task[t].op # "closed"
  BY CountedRetired DEF Datagram, Serves, Receives, Starts
<1>2. received \in [Socket -> Attachment] /\ SameRetired(sock, received)
  <2>1. received[ws] \in Attachment
    BY <1>1 DEF Attachment, Counts
  <2>2. \A s \in Socket : received[s].archived = Counted(ws)[s].archived
    BY <1>1 DEF Attachment
  <2>3. received \in [Socket -> Attachment]
    BY <1>1, <2>1
  <2> HIDE DEF received
  <2>. QED  BY <1>1, <2>2, <2>3 DEF SameRetired
<1>3. h \in Handler /\ h.op # "closed"
  BY NotClosing DEF Handler, Idle, Awaits
<1>4. CASE \/ sock' = [received EXCEPT ![ws].n.dropped = @ + 1] /\ UNCHANGED task
           \/ sock' = [received EXCEPT ![ws].n.forwarded = @ + 1] /\ UNCHANGED task
  <2> HIDE DEF received
  <2>1. \A s \in Socket : sock'[s].archived = received[s].archived
    BY <1>2, <1>4 DEF Attachment
  <2>. QED  BY <1>2, <1>4, <2>1 DEF SameRetired
<1>5. CASE \E p \in Socket : Finish(t, received, p, "undeliverable", h)
  <2> HIDE DEF received, h
  <2>. QED  BY <1>1, <1>2, <1>3, <1>5, FinishHandles
<1>. QED  BY <1>4, <1>5 DEF Datagram

LEMMA SweepHandles ==
  ASSUME Known, NEW t \in Task, Sweep(t)
  PROVE  Handles(t)
<1> DEFINE m == task[t].meta
           due == {s \in task[t].rest : Live(s) /\ Overdue(s)}
           quiet == {s \in task[t].rest : /\ Live(s) /\ ~Overdue(s) /\ PingDue(m)
                                          /\ sock[s].phase = "authenticated" /\ ~sock[s].pinged}
           after(passed) == [s \in Socket |-> IF s \in passed \cap quiet THEN Pinged(s) ELSE sock[s]]
           left(s, passed) == [task[t] EXCEPT !.rest = @ \ ({s} \cup passed)]
<1>1. /\ sock \in [Socket -> Attachment] /\ task[t] \in Handler /\ task[t].rest \in SUBSET Socket
      /\ task[t].op = "sweep"
  BY DEF Known, Shape, TypeOK, Handler, Sweep, Resumes
<1>2. \A s \in Socket : Pinged(s) \in Attachment /\ Pinged(s).archived = sock[s].archived
  <2>1. now + PongTimeout \in Nat
    BY ConstantsTyped DEF Known, Shape, TypeOK
  <2>. QED  BY <1>1, <2>1 DEF Pinged, Attachment
<1>3. ASSUME NEW passed PROVE after(passed) \in [Socket -> Attachment] /\ SameRetired(sock, after(passed))
  BY <1>1, <1>2 DEF SameRetired
<1>4. ASSUME NEW passed, NEW s PROVE left(s, passed) \in Handler /\ left(s, passed).op # "closed"
  BY <1>1 DEF Handler
<1>5. CASE sock' = after(quiet) /\ task' = [task EXCEPT ![t] = [Scheduling EXCEPT !.meta = m]]
  <2>1. [Scheduling EXCEPT !.meta = m].op # "closed"
    BY DEF Scheduling, Idle
  <2> HIDE DEF after
  <2>. QED  BY <1>1, <1>3, <1>5, <2>1, GoesOnHandles
<1>6. ASSUME NEW passed, NEW done, NEW s \in task[t].rest, NEW why, Finish(t, after(done), s, why, left(s, passed))
      PROVE  Handles(t)
  <2> HIDE DEF after, left
  <2>. QED  BY <1>1, <1>3, <1>4, <1>6, FinishHandles
<1>7. CASE \E passed \in SUBSET (task[t].rest \ due), s \in task[t].rest :
             \/ Finish(t, after(passed), s, "timeout", left(s, passed))
             \/ Finish(t, after(passed \cup {s}), s, "unreachable", left(s, passed))
  <2> HIDE DEF after, left
  <2>. QED  BY <1>6, <1>7
<1>. QED  BY <1>5, <1>7 DEF Sweep

LEMMA SupplantHandles ==
  ASSUME Shape, NEW t \in Task, NEW socks \in [Socket -> Attachment], NEW rest \in SUBSET Socket,
         task[t].op \in {"claim", "evict"}, Supplant(t, socks, rest), SameRetired(sock, socks)
  PROVE  Handles(t)
<1> DEFINE old == Predecessors(socks, rest, task[t].ws, task[t].id)
           next(s, passed) == [task[t] EXCEPT !.op = "evict", !.rest = rest \ ({s} \cup passed)]
           h == [Idle EXCEPT !.op = "confirm", !.ws = task[t].ws]
<1>1. task[t].ws \in Socket /\ old \subseteq Socket /\ task[t] \in Handler /\ task[t].op # "closed"
  BY DEF Shape, TypeOK, HandlersNamed, Named, Predecessors
<1>2. ASSUME NEW s, NEW passed PROVE next(s, passed) \in Handler /\ next(s, passed).op # "closed"
  BY <1>1 DEF Handler, Awaits
<1>3. h.op # "closed"
  BY DEF Idle
<1>4. \/ \E s \in old, passed \in SUBSET (rest \ old) : Finish(t, socks, s, "superseded", next(s, passed))
      \/ Finish(t, socks, task[t].ws, "policy", Idle)
      \/ sock' = socks /\ task' = [task EXCEPT ![t] = h]
  BY DEF Supplant
<1> HIDE DEF old, next, h
<1>5. ASSUME NEW s \in old, NEW passed, Finish(t, socks, s, "superseded", next(s, passed)) PROVE Handles(t)
  BY <1>1, <1>2, <1>5, FinishHandles
<1>. QED  BY <1>1, <1>3, <1>4, <1>5, FinishHandles, GoesOnHandles, NotClosing

LEMMA ClaimHandles ==
  ASSUME Known, NEW t \in Task, Claim(t) \/ Evict(t)
  PROVE  Handles(t)
<1>1. /\ sock \in [Socket -> Attachment] /\ Shape /\ SameRetired(sock, sock) /\ task[t].op \in {"claim", "evict"}
      /\ task[t].ws \in Socket /\ task[t].id \in Identity /\ task[t] \in Handler
  BY DEF Known, Shape, TypeOK, HandlersNamed, Named, Claim, Evict, Resumes, SameRetired
<1>2. CASE Claim(t)
  <2>1. /\ Authenticated(task[t].ws, task[t].id) \in [Socket -> Attachment]
        /\ SameRetired(sock, Authenticated(task[t].ws, task[t].id)) /\ Accepted \in SUBSET Socket
    BY <1>1, AuthenticatedTyped, AuthenticatedFields DEF Shape, Accepted, SameRetired
  <2>2. Finish(t, sock, task[t].ws, "policy", Idle) \/ Supplant(t, Authenticated(task[t].ws, task[t].id), Accepted)
    BY <1>2 DEF Claim
  <2>3. task[t].op # "closed"
    BY <1>1
  <2>. QED  BY <1>1, <2>1, <2>2, <2>3, FinishHandles, SupplantHandles, NotClosing
<1>3. CASE Evict(t)
  <2>1. task[t].rest \in SUBSET Socket
    BY <1>1 DEF Handler
  <2>. QED  BY <1>1, <1>3, <2>1, SupplantHandles DEF Evict
<1>. QED  BY <1>2, <1>3

LEMMA EnvironmentRetires ==
  ASSUME Known, \/ \E ws \in Socket : Disconnect(ws)
                \/ \E t \in Task, ws \in Socket : Ping(t, ws)
                \/ Tick \/ UNCHANGED vars
  PROVE  UNCHANGED task /\ SameRetired(sock, sock')
<1>1. sock \in [Socket -> Attachment]
  BY DEF Known, Shape, TypeOK
<1>2. ASSUME NEW ws \in Socket, Disconnect(ws) PROVE UNCHANGED task /\ SameRetired(sock, sock')
  <2>1. sock' = [sock EXCEPT ![ws].open = FALSE] /\ UNCHANGED task
    BY <1>2 DEF Disconnect
  <2>. QED  BY <1>1, <2>1 DEF SameRetired, Attachment
<1>3. ASSUME NEW t \in Task, NEW ws \in Socket, Ping(t, ws) PROVE UNCHANGED task /\ SameRetired(sock, sock')
  BY <1>3, CountedRetired DEF Ping
<1>. QED  BY <1>2, <1>3 DEF Tick, vars, SameRetired

LEMMA AlarmHandles ==
  ASSUME Known, NEW t \in Task, AlarmFires(t)
  PROVE  Handles(t) \/ (UNCHANGED task /\ SameRetired(sock, sock'))
<1>1. SameRetired(sock, sock') /\ task[t].op # "closed"
  BY DEF AlarmFires, Starts, SameRetired
<1>2. CASE task' = [task EXCEPT ![t] = [Idle EXCEPT !.op = "sweep", !.meta = meta, !.rest = Accepted]]
  <2>1. [Idle EXCEPT !.op = "sweep", !.meta = meta, !.rest = Accepted].op # "closed"
    BY DEF Idle
  <2>. QED  BY <1>1, <1>2, <2>1, GoesOnHandles
<1>. QED  BY <1>1, <1>2 DEF AlarmFires

\* Either a handler goes on, or closed is written, or the process is replaced, or
\* nothing of this concerns the ledger.
LEMMA HandledStep ==
  ASSUME Known, [Next]_vars
  PROVE  \/ \E t \in Task : Handles(t)
         \/ \E t \in Task : Closed(t)
         \/ Restart
         \/ UNCHANGED task /\ SameRetired(sock, sock')
<1>1. ASSUME NEW t \in Task, Continue(t), ~Closed(t) PROVE Handles(t)
  BY <1>1, StorageHandles, SweepHandles, ClaimHandles DEF Continue
<1>2. ASSUME NEW t \in Task, NEW ws \in Socket, Message(t, ws) \/ webSocketClose(t, ws)
      PROVE  Handles(t) \/ (UNCHANGED task /\ SameRetired(sock, sock'))
  BY <1>2, MessageHandles, DatagramHandles, EnvironmentRetires DEF Message
<1>3. ASSUME NEW t \in Task, AlarmFires(t) \/ \E ping \in Pings : Fetch(t, ping)
      PROVE  Handles(t) \/ (UNCHANGED task /\ SameRetired(sock, sock'))
  BY <1>3, AlarmHandles, StorageHandles
<1>. QED  BY <1>1, <1>2, <1>3, EnvironmentRetires DEF Next

LEMMA ClosedStep ==
  ASSUME Known, [Next]_vars
  PROVE  \/ UNCHANGED closed
         \/ \E t \in Task : Closed(t)
         \/ meta' = NoMeta /\ now' >= Expires
<1>1. ASSUME NEW t \in Task, Continue(t), ~Closed(t) PROVE UNCHANGED closed
  BY <1>1 DEF Continue, Accept, Schedule, Undelivered, Verify, Claim, Evict, Confirm, Sweep, stored
<1>2. ASSUME NEW t \in Task, NEW ws \in Socket, Message(t, ws) \/ webSocketClose(t, ws) PROVE UNCHANGED closed
  BY <1>2 DEF Message, Refuse, Ping, Pong, Authorize, Datagram, webSocketClose, stored
<1>3. ASSUME NEW t \in Task, NEW ping, Fetch(t, ping) PROVE UNCHANGED closed
  BY <1>3 DEF Fetch
<1>4. ASSUME NEW t \in Task, AlarmFires(t) PROVE UNCHANGED closed \/ (meta' = NoMeta /\ now' >= Expires)
  <2>1. ASSUME now >= Expires + Linger, now' = now PROVE now' >= Expires
    BY <2>1, ConstantsTyped DEF Known, Shape, TypeOK
  <2>. QED  BY <1>4, <2>1 DEF AlarmFires, stored
<1>5. ASSUME NEW ws \in Socket, Disconnect(ws) PROVE UNCHANGED closed
  BY <1>5 DEF Disconnect, stored
<1>6. CASE Restart \/ Tick \/ UNCHANGED vars
  BY <1>6 DEF Restart, Tick, vars, stored
<1>. QED  BY <1>1, <1>2, <1>3, <1>4, <1>5, <1>6 DEF Next

\* A handler that has yet to add a socket to closed is the only one that will, and what
\* it read is still what the socket counts.
Victims ==
  \A t \in Task : task[t].op = "closed" =>
    /\ task[t].victim \in Socket /\ sock[task[t].victim].archived
    /\ task[t].tally = sock[task[t].victim].n
    /\ \A u \in Task \ {t} : task[u].op = "closed" => task[u].victim # task[t].victim

LEMMA VictimsStep ==
  ASSUME Known, Victims, [Next]_vars
  PROVE  Victims'
<1>1. task \in [Task -> Handler] /\ sock \in [Socket -> Attachment]
  BY DEF Known, Shape, TypeOK
<1>2. \A s \in Socket : sock[s].archived => sock'[s].archived /\ sock'[s].n = sock[s].n
  BY ArchivedStep
<1>3. CASE UNCHANGED task
  BY <1>2, <1>3 DEF Victims
<1>4. CASE Restart
  BY <1>4, NotClosing DEF Restart, Victims
<1>5. ASSUME NEW t \in Task, NEW h, Handled(t, h) PROVE Victims'
  <2>1. task'[t] = h /\ \A u \in Task \ {t} : task'[u] = task[u]
    BY <1>1, <1>5 DEF Handled
  <2>2. \A u \in Task \ {t} : task[u].op = "closed" =>
          /\ task[u].victim \in Socket /\ sock[task[u].victim].archived
          /\ sock'[task[u].victim].archived /\ task[u].tally = sock'[task[u].victim].n
    BY <1>2 DEF Victims
  <2>3. h.op = "closed" => /\ h.victim \in Socket /\ ~sock[h.victim].archived
                           /\ sock'[h.victim].archived /\ h.tally = sock'[h.victim].n
    BY <1>5 DEF Handled
  <2>. QED  BY <2>1, <2>2, <2>3 DEF Victims
<1>6. ASSUME NEW t \in Task, Closed(t) PROVE Victims'
  <2>1. /\ task'[t].op = "sched" /\ \A u \in Task \ {t} : task'[u] = task[u]
        /\ UNCHANGED sock
    BY <1>1, <1>6 DEF Closed, Handler
  <2>. QED  BY <2>1 DEF Victims
<1>. QED  BY <1>3, <1>4, <1>5, <1>6, HandledStep DEF Handles

ArchivedSockets == {s \in Socket : sock[s].archived}
Pending == {task[t].victim : t \in {u \in Task : task[u].op = "closed"}}
Settled == ArchivedSockets \ Pending

LEMMA SettledHandled ==
  ASSUME Known, NEW t \in Task, Handles(t)
  PROVE  Settled' = Settled
<1>1. PICK h : Handled(t, h)
  BY DEF Handles
<1>2. task'[t] = h /\ task[t].op # "closed" /\ \A u \in Task \ {t} : task'[u] = task[u]
  BY <1>1 DEF Handled, Known, Shape, TypeOK
<1>3. CASE h.op # "closed" /\ \A s \in Socket : sock'[s].archived = sock[s].archived
  <2>1. Pending' = Pending
    BY <1>2, <1>3 DEF Pending
  <2>. QED  BY <1>3, <2>1 DEF Settled, ArchivedSockets
<1>4. CASE /\ h.op = "closed" /\ h.victim \in Socket
           /\ ~sock[h.victim].archived /\ sock'[h.victim].archived
           /\ \A s \in Socket \ {h.victim} : sock'[s].archived = sock[s].archived
  <2>1. Pending' = Pending \cup {h.victim}
    BY <1>2, <1>4 DEF Pending
  <2>2. ArchivedSockets' = ArchivedSockets \cup {h.victim} /\ h.victim \notin ArchivedSockets
    BY <1>4 DEF ArchivedSockets
  <2>. QED  BY <2>1, <2>2 DEF Settled
<1>. QED  BY <1>1, <1>3, <1>4 DEF Handled

LEMMA SettledClosed ==
  ASSUME Known, Victims, NEW t \in Task, Closed(t)
  PROVE  /\ task[t].victim \in Socket \ Settled /\ task[t].tally = sock[task[t].victim].n
         /\ Settled' = Settled \cup {task[t].victim}
<1> DEFINE v == task[t].victim
<1>1. /\ task[t].op = "closed" /\ task'[t].op = "sched" /\ \A u \in Task \ {t} : task'[u] = task[u]
      /\ UNCHANGED sock
  BY DEF Closed, Resumes, Handler, Known, Shape, TypeOK
<1>2. /\ v \in Socket /\ sock[v].archived /\ task[t].tally = sock[v].n
      /\ \A u \in Task \ {t} : task[u].op = "closed" => task[u].victim # v
  BY <1>1 DEF Victims
<1>3. Pending' = Pending \ {v} /\ v \in Pending
  BY <1>1, <1>2 DEF Pending
<1>4. ArchivedSockets' = ArchivedSockets /\ v \in ArchivedSockets
  BY <1>1, <1>2 DEF ArchivedSockets
<1>. QED  BY <1>2, <1>3, <1>4 DEF Settled

\* What closed holds, as long as nobody has deleted it.
Balance ==
  /\ IsFiniteSet(Settled)
  /\ closed.connections = Cardinality(Settled)
  /\ \A f \in DOMAIN counters : closed.n[f] = Total(f, Settled)

Counting(socks, f) == [s \in Socket |-> socks[s].n[f]]

LEMMA TotalIs == \A f, S : Total(f, S) = SumFunctionOnSet(Counting(sock, f), S)
BY DEF Total, Counting

LEMMA TotalIsNext == \A f, S : Total(f, S)' = SumFunctionOnSet(Counting(sock', f), S')
BY DEF Total, Counting

LEMMA BalanceKept ==
  ASSUME Known, [Next]_vars, Balance, UNCHANGED closed, Settled' = Settled
  PROVE  Balance'
<1>1. sock \in [Socket -> Attachment]
  BY DEF Known, Shape, TypeOK
<1>2. ASSUME NEW f \in DOMAIN counters PROVE Total(f, Settled)' = Total(f, Settled)
  <2>1. ASSUME NEW s \in Settled
        PROVE  Counting(sock, f)[s] = Counting(sock', f)[s] /\ Counting(sock, f)[s] \in Nat
    <3>1. s \in Socket /\ sock'[s].n = sock[s].n
      BY ArchivedStep DEF Settled, ArchivedSockets
    <3>2. sock[s].n[f] \in Nat
      BY <1>1, <3>1 DEF Attachment, Counts, counters
    <3>. QED  BY <3>1, <3>2 DEF Counting
  <2>2. SumFunctionOnSet(Counting(sock, f), Settled) = SumFunctionOnSet(Counting(sock', f), Settled)
    BY <2>1, SumAgrees DEF Balance
  <2>. QED  BY <2>2, TotalIs, TotalIsNext
<1>. QED  BY <1>2 DEF Balance

LEMMA BalanceClosed ==
  ASSUME Known, Victims, Balance, NEW t \in Task, Closed(t)
  PROVE  Balance'
<1> DEFINE v == task[t].victim
<1>1. /\ v \in Socket /\ v \notin Settled /\ task[t].tally = sock[v].n /\ Settled' = Settled \cup {v}
  BY SettledClosed
<1>2. /\ sock \in [Socket -> Attachment] /\ closed \in [connections : Nat, n : Counts]
      /\ sock' = sock
      /\ closed'.connections = closed.connections + 1
      /\ closed'.n = addCounters(closed.n, task[t].tally)
  BY DEF Known, Shape, TypeOK, Closed
<1>3. IsFiniteSet(Settled') /\ Cardinality(Settled') = Cardinality(Settled) + 1
  BY <1>1, FS_AddElement DEF Balance
<1>4. ASSUME NEW f \in DOMAIN counters PROVE closed'.n[f] = Total(f, Settled)'
  <2> DEFINE g == Counting(sock, f)
  <2>1. \A s \in Socket : g[s] = sock[s].n[f] /\ g[s] \in Nat
    BY <1>2 DEF Counting, Attachment, Counts, counters
  <2>2. closed'.n[f] = closed.n[f] + g[v]
    BY <1>1, <1>2, <2>1 DEF addCounters, Counts, counters
  <2>3. \A s \in Settled' : g[s] \in Nat
    BY <1>1, <2>1 DEF Settled, ArchivedSockets
  <2>4. v \in Settled' /\ Settled' \ {v} = Settled
    BY <1>1
  <2>5. closed.n[f] = SumFunctionOnSet(g, Settled)
    BY TotalIs DEF Balance
  <2>6. Total(f, Settled)' = SumFunctionOnSet(g, Settled')
    BY <1>2, TotalIsNext
  <2>7. \A s \in Settled : g[s] = g[s] /\ g[s] \in Nat
    BY <2>4, <2>3
  <2>8. SumFunctionOnSet(g, Settled) \in Nat
    <3> HIDE DEF g
    <3>. QED  BY <2>7, SumAgrees DEF Balance
  <2>9. SumFunctionOnSet(g, Settled') = g[v] + SumFunctionOnSet(g, Settled)
    <3> HIDE DEF g, v
    <3>. QED  BY <1>3, <2>3, <2>4, SumRemove
  <2>10. g[v] \in Nat
    BY <1>1, <2>1
  <2> HIDE DEF g, v
  <2>. QED  BY <2>2, <2>5, <2>6, <2>8, <2>9, <2>10
<1>5. closed'.connections = Cardinality(Settled')
  BY <1>2, <1>3 DEF Balance
<1>. QED  BY <1>3, <1>4, <1>5 DEF Balance

\* Until a restart, and from the beginning of the room until its storage is deleted.
Ledger == restarts = 0 /\ (meta # NoMeta \/ now < Expires) => Balance

LEMMA LedgerStep == Orderly /\ Victims /\ Ledger /\ [Next]_vars => Ledger'
<1> SUFFICES ASSUME Orderly, Victims, Ledger, [Next]_vars, restarts' = 0, meta' # NoMeta \/ now' < Expires
             PROVE  Balance'
  BY DEF Ledger
<1>1. Known /\ AllPhased /\ RoomBegun
  BY DEF Orderly
<1>2. ~Restart /\ restarts = 0
  <2>1. ~Restart
    <3>1. restarts \in Nat /\ (Restart => restarts' = restarts + 1)
      BY <1>1 DEF Restart, Known, Shape, TypeOK
    <3>2. restarts \in Nat => restarts + 1 # 0
      OBVIOUS
    <3>. QED  BY <3>1, <3>2
  <2>2. ASSUME NEW t \in Task, Continue(t) PROVE UNCHANGED restarts
    BY <2>2 DEF Continue, Accept, Schedule, Closed, Undelivered, Verify, Claim, Evict, Confirm, Sweep
  <2>3. ASSUME NEW t \in Task, NEW ws \in Socket, Message(t, ws) \/ webSocketClose(t, ws) PROVE UNCHANGED restarts
    BY <2>3 DEF Message, Refuse, Ping, Pong, Authorize, Datagram, webSocketClose
  <2>4. ASSUME NEW t \in Task, AlarmFires(t) \/ \E ping \in Pings : Fetch(t, ping) PROVE UNCHANGED restarts
    BY <2>4 DEF AlarmFires, Fetch
  <2>5. ASSUME NEW ws \in Socket, Disconnect(ws) PROVE UNCHANGED restarts
    BY <2>5 DEF Disconnect
  <2>6. Tick \/ UNCHANGED vars => UNCHANGED restarts
    BY DEF Tick, vars
  <2>. QED  BY <2>1, <2>2, <2>3, <2>4, <2>5, <2>6 DEF Next
<1>3. now \in Nat /\ now' \in Nat /\ Expires \in Nat /\ now' >= now
  BY <1>1, NextShape, ClockStep, ConstantsTyped DEF Known, Shape, TypeOK
<1>4. meta # NoMeta \/ now < Expires
  BY <1>1, <1>3, MetaStep
<1>5. Balance
  BY <1>2, <1>4 DEF Ledger
<1>6. ASSUME NEW t \in Task, Closed(t) PROVE Balance'
  BY <1>1, <1>5, <1>6, BalanceClosed
<1>7. CASE \A t \in Task : ~Closed(t)
  <2>1. UNCHANGED closed
    BY <1>1, <1>3, <1>7, ClosedStep
  <2>2. Settled' = Settled
    <3>1. CASE UNCHANGED task /\ SameRetired(sock, sock')
      BY <3>1 DEF Settled, ArchivedSockets, Pending, SameRetired
    <3>. QED  BY <1>1, <1>2, <1>7, <3>1, HandledStep, SettledHandled
  <2>. QED  BY <1>1, <1>5, <2>1, <2>2, BalanceKept
<1>. QED  BY <1>6, <1>7

\* The counters of a closed socket reach storage exactly once, whichever handlers retire
\* sockets at the same time and in whatever order their transactions come
\* (iroh-relay.js:149-159): until the process is replaced, "closed" is the sum over the
\* retired sockets but for those whose transaction is still to come.  A restart drops the
\* handlers that had not come to it.
THEOREM LedgerAlwaysBalanced == Spec => [](restarts = 0 => LedgerBalanced)
<1>1. Init => Victims /\ Ledger
  <2> SUFFICES ASSUME Init PROVE Victims /\ Ledger
    OBVIOUS
  <2>1. \A t \in Task : task[t].op # "closed"
    BY NotClosing DEF Init
  <2>2. Settled = {}
    BY DEF Init, Settled, ArchivedSockets, Unused
  <2>3. Balance
    <3>1. IsFiniteSet({}) /\ Cardinality({}) = 0
      BY FS_EmptySet
    <3>2. closed.connections = 0 /\ \A f \in DOMAIN counters : closed.n[f] = 0
      BY DEF Init, counters
    <3>3. \A f \in DOMAIN counters : Total(f, Settled) = 0
      BY <2>2, TotalIs, SumEmpty
    <3>. QED  BY <2>2, <3>1, <3>2, <3>3 DEF Balance
  <2>. QED  BY <2>1, <2>3 DEF Victims, Ledger
<1>2. Orderly /\ Victims /\ Ledger /\ [Next]_vars => Victims' /\ Ledger'
  BY VictimsStep, LedgerStep DEF Orderly
<1>3. Ledger => (restarts = 0 => LedgerBalanced)
  BY DEF Ledger, LedgerBalanced, Balance, Settled, ArchivedSockets, Pending
<1>. QED  BY <1>1, <1>2, <1>3, AlwaysOrderly, PTL DEF Spec
=============================================================================
