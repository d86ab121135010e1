------------------------- MODULE TunnelGatewayProofs -------------------------
(***************************************************************************)
(* Safety of the tunnel's two ends, for any processes on one key file, any *)
(* rules and services, any deadlines with ClientTimeout above the others   *)
(* as the code has it, and any number of bytes.                            *)
(***************************************************************************)
EXTENDS TunnelGateway, TLAPS

-----------------------------------------------------------------------------
(* The key file *)

KeyTyped ==
  /\ file \in [exists : BOOLEAN, key : Nat]
  /\ process \in [Process -> [at : {"stopped", "create", "write", "serving"}, key : Nat]]
  /\ generated \in Nat /\ target \in Nat

\* The file gets its key from the one process that created it, or never; who serves has read
\* or written it.
KeyInv ==
  /\ KeyTyped
  /\ file.key # NoKey => file.exists
  /\ target # NoKey => file.key = target
  /\ \A p \in Process : process[p].at \in {"create", "write"} => process[p].key # NoKey
  /\ \A p \in Process : process[p].at = "write" => file.exists /\ file.key = NoKey
  /\ \A p, q \in Process : process[p].at = "write" /\ process[q].at = "write" => p = q
  /\ \A p \in Process : Serves(p) => process[p].key = target /\ target # NoKey

LEMMA KeyInitInv == KeyInit => KeyInv
  BY DEF KeyInit, KeyInv, KeyTyped, NoFile, Stopped, NoKey, Serves

LEMMA KeyStep ==
  ASSUME KeyInv, [KeyNext]_keyVars
  PROVE  KeyInv'
  <1> USE DEF KeyInv, KeyTyped, NoKey, Serves
  <1>1. CASE UNCHANGED keyVars
    BY <1>1 DEF keyVars
  <1>2. ASSUME NEW p \in Process, Load(p)
        PROVE  KeyInv'
    BY <1>2 DEF Load, Serve, Starts
  <1>3. ASSUME NEW p \in Process, Generate(p)
        PROVE  KeyInv'
    BY <1>3 DEF Generate, Starts
  <1>4. ASSUME NEW p \in Process, Create(p)
        PROVE  KeyInv'
    <2>1. CASE file.exists
      BY <1>4, <2>1 DEF Create, Creates, Stopped
    <2>2. CASE ~file.exists
      <3>1. \A q \in Process : process[q].at # "write"
        BY <2>2
      <3>2. /\ file' = [exists |-> TRUE, key |-> NoKey]
            /\ process' = [process EXCEPT ![p] = [at |-> "write", key |-> process[p].key]]
            /\ UNCHANGED <<generated, target>> /\ process[p].key # NoKey /\ file.key = NoKey
        BY <1>4, <2>2 DEF Create, Creates, Starts
      <3>3. KeyTyped' /\ target' = NoKey
        BY <3>2
      <3> QED
        BY <3>1, <3>2, <3>3
    <2> QED
      BY <2>1, <2>2
  <1>5. ASSUME NEW p \in Process, Write(p)
        PROVE  KeyInv'
    BY <1>5 DEF Write, Serve, Starts
  <1>6. ASSUME NEW p \in Process, Kill(p)
        PROVE  KeyInv'
    BY <1>6 DEF Kill, Stopped
  <1> QED
    BY <1>1, <1>2, <1>3, <1>4, <1>5, <1>6 DEF KeyNext

\* The gateway's other steps leave the key file alone.
LEMMA KeepsKey == [Next]_vars => [KeyNext]_keyVars
  BY DEF Next, vars, Starting, Dials, Killed, KeyNext

LEMMA KeyInvariant == Spec => []KeyInv
  <1>1. Init => KeyInv
    BY KeyInitInv DEF Init
  <1>2. KeyInv /\ [Next]_vars => KeyInv'
    BY KeyStep, KeepsKey
  <1> QED
    BY <1>1, <1>2, PTL DEF Spec

\* However many processes are started on one key file, in whatever order they race for it
\* and wherever they are killed (load_or_create_key, gateway.rs:108-143): all that serve
\* have the identity that clients were given.
THEOREM IdentityIsStable == Spec => []OneIdentity
  <1>1. KeyInv => OneIdentity
    BY DEF KeyInv, OneIdentity
  <1> QED
    BY KeyInvariant, <1>1, PTL

-----------------------------------------------------------------------------
(* The steps of a stream *)

\* What the end of the serving process does to it.
Cut ==
  /\ stalled' = FALSE
  /\ LoseLink \/ (link \notin {"handshake", "up"} /\
       UNCHANGED <<allow, ask, link, task, timer, flight, answer, pipe>>)

\* The handshake: steps that leave the bytes alone and end no copying.
Handshakes ==
  \/ Connect \/ Established \/ HangUp \/ OpenStream \/ RequestArrives \/ Deny \/ BadRequest
  \/ UnknownService \/ Dial \/ Unreachable \/ Dialed \/ StatusArrives \/ ConnectionFails
  \/ LinkLost \/ Stall \/ Tick \/ Cut

\* The copying: steps that leave the connection, the handshake and the clock alone.
Copies(t) ==
  \/ Send(t) \/ Receive(t) \/ SendEnd(t) \/ ReceiveEnd(t) \/ Finish(t) \/ Fails(t) \/ Writes(t) \/ Close(t)

LEMMA StreamSteps ==
  ASSUME [Next]_vars
  PROVE  \/ Handshakes \/ StatusExpires \/ NextTunnel \/ UNCHANGED streamVars
         \/ \E t \in Side : Copies(t)
  <1>1. CASE UNCHANGED vars
    BY <1>1 DEF vars
  <1>2. CASE Starting
    BY <1>2 DEF Starting
  <1>3. ASSUME NEW p \in Process, Dials(p)
        PROVE  Connect
    BY <1>3 DEF Dials
  <1>4. ASSUME NEW p \in Process, Killed(p)
        PROVE  Cut \/ UNCHANGED streamVars
    BY <1>4 DEF Killed, Cut
  <1>5. CASE Works
    BY <1>5 DEF Works, Handshakes, Copies, PipeFails
  <1>6. CASE Happens
    BY <1>6 DEF Happens, Handshakes, Copies, Reset
  <1> QED
    BY <1>1, <1>2, <1>3, <1>4, <1>5, <1>6 DEF Next, Handshakes

-----------------------------------------------------------------------------
(* Typing *)

Places == {"idle", "connect", "open", "status", "none", "handshake", "accept", "reject", "deny",
           "request", "dial", "pipe", "done", "failed", "expired", "refused", "denied"}
Sound(p) == p \in Direction /\ p.dst <= p.wire /\ p.wire <= p.src
PipeOK == pipe \in [{"up", "down"} -> Direction] /\ \A d \in {"up", "down"} : Sound(pipe[d])
Typed == StreamTypeOK /\ task \in [Side -> Places]

LEMMA Durations ==
  /\ HandshakeTimeout \in Int /\ RejectTimeout \in Int /\ RequestTimeout \in Int
  /\ DialTimeout \in Int /\ ClientTimeout \in Int /\ Delay \in Int /\ Off \in Int
  <1>1. \A t \in {HandshakeTimeout, RejectTimeout, RequestTimeout, DialTimeout, ClientTimeout, Delay} :
          t \in Nat
    BY StreamAssumption
  <1>2. Nat \subseteq Int
    OBVIOUS
  <1> QED
    BY <1>1, <1>2 DEF Off

LEMMA SilentType == [up |-> Silent, down |-> Silent] \in [{"up", "down"} -> Direction]
  BY StreamAssumption DEF Silent, Direction, Closing, Ending

LEMMA InitTyped == StreamInit => Typed
  <1> SUFFICES ASSUME StreamInit PROVE Typed
    OBVIOUS
  <1>1. PipeOK
    BY SilentType, StreamAssumption DEF StreamInit, PipeOK, Sound, Silent
  <1>2. timer \in [{"client", "gateway", "net"} -> Int]
    BY Durations DEF StreamInit, Quiet
  <1>3. task \in [Side -> Places] /\ task["client"] = "idle" /\ task["gateway"] = "none"
    BY DEF StreamInit, Side, Places
  <1> QED
    BY <1>1, <1>2, <1>3 DEF StreamInit, Typed, StreamTypeOK, PipeOK, Sound, Statuses

\* A direction that moves within its bounds keeps the pipe in shape.
LEMMA MovesType ==
  ASSUME PipeOK, NEW d \in {"up", "down"}, NEW r, Sound(r), Moves(d, r)
  PROVE  PipeOK'
  BY DEF PipeOK, Moves, Sound

LEMMA SoundMoves ==
  ASSUME NEW p, Sound(p)
  PROVE  /\ p.wire < p.src => Sound([p EXCEPT !.wire = @ + 1])
         /\ p.dst < p.wire => Sound([p EXCEPT !.dst = @ + 1])
         /\ p.src < MaxBytes => Sound([p EXCEPT !.src = @ + 1])
         /\ Sound([p EXCEPT !.srcEnd = "fin"]) /\ Sound([p EXCEPT !.dstEnd = "fin"])
         /\ Sound([p EXCEPT !.wireEnd = "fin"])
  BY StreamAssumption DEF Direction, Sound, Closing, Ending

LEMMA HandshakesType ==
  ASSUME Typed, Handshakes
  PROVE  Typed'
  <1> USE DEF Typed, StreamTypeOK, Goes, At, Sends, Replies, Statuses, Places, Side
  <1> USE Durations
  <1>1. CASE Connect
    BY <1>1 DEF Connect, Deadline, Quiet
  <1>2. CASE Established
    BY <1>2 DEF Established, Deadline
  <1>3. CASE HangUp
    BY <1>3 DEF HangUp
  <1>4. CASE OpenStream
    BY <1>4 DEF OpenStream, Deadline
  <1>5. CASE RequestArrives
    <2>1. timer' \in [{"client", "gateway", "net"} -> Int]
      BY <1>5 DEF RequestArrives, Deadline
    <2>2. CASE At("gateway", "accept")
      <3>1. task' = [task EXCEPT !["gateway"] = "request"]
        BY <1>5, <2>2 DEF RequestArrives
      <3> QED
        BY <1>5, <2>1, <3>1 DEF RequestArrives
    <2>3. CASE ~At("gateway", "accept")
      <3>1. task' = [task EXCEPT !["gateway"] = "deny"] \/ task' = task
        BY <1>5, <2>3 DEF RequestArrives
      <3> QED
        BY <1>5, <2>1, <3>1 DEF RequestArrives
    <2> QED
      BY <2>2, <2>3
  <1>6. CASE Deny
    BY <1>6 DEF Deny
  <1>7. CASE BadRequest
    BY <1>7 DEF BadRequest
  <1>8. CASE UnknownService
    BY <1>8 DEF UnknownService
  <1>9. CASE Dial
    BY <1>9 DEF Dial, Deadline
  <1>10. CASE Unreachable
    BY <1>10 DEF Unreachable
  <1>11. CASE Dialed
    BY <1>11 DEF Dialed
  <1>12. CASE StatusArrives
    BY <1>12 DEF StatusArrives
  <1>13. CASE ConnectionFails
    BY <1>13 DEF ConnectionFails
  <1>14. CASE LoseLink /\ stalled' \in BOOLEAN
    BY <1>14 DEF LoseLink
  <1>15. CASE Stall
    BY <1>15 DEF Stall
  <1>16. CASE Tick
    BY <1>16 DEF Tick, Ticks
  <1>17. CASE stalled' \in BOOLEAN /\ UNCHANGED <<allow, ask, link, task, timer, flight, answer, pipe>>
    BY <1>17
  <1> QED
    BY <1>1, <1>2, <1>3, <1>4, <1>5, <1>6, <1>7, <1>8, <1>9, <1>10, <1>11, <1>12, <1>13,
       <1>14, <1>15, <1>16, <1>17
    DEF Handshakes, Cut, LinkLost

LEMMA PipeTyped == Typed <=> Typed /\ PipeOK
  BY DEF Typed, StreamTypeOK, PipeOK, Sound

LEMMA DropsType ==
  ASSUME PipeOK, NEW t \in Side, NEW end \in Ending, Drops(t, end)
  PROVE  PipeOK'
  <1>1. Out(t) \in {"up", "down"} /\ Sound(pipe[Out(t)])
    BY DEF Out, PipeOK
  <1>2. Sound([pipe[Out(t)] EXCEPT !.wireEnd = IF @ = "open" THEN end ELSE @])
    BY <1>1 DEF Sound, Direction
  <1> QED
    BY <1>1, <1>2 DEF Drops, PipeOK, Sound

LEMMA StatusExpiresType ==
  ASSUME Typed, StatusExpires
  PROVE  Typed'
  <1>1. PipeOK'
    BY PipeTyped, DropsType DEF StatusExpires, Side, Closing, Ending
  <1> QED
    BY <1>1, Durations
    DEF Typed, StreamTypeOK, PipeOK, Sound, StatusExpires, Goes, At, Places, Side, Statuses

LEMMA NextTunnelType ==
  ASSUME Typed, NextTunnel
  PROVE  Typed'
  BY SilentType, StreamAssumption, Durations
  DEF Typed, StreamTypeOK, NextTunnel, Places, Side, Quiet, Silent, Statuses

LEMMA CopiesType ==
  ASSUME Typed, NEW t \in Side, Copies(t)
  PROVE  Typed'
  <1>1. /\ PipeOK
        /\ Out(t) \in {"up", "down"} /\ In(t) \in {"up", "down"}
        /\ Sound(pipe[Out(t)]) /\ Sound(pipe[In(t)])
    BY PipeTyped DEF Out, In, PipeOK
  <1>2. ASSUME UNCHANGED task /\ Rest, PipeOK'
        PROVE  Typed'
    BY <1>2 DEF Rest, Typed, StreamTypeOK, PipeOK, Sound
  <1>3. CASE Send(t)
    <2> DEFINE r == [pipe[Out(t)] EXCEPT !.wire = @ + 1]
    <2>1. Sound(r)
      BY <1>1, <1>3, SoundMoves DEF Send, Unsent
    <2>2. Moves(Out(t), r) /\ UNCHANGED task /\ Rest
      BY <1>3 DEF Send
    <2> HIDE DEF r
    <2> QED
      BY <1>1, <1>2, <2>1, <2>2, MovesType
  <1>4. CASE Receive(t)
    <2> DEFINE r == [pipe[In(t)] EXCEPT !.dst = @ + 1]
    <2>1. Sound(r)
      BY <1>1, <1>4, SoundMoves DEF Receive
    <2>2. Moves(In(t), r) /\ UNCHANGED task /\ Rest
      BY <1>4 DEF Receive
    <2> HIDE DEF r
    <2> QED
      BY <1>1, <1>2, <2>1, <2>2, MovesType
  <1>5. CASE SendEnd(t)
    <2> DEFINE r == [pipe[Out(t)] EXCEPT !.wireEnd = "fin"]
    <2>1. Sound(r)
      BY <1>1, <1>5, SoundMoves
    <2>2. Moves(Out(t), r) /\ UNCHANGED task /\ Rest
      BY <1>5 DEF SendEnd
    <2> HIDE DEF r
    <2> QED
      BY <1>1, <1>2, <2>1, <2>2, MovesType
  <1>6. CASE ReceiveEnd(t)
    <2> DEFINE r == [pipe[In(t)] EXCEPT !.dstEnd = "fin"]
    <2>1. Sound(r)
      BY <1>1, <1>6, SoundMoves
    <2>2. Moves(In(t), r) /\ UNCHANGED task /\ Rest
      BY <1>6 DEF ReceiveEnd
    <2> HIDE DEF r
    <2> QED
      BY <1>1, <1>2, <2>1, <2>2, MovesType
  <1>7. CASE Writes(t)
    <2> DEFINE r == [pipe[Out(t)] EXCEPT !.src = @ + 1]
    <2>1. Sound(r)
      BY <1>1, <1>7, SoundMoves DEF Writes
    <2>2. Moves(Out(t), r) /\ UNCHANGED task /\ Rest
      BY <1>7 DEF Writes
    <2> HIDE DEF r
    <2> QED
      BY <1>1, <1>2, <2>1, <2>2, MovesType
  <1>8. CASE Close(t)
    <2> DEFINE r == [pipe[Out(t)] EXCEPT !.srcEnd = "fin"]
    <2>1. Sound(r)
      BY <1>1, <1>8, SoundMoves
    <2>2. Moves(Out(t), r) /\ UNCHANGED task /\ Rest
      BY <1>8 DEF Close
    <2> HIDE DEF r
    <2> QED
      BY <1>1, <1>2, <2>1, <2>2, MovesType
  <1>9. CASE Finish(t)
    BY <1>9 DEF Finish, Goes, Rest, Typed, StreamTypeOK, Places, Side
  <1>10. CASE Fails(t)
    <2>1. PipeOK'
      BY <1>1, <1>10, DropsType DEF Fails, Closing, Ending
    <2> QED
      BY <1>10, <2>1 DEF Fails, Goes, Rest, Typed, StreamTypeOK, Places, Side, PipeOK, Sound
  <1> QED
    BY <1>3, <1>4, <1>5, <1>6, <1>7, <1>8, <1>9, <1>10 DEF Copies

LEMMA StepTyped ==
  ASSUME Typed, [Next]_vars
  PROVE  Typed'
  <1>1. CASE UNCHANGED streamVars
    BY <1>1 DEF streamVars, Typed, StreamTypeOK
  <1> QED
    BY <1>1, StreamSteps, HandshakesType, StatusExpiresType, NextTunnelType, CopiesType

LEMMA TypedInvariant == Spec => []Typed
  <1>1. Init => Typed
    BY InitTyped DEF Init
  <1> QED
    BY <1>1, StepTyped, PTL DEF Spec

\* Each part of the state keeps its shape, and no end of a direction overtakes what feeds it,
\* for any number of bytes.
THEOREM StreamTypeCorrect == Spec => []StreamTypeOK
  <1>1. Typed => StreamTypeOK
    BY DEF Typed
  <1> QED
    BY TypedInvariant, <1>1, PTL

-----------------------------------------------------------------------------
(* Where the two tasks are while the connection comes and goes *)

Phase ==
  /\ link = "none" => task["client"] = "idle" /\ task["gateway"] = "none"
  /\ link = "handshake" => task["client"] = "connect" /\ task["gateway"] = "handshake"
  /\ link = "up" => task["client"] \notin {"idle", "connect"}
  /\ task["gateway"] \in {"accept", "reject", "deny", "request", "dial"} => link = "up"
  /\ task["client"] \in {"idle", "connect", "open"} => flight = "none"
  /\ link = "up" /\ task["client"] = "open" => task["gateway"] \in {"accept", "reject"}

LEMMA HandshakesPhase ==
  ASSUME Typed, Phase, Handshakes
  PROVE  Phase'
  <1> USE DEF Typed, Phase, Goes, At, Sends, Replies, Places, Side
  <1>1. CASE Connect
    BY <1>1 DEF Connect
  <1>2. CASE Established
    BY <1>2 DEF Established
  <1>3. CASE HangUp
    BY <1>3 DEF HangUp
  <1>4. CASE OpenStream
    BY <1>4 DEF OpenStream
  <1>5. CASE RequestArrives
    BY <1>5 DEF RequestArrives
  <1>6. CASE Deny
    BY <1>6 DEF Deny
  <1>7. CASE BadRequest
    BY <1>7 DEF BadRequest
  <1>8. CASE UnknownService
    BY <1>8 DEF UnknownService
  <1>9. CASE Dial
    BY <1>9 DEF Dial
  <1>10. CASE Unreachable
    BY <1>10 DEF Unreachable
  <1>11. CASE Dialed
    BY <1>11 DEF Dialed
  <1>12. CASE StatusArrives
    BY <1>12 DEF StatusArrives
  <1>13. CASE ConnectionFails
    BY <1>13 DEF ConnectionFails
  <1>14. CASE LinkLost
    BY <1>14 DEF LinkLost, LoseLink, Ends
  <1>15. CASE Stall
    BY <1>15 DEF Stall
  <1>16. CASE Tick
    BY <1>16 DEF Tick
  <1>17. CASE Cut
    BY <1>17 DEF Cut, LoseLink, Ends
  <1> QED
    BY <1>1, <1>2, <1>3, <1>4, <1>5, <1>6, <1>7, <1>8, <1>9, <1>10, <1>11, <1>12, <1>13, <1>14, <1>15, <1>16, <1>17 DEF Handshakes

LEMMA CopiesPhase ==
  ASSUME Typed, Phase, NEW t \in Side, Copies(t)
  PROVE  Phase'
  <1>1. CASE UNCHANGED task /\ Rest
    BY <1>1 DEF Rest, Phase
  <1>2. CASE Finish(t) \/ Fails(t)
    BY <1>2 DEF Finish, Fails, Copying, At, Goes, Rest, Typed, Phase, Side
  <1> QED
    BY <1>1, <1>2 DEF Copies, Send, Receive, SendEnd, ReceiveEnd, Writes, Close

LEMMA StepPhase ==
  ASSUME Typed, Phase, [Next]_vars
  PROVE  Phase'
  <1>1. CASE UNCHANGED streamVars
    BY <1>1 DEF streamVars, Phase
  <1>2. CASE StatusExpires
    BY <1>2 DEF StatusExpires, At, Goes, Typed, Phase, Side
  <1>3. CASE NextTunnel
    BY <1>3 DEF NextTunnel, Ends, Phase
  <1> QED
    BY <1>1, <1>2, <1>3, StreamSteps, HandshakesPhase, CopiesPhase

LEMMA PhaseInvariant == Spec => []Phase
  <1>1. Init => Phase
    BY DEF Init, StreamInit, Phase
  <1> QED
    BY <1>1, StepPhase, TypedInvariant, PTL DEF Spec

-----------------------------------------------------------------------------
(* What the handshake leaves alone; authorization *)

LEMMA HandshakesMove ==
  ASSUME Typed, Phase, Handshakes
  PROVE  /\ UNCHANGED <<pipe, allow, ask>>
         /\ \A t \in Side : (Failed(t) => Failed(t)') /\ (At(t, "done")' => At(t, "done"))
         /\ task["gateway"]' \in {"dial", "pipe"} => task["gateway"] \in {"dial", "pipe"} \/ ask \in Scope
  <1> USE DEF Typed, Phase, Goes, At, Failed, Replies, Places, Side
  <1>1. CASE Connect
    BY <1>1 DEF Connect
  <1>2. CASE Established
    BY <1>2 DEF Established
  <1>3. CASE HangUp
    BY <1>3 DEF HangUp
  <1>4. CASE OpenStream
    BY <1>4 DEF OpenStream
  <1>5. CASE RequestArrives
    BY <1>5 DEF RequestArrives
  <1>6. CASE Deny
    BY <1>6 DEF Deny
  <1>7. CASE BadRequest
    BY <1>7 DEF BadRequest
  <1>8. CASE UnknownService
    BY <1>8 DEF UnknownService
  <1>9. CASE Dial
    BY <1>9 DEF Dial
  <1>10. CASE Unreachable
    BY <1>10 DEF Unreachable
  <1>11. CASE Dialed
    BY <1>11 DEF Dialed
  <1>12. CASE StatusArrives
    BY <1>12 DEF StatusArrives
  <1>13. CASE ConnectionFails
    BY <1>13 DEF ConnectionFails
  <1>14. CASE LinkLost
    BY <1>14 DEF LinkLost, LoseLink, Ends
  <1>15. CASE Stall
    BY <1>15 DEF Stall
  <1>16. CASE Tick
    BY <1>16 DEF Tick
  <1>17. CASE Cut
    BY <1>17 DEF Cut, LoseLink, Ends
  <1> QED
    BY <1>1, <1>2, <1>3, <1>4, <1>5, <1>6, <1>7, <1>8, <1>9, <1>10, <1>11, <1>12, <1>13, <1>14, <1>15, <1>16, <1>17 DEF Handshakes

\* What a stream to an upstream asks for was in the scope of its endpoint.
Authorization == task["gateway"] \in {"dial", "pipe"} => ask \in Scope

LEMMA StepAuthorization ==
  ASSUME Typed, Phase, Authorization, [Next]_vars
  PROVE  Authorization'
  <1>1. CASE Handshakes
    BY <1>1, HandshakesMove DEF Authorization, Scope, Mine
  <1>2. CASE UNCHANGED streamVars
    BY <1>2 DEF streamVars, Authorization, Scope, Mine
  <1>3. CASE StatusExpires
    BY <1>3 DEF StatusExpires, Goes, Authorization, Scope, Mine, Typed, Side
  <1>4. CASE NextTunnel
    BY <1>4 DEF NextTunnel, Authorization
  <1>5. ASSUME NEW t \in Side, Copies(t)
        PROVE  Authorization'
    <2>1. UNCHANGED <<allow, ask>> /\ (task["gateway"]' \in {"dial", "pipe"} => task["gateway"] \in {"dial", "pipe"})
      BY <1>5 DEF Copies, Send, Receive, SendEnd, ReceiveEnd, Writes, Close, Finish, Fails, Rest, Goes, Typed, Side
    <2> QED
      BY <2>1 DEF Authorization, Scope, Mine
  <1> QED
    BY <1>1, <1>2, <1>3, <1>4, <1>5, StreamSteps

LEMMA ScopeAllowed ==
  ASSUME Typed, ask \in Scope
  PROVE  ask \in Service /\ (allow = {} \/ \E r \in allow : r.endpoint = Me /\ r.service \in {All, ask})
  <1>1. \A r \in allow : r.service \in Service \cup {All}
    BY StreamAssumption DEF Typed, StreamTypeOK, Rule
  <1> QED
    BY <1>1 DEF Scope, Mine

\* A stream reaches an upstream only for a configured service that a rule gives to the
\* endpoint of its connection (connection_scope, gateway.rs:252-278), for any rules.
THEOREM NeverAnOpenProxy == Spec => []OnlyAllowed
  <1>1. Init => Authorization
    BY DEF Init, StreamInit, Authorization
  <1>2. Typed /\ Authorization => OnlyAllowed
    BY ScopeAllowed DEF Authorization, OnlyAllowed
  <1> QED
    BY <1>1, <1>2, StepAuthorization, TypedInvariant, PhaseInvariant, PTL DEF Spec

-----------------------------------------------------------------------------
(* The bytes *)

Kept(p) == p.wireEnd = "open" \/ (p.wireEnd = "fin" /\ p.srcEnd = "fin" /\ p.wire = p.src)
Carried(p) == p.dstEnd = "fin" => p.wireEnd = "fin" /\ p.dst = p.wire
Source(d) == IF d = "up" THEN "client" ELSE "gateway"

\* A direction is finished only when all of its source is in it, unless its source failed.
Delivery ==
  /\ \A d \in {"up", "down"} : (Failed(Source(d)) \/ Kept(pipe[d])) /\ Carried(pipe[d])
  /\ \A t \in Side : At(t, "done") => pipe[Out(t)].wireEnd = "fin" /\ pipe[In(t)].dstEnd = "fin"

\* A direction that moves on, without a failure.
Forward(p, r) ==
  /\ Kept(p) => Kept(r)
  /\ Carried(p) => Carried(r)
  /\ p.wireEnd = "fin" => r.wireEnd = "fin"
  /\ p.dstEnd = "fin" => r.dstEnd = "fin"

LEMMA ForwardMoves ==
  ASSUME NEW p, Sound(p)
  PROVE  /\ p.wire < p.src /\ p.wireEnd = "open" => Forward(p, [p EXCEPT !.wire = @ + 1])
         /\ p.dst < p.wire => Forward(p, [p EXCEPT !.dst = @ + 1])
         /\ p.srcEnd = "open" => Forward(p, [p EXCEPT !.src = @ + 1])
         /\ p.srcEnd = "open" => Forward(p, [p EXCEPT !.srcEnd = "fin"])
         /\ p.srcEnd = "fin" /\ p.wire = p.src /\ p.wireEnd = "open" => Forward(p, [p EXCEPT !.wireEnd = "fin"])
         /\ p.wireEnd = "fin" /\ p.dst = p.wire => Forward(p, [p EXCEPT !.dstEnd = "fin"])
  BY StreamAssumption DEF Direction, Sound, Forward, Kept, Carried

LEMMA MovesDelivery ==
  ASSUME PipeOK, Delivery, NEW d \in {"up", "down"}, NEW r, Forward(pipe[d], r), Moves(d, r), UNCHANGED task
  PROVE  Delivery'
  BY DEF PipeOK, Delivery, Forward, Moves, Failed, At, Source, Side, Out, In

\* Whoever drops an unfinished stream has failed.
LEMMA DropsDelivery ==
  ASSUME PipeOK, Delivery, task \in [Side -> Places], NEW t \in Side, NEW end \in {"fin", "reset"},
         Drops(t, end), NEW why \in {"failed", "expired"}, task' = [task EXCEPT ![t] = why]
  PROVE  Delivery'
  BY DEF PipeOK, Sound, Direction, Delivery, Drops, Kept, Carried, Failed, At, Source, Side, Out, In

LEMMA CopiesDelivery ==
  ASSUME Typed, Delivery, NEW t \in Side, Copies(t)
  PROVE  Delivery'
  <1>1. /\ PipeOK
        /\ Out(t) \in {"up", "down"} /\ In(t) \in {"up", "down"}
        /\ Sound(pipe[Out(t)]) /\ Sound(pipe[In(t)])
    BY PipeTyped DEF Out, In, PipeOK
  <1>3. CASE Send(t)
    <2> DEFINE r == [pipe[Out(t)] EXCEPT !.wire = @ + 1]
    <2>1. Forward(pipe[Out(t)], r)
      BY <1>1, <1>3, ForwardMoves DEF Send, Unsent
    <2>2. Moves(Out(t), r) /\ UNCHANGED task
      BY <1>3 DEF Send, Rest
    <2> HIDE DEF r
    <2> QED
      BY <1>1, <2>1, <2>2, MovesDelivery
  <1>4. CASE Receive(t)
    <2> DEFINE r == [pipe[In(t)] EXCEPT !.dst = @ + 1]
    <2>1. Forward(pipe[In(t)], r)
      BY <1>1, <1>4, ForwardMoves DEF Receive
    <2>2. Moves(In(t), r) /\ UNCHANGED task
      BY <1>4 DEF Receive, Rest
    <2> HIDE DEF r
    <2> QED
      BY <1>1, <2>1, <2>2, MovesDelivery
  <1>5. CASE SendEnd(t)
    <2> DEFINE r == [pipe[Out(t)] EXCEPT !.wireEnd = "fin"]
    <2>1. Forward(pipe[Out(t)], r)
      BY <1>1, <1>5, ForwardMoves DEF SendEnd, Shutdown
    <2>2. Moves(Out(t), r) /\ UNCHANGED task
      BY <1>5 DEF SendEnd, Rest
    <2> HIDE DEF r
    <2> QED
      BY <1>1, <2>1, <2>2, MovesDelivery
  <1>6. CASE ReceiveEnd(t)
    <2> DEFINE r == [pipe[In(t)] EXCEPT !.dstEnd = "fin"]
    <2>1. Forward(pipe[In(t)], r)
      BY <1>1, <1>6, ForwardMoves DEF ReceiveEnd
    <2>2. Moves(In(t), r) /\ UNCHANGED task
      BY <1>6 DEF ReceiveEnd, Rest
    <2> HIDE DEF r
    <2> QED
      BY <1>1, <2>1, <2>2, MovesDelivery
  <1>7. CASE Writes(t)
    <2> DEFINE r == [pipe[Out(t)] EXCEPT !.src = @ + 1]
    <2>1. Forward(pipe[Out(t)], r)
      BY <1>1, <1>7, ForwardMoves DEF Writes
    <2>2. Moves(Out(t), r) /\ UNCHANGED task
      BY <1>7 DEF Writes, Rest
    <2> HIDE DEF r
    <2> QED
      BY <1>1, <2>1, <2>2, MovesDelivery
  <1>8. CASE Close(t)
    <2> DEFINE r == [pipe[Out(t)] EXCEPT !.srcEnd = "fin"]
    <2>1. Forward(pipe[Out(t)], r)
      BY <1>1, <1>8, ForwardMoves DEF Close
    <2>2. Moves(Out(t), r) /\ UNCHANGED task
      BY <1>8 DEF Close, Rest
    <2> HIDE DEF r
    <2> QED
      BY <1>1, <2>1, <2>2, MovesDelivery
  <1>9. CASE Finish(t)
    BY <1>9 DEF Finish, Both, Copying, Goes, Rest, Typed, Side, Delivery, At, Failed, Source, Kept, Carried, Out, In
  <1>10. CASE Fails(t)
    <2>1. PICK end \in {"fin", "reset"} : Drops(t, end)
      BY <1>10 DEF Fails
    <2>2. task' = [task EXCEPT ![t] = "failed"] /\ At(t, "pipe")
      BY <1>10 DEF Fails, Goes
    <2> QED
      BY <1>1, <2>1, <2>2, DropsDelivery DEF Typed, At, Side
  <1> QED
    BY <1>3, <1>4, <1>5, <1>6, <1>7, <1>8, <1>9, <1>10 DEF Copies

LEMMA StepDelivery ==
  ASSUME Typed, Phase, Delivery, [Next]_vars
  PROVE  Delivery'
  <1>1. CASE UNCHANGED streamVars
    BY <1>1 DEF streamVars, Delivery, Failed, At, Side
  <1>2. CASE Handshakes
    <2>1. /\ UNCHANGED pipe
          /\ \A t \in Side : (Failed(t) => Failed(t)') /\ (At(t, "done")' => At(t, "done"))
      BY <1>2, HandshakesMove
    <2>2. \A d \in {"up", "down"} : Source(d) \in Side
      BY DEF Source, Side
    <2>3. ASSUME NEW d \in {"up", "down"}
          PROVE  (Failed(Source(d))' \/ Kept(pipe[d])') /\ Carried(pipe[d])'
      BY <2>1, <2>2 DEF Delivery, Kept, Carried
    <2>4. ASSUME NEW t \in Side, At(t, "done")'
          PROVE  pipe'[Out(t)].wireEnd = "fin" /\ pipe'[In(t)].dstEnd = "fin"
      BY <2>1, <2>4 DEF Delivery
    <2> QED
      BY <2>3, <2>4 DEF Delivery
  <1>3. CASE StatusExpires
    <2>1. PICK end \in {"fin", "reset"} : Drops("client", end)
      BY <1>3 DEF StatusExpires
    <2>2. task' = [task EXCEPT !["client"] = "expired"] /\ "client" \in Side
      BY <1>3 DEF StatusExpires, Goes, Side
    <2> QED
      BY <2>1, <2>2, DropsDelivery, PipeTyped DEF Typed
  <1>4. CASE NextTunnel
    <2>1. pipe' = [up |-> Silent, down |-> Silent] /\ \A t \in Side : task'[t] # "done"
      BY <1>4 DEF NextTunnel, Side
    <2> QED
      BY <2>1 DEF Delivery, Kept, Carried, Silent, At
  <1>5. ASSUME NEW t \in Side, Copies(t)
        PROVE  Delivery'
    BY <1>5, CopiesDelivery
  <1> QED
    BY <1>1, <1>2, <1>3, <1>4, <1>5, StreamSteps

LEMMA DeliveryInvariant == Spec => []Delivery
  <1>1. Init => Delivery
    BY DEF Init, StreamInit, Delivery, Kept, Carried, Silent, At, Side
  <1> QED
    BY <1>1, StepDelivery, TypedInvariant, PhaseInvariant, PTL DEF Spec

LEMMA DeliveredAll ==
  ASSUME Typed, Delivery, At("client", "done"), At("gateway", "done"), NEW d \in {"up", "down"}
  PROVE  pipe[d].srcEnd = "fin" /\ pipe[d].dstEnd = "fin" /\ pipe[d].dst = pipe[d].src
  <1>1. pipe[d].wireEnd = "fin" /\ pipe[d].dstEnd = "fin"
    BY DEF Delivery, Side, Out, In
  <1>2. ~Failed(Source(d))
    BY DEF Failed, Source, At
  <1> QED
    BY <1>1, <1>2 DEF Delivery, Kept, Carried

\* When both ends report a closed tunnel, every byte and both ends have been delivered
\* (copy_bidirectional on the StreamPair of lib.rs:256-308), for any number of bytes.
THEOREM CleanTunnelsDeliver == Spec => []CleanMeansComplete
  <1>1. Typed /\ Delivery => CleanMeansComplete
    BY DeliveredAll DEF CleanMeansComplete
  <1> QED
    BY <1>1, TypedInvariant, DeliveryInvariant, PTL

-----------------------------------------------------------------------------
(* The nested deadlines *)

LEMMA Nested ==
  /\ RejectTimeout > 0 /\ RequestTimeout > 0 /\ DialTimeout > 0 /\ Delay > 0
  /\ ClientTimeout > RequestTimeout + DialTimeout + 2 * Delay
  /\ ClientTimeout > RejectTimeout
  <1>1. \A t \in {HandshakeTimeout, RejectTimeout, RequestTimeout, DialTimeout, ClientTimeout, Delay} :
          t \in Nat \ {0}
    BY StreamAssumption
  <1>2. \A t \in Nat \ {0} : t > 0
    OBVIOUS
  <1> QED
    BY <1>1, <1>2, StreamAssumption

Live == link = "up" /\ ~stalled

\* Where the handshake of an opened stream is, the client still has time for all that the
\* gateway may do before its status arrives.
RequestOnTime ==
  /\ flight = "request" /\ At("gateway", "accept")
  /\ 0 <= timer.net /\ timer.client > timer.net + RequestTimeout + DialTimeout + Delay
RejectedOnTime ==
  /\ flight = "request" /\ At("gateway", "reject")
  /\ 0 <= timer.net /\ timer.net < timer.client
  /\ 0 <= timer.gateway /\ timer.gateway < timer.client
DeniedOnTime ==
  /\ flight = "none" /\ At("gateway", "deny")
  /\ 0 <= timer.gateway /\ timer.gateway < timer.client
ServedOnTime ==
  /\ flight = "none" /\ At("gateway", "request")
  /\ 0 <= timer.gateway /\ timer.client > timer.gateway + DialTimeout + Delay
DialedOnTime ==
  /\ flight = "none" /\ At("gateway", "dial")
  /\ 0 <= timer.gateway /\ timer.client > timer.gateway + Delay
StatusOnTime ==
  /\ flight \in Statuses /\ task["gateway"] \notin {"accept", "reject", "deny", "request", "dial"}
  /\ 0 <= timer.net /\ timer.net < timer.client
OnTime ==
  RequestOnTime \/ RejectedOnTime \/ DeniedOnTime \/ ServedOnTime \/ DialedOnTime \/ StatusOnTime

InTime ==
  /\ Live /\ At("client", "open") /\ At("gateway", "reject") =>
       0 <= timer.gateway /\ timer.gateway <= RejectTimeout
  /\ Live /\ At("client", "status") => OnTime
  /\ StatusInTime

TimerOK == timer \in [{"client", "gateway", "net"} -> Int] /\ task \in [Side -> Places]

LEMMA TimersTyped == Typed => TimerOK
  BY DEF Typed, StreamTypeOK, TimerOK

LEMMA HandshakesInTime ==
  ASSUME TimerOK, Phase, InTime, Handshakes
  PROVE  InTime'
  <1> USE DEF TimerOK, InTime, Live, StatusInTime, Goes, At, Places, Side
  <1>1. CASE Connect
    BY <1>1 DEF Connect
  <1>2. CASE Established
    BY <1>2, Durations, Nested DEF Established, Deadline
  <1>3. CASE HangUp
    BY <1>3 DEF HangUp
  <1>4. CASE OpenStream
    <2>1. task' = [task EXCEPT !["client"] = "status"] /\ flight' = "request"
      BY <1>4 DEF OpenStream, Sends
    <2>2. timer'.client = ClientTimeout /\ timer'.net = Delay /\ timer'.gateway = timer.gateway
      BY <1>4 DEF OpenStream, Deadline
    <2>3. CASE Live /\ At("gateway", "accept")
      <3>1. RequestOnTime'
        BY <2>1, <2>2, <2>3, Durations, Nested DEF RequestOnTime
      <3> QED
        BY <2>1, <3>1 DEF OnTime
    <2>4. CASE Live /\ At("gateway", "reject")
      <3>1. RejectedOnTime'
        BY <1>4, <2>1, <2>2, <2>4, Durations, Nested DEF OpenStream, RejectedOnTime
      <3> QED
        BY <2>1, <3>1 DEF OnTime
    <2>5. CASE ~Live
      BY <1>4, <2>1, <2>5 DEF OpenStream
    <2> QED
      BY <1>4, <2>3, <2>4, <2>5 DEF OpenStream, Phase
  <1>5. CASE RequestArrives
    <2>1. flight = "request" /\ flight' = "none" /\ UNCHANGED <<link, stalled>>
      BY <1>5 DEF RequestArrives
    <2>2. CASE Live /\ At("client", "status")
      <3>1. RequestOnTime \/ RejectedOnTime
        BY <2>1, <2>2 DEF OnTime, DeniedOnTime, ServedOnTime, DialedOnTime, StatusOnTime, Statuses
      <3>2. CASE RequestOnTime
        <4>1. timer'.client = timer.client /\ timer'.gateway = RequestTimeout
          BY <1>5, <3>2, Durations DEF RequestArrives, RequestOnTime, Deadline
        <4>2. task' = [task EXCEPT !["gateway"] = "request"]
          BY <1>5, <3>2 DEF RequestArrives, RequestOnTime
        <4>3. ServedOnTime'
          BY <2>1, <3>2, <4>1, <4>2, Durations, Nested DEF ServedOnTime, RequestOnTime
        <4> QED
          BY <2>1, <2>2, <4>2, <4>3 DEF OnTime
      <3>3. CASE RejectedOnTime
        <4>1. timer'.client = timer.client /\ timer'.gateway = timer.gateway
          BY <1>5, <3>3 DEF RequestArrives, RejectedOnTime
        <4>2. task' = [task EXCEPT !["gateway"] = "deny"]
          BY <1>5, <3>3 DEF RequestArrives, RejectedOnTime
        <4>3. DeniedOnTime'
          BY <2>1, <3>3, <4>1, <4>2 DEF DeniedOnTime, RejectedOnTime
        <4> QED
          BY <2>1, <2>2, <4>2, <4>3 DEF OnTime
      <3> QED
        BY <3>1, <3>2, <3>3
    <2>3. CASE ~Live \/ ~At("client", "status")
      BY <1>5, <2>3 DEF RequestArrives, Phase
    <2> QED
      BY <2>2, <2>3
  <1>6. CASE Deny
    BY <1>6 DEF Deny, Replies
  <1>7. ASSUME NEW status \in Statuses, NEW at \in {"refused", "pipe"}, Replies(status, at), UNCHANGED link,
               ServedOnTime \/ DialedOnTime \/ ~Live \/ ~At("client", "status")
        PROVE  InTime'
    <2>1. /\ task' = [task EXCEPT !["gateway"] = at] /\ flight' = status
          /\ timer'.client = timer.client /\ timer'.net = Delay /\ UNCHANGED stalled
      BY <1>7 DEF Replies, Sends
    <2>2. CASE Live /\ At("client", "status")
      <3>1. StatusOnTime'
        BY <1>7, <2>1, <2>2, Durations, Nested DEF StatusOnTime, ServedOnTime, DialedOnTime
      <3> QED
        BY <1>7, <2>1, <2>2, <3>1 DEF OnTime
    <2>3. CASE ~Live \/ ~At("client", "status")
      BY <1>7, <2>1, <2>3
    <2> QED
      BY <2>2, <2>3
  <1>8. ASSUME task["gateway"] \in {"request", "dial"}
        PROVE  ServedOnTime \/ DialedOnTime \/ ~Live \/ ~At("client", "status")
    BY <1>8 DEF OnTime, RequestOnTime, RejectedOnTime, DeniedOnTime, StatusOnTime
  <1>9. CASE BadRequest
    BY <1>7, <1>8, <1>9 DEF BadRequest, Statuses
  <1>10. CASE UnknownService
    BY <1>7, <1>8, <1>10 DEF UnknownService, Statuses
  <1>11. CASE Dial
    <2>1. /\ task' = [task EXCEPT !["gateway"] = "dial"] /\ timer' = [timer EXCEPT !.gateway = DialTimeout]
          /\ UNCHANGED <<link, stalled, flight>> /\ At("gateway", "request")
      BY <1>11 DEF Dial, Deadline
    <2>2. CASE Live /\ At("client", "status")
      <3>1. ServedOnTime
        BY <2>1, <2>2, <1>8 DEF DialedOnTime
      <3>2. DialedOnTime'
        BY <2>1, <3>1, Durations, Nested DEF DialedOnTime, ServedOnTime
      <3> QED
        BY <2>1, <2>2, <3>2 DEF OnTime
    <2>3. CASE ~Live \/ ~At("client", "status")
      BY <2>1, <2>3
    <2> QED
      BY <2>2, <2>3
  <1>12. CASE Unreachable
    BY <1>7, <1>8, <1>12 DEF Unreachable, Statuses
  <1>13. CASE Dialed
    BY <1>7, <1>8, <1>13 DEF Dialed, Statuses
  <1>14. CASE StatusArrives
    BY <1>14 DEF StatusArrives
  <1>15. CASE ConnectionFails
    BY <1>15 DEF ConnectionFails
  <1>16. CASE LinkLost
    BY <1>16 DEF LinkLost, LoseLink
  <1>17. CASE Stall
    BY <1>17 DEF Stall
  <1>18. CASE Tick
    <2>1. /\ UNCHANGED <<link, stalled, flight, task>>
          /\ \A n \in {"client", "gateway", "net"} : timer'[n] = IF timer[n] > 0 THEN timer[n] - 1 ELSE timer[n]
      BY <1>18 DEF Tick, Ticks
    <2>2. timer.client # 0 /\ (Live => timer.net # 0 /\ timer.gateway # 0)
      BY <1>18 DEF Tick, Due
    <2>3. CASE Live /\ At("client", "status")
      <3>1. RequestOnTime => RequestOnTime'
        BY <2>1, <2>2, <2>3, Durations, Nested DEF RequestOnTime
      <3>2. RejectedOnTime => RejectedOnTime'
        BY <2>1, <2>2, <2>3 DEF RejectedOnTime
      <3>3. DeniedOnTime => DeniedOnTime'
        BY <2>1, <2>2, <2>3 DEF DeniedOnTime
      <3>4. ServedOnTime => ServedOnTime'
        BY <2>1, <2>2, <2>3, Durations, Nested DEF ServedOnTime
      <3>5. DialedOnTime => DialedOnTime'
        BY <2>1, <2>2, <2>3, Durations, Nested DEF DialedOnTime
      <3>6. StatusOnTime => StatusOnTime'
        BY <2>1, <2>2, <2>3 DEF StatusOnTime
      <3> QED
        BY <2>1, <2>3, <3>1, <3>2, <3>3, <3>4, <3>5, <3>6 DEF OnTime
    <2>4. CASE ~(Live /\ At("client", "status"))
      BY <2>1, <2>4, Durations
    <2> QED
      BY <2>3, <2>4
  <1>19. CASE Cut
    BY <1>19 DEF Cut, LoseLink
  <1> QED
    BY <1>1, <1>2, <1>3, <1>4, <1>5, <1>6, <1>9, <1>10, <1>11, <1>12, <1>13, <1>14, <1>15, <1>16,
       <1>17, <1>18, <1>19 DEF Handshakes

LEMMA CopiesInTime ==
  ASSUME TimerOK, InTime, NEW t \in Side, Copies(t)
  PROVE  InTime'
  <1>1. Rest
    BY DEF Copies, Send, Receive, SendEnd, ReceiveEnd, Finish, Fails, Writes, Close
  <1>2. CASE UNCHANGED task
    BY <1>1, <1>2 DEF Rest, InTime, Live, StatusInTime, At, OnTime, RequestOnTime, RejectedOnTime,
       DeniedOnTime, ServedOnTime, DialedOnTime, StatusOnTime
  <1>3. ASSUME NEW at \in {"done", "failed"}, task' = [task EXCEPT ![t] = at], At(t, "pipe")
        PROVE  InTime'
    <2>1. /\ t = "client" \/ t = "gateway"
          /\ UNCHANGED <<link, timer, flight, stalled>> /\ task \in [Side -> Places]
      BY <1>1 DEF Rest, Side, TimerOK
    <2>2. CASE t = "client"
      BY <1>3, <2>1, <2>2 DEF InTime, Live, StatusInTime, At, Side
    <2>3. CASE t = "gateway"
      <3>1. OnTime => StatusOnTime
        BY <1>3, <2>3 DEF OnTime, RequestOnTime, RejectedOnTime, DeniedOnTime, ServedOnTime, DialedOnTime, At
      <3>2. StatusOnTime => StatusOnTime'
        BY <1>3, <2>1, <2>3 DEF StatusOnTime, Side
      <3> QED
        BY <1>3, <2>1, <2>3, <3>1, <3>2 DEF InTime, Live, StatusInTime, At, Side, OnTime
    <2> QED
      BY <2>1, <2>2, <2>3
  <1> QED
    BY <1>2, <1>3 DEF Copies, Send, Receive, SendEnd, ReceiveEnd, Finish, Fails, Writes, Close, Copying, Goes

LEMMA StepInTime ==
  ASSUME Typed, Phase, InTime, [Next]_vars
  PROVE  InTime'
  <1>1. CASE UNCHANGED streamVars
    BY <1>1 DEF streamVars, InTime, Live, StatusInTime, At, OnTime, RequestOnTime, RejectedOnTime,
       DeniedOnTime, ServedOnTime, DialedOnTime, StatusOnTime
  <1>2. CASE StatusExpires
    <2>1. OnTime => timer.client # 0
      <3>1. TimerOK
        BY TimersTyped
      <3> QED
        BY <3>1, Durations, Nested DEF TimerOK, OnTime, RequestOnTime, RejectedOnTime, DeniedOnTime,
           ServedOnTime, DialedOnTime, StatusOnTime
    <2>2. At("client", "status") /\ timer.client = 0 /\ UNCHANGED <<link, stalled>>
      BY <1>2 DEF StatusExpires
    <2>3. ~Live
      BY <2>1, <2>2 DEF InTime
    <2>4. task'["client"] = "expired"
      BY <1>2, TimersTyped DEF StatusExpires, Goes, TimerOK, Side
    <2> QED
      BY <2>2, <2>3, <2>4 DEF InTime, Live, StatusInTime, At
  <1>3. CASE NextTunnel
    BY <1>3 DEF NextTunnel, InTime, Live, StatusInTime, At
  <1> QED
    BY <1>1, <1>2, <1>3, StreamSteps, HandshakesInTime, CopiesInTime, TimersTyped

\* The client's deadline covers the gateway's two and both flights (lib.rs:317-319, 388-392):
\* a client whose deadline passes has lost its gateway, for any deadlines nested like these.
THEOREM StatusAlwaysInTime == Spec => []StatusInTime
  <1>1. Init => InTime
    BY DEF Init, StreamInit, InTime, Live, StatusInTime, At
  <1>2. InTime => StatusInTime
    BY DEF InTime
  <1> QED
    BY <1>1, <1>2, StepInTime, TypedInvariant, PhaseInvariant, PTL DEF Spec
-----------------------------------------------------------------------------
(* The tunnel that the two applications see *)

\* A status is in flight only from a gateway that has ended the handshake as it says, and a
\* client without a tunnel has not ended its direction.
Answered ==
  /\ flight = "Ok" => ask \in Scope /\ task["gateway"] \in {"pipe", "done", "failed"}
  /\ flight \in Statuses \ {"Ok"} => task["gateway"] \in {"refused", "denied"}
  /\ task["client"] \in {"idle", "connect", "open", "status"} => pipe["up"].wireEnd = "open"

LEMMA HandshakesAnswered ==
  ASSUME Typed, Phase, Authorization, Answered, Handshakes
  PROVE  Answered'
  <1>1. (ask \in Scope) = (ask \in Scope)' /\ UNCHANGED pipe
    BY HandshakesMove DEF Scope, Mine
  <1> DEFINE Given == ask \in Scope
  <1>2. (Given => ask \in Scope) /\ (Given' <=> Given) /\ (ask \in Scope => Given) /\ (ask \in Scope)' = Given
    BY <1>1
  <1> HIDE DEF Given
  <1> USE <1>1, <1>2 DEF Typed, Phase, Authorization, Answered, Goes, At, Sends, Replies, Places, Side, Statuses
  <1>3. CASE Connect
    BY <1>3 DEF Connect
  <1>4. CASE Established
    BY <1>4 DEF Established
  <1>5. CASE HangUp
    BY <1>5 DEF HangUp
  <1>6. CASE OpenStream
    BY <1>6 DEF OpenStream
  <1>7. CASE RequestArrives
    BY <1>7 DEF RequestArrives
  <1>8. CASE Deny
    BY <1>8 DEF Deny
  <1>9. CASE BadRequest
    BY <1>9 DEF BadRequest
  <1>10. CASE UnknownService
    BY <1>10 DEF UnknownService
  <1>11. CASE Dial
    BY <1>11 DEF Dial
  <1>12. CASE Unreachable
    BY <1>12 DEF Unreachable
  <1>13. CASE Dialed
    BY <1>13 DEF Dialed
  <1>14. CASE StatusArrives
    BY <1>14 DEF StatusArrives
  <1>15. CASE ConnectionFails
    BY <1>15 DEF ConnectionFails
  <1>16. CASE LoseLink
    BY <1>16 DEF LoseLink, Ends
  <1>17. CASE Stall
    BY <1>17 DEF Stall
  <1>18. CASE Tick
    BY <1>18 DEF Tick
  <1>19. CASE UNCHANGED <<allow, ask, link, task, timer, flight, answer, pipe>>
    BY <1>19
  <1> QED
    BY <1>3, <1>4, <1>5, <1>6, <1>7, <1>8, <1>9, <1>10, <1>11, <1>12, <1>13, <1>14, <1>15, <1>16,
       <1>17, <1>18, <1>19 DEF Handshakes, LinkLost, Cut

LEMMA CopiesAnswered ==
  ASSUME Typed, Answered, NEW t \in Side, Copies(t)
  PROVE  Answered'
  <1>1. Rest /\ At(t, "pipe") /\ task \in [Side -> Places]
    BY DEF Copies, Send, Receive, SendEnd, ReceiveEnd, Finish, Fails, Writes, Close, Copying, Typed
  <1>2. (ask \in Scope)' <=> ask \in Scope
    BY <1>1 DEF Rest, Scope, Mine
  <1>3. UNCHANGED task \/ \E at \in {"done", "failed"} : Goes(t, at)
    BY DEF Copies, Send, Receive, SendEnd, ReceiveEnd, Finish, Fails, Writes, Close
  <1>4. UNCHANGED flight /\ (task'["client"] \in {"idle", "connect", "open", "status"} => t = "gateway")
    BY <1>1, <1>3 DEF Rest, Goes, At, Side
  <1>5. task["gateway"] \in {"refused", "denied"} => task'["gateway"] = task["gateway"]
    BY <1>1, <1>3 DEF Goes, At, Side
  <1>6. task["gateway"] \in {"pipe", "done", "failed"} => task'["gateway"] \in {"pipe", "done", "failed"}
    BY <1>1, <1>3 DEF Goes, At, Side
  <1>7. task'["client"] \in {"idle", "connect", "open", "status"} => task'["client"] = task["client"]
    BY <1>1, <1>3 DEF Goes, At, Side
  <1>8. t = "gateway" => pipe'["up"].wireEnd = pipe["up"].wireEnd
    BY DEF Copies, Send, Receive, SendEnd, ReceiveEnd, Finish, Fails, Writes, Close, Moves, Drops,
       In, Out, Typed, StreamTypeOK, Direction
  <1> QED
    BY <1>2, <1>4, <1>5, <1>6, <1>7, <1>8 DEF Answered

LEMMA StepAnswered ==
  ASSUME Typed, Phase, Authorization, Answered, [Next]_vars
  PROVE  Answered'
  <1>1. CASE UNCHANGED streamVars
    BY <1>1 DEF streamVars, Answered, Scope, Mine
  <1>2. CASE StatusExpires
    BY <1>2 DEF StatusExpires, Goes, Answered, Typed, Side, Statuses
  <1>3. CASE NextTunnel
    BY <1>3 DEF NextTunnel, Answered, Statuses, Silent
  <1> QED
    BY <1>1, <1>2, <1>3, StreamSteps, HandshakesAnswered, CopiesAnswered

Tunnels == Typed /\ Phase /\ Authorization /\ Delivery /\ Answered

LEMMA TunnelsInvariant == Spec => []Tunnels
  <1>1. Init => Authorization /\ Answered
    BY DEF Init, StreamInit, Authorization, Answered, Silent, Statuses
  <1>2. Tunnels /\ [Next]_vars => Authorization' /\ Answered'
    BY StepAuthorization, StepAnswered DEF Tunnels
  <1> QED
    BY <1>1, <1>2, TypedInvariant, PhaseInvariant, DeliveryInvariant, PTL DEF Spec, Tunnels

LEMMA Outcomes ==
  /\ Outcome("pipe") = "open" /\ Outcome("done") = "done"
  /\ \A at \in {"failed", "expired"} : Outcome(at) = "failed"
  /\ \A at \in {"refused", "denied"} : Outcome(at) = "refused"
  /\ \A at \in {"idle", "connect", "open", "status", "none", "handshake", "accept", "reject", "deny",
                 "request", "dial"} : Outcome(at) = "pending"
  BY DEF Outcome

LEMMA GoesReports ==
  ASSUME Typed, NEW t \in Side, NEW at \in Places, Goes(t, at)
  PROVE  /\ Report' = [Report EXCEPT ![t] = Outcome(at)]
         /\ Outcome(at) = Report[t] => Report' = Report
  BY DEF Typed, Goes, Report

LEMMA SameReport == UNCHANGED task => Report' = Report
  BY DEF Report
Same == UNCHANGED <<Permitted, Bytes>>
Stutters == UNCHANGED <<Permitted, Report, Bytes>>

LEMMA HandshakesSame ==
  ASSUME Typed, Phase, Handshakes
  PROVE  Same
  BY HandshakesMove DEF Same, Permitted, Scope, Mine, Bytes

\* A task that goes on makes the one step of the report, or none.
LEMMA TaskSteps ==
  ASSUME Typed, Same, NEW t \in Side, NEW at \in Places, Goes(t, at)
  PROVE  /\ Outcome(at) = Report[t] => Stutters
         /\ \A from : Report[t] \in from => Duplex!Reports(t, from, Outcome(at))
  BY GoesReports DEF Same, Stutters, Duplex!Reports

LEMMA Reported ==
  ASSUME Typed, NEW t \in Side
  PROVE  Report[t] = Outcome(task[t])
  BY DEF Report

\* The handshake's own steps.
LEMMA HandshakesRefine ==
  ASSUME Tunnels, Handshakes
  PROVE  Duplex!Next \/ Stutters
  <1>1. Typed /\ Same /\ "client" \in Side /\ "gateway" \in Side
    BY HandshakesSame DEF Tunnels, Side
  <1>2. /\ Report["client"] = Outcome(task["client"])
        /\ Report["gateway"] = Outcome(task["gateway"])
    BY <1>1, Reported
  <1>3. UNCHANGED task => Stutters
    BY <1>1, SameReport DEF Same, Stutters
  \* A side without a tunnel or with one may fail.
  <1>4. ASSUME NEW t \in Side, Goes(t, "failed"), Report[t] \in {"pending", "open"}
        PROVE  Duplex!Next
    <2>1. Duplex!Reports(t, {"pending", "open"}, "failed")
      BY <1>1, <1>4, TaskSteps, Outcomes DEF Places
    <2> QED
      BY <2>1 DEF Duplex!Next, Duplex!Fail, Duplex!Side, Side
  \* A task that stays in the handshake reports nothing.
  <1>5. ASSUME NEW t \in Side, NEW at \in Places, Goes(t, at), Report[t] = "pending", Outcome(at) = "pending"
        PROVE  Stutters
    BY <1>1, <1>5, TaskSteps
  <1>6. ASSUME NEW at \in {"refused", "denied"}, Goes("gateway", at), Report["gateway"] = "pending"
        PROVE  Duplex!Next
    <2>1. Duplex!Reports("gateway", {"pending"}, "refused")
      BY <1>1, <1>6, TaskSteps, Outcomes DEF Places
    <2> QED
      BY <2>1 DEF Duplex!Next, Duplex!Refuse
  <1>7. CASE Connect \/ Established
    <2>1. \A t \in Side : Outcome(task[t]) = "pending" /\ Outcome(task'[t]) = "pending"
      BY <1>7, Outcomes DEF Connect, Established, Tunnels, Phase, At, Side
    <2>2. Report' = Report
      BY <2>1 DEF Report
    <2> QED
      BY <1>1, <2>2 DEF Same, Stutters
  <1>8. CASE HangUp
    BY <1>2, <1>4, <1>8, <1>1, Outcomes DEF HangUp
  <1>9. CASE OpenStream
    BY <1>1, <1>2, <1>5, <1>9, Outcomes DEF OpenStream, At, Places
  <1>10. CASE RequestArrives
    <2>1. CASE UNCHANGED task
      BY <1>3, <2>1
    <2>2. CASE task["gateway"] \in {"accept", "reject"} /\ \E at \in {"request", "deny"} : Goes("gateway", at)
      BY <1>1, <1>2, <1>5, <2>2, Outcomes DEF Places
    <2>3. CASE Goes("gateway", task["gateway"])
      BY <1>3, <2>3 DEF Goes, Tunnels, Typed
    <2> QED
      BY <1>10, <2>1, <2>2, <2>3 DEF RequestArrives, At
  <1>11. CASE Deny
    BY <1>1, <1>2, <1>6, <1>11, Outcomes DEF Deny, Replies, At
  <1>12. CASE BadRequest
    BY <1>1, <1>2, <1>6, <1>12, Outcomes DEF BadRequest, Replies, At
  <1>13. CASE UnknownService
    BY <1>1, <1>2, <1>6, <1>13, Outcomes DEF UnknownService, Replies, At
  <1>14. CASE Dial
    BY <1>1, <1>2, <1>5, <1>14, Outcomes DEF Dial, At, Places
  <1>15. CASE Unreachable
    BY <1>1, <1>2, <1>6, <1>15, Outcomes DEF Unreachable, Replies, At
  \* What is dialed was in the scope of the client's endpoint.
  <1>16. CASE Dialed
    <2>1. At("gateway", "dial") /\ Goes("gateway", "pipe")
      BY <1>16 DEF Dialed, Replies
    <2>2. Permitted
      BY <2>1 DEF Permitted, Tunnels, Authorization, At
    <2>3. Duplex!Reports("gateway", {"pending"}, "open")
      BY <1>1, <1>2, <2>1, TaskSteps, Outcomes DEF Places, At
    <2> QED
      BY <2>2, <2>3 DEF Duplex!Next, Duplex!Reach
  \* The status that arrives is the gateway's.
  <1>17. CASE StatusArrives
    <2>1. /\ At("client", "status") /\ flight \in Statuses
          /\ Goes("client", IF flight = "Ok" THEN "pipe" ELSE "refused")
      BY <1>17, <1>1 DEF StatusArrives, Typed, StreamTypeOK
    <2>2. Report["client"] = "pending"
      BY <1>2, <2>1, Outcomes DEF At
    <2>3. CASE flight = "Ok"
      <3>1. Permitted /\ task["gateway"] \in {"pipe", "done", "failed"}
        BY <2>3 DEF Tunnels, Answered, Permitted
      <3>2. task["gateway"] # "done"
        BY <2>1, <1>1 DEF Tunnels, Answered, Delivery, Carried, At, In, Out, Side
      <3>3. Report["gateway"] \in {"open", "failed"}
        BY <1>2, <3>1, <3>2, Outcomes
      <3>4. Duplex!Reports("client", {"pending"}, "open")
        BY <1>1, <2>1, <2>2, <2>3, TaskSteps, Outcomes DEF Places
      <3> QED
        BY <3>1, <3>3, <3>4 DEF Duplex!Next, Duplex!Join
    <2>4. CASE flight # "Ok"
      <3>1. Report["gateway"] = "refused"
        BY <1>2, <2>1, <2>4, Outcomes DEF Tunnels, Answered
      <3>2. Duplex!Reports("client", {"pending"}, "refused")
        BY <1>1, <2>1, <2>2, <2>4, TaskSteps, Outcomes DEF Places
      <3> QED
        BY <3>1, <3>2 DEF Duplex!Next, Duplex!Hear
    <2> QED
      BY <2>3, <2>4
  <1>18. CASE ConnectionFails
    BY <1>1, <1>2, <1>4, <1>18, Outcomes DEF ConnectionFails
  <1>19. CASE LoseLink
    <2>1. CASE Ends("gateway")
      BY <1>3, <1>19, <2>1 DEF LoseLink, Tunnels, Typed
    <2>2. CASE ~Ends("gateway")
      <3>1. Goes("gateway", "failed")
        BY <1>19, <2>2 DEF LoseLink, Goes
      <3>2. task["gateway"] \in {"none", "handshake", "accept", "reject", "deny", "request", "dial", "pipe"}
        BY <1>1, <2>2 DEF Ends, Typed, StreamTypeOK
      <3> QED
        BY <1>1, <1>2, <1>4, <3>1, <3>2, Outcomes
    <2> QED
      BY <2>1, <2>2
  <1>20. CASE Stall \/ Tick
    BY <1>3, <1>20 DEF Stall, Tick
  <1>21. CASE Cut
    BY <1>3, <1>19, <1>21 DEF Cut
  <1> QED
    BY <1>7, <1>8, <1>9, <1>10, <1>11, <1>12, <1>13, <1>14, <1>15, <1>16, <1>17, <1>18, <1>19, <1>20,
       <1>21 DEF Handshakes, LinkLost

\* A direction as the applications see it.
LEMMA SeenMoves ==
  ASSUME NEW p, Sound(p)
  PROVE  /\ Seen([p EXCEPT !.wire = @ + 1]) = Seen(p)
         /\ Seen([p EXCEPT !.wireEnd = "fin"]) = Seen(p)
         /\ Seen([p EXCEPT !.src = @ + 1]) = [Seen(p) EXCEPT !.src = @ + 1]
         /\ Seen([p EXCEPT !.dst = @ + 1]) = [Seen(p) EXCEPT !.dst = @ + 1]
         /\ Seen([p EXCEPT !.srcEnd = "fin"]) = [Seen(p) EXCEPT !.srcEnd = "fin"]
         /\ Seen([p EXCEPT !.dstEnd = "fin"]) = [Seen(p) EXCEPT !.dstEnd = "fin"]
  BY DEF Sound, Direction, Seen

LEMMA MovesSeen ==
  ASSUME PipeOK, NEW d \in {"up", "down"}, NEW r, Moves(d, r)
  PROVE  Bytes' = [Bytes EXCEPT ![d] = Seen(r)]
  BY DEF PipeOK, Moves, Bytes

LEMMA DropsSeen ==
  ASSUME PipeOK, NEW t \in Side, NEW end, Drops(t, end)
  PROVE  Bytes' = Bytes
  BY DEF PipeOK, Drops, Bytes, Seen, Direction, Out
LEMMA ChangesSeen ==
  ASSUME PipeOK, NEW t \in Side, Report[t] = "open", Report' = Report, UNCHANGED Permitted,
         NEW d \in {"up", "down"}, NEW r, Moves(d, r)
  PROVE  /\ Duplex!Changes(t, d, Seen(r))
         /\ Seen(r) = Seen(pipe[d]) => Stutters
  <1>1. Bytes' = [Bytes EXCEPT ![d] = Seen(r)]
    BY MovesSeen
  <1>2. Seen(r) = Seen(pipe[d]) => Bytes' = Bytes
    BY <1>1 DEF Bytes
  <1> QED
    BY <1>1, <1>2 DEF Duplex!Changes, Stutters

\* The steps of a copying end, and of its application.
LEMMA CopiesRefine ==
  ASSUME Tunnels, NEW t \in Side, Copies(t)
  PROVE  Duplex!Next \/ Stutters
  <1> DEFINE o == pipe[Out(t)]
             i == pipe[In(t)]
  <1>1. /\ PipeOK /\ Typed /\ t \in Duplex!Side
        /\ Out(t) \in {"up", "down"} /\ In(t) \in {"up", "down"}
        /\ Sound(o) /\ Sound(i)
    BY PipeTyped DEF Out, In, PipeOK, Tunnels, Duplex!Side, Side
  <1>2. At(t, "pipe") /\ UNCHANGED Permitted
    BY DEF Copies, Send, Receive, SendEnd, ReceiveEnd, Finish, Fails, Writes, Close, Copying, Rest,
       Permitted, Scope, Mine
  <1>3. Report[t] = "open"
    BY <1>1, <1>2, Reported, Outcomes DEF At
  <1>4. Duplex!Out(t) = Out(t) /\ Duplex!In(t) = In(t) /\ Duplex!Other(t) = Other(t)
    BY DEF Duplex!Out, Duplex!In, Duplex!Other, Out, In, Other
  <1>5. Bytes[Out(t)] = Seen(o) /\ Bytes[In(t)] = Seen(i)
    BY <1>1 DEF Bytes
  <1>6. ASSUME NEW d \in {"up", "down"}, NEW r, Moves(d, r), UNCHANGED task
        PROVE  /\ Duplex!Changes(t, d, Seen(r))
               /\ Seen(r) = Seen(pipe[d]) => Stutters
    BY <1>1, <1>2, <1>3, <1>6, SameReport, ChangesSeen
  <1>7. /\ Seen(o).src = o.src /\ Seen(o).srcEnd = o.srcEnd
        /\ Seen(i).src = i.src /\ Seen(i).srcEnd = i.srcEnd
        /\ Seen(i).dst = i.dst /\ Seen(i).dstEnd = i.dstEnd
    BY DEF Seen
  <1>8. /\ Failed(Source(Out(t))) \/ Kept(o)
        /\ Failed(Source(In(t))) \/ Kept(i)
        /\ Carried(i) /\ Source(Out(t)) = t /\ Source(In(t)) = Other(t)
    BY <1>1 DEF Tunnels, Delivery, Source, Out, In, Other, Side
  <1> HIDE DEF o, i
  <1>9. CASE Send(t)
    <2> DEFINE r == [o EXCEPT !.wire = @ + 1]
    <2>1. Moves(Out(t), r) /\ UNCHANGED task
      BY <1>9 DEF Send, o
    <2>2. Seen(r) = Seen(pipe[Out(t)])
      BY <1>1, SeenMoves DEF o
    <2> HIDE DEF r
    <2> QED
      BY <1>1, <1>6, <2>1, <2>2
  <1>10. CASE Receive(t)
    <2> DEFINE r == [i EXCEPT !.dst = @ + 1]
    <2>1. /\ Moves(In(t), r) /\ UNCHANGED task
          /\ i.dst < i.wire
      BY <1>10 DEF Receive, i
    <2>2. i.dst < i.src /\ i.dstEnd = "open"
      BY <1>1, <1>8, <2>1 DEF Sound, Direction, Closing, Carried
    <2>3. Duplex!Changes(t, In(t), [Seen(i) EXCEPT !.dst = @ + 1])
      <3>1. Seen(r) = [Seen(i) EXCEPT !.dst = @ + 1]
        BY <1>1, SeenMoves
      <3> HIDE DEF r
      <3>2. Duplex!Changes(t, In(t), Seen(r))
        BY <1>1, <1>6, <2>1
      <3> QED
        BY <3>1, <3>2
    <2>4. Duplex!Deliver(t)
      BY <1>4, <1>5, <1>7, <2>2, <2>3 DEF Duplex!Deliver
    <2> QED
      BY <1>1, <2>4 DEF Duplex!Next
  <1>11. CASE SendEnd(t)
    <2> DEFINE r == [o EXCEPT !.wireEnd = "fin"]
    <2>1. Moves(Out(t), r) /\ UNCHANGED task
      BY <1>11 DEF SendEnd, o
    <2>2. Seen(r) = Seen(pipe[Out(t)])
      BY <1>1, SeenMoves DEF o
    <2> HIDE DEF r
    <2> QED
      BY <1>1, <1>6, <2>1, <2>2
  \* The end comes after the last byte, or from a side that has failed.
  <1>12. CASE ReceiveEnd(t)
    <2> DEFINE r == [i EXCEPT !.dstEnd = "fin"]
    <2>1. /\ Moves(In(t), r) /\ UNCHANGED task
          /\ i.wireEnd = "fin" /\ i.dst = i.wire /\ i.dstEnd = "open"
      BY <1>12 DEF ReceiveEnd, i
    <2>2. Kept(i) => i.srcEnd = "fin" /\ i.dst = i.src
      BY <2>1 DEF Kept
    <2>3. Failed(Other(t)) => Report[Other(t)] = "failed"
      <3>1. Other(t) \in Side
        BY DEF Other, Side
      <3> QED
        BY <1>1, <3>1, Reported, Outcomes DEF Failed
    <2>4. (i.srcEnd = "fin" /\ i.dst = i.src) \/ Report[Other(t)] = "failed"
      BY <1>8, <2>2, <2>3
    <2>5. Duplex!Changes(t, In(t), [Seen(i) EXCEPT !.dstEnd = "fin"])
      <3>1. Seen(r) = [Seen(i) EXCEPT !.dstEnd = "fin"]
        BY <1>1, SeenMoves
      <3> HIDE DEF r
      <3>2. Duplex!Changes(t, In(t), Seen(r))
        BY <1>1, <1>6, <2>1
      <3> QED
        BY <3>1, <3>2
    <2>6. Duplex!DeliverEnd(t)
      BY <1>4, <1>5, <1>7, <2>1, <2>4, <2>5 DEF Duplex!DeliverEnd
    <2> QED
      BY <1>1, <2>6 DEF Duplex!Next
  \* Who has finished copying has finished all of its own direction.
  <1>13. CASE Finish(t)
    <2>1. /\ o.wireEnd = "fin" /\ i.dstEnd = "fin" /\ Goes(t, "done")
          /\ UNCHANGED <<pipe, allow, ask>>
      BY <1>13 DEF Finish, Both, Rest, o, i
    <2>2. o.srcEnd = "fin"
      BY <1>2, <1>8, <2>1 DEF Failed, At, Kept
    <2>3. Same
      BY <1>2, <2>1 DEF Same, Bytes
    <2>4. Duplex!Reports(t, {"open"}, "done")
      BY <1>1, <1>3, <2>1, <2>3, TaskSteps, Outcomes DEF Places
    <2>5. Duplex!Finish(t)
      BY <1>4, <1>5, <1>7, <2>1, <2>2, <2>4 DEF Duplex!Finish
    <2> QED
      BY <1>1, <2>5 DEF Duplex!Next
  <1>14. CASE Fails(t)
    <2>1. Same
      BY <1>1, <1>2, <1>14, DropsSeen DEF Fails, Same
    <2>2. Duplex!Reports(t, {"pending", "open"}, "failed")
      BY <1>1, <1>3, <1>14, <2>1, TaskSteps, Outcomes DEF Fails, Places
    <2> QED
      BY <1>1, <2>2 DEF Duplex!Next, Duplex!Fail
  <1>15. CASE Writes(t)
    <2> DEFINE r == [o EXCEPT !.src = @ + 1]
    <2>1. /\ Moves(Out(t), r) /\ UNCHANGED task
          /\ o.srcEnd = "open"
      BY <1>15 DEF Writes, o
    <2>2. Duplex!Changes(t, Out(t), [Seen(o) EXCEPT !.src = @ + 1])
      <3>1. Seen(r) = [Seen(o) EXCEPT !.src = @ + 1]
        BY <1>1, SeenMoves
      <3> HIDE DEF r
      <3>2. Duplex!Changes(t, Out(t), Seen(r))
        BY <1>1, <1>6, <2>1
      <3> QED
        BY <3>1, <3>2
    <2>3. Duplex!Write(t)
      BY <1>4, <1>5, <1>7, <2>1, <2>2 DEF Duplex!Write
    <2> QED
      BY <1>1, <2>3 DEF Duplex!Next
  <1>16. CASE Close(t)
    <2> DEFINE r == [o EXCEPT !.srcEnd = "fin"]
    <2>1. /\ Moves(Out(t), r) /\ UNCHANGED task
          /\ o.srcEnd = "open"
      BY <1>16 DEF Close, o
    <2>2. Duplex!Changes(t, Out(t), [Seen(o) EXCEPT !.srcEnd = "fin"])
      <3>1. Seen(r) = [Seen(o) EXCEPT !.srcEnd = "fin"]
        BY <1>1, SeenMoves
      <3> HIDE DEF r
      <3>2. Duplex!Changes(t, Out(t), Seen(r))
        BY <1>1, <1>6, <2>1
      <3> QED
        BY <3>1, <3>2
    <2>3. Duplex!CloseWrite(t)
      BY <1>4, <1>5, <1>7, <2>1, <2>2 DEF Duplex!CloseWrite
    <2> QED
      BY <1>1, <2>3 DEF Duplex!Next
  <1> QED
    BY <1>9, <1>10, <1>11, <1>12, <1>13, <1>14, <1>15, <1>16 DEF Copies

LEMMA NextTunnelRefines ==
  ASSUME Tunnels, NextTunnel
  PROVE  Duplex!Next
  <1>1. \A t \in Side : Report[t] \in {"done", "failed", "refused"}
    <2>1. \A t \in Side : Report[t] = Outcome(task[t])
      BY DEF Report
    <2> QED
      BY <2>1, Outcomes DEF NextTunnel, Ends, Side
  <1>2. \A t \in Side : task'[t] \in {"idle", "open", "none", "accept"}
    BY DEF NextTunnel, Side
  <1>3. Report' = [t \in Duplex!Side |-> "pending"]
    BY <1>2, Outcomes DEF Report, Duplex!Side, Side
  <1>4. Bytes' = [d \in {"up", "down"} |-> Duplex!Empty]
    BY DEF NextTunnel, Bytes, Seen, Silent, Duplex!Empty
  <1>5. Permitted' \in BOOLEAN
    BY DEF Permitted
  <1> QED
    BY <1>1, <1>3, <1>4, <1>5 DEF Duplex!Next, Duplex!Again, Duplex!New, Duplex!Side, Side

LEMMA TunnelStep ==
  ASSUME Tunnels, [Next]_vars
  PROVE  Duplex!Next \/ Stutters
  <1>1. CASE UNCHANGED streamVars
    BY <1>1, SameReport DEF streamVars, Stutters, Permitted, Scope, Mine, Bytes
  <1>2. CASE StatusExpires
    <2>1. /\ PipeOK /\ Typed /\ "client" \in Side /\ task["client"] = "status"
          /\ Goes("client", "expired") /\ UNCHANGED <<allow, ask>>
      BY <1>2, PipeTyped DEF StatusExpires, Tunnels, Side, At
    <2>2. Same
      BY <1>2, <2>1, DropsSeen DEF StatusExpires, Same, Permitted, Scope, Mine
    <2>3. Report["client"] = "pending"
      BY <2>1, Reported, Outcomes
    <2>4. Duplex!Reports("client", {"pending", "open"}, "failed")
      BY <2>1, <2>2, <2>3, TaskSteps, Outcomes DEF Places
    <2> QED
      BY <2>4 DEF Duplex!Next, Duplex!Fail, Duplex!Side
  <1> QED
    BY <1>1, <1>2, StreamSteps, HandshakesRefine, CopiesRefine, NextTunnelRefines

\* Whatever the processes, the connection, the handshake and the copying do (gateway.rs:
\* run and handle_connection, lib.rs: serve_stream, drive_client and StreamPair), what the
\* applications see is a DuplexTunnel, for any rules, deadlines and number of bytes.
THEOREM TunnelsAreDuplex == Spec => ImplementsDuplex
  <1>1. Init => Duplex!Init
    <2> SUFFICES ASSUME Init PROVE Duplex!Init
      OBVIOUS
    <2>1. Report = [t \in Duplex!Side |-> "pending"]
      BY Outcomes DEF Init, StreamInit, Report, Duplex!Side, Side
    <2>2. Bytes = [d \in {"up", "down"} |-> Duplex!Empty]
      BY DEF Init, StreamInit, Bytes, Seen, Silent, Duplex!Empty
    <2>3. Permitted \in BOOLEAN
      BY DEF Permitted
    <2> QED
      BY <2>1, <2>2, <2>3 DEF Duplex!Init, Duplex!New
  <1>2. Tunnels /\ [Next]_vars => [Duplex!Next]_<<Permitted, Report, Bytes>>
    BY TunnelStep DEF Stutters
  <1> QED
    BY <1>1, <1>2, TunnelsInvariant, PTL DEF Spec, ImplementsDuplex, Duplex!Spec
=============================================================================
