---------------------------- MODULE DuplexTunnel ----------------------------
(***************************************************************************)
(* What a tunnel promises the applications at its two ends, without        *)
(* connections, messages, deadlines or buffers: it reaches an upstream only*)
(* where that is permitted, what an end is told is true, bytes arrive in   *)
(* both directions once, each direction ends for itself, and an end that   *)
(* arrives is the end of all that was written, unless its writer failed.   *)
(***************************************************************************)
EXTENDS Naturals

VARIABLES
  permitted,  \* the rules give this client the service it asks for
  report,     \* per side, what its tunnel is and how it ended
  bytes       \* per direction, the bytes and the end, written and delivered

Side == {"client", "gateway"}
Out(t) == IF t = "client" THEN "up" ELSE "down"
In(t) == IF t = "client" THEN "down" ELSE "up"
Other(t) == IF t = "client" THEN "gateway" ELSE "client"
Empty == [src |-> 0, srcEnd |-> "open", dst |-> 0, dstEnd |-> "open"]

New ==
  /\ report = [t \in Side |-> "pending"]
  /\ bytes = [d \in {"up", "down"} |-> Empty]

Init == permitted \in BOOLEAN /\ New

Reports(t, from, to) ==
  /\ report[t] \in from /\ report' = [report EXCEPT ![t] = to]
  /\ UNCHANGED <<permitted, bytes>>

\* The gateway has the upstream, and then the client its tunnel.
Reach == permitted /\ Reports("gateway", {"pending"}, "open")
Join == permitted /\ report["gateway"] \in {"open", "failed"} /\ Reports("client", {"pending"}, "open")

\* The gateway says no, and then the client is told so.
Refuse == Reports("gateway", {"pending"}, "refused")
Hear == report["gateway"] = "refused" /\ Reports("client", {"pending"}, "refused")

Fail(t) == Reports(t, {"pending", "open"}, "failed")

Changes(t, d, record) ==
  /\ report[t] = "open"
  /\ bytes' = [bytes EXCEPT ![d] = record]
  /\ UNCHANGED <<permitted, report>>

Write(t) ==
  LET p == bytes[Out(t)]
  IN  p.srcEnd = "open" /\ Changes(t, Out(t), [p EXCEPT !.src = @ + 1])

CloseWrite(t) ==
  LET p == bytes[Out(t)]
  IN  p.srcEnd = "open" /\ Changes(t, Out(t), [p EXCEPT !.srcEnd = "fin"])

Deliver(t) ==
  LET p == bytes[In(t)]
  IN  p.dst < p.src /\ p.dstEnd = "open" /\ Changes(t, In(t), [p EXCEPT !.dst = @ + 1])

DeliverEnd(t) ==
  LET p == bytes[In(t)]
  IN  /\ p.dstEnd = "open"
      /\ (p.srcEnd = "fin" /\ p.dst = p.src) \/ report[Other(t)] = "failed"
      /\ Changes(t, In(t), [p EXCEPT !.dstEnd = "fin"])

\* Both directions are over, as far as this side is concerned.
Finish(t) ==
  /\ bytes[Out(t)].srcEnd = "fin" /\ bytes[In(t)].dstEnd = "fin"
  /\ Reports(t, {"open"}, "done")

Again ==
  /\ \A t \in Side : report[t] \notin {"pending", "open"}
  /\ permitted' \in BOOLEAN /\ New'

Next ==
  \/ Reach \/ Join \/ Refuse \/ Hear \/ Again
  \/ \E t \in Side : Fail(t) \/ Write(t) \/ CloseWrite(t) \/ Deliver(t) \/ DeliverEnd(t) \/ Finish(t)

Spec == Init /\ [][Next]_<<permitted, report, bytes>>
=============================================================================
