------------------------------ MODULE StunProbe ------------------------------
(***************************************************************************)
(* The discovery of an endpoint's own address from its own UDP socket: a   *)
(* STUN probe with retransmissions over the addresses of one server        *)
(* (crates/cloudflare-stun: discover_server, discover, run_probe), or one  *)
(* HTTP/3 request per address (crates/cloudflare-h3-observer:              *)
(* observe_on_endpoint).  What a datagram or response carries is reduced   *)
(* to what the code does with it.  Time passes in ticks (ProbeTick).       *)
(***************************************************************************)
EXTENDS Naturals, Sequences

CONSTANTS
  Addresses,    \* addresses the server's name resolves to
  Attempts, Window, Backoff,   \* ProbeConfig, and the step of the linear backoff
  H3Timeout,
  Capacity,     \* datagrams the tap keeps for a subscriber (64)
  MaxForeign,   \* bound: datagrams of other traffic per probe
  MaxRebinds    \* bound: rebindings of the socket

ASSUME ProbeAssumption ==
  /\ {Addresses, Attempts, Window, H3Timeout, Capacity} \subseteq Nat \ {0}
  /\ {Backoff, MaxForeign, MaxRebinds} \subseteq Nat

VARIABLES
  probe,     \* the discovery: where it is, its address, attempts and result
  wait,      \* ticks until its deadline or its next attempt
  elapsed,   \* ticks since the first send
  air,       \* responses on their way
  inbox,     \* datagrams the tap has copied and the probe has not read
  heard,     \* for the properties: an answer has reached the socket in time
  foreign,   \* datagrams of other traffic so far
  binding    \* the local address of the socket; each rebinding takes a new one

probeVars == <<probe, wait, elapsed, air, inbox, heard, foreign, binding>>

Unsent == [i \in 1..Attempts |-> 0]
Idle == [at |-> "idle", address |-> 0, n |-> 0, sent |-> Unsent, bound |-> 0,
         rtt |-> 0, took |-> 0, seen |-> 0]

ProbeInit ==
  /\ probe = Idle /\ wait = 0 /\ elapsed = 0
  /\ air = {} /\ inbox = <<>> /\ heard = FALSE /\ foreign = 0 /\ binding = 0

\* The result is taken; the next discovery is that of the other peer, on its own socket.
ProbeTaken ==
  /\ probe' = Idle /\ wait' = 0 /\ elapsed' = 0
  /\ air' = {} /\ inbox' = <<>> /\ heard' = FALSE /\ foreign' = 0 /\ binding' = 0

In(at) == probe.at = at
Probing == probe.at \in {"pause", "listen", "h3"}
Still == UNCHANGED <<wait, elapsed, air, heard, foreign, binding>>

\* A new transaction and subscription; the responses to earlier ones are other traffic now.
Probes(address, at) ==
  /\ probe' = [Idle EXCEPT !.at = at, !.address = address, !.bound = binding]
  /\ elapsed' = 0 /\ air' = {} /\ inbox' = <<>> /\ heard' = FALSE /\ foreign' = 0
  /\ UNCHANGED binding

BeginStun == In("idle") /\ Probes(1, "pause") /\ wait' = 0
BeginH3 == In("idle") /\ Probes(1, "h3") /\ wait' = H3Timeout

Fail(why) == probe' = [probe EXCEPT !.at = why]
Final == {"timeout", "portless"}
Failures == Final \cup {"silent", "rejected", "unusable", "rebound", "lagged", "unsent"}

\* discover_server: whatever one address ends with, the next one is tried.
NextAddress ==
  /\ probe.at \in Failures \ Final /\ probe.address < Addresses
  /\ Probes(probe.address + 1, "pause") /\ wait' = 0

Exhausted == probe.at \in Final \/ (probe.at \in Failures /\ probe.address = Addresses)

-----------------------------------------------------------------------------
(* run_probe *)

\* Slip: every attempt subscribes afresh.
Queued_Attempt == <<>>

\* What has arrived stays queued while the probe pauses.
Queued == inbox

\* The server answers, refuses, reports an address that cannot be used, or the datagram is
\* lost either way.
SendRequest ==
  /\ In("pause") /\ wait = 0
  /\ probe' = [probe EXCEPT !.at = "listen", !.n = @ + 1, !.sent[probe.n + 1] = elapsed]
  /\ wait' = Window
  /\ \E reply \in {{}, {"answer"}, {"error"}, {"unusable"}} :
       air' = air \cup [kind : reply, of : {probe.n + 1}, bound : {binding}]
  /\ inbox' = Queued
  /\ UNCHANGED <<elapsed, heard, foreign, binding>>

\* No socket of the family, or sending fails or times out.
SendFails ==
  /\ In("pause") /\ wait = 0
  /\ Fail("unsent")
  /\ UNCHANGED inbox /\ Still

\* The first datagram the probe has not read; the tap has dropped none.
Reading(kind) ==
  /\ In("listen") /\ inbox # <<>> /\ Len(inbox) <= Capacity
  /\ Head(inbox).kind = kind
  /\ inbox' = Tail(inbox)
  /\ Still

Skip == Reading("foreign") /\ UNCHANGED probe

\* Slip: the origin is the send of the current attempt.
Origin_Attempt == probe.sent[probe.n]

\* first_sent
Origin == 0

\* Slip: the binding is not looked at again.
SameSocket_Once == TRUE

SameSocket == binding = probe.bound

Answered ==
  /\ Reading("answer")
  /\ probe' = IF SameSocket
              THEN [probe EXCEPT !.at = "found", !.rtt = elapsed - Origin,
                                 !.took = Head(inbox).took, !.seen = Head(inbox).bound]
              ELSE [probe EXCEPT !.at = "rebound"]

Unusable == Reading("unusable") /\ Fail(IF SameSocket THEN "unusable" ELSE "rebound")
Rejected == Reading("error") /\ Fail("rejected")

Lagged ==
  /\ In("listen") /\ Len(inbox) > Capacity
  /\ Fail("lagged")
  /\ UNCHANGED inbox /\ Still

Again == probe.n < Attempts

\* The remaining time is looked at before the next datagram is.
WindowCloses ==
  /\ In("listen") /\ wait = 0
  /\ IF Again
     THEN probe' = [probe EXCEPT !.at = "pause"] /\ wait' = Backoff * probe.n
     ELSE Fail("silent") /\ UNCHANGED wait
  /\ UNCHANGED <<elapsed, air, inbox, heard, foreign, binding>>

-----------------------------------------------------------------------------
(* observe_on_endpoint: one deadline for all addresses *)

\* What of a response observe_connection checks, and what it says of the port: a header that
\* is absent or empty, not one that is malformed, counts as not reported.
Checked == {"status", "is_tcp", "http_version", "ip", "rtt", "body"}
Response == [malformed : SUBSET Checked, port : {"reported", "none", "malformed"}]
Observes(r) == r.malformed = {} /\ r.port # "malformed"

\* Whatever one address ends with, the next one of the name is tried; but an observation
\* without a port is an answer, which then fails the caller.
H3Ends(why) ==
  /\ probe' = IF probe.address < Addresses THEN [probe EXCEPT !.address = @ + 1, !.bound = binding]
              ELSE [probe EXCEPT !.at = why]
  /\ UNCHANGED inbox /\ Still

H3Responds ==
  /\ In("h3")
  /\ \E r \in Response :
       IF ~Observes(r) THEN H3Ends("unusable")
       ELSE IF ~SameSocket THEN H3Ends("rebound")
       ELSE /\ probe' = [probe EXCEPT !.at = IF r.port = "reported" THEN "found" ELSE "portless",
                                      !.seen = probe.bound]
            /\ UNCHANGED inbox /\ Still

\* No connection, or it is lost.
H3Fails == In("h3") /\ H3Ends("unusable")

H3Expires ==
  /\ In("h3") /\ wait = 0
  /\ Fail("timeout")
  /\ UNCHANGED inbox /\ Still

-----------------------------------------------------------------------------
(* The network and the socket *)

Copies(d) == Len(inbox) <= Capacity /\ inbox' = Append(inbox, d)

\* An answer counts as in time unless it arrives just as the last window closes.
Arrive ==
  /\ probe.at \in {"pause", "listen"}
  /\ \E d \in air :
       /\ air' = air \ {d}
       /\ Copies([kind |-> d.kind, bound |-> d.bound, took |-> elapsed - probe.sent[d.of]])
       /\ heard' = (heard \/ (d.kind = "answer" /\ ~(In("listen") /\ wait = 0)))
  /\ UNCHANGED <<probe, wait, elapsed, foreign, binding>>

Foreign ==
  /\ probe.at \in {"pause", "listen"} /\ foreign < MaxForeign
  /\ foreign' = foreign + 1
  /\ Copies([kind |-> "foreign", bound |-> 0, took |-> 0])
  /\ UNCHANGED <<probe, wait, elapsed, air, heard, binding>>

Rebind ==
  /\ Probing /\ binding < MaxRebinds
  /\ binding' = binding + 1
  /\ UNCHANGED <<probe, wait, elapsed, air, inbox, heard, foreign>>

\* What the discovery does at once.
ProbeDue == (Probing /\ wait = 0) \/ (In("listen") /\ inbox # <<>>)

ProbeTick ==
  IF Probing THEN wait' = wait - 1 /\ elapsed' = elapsed + 1 /\ UNCHANGED <<probe, air, inbox, heard, foreign, binding>>
  ELSE UNCHANGED probeVars

Discovers ==
  \/ NextAddress \/ SendRequest \/ Skip \/ Answered \/ Unusable \/ Rejected \/ Lagged \/ WindowCloses
  \/ H3Expires

ProbeEnvironment == SendFails \/ H3Responds \/ H3Fails \/ Arrive \/ Foreign \/ Rebind

-----------------------------------------------------------------------------
\* "measuring from the latest retransmission could report near-zero RTTs exactly on the
\* lossy networks where retries happen" (probe.rs:222-226): whichever attempt an answer
\* belongs to, the RTT reported covers its flight.
RttCovers == In("found") => probe.rtt >= probe.took

\* A probe that ends in silence has not been answered in time: not to an earlier attempt,
\* not while it paused between two, and not behind other traffic (probe.rs:64-66).
AnswersHeard == In("silent") => ~heard

\* "socket rebound during probe" (probe.rs:269): an address is reported only if it was seen
\* on the binding the socket has when the answer is read.
SeenOnBinding == In("found") => probe.seen = binding
=============================================================================
