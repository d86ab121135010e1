------------------------------- MODULE NatPeer -------------------------------
(***************************************************************************)
(* The direct-only experiment of two peers behind NATs                     *)
(* (crates/cloudflare-h3-observer/src/bin/nat-peer.rs): each discovers its *)
(* address, writes it to a file that somebody copies to the other, and     *)
(* waits for the other's; the dialer then connects while the listener      *)
(* pokes its own NAT open, and the payload is echoed as long as no path    *)
(* but the observed one shows.  The operator starts the second peer when   *)
(* the first is not discovering.  What the probes read in the responses is *)
(* the codec's matter and does not depend on the peers.                    *)
(***************************************************************************)
EXTENDS StunProbe, StunCodec

CONSTANTS
  SetupTimeout, ConnectTimeout, EchoTimeout, MaxAge,
  Delay,          \* ticks in which packets cross, where the NATs let them
  MaxStrays       \* bound: other paths that come up

ASSUME PeerAssumption ==
  /\ {SetupTimeout, ConnectTimeout, EchoTimeout, Delay} \subseteq Nat \ {0}
  /\ {MaxAge, MaxStrays} \subseteq Nat

Role == {"dial", "listen"}
Other(p) == IF p = "dial" THEN "listen" ELSE "dial"

VARIABLES
  method,    \* --method of both peers
  at,        \* per peer: where its run is, or what it ended with
  left,      \* per peer: ticks until its deadline
  age,       \* per peer: ticks since its observation
  file,      \* per peer: the peer file it is given
  opened,    \* per peer: its NAT lets the other's packets in
  reachable, \* the NATs keep the mappings that were observed
  together,  \* ticks both have been connecting, for the properties
  conn,      \* the dialer's connection to the listener
  echo,      \* how far the payload has come
  stray,     \* per peer: another path of its connection, and the watch for it
  strays

peerVars == <<method, at, left, age, file, opened, reachable, together, conn, echo, stray, strays>>
vars == <<probeVars, peerVars>>

\* The path is listed, an event of it is still to be sent; how often the list was looked
\* at, the events are subscribed to, one is unread; a path was not noticed in time, for the
\* properties.
NoStray == [up |-> FALSE, untold |-> FALSE, looks |-> 0, events |-> FALSE, unread |-> FALSE,
            passed |-> FALSE]

Init ==
  /\ ProbeInit /\ method \in {"stun", "h3"}
  /\ at = [p \in Role |-> "off"] /\ left = [p \in Role |-> 0] /\ age = [p \in Role |-> 0]
  /\ file = [p \in Role |-> "none"]
  /\ opened = [p \in Role |-> FALSE] /\ reachable \in BOOLEAN /\ together = 0
  /\ conn = "none" /\ echo = "none"
  /\ stray = [p \in Role |-> NoStray] /\ strays = 0

Ended(p) == at[p] \in {"done", "failed", "lost"}
Echoing(p) == at[p] \in {"echo", "polled"}
Goes(p, where, ticks) == at' = [at EXCEPT ![p] = where] /\ left' = [left EXCEPT ![p] = ticks]
Quits(p, why) == Goes(p, why, 0)
Paths == UNCHANGED <<stray, strays>>
Setup == UNCHANGED <<method, age, file, opened, reachable, together>>

-----------------------------------------------------------------------------
(* run_endpoint: discover, wait_peer, validate_peer *)

Start(p) ==
  /\ at[p] = "off" /\ In("idle")
  /\ Goes(p, "discover", 0)
  /\ IF method = "stun" THEN BeginStun ELSE BeginH3
  /\ UNCHANGED <<method, age, file, opened, reachable, together, conn, echo, stray, strays>>

\* The candidate file is written whole, by a rename.
Observed(p) ==
  /\ at[p] = "discover" /\ In("found")
  /\ Goes(p, "wait", SetupTimeout)
  /\ ProbeTaken
  /\ UNCHANGED <<method, age, file, opened, reachable, together, conn, echo, stray, strays>>

DiscoveryFails(p) ==
  /\ at[p] = "discover" /\ Exhausted
  /\ Quits(p, "failed")
  /\ ProbeTaken
  /\ UNCHANGED <<method, age, file, opened, reachable, together, conn, echo, stray, strays>>

\* Somebody copies the other's candidate, or one that is not of this experiment; a copy
\* made earlier is as one made now.
Copy(p) ==
  /\ at[p] = "wait" /\ file[p] = "none"
  /\ \E candidate \in {"peer", "unrelated"} :
       /\ candidate = "peer" => at[Other(p)] \notin {"off", "discover"}
       /\ file' = [file EXCEPT ![p] = candidate]
  /\ UNCHANGED <<probeVars, method, at, left, age, opened, reachable, together, conn, echo, stray, strays>>

\* Slip: the age is looked at when the candidate is written.
Fresh_Early(p) == TRUE

Fresh(p) == age[p] <= MaxAge

\* Slip: the listener only accepts.
Pokes_Dialer(p) == p = "dial"

\* connect_peer: the dial of the dialer, the auxiliary one of the listener.
Pokes(p) == TRUE

ReadPeer(p) ==
  /\ at[p] = "wait" /\ file[p] # "none"
  /\ IF Fresh(p) /\ file[p] = "peer"
     THEN Goes(p, "connect", ConnectTimeout) /\ opened' = [opened EXCEPT ![p] = Pokes(p)]
     ELSE Quits(p, "failed") /\ UNCHANGED opened
  /\ UNCHANGED <<probeVars, method, age, file, reachable, together, conn, echo, stray, strays>>

\* Slip: nothing bounds the wait for the peer's file.
Bounded_Later(p) == at[p] = "connect" \/ Echoing(p)

Bounded(p) == at[p] \in {"wait", "connect"} \/ Echoing(p)

\* run closes the endpoint.
Closes == conn' = IF conn = "up" THEN "closed" ELSE conn

Expires(p) ==
  /\ Bounded(p) /\ left[p] = 0
  /\ Quits(p, "failed")
  /\ Closes
  /\ UNCHANGED <<probeVars, echo, stray, strays>> /\ Setup

-----------------------------------------------------------------------------
(* connect_peer, echo_on_observed_path *)

Crosses == reachable /\ opened["dial"] /\ opened["listen"]
Meets == at["dial"] = "connect" /\ at["listen"] = "connect" /\ conn = "none" /\ Crosses

\* The handshake is over for the dialer.
Dialed ==
  /\ Meets
  /\ Goes("dial", "check", 0) /\ conn' = "up"
  /\ UNCHANGED <<probeVars, echo>> /\ Paths /\ Setup

\* It is for the listener, or fails if the dialer has closed the connection already.
Accepted ==
  /\ at["listen"] = "connect" /\ conn # "none"
  /\ \/ Goes("listen", "check", 0)
     \/ conn = "closed" /\ Quits("listen", "failed")
  /\ UNCHANGED <<probeVars, conn, echo>> /\ Paths /\ Setup

\* For the properties: another path is listed and announced, at the second look or later.
Noted(w) == [w EXCEPT !.passed = @ \/ (w.looks = 2 /\ w.up /\ ~w.untold)]

\* The paths are looked at twice and their events subscribed to; then the echo begins.
Watches(p, w) ==
  /\ stray' = [stray EXCEPT ![p] = Noted(w)]
  /\ IF w.looks = 2 /\ w.events THEN Goes(p, "echo", EchoTimeout) ELSE UNCHANGED <<at, left>>

\* Slip: the last look comes before the subscription.
LooksBefore_All == 2

\* The looks before the subscription.
LooksBefore == 1

Subscribes(p) ==
  /\ at[p] = "check" /\ stray[p].looks = LooksBefore /\ ~stray[p].events
  /\ Watches(p, [stray[p] EXCEPT !.events = TRUE])
  /\ UNCHANGED <<probeVars, conn, echo, strays>> /\ Setup

\* check_direct: no other path is listed; whether the observed one is selected is up to iroh.
Checks(p) ==
  /\ at[p] = "check" /\ (stray[p].looks = LooksBefore => stray[p].events)
  /\ \/ /\ ~stray[p].up
        /\ Watches(p, [stray[p] EXCEPT !.looks = @ + 1])
        /\ UNCHANGED conn
     \/ Quits(p, "failed") /\ Closes /\ UNCHANGED stray
  /\ UNCHANGED <<probeVars, echo, strays>> /\ Setup

\* Slip: the transfer is polled before the events.
Quiet_Unbiased(p) == TRUE

\* The select is biased: the transfer is polled when no event is left.
Quiet(p) == ~stray[p].unread

Sends ==
  /\ at["dial"] = "echo" /\ Quiet("dial") /\ echo = "none" /\ conn = "up"
  /\ echo' = "request"
  /\ UNCHANGED <<probeVars, at, left, conn>> /\ Paths /\ Setup

Echoes ==
  /\ at["listen"] = "echo" /\ Quiet("listen") /\ echo = "request" /\ conn = "up"
  /\ echo' = "reply"
  /\ UNCHANGED <<probeVars, at, left, conn>> /\ Paths /\ Setup

\* The dialer's QUIC has the whole reply, whether or not it has been read.
Acknowledged ==
  /\ echo = "reply" /\ conn = "up"
  /\ echo' = "acked"
  /\ UNCHANGED <<probeVars, at, left, conn>> /\ Paths /\ Setup

\* Slip: the listener does not wait for its reply to be acknowledged.
Transferred_Sent(p) == echo = "acked" \/ (p = "listen" /\ echo = "reply")

\* read_to_end of the dialer, stopped of the listener.
Transferred(p) == echo = "acked"

EventSeen(p) ==
  /\ at[p] = "echo" /\ ~Quiet(p)
  /\ Quits(p, "failed") /\ Closes
  /\ UNCHANGED <<probeVars, echo>> /\ Paths /\ Setup

\* The poll that finds the transfer complete, from the look at the events on.
Poll(p) ==
  /\ at[p] = "echo" /\ Quiet(p) /\ Transferred(p)
  /\ at' = [at EXCEPT ![p] = "polled"]
  /\ UNCHANGED <<probeVars, left, conn, echo>> /\ Paths /\ Setup

\* The paths that are left are checked once more; the endpoint is closed.
Completes(p) ==
  /\ at[p] = "polled"
  /\ Quits(p, IF stray[p].up THEN "failed" ELSE "done") /\ Closes
  /\ UNCHANGED <<probeVars, echo>> /\ Paths /\ Setup

\* What had not arrived when the connection closed does not.
Lost(p) ==
  /\ Echoing(p) /\ conn = "closed" /\ echo # "acked"
  /\ Quits(p, "lost")
  /\ UNCHANGED <<probeVars, conn, echo>> /\ Paths /\ Setup

-----------------------------------------------------------------------------
(* Other paths, and time *)

\* iroh lists a path, then sends its event; it takes a path off the list, then sends that.
Lists(p, up) == stray' = [stray EXCEPT ![p].up = up, ![p].untold = TRUE]

StrayOpens(p) ==
  /\ conn = "up" /\ at[p] \in {"connect", "check", "echo", "polled"}
  /\ ~stray[p].up /\ ~stray[p].untold /\ strays < MaxStrays
  /\ Lists(p, TRUE) /\ strays' = strays + 1
  /\ UNCHANGED <<probeVars, at, left, conn, echo>> /\ Setup

StrayCloses(p) ==
  /\ stray[p].up /\ ~stray[p].untold
  /\ Lists(p, FALSE)
  /\ UNCHANGED <<probeVars, at, left, conn, echo, strays>> /\ Setup

\* The event reaches who has subscribed; in the last poll it may be too late.
Announced(p) ==
  /\ stray[p].untold
  /\ LET w == [stray[p] EXCEPT !.untold = FALSE, !.unread = @ \/ stray[p].events]
     IN  stray' = [stray EXCEPT ![p] = IF at[p] \in {"check", "echo"} THEN Noted(w) ELSE w]
  /\ UNCHANGED <<probeVars, at, left, conn, echo, strays>> /\ Setup

Oldest == MaxAge + ConnectTimeout + EchoTimeout + 1
Timed(p) == Bounded(p) /\ left[p] > 0

\* A peer file is found within the tick, packets cross within Delay, and the checks before
\* the echo await nothing.
Due ==
  \/ ProbeDue \/ (Meets /\ together >= Delay)
  \/ \E p \in Role :
       (at[p] = "wait" /\ file[p] # "none") \/ at[p] = "check" \/ (Bounded(p) /\ left[p] = 0)

Tick ==
  /\ ~Due /\ (Probing \/ \E p \in Role : Timed(p))
  /\ left' = [p \in Role |-> IF Timed(p) THEN left[p] - 1 ELSE left[p]]
  /\ age' = [p \in Role |-> IF at[p] \notin {"off", "discover"} /\ ~Ended(p) /\ age[p] < Oldest
                            THEN age[p] + 1 ELSE age[p]]
  /\ together' = IF \A p \in Role : at[p] = "connect" THEN together + 1 ELSE together
  /\ ProbeTick
  /\ UNCHANGED <<method, at, file, opened, reachable, conn, echo, stray, strays>>

Works ==
  \/ Discovers /\ UNCHANGED peerVars
  \/ Tick \/ Dialed \/ Accepted \/ Sends \/ Echoes \/ Acknowledged
  \/ \E p \in Role :
       \/ Observed(p) \/ DiscoveryFails(p) \/ ReadPeer(p) \/ Expires(p) \/ Subscribes(p) \/ Checks(p)
       \/ Poll(p) \/ EventSeen(p) \/ Completes(p) \/ Lost(p)

Next ==
  \/ Works
  \/ ProbeEnvironment /\ UNCHANGED peerVars
  \/ \E p \in Role : Start(p) \/ Copy(p) \/ StrayOpens(p) \/ StrayCloses(p) \/ Announced(p)

Spec == Init /\ [][Next]_vars

\* The runtimes get on and time passes; nobody has to start a peer or to copy a file, and
\* no datagram has to arrive.
FairSpec == Spec /\ WF_vars(Works)

-----------------------------------------------------------------------------
\* "RFC 8489 section 14.15: values are padded to 4-byte alignment but padding bytes are not
\* counted in the attribute length" (lib.rs:192-193): what the encoders wrote is read back
\* behind any other attributes, also without the last padding; a message cut short or of an
\* earlier transaction is read as nothing, and never as another address or code.  It does
\* not depend on the state, so it is evaluated once, before a peer starts.
WalkFinds ==
  (\A p \in Role : at[p] = "off") => \A s \in Sent : \A a, b \in Firsts(s) : ReadsBack(s, a \o b)

\* "Restart setup instead of testing an old, possibly expired mapping"
\* (nat-peer.rs:62-64): each peer looks only at the age of its own observation, and still
\* no connection uses an address that its owner observed longer ago than this.
FreshMappings == conn = "up" => \A p \in Role : age[p] < Oldest

\* "Open the reverse NAT filter with authenticated QUIC traffic toward the sole peer
\* candidate while accepting its dial" (nat-peer.rs:342-343): two peers that are connecting
\* at the same time meet, unless the NATs do not keep the observed mappings.
MeetInTime == reachable /\ conn = "none" => together <= Delay

\* "Subscribe before the snapshot to cover changes between it and echo I/O"
\* (nat-peer.rs:373): a run that reports observed_peer_path_only has missed no other path
\* that was listed and announced at any time from the second look at the paths (375) to the
\* last poll of the transfer, and leaves none.  It may miss one that was gone before that
\* look, or that was announced only while the completed transfer was being polled.
StraysCaught == \A p \in Role : at[p] = "done" => ~stray[p].passed /\ ~stray[p].up

\* A listener that reports success has proved the echo: the dialer has all of it, and does
\* not lose it to the close of the listener's endpoint (nat-peer.rs:414-415).
ListenerProves == at["listen"] = "done" => at["dial"] # "lost"

\* Every peer that is started reports a result, whatever the other peer, the servers and
\* the network do.
RunsEnd == \A p \in Role : at[p] # "off" ~> Ended(p)
=============================================================================
