# TLA+ models of iroh-experiment

The repository is a set of experiments around direct and relayed connections between
two peers: a Cloudflare Worker with two Durable Objects (a WebRTC signaling room and an
iroh relay), browser pages that use them, and Rust programs that measure STUN, HTTP/3
observers, media over direct paths and a TCP tunnel. This directory holds TLA+
specifications of the parts with concurrent or distributed state, the configurations
that check them with TLC and theorems proved with TLAPS.

Paths of the form `iroh-relay.js` are under `src/infra/cloudflare/worker/src/`, `peer.js`
and `peer-proof.js` under `.../worker/public/`. `lib.rs` is `src/crates/media-separation/src/lib.rs`
in section 3 and `src/crates/tcp-tunnel/src/lib.rs` in sections 4 and 5; `client.rs` and
`gateway.rs` are under `src/crates/tcp-tunnel/src/bin/`. In section 6 `lib.rs` and `probe.rs` are under
`src/crates/cloudflare-stun/src/`, `nat-peer.rs` under `src/crates/cloudflare-h3-observer/src/bin/`.

## 1. Inventory

| component | state | operations | hard part | specified by |
|---|---|---|---|---|
| **IrohRelay** Durable Object (`iroh-relay.js`, `relay-protocol.js`, `relay-metrics.js`) | per WebSocket an attachment (phase, id, deadline, counters, archived); storage: `meta`, `attempts`, `identities`, `closed`; one alarm | `fetch`/`admit`, `webSocketMessage` → `authorize`, `ping`, `pong`, `route`; `alarm`; `finish`; `webSocketClose`/`Error` | handlers interleave at every `await`; one alarm serves all deadlines; restarts | `IrohRelay`, `RelayDirectory` |
| **Media separation** (`lib.rs`, `bin/media-sender.rs`, `bin/media-receiver.rs`) | per side a `MediaGate`, a monitor task, a session task; the QUIC stream between them | path snapshots and events, handshake, frame loop, receive loop, FIN and confirmation, stop | tasks share a gate that must fail closed; the ends of two sessions race | `MediaGate`, `MediaSession`, `FailClosed` |
| **SignalingRoom** Durable Object (`signal-room.js`) | `joined`, an alarm, per socket role, limits, `sdpSent` | `fetch`, `webSocketMessage`, `broadcast`, `webSocketClose`, `alarm` | join against leave, closing sockets | `SignalingRoom`, `PeerSession` |
| **Browser WebRTC peer** (`peer.js`, `peer-proof.js`) | `Experiment`: two promise queues, pending candidates, pending exchange, `done`/`ended` | signals, data channel, 64 KiB echo, `complete`/`complete-ack`/`receipt`, `fail`, `cleanup` | timers and callbacks across awaits; agreement on success | `PeerExperiment`, `PeerSession`, `PeerAgreement` |
| **TCP tunnel** (`crates/tcp-tunnel`) | client: one shared cached connection; gateway: key file, rules, a task per connection and stream; per stream two directions of bytes | `get_or_dial`, `tunnel_one`, `drive_client`; `load_or_create_key`, `handle_connection`, `connection_scope`, `serve_stream`, copying | dial races, eviction, nested deadlines, half-closes, crash while the key is written | `TunnelClient`; `KeyFile`, `TunnelStream`, `TunnelGateway`, `DuplexTunnel` |
| **STUN observer** (`crates/cloudflare-stun`) | a probe: transaction, attempts, the tap's queue, the socket's binding | `discover_server`, `run_probe`, encoding and parsing of responses | late, queued and foreign answers; rebindings; padding | `StunProbe`, `StunAttributes`, `StunCodec` |
| **HTTP/3 observer, NAT peer** (`crates/cloudflare-h3-observer`) | per peer: its observation and its age, the peer's file, the connection, the watch of its paths | observe, write and read candidates, dial and poke, echo | two NATs, ageing mappings, other paths that come and go, close against echo | `StunProbe`, `NatPeer` |
| **Baseline** (`crates/baseline`) | telemetry of one connection | dial, accept | watches paths like the media monitor | not planned |
| Worker router `index.js`; pages `iroh.js`, `relay-lab.js`, `browser.js`; `crates/browser-iroh`; worker scripts | none shared | sequential calls | – | not modelled |
| `crates/common`, schemas, results | data | – | – | not modelled |
| vendored iroh, noq-udp, h3-noq | the list of a connection's paths | list, take off, announce | third-party; appears only through what the code above observes | the path list, in `NatPeer` |

### Interactions

* A browser or native iroh endpoint opens a WebSocket to `/relay?room=…`; `index.js`
  passes it to the IrohRelay object of that room. Two endpoints exchange QUIC datagrams
  through it until they find a direct path. The platform calls the object's handlers:
  messages, close events and the alarm. The handlers share attachments and storage, and
  call each other (`route` → `finish` → `schedule`).
* `peer.html` opens `/signal/<token>` to a SignalingRoom, exchanges descriptions and
  candidates, and then speaks only over the RTCDataChannel.
* In a media run the monitor task of each side reads the connection's paths, feeds
  signals to the gate under a lock and closes the connection when the gate stops; the
  session task reads the gate between frames; the two sessions interact through one
  bidirectional stream whose FINs carry the confirmation.
* The tunnel client multiplexes local TCP connections over one cached iroh connection;
  each stream begins with a request frame and a status frame, after which both ends copy
  bytes and half-closes between the stream and a TCP connection.
* `nat-peer` discovers its address from its own iroh socket, by STUN or HTTP/3, writes it to a
  file that the operator takes to the other peer, and connects to the address in the other's
  file; the peers then interact through their NATs and one QUIC connection.

### What makes the components correct

* Relay: an identity has one route whatever reconnects race; retired sockets stay retired
  and are accounted once; the room admits two identities and four open sockets; one alarm
  covers every deadline; everything is retired and deleted in the end.
* Media: no frame passes once a relay path has been seen or the direct path was lost (but
  for the one in hand); a stop is final; a report of success means what it says; a
  stopped session ends.
* Signaling and peer: two pages that are both present exchange descriptions and candidates,
  none lost across an await; `done` of the offerer implies `done` of the answerer; each
  experiment reports once and ends.
* Tunnel: a dead or stalled connection leaves the cache, a healthy one does not; a stream
  ends in a status or a bounded timeout; bytes are forwarded in both directions until both
  are finished; only what a rule allows is reached; all processes on one key file serve one
  identity.
* Discovery and NAT peers: an answer that came in time is heard, its round trip is not
  understated, an address belongs to the present binding; a connection uses fresh addresses
  and, when it reports so, no other path; every run ends with a result.

The hazards behind these, each at its line, are in `PROJECT.json` under `hazards`.

## 2. The relay: `IrohRelay`, `RelayDirectory`

**State.** `sock[s]` is the attachment of socket `s` with its link (`open`: readyState is
OPEN) and the reason it was retired for. `meta`, `attempts`, `identities`, `closed` are the
storage records, `alarm` the storage alarm and `now` the clock. `task[t]` is a handler in
progress, `task[t].op` the await it is parked at, with the locals it will use after it
(`ws`, `id`, `victim`, `tally`, `rest`, `meta`).

**Actions.** Each action is the code from one await to the next. `Fetch` is the admission
transaction, `Accept` the rest of `fetch` up to `schedule`; `Refuse`, `Ping`, `Pong`,
`Datagram` and `Authorize` are `webSocketMessage` by kind of frame; `Verify` is the end of
the signature check, `Claim` the identity transaction and the synchronous claim with the
start of the loop over the predecessors, `Evict` the loop's further turns, `Confirm` the
end of `authorize`; `Undelivered` is `route` after a failed delivery; `Closed` is the
transaction of `finish` and `Schedule` is `schedule`, and both go on at `task[t].cont`;
`AlarmFires` and `Sweep` are `alarm`. `Disconnect`, `Restart` and `Tick` are the platform.

**Input gates.** Cloudflare delivers no event to an object while it waits for its storage.
With `InputGates = TRUE` only the signature check (WebCrypto, not storage) lets other
handlers in; with `FALSE` every await does. The safety properties are checked in the
weaker world where they hold in it.

**Abstractions.** A storage operation takes effect at the step that resumes its handler.
The three message budgets are one, `MaxMessages`. Frames are reduced to their kind and
destination, signatures to valid or not. Tallies of bytes, pings, pongs and `endpoint_gone`,
`closed.recent`, `alarm_events`, `created_at`, `boots` and the read-only `snapshot` are left
out, and with them the EndpointGone frames, which change only such tallies. Storage answers
within a unit of time, and the alarm is at most `AlarmDelay` late. A closing socket stays in
`Accepted`, as Cloudflare's `getWebSockets` keeps it.

**Abstract specification.** `RelayDirectory` knows a route per identity and a set of retired
sockets; `Claim` replaces a route and retires the predecessor in one step. `IrohRelay`
implements it with `route` and `retired` as the refinement mapping, although in the code the
claim, the eviction and the bookkeeping are steps of different handlers.

| run | question | bounds | result |
|---|---|---|---|
| `relay_interleaved` | `DatagramsAccounted`, `LedgerBalanced`, `ArchivedIsFinal`, `ImplementsDirectory` when any await interleaves | 3 sockets, 2 identities, 2 handlers, 2 frames per socket, no clock | holds, 1.3 M states |
| `relay_reconnect` | `OneRoute`, `RegisteredIdentities`, `LiveCap`, `SupersededHasSuccessor` when upgrades race, with a restart | 4 upgrades of two identities (limit 1), cap 3, 1 restart | holds, 1.4 M |
| `relay_liveness` | `DeadlinesCovered`, `SocketsRetired`, `StorageReclaimed` over the whole life of a room | 2 sockets, clock to 8 | holds, 0.5 M |
| `relay_restart` | `StorageReclaimed` with a restart | 1 socket | violated, see findings |

*Why the bounds are enough.* Two handlers give every pairwise interleaving of awaits; a third
one in a race of claims changed nothing in separate runs, and `OneRoute` is proved for any
number, as are the other safety properties. Three sockets are a sender, a target and a reconnect; the caps are set below the
number of sockets and identities so that they are reached. The
clock runs past the deadlines, the expiry and the deletion, with one unit for the deadlines
and one for the delay of the alarm. Symmetry (sockets, identities, handlers) is used in runs
without liveness only.

*What does not hold.* With `InputGates = FALSE` three simultaneous reconnects can retire one
another so that none is left (`SupersededHasSuccessor` fails, `OneRoute` does not), simultaneous
upgrades can pass the count of open sockets together (`LiveCap`), and a `schedule` that read an
attachment before another handler changed it can set the alarm last (`DeadlinesCovered`). So
these three rely on the platform's gates, and their theorems say so; and with a restart `LedgerBalanced`
fails between the archiving of a socket and the transaction of `finish`, which loses the
tally. The repository promises neither, so they are recorded here and not as findings.

*Fairness* (`FairSpec`): started handlers continue, a due alarm is delivered, the clock
advances. The platform guarantees these; nothing is assumed of clients, who need not send,
answer or close. `Linger` exceeds the delays the late alarms of one room can accumulate.

## 3. The media session: `MediaGate`, `MediaSession`, `FailClosed`

`MediaGate` is the gate as a function of one signal (`Apply`, `stop`). `MediaSession` is both
programs after the connection is up: the two session tasks (`sender.at`, `receiver.at`), the
two monitor tasks (`monitor[s].at`), the receiver's reader task, the stream between them
(`stream`: handshake, frames in flight, the reader's queue, FINs) and the connection as each
side sees it (`conn`). An action is the code between two synchronisations: `Sender…` is
`run_sender_session`, `send_synthetic` and `streaming_task`; `Receiver…` is
`run_receiver_session` and `receive_synthetic`; `Reader…` its reader; `Monitor…` is
`monitor_loop` and the select around it. `PathChange`, `ConnectionLost` and `CloseArrives` are
iroh and the network.

**Abstractions.** Frames are counted (QUIC delivers them in order, so the sequence check of
the receiver cannot fail). Deadlines are untimed: one that is armed may pass at any moment.
`paths` is what a snapshot would show: the number of open direct paths, whether a relay path
is open, whether a direct one is selected. A closed connection keeps its list of paths and
sends a Closed event for each. An event stream that lags is not modelled. A dropped send half
finishes its stream. The token is right, or the handshake fails. Frames in flight at a close
may be lost, and so may a FIN.

**What a session promises.** `FailClosed` is the session as its two programs see it: per side a
gate that waits, is direct or stopped, a frame that has been let in, the frames that passed, and
the report. A frame is let in while the gate is open and passes or is withdrawn; a stopped gate
stays; a side that reports success has a gate that is not stopped and never will be, and its
frames were all taken, unless the other side was stopped. `MediaSession` maps to it by `Standing`
(the reason of a stop and the count of ready direct paths are forgotten), `Inside` (the sender at
`write_all`, the receiver at its `select!`), `Frames` and `Verdict`. `OneLateFrame` and
`SenderDirect`, the same promise as predicates of one state, are theorems and need no run beside it.

| run | question | bounds | result |
|---|---|---|---|
| `media_session` | `ImplementsFailClosed`, `RelayTrips`, `ConfirmedMeansRead` | any initial paths, 1 change or loss, 2 frames, window 2, queue 1 | holds, 3.0 M states |
| `media_liveness` | `StoppedSessionsEnd` | 2 frames, window 1, 1 change | holds, 0.24 M |
| `media_relay_proof` | `NoRelayProof` | 1 frame, 1 change | violated |

*Why the bounds are enough.* Two frames let a frame pass the check while another waits for
the window, the queue is full with one, and the initial paths are arbitrary, so that one
change reaches every pair of successive snapshots the gate tells apart. `TLAPS` removes the
bounds for all safety properties.

*Fairness* (`FairSpec`): tokio runs tasks that are ready (WF of sessions, monitors and the
end of the reader); the arms of a waiting `select!` are polled in random order, so an arm
that is ready again and again is taken (SF of the monitor's stop and close arms); a close
reaches the other side, by its frame or the idle timeout that follows it. Frames arrive only
while both sides have a path (`Up`), and no timeout is assumed of a connection nobody closed:
`StoppedSessionsEnd` rests on the monitor's close alone.

## 4. The tunnel client: `TunnelClient`

`client.rs` accepts local TCP connections and runs a task for each; all tasks share one
cached gateway connection behind a mutex. `cache` is the content of that mutex; `conn[c]` is
gateway connection `c`: what iroh reports of it (`state`), the streams charged against the
gateway's limit, whether the gateway has stopped answering, and as history whether it was
evicted and which deadlines passed on it; `task[t]` is the await a task is parked at and the
connection it holds. An action is the code between two awaits or one holding of the lock:
`Accept`, `DialFails` and `Dialed` are `get_or_dial`, `OpenStream`, `OpenFails`, `OpenTimeout`
and `Evict` are `tunnel_one`, the others are `drive_client` as `tunnel_one` sees its result.
`ConnectionLost`, `Stall`, `StreamFreed` and `Dropped` are iroh and the gateway.

**Abstractions.** Deadlines are untimed: one that is armed may pass at any moment. A stream
is charged until both sides have left it, and the gateway gives its place back at any time
after the client left. The end of a dial and the lock that follows it are one step (the dial
before it is the interleaving). A connection exists while the cache or a task has a handle.
Bytes are not modelled: a tunnel is open or it has ended.

| run | question | bounds | result |
|---|---|---|---|
| `tunnel_client` | `SharedConnection`, `StalledRecycled`, `ReplacementKept`, `HandshakesEnd` | 2 connections, 2 tasks, 1 stream | holds, 0.15 M states |
| `tunnel_capacity` | `FullRecycled` | 1 connection, 2 tasks, 1 stream | violated |

*Why the bounds are enough.* Connections and tasks are recycled, so runs are of any length
and no counter bounds them. A race needs a task that redials and one that is about to evict; a
third task changed nothing in separate runs. The theorems hold for any number.

*An observation.* A ConnectionReset of one local socket counts as a lost gateway connection
(`is_connection_lost`), and the comparison of identities, meant for a stalled handshake, then
takes the healthy connection out of the cache (`StreamReset`, `Evict`). Its streams go on and
the next local connection dials again.

*Fairness* (`FairSpec`): tokio runs a task that can go on, the two deadlines of the code pass,
and a dial ends (iroh bounds it; the code adds no deadline). No answer of the gateway is
counted on, nor that a tunnel ends: `HandshakesEnd` rests on the deadlines alone.

## 5. The tunnel from end to end: `KeyFile`, `TunnelStream`, `TunnelGateway`, `DuplexTunnel`

`TunnelClient` is about many streams of one client and sees of the gateway only what the client
does. `TunnelStream` is about one stream and both of its ends.

**State.** `KeyFile` has the file, per process its start and key, and `target`, the identity that
clients were given. In `TunnelStream` `task` is the await of the client's and of the gateway's task
for the stream, `timer` what is left of the deadline each waits under and of the flight of a
message, `flight` that message, `answer` the status the client read, `link` the connection, and
`pipe[d]` one direction of bytes: how many are written by its source (`src`), in the stream
(`wire`) and delivered (`dst`), and whether each of these has ended. `stalled` says that the
gateway's process has stopped getting on. `TunnelGateway` composes them: `host` is the process
behind the client's connection.

**Actions.** `Load`, `Generate`, `Create` and `Write` are `load_or_create_key` between its calls of
the file system; `Kill` may come between any two. `Connect`, `Established` and `HangUp` are `run` and
`handle_connection` of `gateway.rs`; `RequestArrives`, `Deny`, `BadRequest`, `UnknownService`, `Dial`,
`Unreachable` and `Dialed` are the rejecting task and `serve_stream`; `OpenStream`, `StatusArrives`,
`StatusExpires` and `ConnectionFails` are `drive_client`. `Send`, `Receive`, `SendEnd`, `ReceiveEnd`,
`Finish` and `PipeFails` are `copy_bidirectional` over a `StreamPair`, at either end `t`.
`Writes`, `Close` and `Reset` are the applications, `LinkLost` and `Stall` the network and the other
host; `Tick` is the clock, which waits for what is due. `NextTunnel` is the next local connection,
on the cached connection if that is up.

**Abstractions.** A request is for a service, for an unknown one, malformed, or never complete.
Dropping an unfinished stream may finish or reset it, as lib.rs:282-285 fears. The copying is
untimed. One stream of the connection is modelled at a time: streams share nothing but their
connection, whose loss is in the model. The end of `write_all` makes the key whole; until then the
file does not parse. Only the Unix form of the key file is modelled.

**What a tunnel promises.** `DuplexTunnel` is the tunnel as the applications see it: whether the
rules permit it, what either end reports (pending, open, refused, failed, done), and in each
direction the bytes and the end, written and delivered. An upstream is reached only where that is
permitted; a client hears a refusal only of a gateway that refused and has its tunnel only with an
upstream; bytes arrive once; an end that arrives comes after all bytes unless its writer failed;
and a side is done when both of its directions are. `TunnelStream` maps to it by `Permitted`,
`Report` and `Bytes`, which forget connections, messages, timers and what is in the stream.

| run | question | bounds | result |
|---|---|---|---|
| `tunnel_gateway` | `ImplementsDuplex`, `OneIdentity`, `OnlyAllowed`, `StatusInTime`, `CleanMeansComplete`, `EndsPropagate`, `NeverParked` | 2 processes, 2 keys, 2 services, 4 lists of rules, deadlines of 1 tick below a client's of 5, 1 byte | holds, 0.73 M states |

*Why the bounds are enough.* Two processes race for the file, and each may be killed and started
again. The lists of rules are: none, for others only, a service next to another endpoint's rule,
and rules that add up. With one byte a direction can end before and after it is sent. All
deadlines are one tick, so the client's is the least that the code's order of deadlines allows.
The theorems of section 9 remove all these bounds for the safety properties.

*Fairness* (`FairSpec`): tokio runs what can go on, messages arrive within `Delay`, deadlines pass.
Nothing is assumed of dials, applications or process starts; both liveness properties except a
stalled process, and the first one a tunnel of which an end has failed.

*Observation.* The task that rejects an endpoint drops the connection right after it has sent the
status, and the close can overtake it (`Deny`, then `ConnectionFails` before `StatusArrives`): the
client then reports a lost connection instead of Unauthorized, against the intent of
lib.rs:282-283.

## 6. Discovery and NAT peers: `StunProbe`, `StunAttributes`, `StunCodec`, `NatPeer`

**Modules.** `StunProbe` is the discovery of an address from the own socket: `probe` is the run of
`discover_server` with its address, attempts and result, or that of `observe_on_endpoint`; `air`
holds responses on their way, `inbox` what the tap has copied for the probe, `binding` numbers
the bindings of the socket. `NatPeer` extends it by the two peers: `at[p]` is where
`run_endpoint` of peer `p` is, `left[p]` its deadline, `age[p]` the age of its observation, `file[p]`
the file it is given, `opened[p]` whether its NAT lets the other's packets in, `conn` and `echo` the
connection and the payload, `stray[p]` another path of `p`'s connection (listed by iroh, its event
still to be sent) and the watch for it (how often the list was looked at, whether the events are
subscribed to, an unread one).
`StunAttributes` has the attributes of a response: how the encoders lay one out, and the walk by
which `parse_xor_mapped_address` and `parse_error_code` look for the first of a type; `StunCodec`
adds their values and what `run_probe` reads in a response, for the transactions `Txn` and `Stale`,
the answers `Sent` and the attributes `Others` before them. `^` is defined bit by bit (`XorByte`);
`MCNatPeer` checks that it is the operator of the library.

**Actions.** `SendRequest`, `SendFails`, `Skip`, `Answered`, `Unusable`, `Rejected`, `Lagged` and
`WindowCloses` are the arms of the loop in `run_probe`; `NextAddress` is the loop of
`discover_server`; `H3Responds`, `H3Fails` and `H3Expires` end a request of `observe_on_endpoint`.
`Arrive`, `Foreign` and `Rebind` are the network and the socket. In `NatPeer`, `Start`, `Observed`,
`DiscoveryFails` are `discover`; `ReadPeer` is `wait_peer` with `validate_peer`; `Dialed` and
`Accepted` are `connect_peer`. Between the connection and the echo the code reads the list of paths
(nat-peer.rs:224), subscribes to the path events (374) and reads the list again (375) without an
await, but on another thread than the one that updates the list: `Checks` and `Subscribes` are one
step each, and iroh's steps fall between them. `Sends`, `Echoes`, `Acknowledged`, `EventSeen`, `Poll`,
`Completes` and `Lost` are `echo_on_observed_path` and `echo`; `Copy` is the operator. `StrayOpens`,
`StrayCloses` and `Announced` are what the vendored iroh does (`record_opened`, `record_abandoned` of
`path_watcher.rs`): it changes the list, then sends the event to those that have subscribed by then.

**Abstractions.** A datagram is an answer, an error, an answer without a usable address, or other
traffic; an answer carries the binding it was sent from. A discovery belongs to one peer at a
time: the operator starts the second when the first is not discovering. Each rebinding takes a
new local address; the code compares addresses, so a rebinding that keeps the port would be
invisible to it. A NAT lets packets in once its own peer has sent (`Crosses`), if it keeps the
observed mapping (`reachable`). A check may fail because no path is selected. In `StunAttributes`
lengths stay below 256.

*What `StraysCaught` says.* `passed` is a history variable, set when another path is listed and
announced at the second look or between it and the look at the events in the last poll. It needs
all four of the code's precautions: the subscription before the second look, that look, the bias of
the select, and the look at the paths that are left; without any of them TLC refutes it. It says
nothing of a path that was taken off the list before the second look, or whose opening was announced
only in the last poll: such a path escapes the report, on the listener also while the dialer's
payload is under way already, although the guide calls `observed_peer_path_only` a confirmation
about the time of the transfer (`infra/cloudflare/README.md:252`).

| run | question | bounds | result |
|---|---|---|---|
| `nat_peer` | `RttCovers`, `AnswersHeard`, `SeenOnBinding`, `FreshMappings`, `MeetInTime`, `StraysCaught`, `ListenerProves`, `RunsEnd`; `WalkFinds` over responses | 2 addresses, 2 attempts, window 2, queue of 1, 1 foreign datagram, 1 rebinding, 1 other path | holds, 0.77 M states |

*Why the bounds are enough.* Two attempts let an answer to the first arrive in the pause and in the
window of the second; a queue of one is overrun by two answers or by other traffic; two addresses
are a first that fails and a last. The other path may open before, during and after the watch of
either peer, and between any two steps of it. The responses for `WalkFinds` have both families, three reasons of an error (with
each kind of padding), up to two attributes before the wanted one, some with its header in their
value, and are cut at every length. For the safety properties of the two machines and for the
responses the theorems remove the bounds.

*Fairness* (`FairSpec`): the runtimes get on and time passes (`Works`). No datagram has to arrive,
nobody has to start a peer or to copy a file: `RunsEnd` rests on the deadlines.

## 7. The browser peers: `SignalingRoom`, `PeerExperiment`, `PeerSession`

Two pages open a WebSocket to a SignalingRoom, negotiate an RTCPeerConnection through it, and
then echo `Blocks` blocks over its data channel and agree on what they report.

**Modules.** `PeerExperiment` is the data channel half of `peer.js`: `page[r]` is the
`Experiment` of page `r` (the channel, the await `at` that `sendPayload` or `receiveComplete`
is parked at, the blocks, the evidence, `outcome` for `done` or the failed report, the cleanup
timer, `ended`), `wire[r]` the messages on their way to it. `SignalingRoom` is the Durable
Object: `joined` and the alarm of the storage, per page the server's socket with its
attachment, and the messages `up` to the room and `down` to the page. `PeerSession` composes
them with the signaling half of `peer.js`: `sig[r]` is the await the signal in hand is parked
at, the descriptions and the candidates. `PeerAgreement` is the abstract specification: two
parties that each report once, the offerer's success after the answerer's, with its verdict.

**Actions.** A page is one thread: an action is one event (a signal, a message, a timer, a
click) with the microtasks that follow it, up to the next await of `getStats` or of the
RTCPeerConnection. `Echoed` and `Confirmed` are the continuations of `exchange` in
`sendPayload`; `PayloadStarts`, `PayloadSent` and `PayloadReceived` what follows a snapshot;
`GivesUp` all that calls `fail` from outside; `Leaves` is `begin` for another room. `Created`,
`LocalSet`, `RemoteSet`, `PendingAdded` and `Added` are the awaits of `connect`,
`remoteDescription` and `remoteCandidate`; `Turn` is `signalQueue`. `Admit` is the admission
transaction of `fetch` and `Accepts` what follows it; page `r` is the one that got role `r`.

**Abstractions.** Bodies of blocks match. `pathEvidence` yields any boolean. Timers are
untimed. The channel is ordered and reliable until an end closes; it is a set, because
`InOrder` shows that it never holds two messages for one page. A WebSocket may close at any
moment; what the room sent before is still delivered, and a failed page ignores it. The byte
limits of the room are represented by the limit of messages. Tokens and candidates are valid.
The pages connect when both have both descriptions (`Negotiated`). The diagnostic mode is off.

**Refinements.** Every step of `PeerSession` is one of `PeerExperiment` or leaves it alone
(`ImplementsExperiment`), and `PeerExperiment` implements `PeerAgreement`
(`ImplementsAgreement`, with `Outcome` and `Verdict` as the mapping).

| run | question | bounds | result |
|---|---|---|---|
| `peer_session` | `SuccessMeansEchoed`, `InOrder`, `SignalingSettles`, `ImplementsAgreement`, `ExperimentsEnd` | 2 blocks, 2 messages per socket, 2 candidates | holds, 1.9 M states |

*Why the bounds are enough.* Two blocks have a first and a last. With two messages per socket
a description and one candidate pass the room, and the second candidate of one page meets the
limit. Two candidates can be one before and one after the description they need, or one from
each page. The theorems hold for any number of blocks, messages and candidates.

*Fairness*: a page without an outcome meets its deadline, and the cleanup timer after success
fires (`TimesOut`), both timers of the page itself. Nothing is assumed of the other page, the
room or the network, so `ExperimentsEnd` holds without them; that signaling makes progress is
stated as an invariant of quiet states (`SignalingSettles`).

*Observations.* `ws.onclose` tolerates the end of the WebSocket once the channel is open, but a
candidate gathered after it makes `signal` throw and fails the experiment (`onicecandidate`).
The comment at `peer.js:151` says that `sendPayload` waits for the snapshot of `open`; it takes
one of its own, and `open` may install its listener for path changes after the transfer has
begun (`Opened` after `PayloadStarts`).

## 8. Findings and observations

A run refutes what the repository says:

1. **An object restarted before its first alarm keeps its storage** (`relay_restart`). The
   admission transaction commits `meta`; the alarm is set after the upgrade by another
   storage call. SignalingRoom sets its alarm inside the transaction.
2. **`stop()` cancels the monitor** (`media_relay_proof`). The comments promise a final
   reconcile; the select drops the loop with events unread, so `ever_relay_paths == 0` is no
   proof for what happened shortly before the end.
3. **A full connection stays cached** (`tunnel_capacity`). The timeout of `open_bi` leaves by
   the question mark, before the eviction that its own message asks for.

Met while modelling, without a run of their own (those of one component are in its section):

* Media: a cut receiver also confirms. It shuts its half down after a gate stop as after the FIN
  (`media-separation/src/lib.rs:1123`, against 1075-1077), and a sender that reads this before
  the close reports success. The receiver never requires a direct path (line 820, against
  `media-receiver.rs:67`): its loop ends on `Stopped` but takes frames in `AwaitingDirect`.
* Tunnel: a status Unauthorized may be overtaken by the close (section 5). A key file left short by
  a crash keeps every later start from serving, until somebody deletes it.
* STUN: `cloudflare-stun/src/lib.rs:167` slices the datagram by the declared length without a
  check, although the comment at line 126 promises an error for any mismatch; a response of the
  transaction that is shorter than it says would panic. An overrun of the tap's queue (64
  datagrams, `Lagged`) ends the probe as a failed receive.
* HTTP/3: in `cloudflare-h3-observer/src/lib.rs:150` one deadline covers all addresses and equals
  that of a single request, so a first address that hangs leaves no time for the next ones.

## 9. Proofs

| theorem | module | states |
|---|---|---|
| `TypeCorrect` | `IrohRelayProofs` | `Spec => []TypeOK` |
| `OneRouteAlways` | `IrohRelayProofs` | `Spec => []OneRoute` |
| `ArchivedStays` | `IrohRelayProofs` | `Spec => ArchivedIsFinal` |
| `RelayImplementsDirectory` | `IrohRelayProofs` | `Spec => ImplementsDirectory` |
| `IdentitiesRegistered` | `IrohRelayProofs` | `Spec => []RegisteredIdentities` |
| `DatagramsCounted` | `IrohRelayAwaits` | `Spec => []DatagramsAccounted` |
| `LedgerAlwaysBalanced` | `IrohRelayAwaits` | `Spec => [](restarts = 0 => LedgerBalanced)` |
| `LiveCapped` | `IrohRelayAwaits` | `InputGates` implies `Spec => []LiveCap` |
| `SupersededSucceeded` | `IrohRelayAwaits` | `InputGates` implies `Spec => SupersededHasSuccessor` |
| `DeadlinesAlwaysCovered` | `IrohRelayAwaits` | `InputGates` implies `Spec => [](restarts = 0 \/ (\E s \in Socket : Live(s)) => DeadlinesCovered)` |
| `SessionTypeCorrect` | `MediaSessionProofs` | `Spec => []TypeOK` |
| `StopIsFinal` | `MediaSessionProofs` | `Spec => GateLatches` |
| `RelayAlwaysTrips` | `MediaSessionProofs` | `Spec => []RelayTrips` |
| `OneLateFrameAlways` | `MediaSessionProofs` | `Spec => []OneLateFrame` |
| `SenderStreamsDirect` | `MediaSessionProofs` | `Spec => []SenderDirect` |
| `ConfirmedWasRead` | `MediaSessionProofs` | `Spec => []ConfirmedMeansRead` |
| `SessionFailsClosed` | `MediaSessionProofs` | `Spec => ImplementsFailClosed` |
| `CacheTypeCorrect` | `TunnelClientProofs` | `Spec => []TypeOK` |
| `OneConnectionShared` | `TunnelClientProofs` | `Spec => []SharedConnection` |
| `StalledLeaves` | `TunnelClientProofs` | `Spec => []StalledRecycled` |
| `ReplacementStays` | `TunnelClientProofs` | `Spec => ReplacementKept` |
| `PeerTypes` | `PeerProofs` | `Spec => []TypeOK` |
| `SuccessIsEchoed` | `PeerProofs` | `Spec => []SuccessMeansEchoed` |
| `PagesAgree` | `PeerProofs` | `Spec => ImplementsAgreement` |
| `MessagesInOrder` | `PeerProofs` | `Spec => []InOrder` |
| `SessionRunsExperiment` | `PeerSessionProofs` | `SessionSpec => ImplementsExperiment` |
| `SessionTypes` | `PeerSessionProofs` | `SessionSpec => []SessionTypeOK` |
| `SessionSuccessIsEchoed` | `PeerSessionProofs` | `SessionSpec => []SuccessMeansEchoed` |
| `SessionPagesAgree` | `PeerSessionProofs` | `SessionSpec => ImplementsAgreement` |
| `SessionInOrder` | `PeerSessionProofs` | `SessionSpec => []InOrder` |
| `SignalingEnds` | `PeerSessionProofs` | `SessionSpec => []SignalingSettles` |
| `IdentityIsStable` | `TunnelGatewayProofs` | `Spec => []OneIdentity` |
| `StreamTypeCorrect` | `TunnelGatewayProofs` | `Spec => []StreamTypeOK` |
| `NeverAnOpenProxy` | `TunnelGatewayProofs` | `Spec => []OnlyAllowed` |
| `CleanTunnelsDeliver` | `TunnelGatewayProofs` | `Spec => []CleanMeansComplete` |
| `StatusAlwaysInTime` | `TunnelGatewayProofs` | `Spec => []StatusInTime` |
| `TunnelsAreDuplex` | `TunnelGatewayProofs` | `Spec => ImplementsDuplex` |
| `RttAlwaysCovers` | `NatPeerProofs` | `Spec => []RttCovers` |
| `AnswersAlwaysHeard` | `NatPeerProofs` | `Spec => []AnswersHeard` |
| `AlwaysSeenOnBinding` | `NatPeerProofs` | `Spec => []SeenOnBinding` |
| `AlwaysFresh` | `NatPeerProofs` | `Spec => []FreshMappings` |
| `PeersMeet` | `NatPeerProofs` | `Spec => []MeetInTime` |
| `StraysAlwaysCaught` | `NatPeerProofs` | `Spec => []StraysCaught` |
| `ListenerAlwaysProves` | `NatPeerProofs` | `Spec => []ListenerProves` |
| `WalkAlwaysFinds` | `NatPeerProofs` | `Spec => []WalkFinds` |
| `WalkFindsFirst` | `NatPeerProofs` | the walk finds the first attribute of a type behind any others |

Types, `GateLatches`, `OneLateFrame`, `SenderDirect` and `ImplementsExperiment` are proved and not
repeated in a run: the runs ask
what a small instance can still refute. The types of `NatPeer` and `StunProbe` are `PeerTyped` and
`ProbeTyped`, parts of the invariants of `NatPeerProofs`.

The assumptions are those of the modules: `ConstantsAssumption` (kinds of the constants,
`None` is neither a socket nor an identity; input gates or not), `MediaAssumption` (kinds;
queue and window are positive), `TunnelAssumption` (`None` is no connection, the tasks are
finitely many, at least one stream), `PeerAssumption` of `PeerExperiment` (at least one block) and
`RoomAssumption` (at least one message), `CandidateAssumption` (a number), `KeyAssumption`, `StreamAssumption` (the rules name
configured services; every deadline is positive, and the client's exceeds those of the gateway
with two flights, and that of the rejecting task), `ProbeAssumption` and `PeerAssumption` of
`NatPeer` (positive windows, attempts and deadlines), `CodecAssumption` (the kinds of its data; two
transactions, 96 random bits each, differ; codes of an error are below 800, the class being three
bits).

*Relay.* `Shape` (typing, plus: a handler past its start has a socket) is inductive.
`OneRoute` is not inductive by itself: the claim writes the identity its handler verified
into its own socket, and the argument needs that this socket is not routed yet and that no
other handler is about to claim it. `Known` adds that only authenticated sockets (or those
that lost their process) have an identity, that handlers serve accepted sockets, and that a
socket whose signature is being checked has exactly one handler doing it. Each step is then
*tame* (it gives no socket an identity or the authenticated phase and leaves retired sockets
alone), or a restart, or a claim that takes one route from at most one predecessor; one lemma
per action says which. From this classification follow `OneRoute` by induction,
`ArchivedIsFinal` directly, and the refinement: a tame step and a restart are `Retire` or a
stutter of the directory, a claim is `Claim`.

`RegisteredIdentities` needs that what a handler checked before an await is still so after it.
`AllPhased` says which awaits a handler can be parked at given the one its caller goes on at, and
`RoomBegun` ties the storage to the life of the room: before the first upgrade there is neither a
socket nor a handler, an alarm handler works only while the `meta` record is there, and no late
write brings the record back once it is deleted. A claim stores its identity in the transaction
that counted the others.

*Relay, across the awaits* (`IrohRelayAwaits`). Most steps are *steady*: they open no socket,
count no datagram and supersede nobody. `AllAccounted` counts a socket's datagrams against the
handlers at `undelivered`, now or after a nested `finish`; a finite set that one handler enters or
leaves changes its cardinality by one. For the ledger, `Victims` says that two handlers never wait
to add the same socket, and that the socket is retired with the counters they hold: `finish` archives before its first await,
and a retired socket is not finished again. So a transaction moves one socket from the pending to
the settled ones, and `Ledger` is kept if the sum over a finite set grows by the counters of the
socket that enters it. That the community modules' sum does so is proved here (`SumStep`,
`SumAgrees`, `SumRemove`). Until a room has expired an empty `meta` has an empty ledger, which is why
`Ledger` speaks of that time too.

The limit of open sockets, the successor of a superseded one and the alarm are claims about what a
handler read before an await, and hold only because no event comes in while the object waits for
its storage. `LiveCapped`, `SupersededSucceeded` and `DeadlinesAlwaysCovered` therefore assume
`InputGates`, which Cloudflare guarantees; without it TLC refutes each. `Roomy`
leaves a place for the upgrade between its count and its acceptance. `EvictorRoutes`: who goes
through the predecessors holds the route, all along the loop. For the alarm, `SweepFresh` says
that an alarm handler works with the `meta` that is stored, `PingSet` that an authenticated socket
has a next ping or a handler on its way to set it, and `DueCovered` that, whenever no handler is
between a change and its `schedule`, the alarm covers every deadline. A restart may drop a handler
in between, so the claims about the ledger and, once no socket is left, the alarm end there:
`relay_restart` shows what is lost.

*Media.* `GateStep` shows that every step either leaves a gate alone or applies one signal to
it, which gives `GateLatches`. `RelayInv` adds where the monitor stands between counting a
relay path and tripping the gate; `LateInv` that a task past its gate check has not been late
before; `DirectInv` ties the sender's frames to a gate that was ready; `FramesInv` is the
conservation of frames between the sender, the stream, the queue and the receiver, and what a
FIN on the way implies. Each is inductive together with `TypeOK`.

The refinement (`SessionFailsClosed`) is about pairs of these facts. A gate moves only in a step
of its monitor (`MonitorsRefine`), and a monitor stops with its session: `EndInv` adds that a session
that is over has a monitor that is, so that a report of success is about a gate that no longer
moves; that a receiver cut short has a stopped gate; and that one which read the end has an empty
queue. The steps of the sender and of the receiver are then `LetIn`, `Withdraw`, `Pass`, a report
or a stutter (`SendsRefine`, `ReceivesRefine`); `DirectInv` gives the direct gate that a sender's
success needs, `FramesInv` that its frames were taken.

*Tunnel.* `SharedConnection` is inductive with `TypeOK`: a dial takes the slot only when what
is in it is not open, and every connection that leaves the slot open is marked evicted.
`StalledRecycled` is inductive because the task that saw the timeout stays at the lock with
its handle until its own `Evict`, which finds either another connection or its own.
`ReplacementKept` is read off `Evict` and `Dialed`.

*Peers.* `CompleteInv` follows the evidence from the offerer's `complete` to the answerer's
report: while it is on the wire, or held by `receiveComplete` across its snapshot, the offerer
cannot send another and its own record is frozen, so both compute the same conjunction.
`AckInv` does the same for the way back. `OutcomeInv` says that a failed page has ended, and
that a page with an outcome takes part in no exchange any more; with it every call of `fail`
from the signaling half is either a stutter or a step the experiment could take by itself,
which gives the composition theorem without any invariant of the room.

`InOrder` follows from `Ordered`: at most one message is under way, and what it is follows from
where the two pages stand in the transfer (`OneSpeaks`); no page has met a message out of order, and
one that has ended is at no await (`Settled`). `SignalingSettles` is about sessions in which nothing broke
(`Sound`): in these `Signaling` holds, a conjunction of where the two pages are before anything is
sent (`Blank`), where the descriptions and the hello are at any moment (`Exchanging`, `Greeted`),
the conservation of candidates between the page that gathers them, the room, the queue and the
other page (`Counted`), who holds those that came before the description (`Kept`), and that
candidates follow a description (`Described`). All of it was an invariant of a run of the
1.9 M states before it was proved.

*Tunnel from end to end.* `KeyInv`: a file gets its key once, from the one process that created it,
and who serves has that key. `Phase` ties the places of the two tasks to the state of the
connection; with it every step is one of the handshake, which leaves the bytes alone, or one of
the copying, which leaves the rest alone (`StreamSteps`, `HandshakesMove`). `Authorization` says that
what is dialed is in the endpoint's scope. `Delivery` says that a direction whose source has not
failed is open in the stream or complete, and that a delivered end came after all bytes. `InTime`
names the six places of a handshake whose client still waits on a live gateway, each with what
its timer must exceed for the rest of the way.

For `TunnelsAreDuplex` one more invariant is needed, `Answered`: an Ok on its way comes from a gateway
that has its upstream, copies or has ended, and is about a service in scope; any other status comes
from one that refused; and nothing has ended upwards before the client copies. With it and
`Authorization` a step of the handshake is `Reach`, `Join`, `Refuse`, `Hear`, a failure or a stutter
(`HandshakesRefine`); with `Delivery` one of the copying is the step of its application or a
stutter (`CopiesRefine`), and the next tunnel is `Again`.

*Discovery and peers.* `ProbeInv`: what is in the air or in the queue was sent from a binding
the probe has had, a heard answer stays in the queue until it is read, and the window cannot
close before that. `PeerInv`: the age of an observation and the deadline left add up to a bound in
each phase (`Aged`); a peer at its checks has subscribed only after its first look, and from the
second look on a listed path is still to be announced or unread, and what was announced is unread,
until the last poll (`Watched`);
a connection that is up has both peers in it, and the listener has polled its transfer complete
only after the dialer had the echo (`Connected`).

*The walk over attributes.* `Find` is a recursive function of the position, so that it has a value
at every position is itself proved (`WalkExists`), and so is that a prefix moves the walk and
changes nothing else (`WalkShifted`). An attribute is then passed or found by its first turn
(`Passed`, `Found`), for any number of attributes and any content (`WalkFindsFirst`). What is found
is what was encoded: a byte is the sum of its bits and has the bits it is the sum of
(`BitsOfByte`, `ByteOfBits`), so masking twice gives the byte back (`XorTwice`), and the parts of a
value are those it was joined from (`Taken`, `ValueRead`, `ErrorRead`). A cut behind the first
attributes is one of the last (`CutBehind`), which gives `WalkAlwaysFinds`.

*Induction.* The library's induction theorems take an operator and cannot be used here. Where a
statement is about every size of a set or every position of a message, the proof takes the least
counterexample instead: `WFMin` with the order of the numbers or with strict inclusion of finite
sets (`LeastNumber`, `SmallestSet`).

*Only model-checked.* Liveness (`SocketsRetired`, `StorageReclaimed`, `StoppedSessionsEnd`,
`HandshakesEnd`, `ExperimentsEnd`, `EndsPropagate`, `NeverParked`, `RunsEnd`) is out of the prover's
reach: it rests on fairness and on which actions are enabled. Every safety property of a passing run
is a theorem.

## 10. Plan, and what is not modelled

Of the parts that are left out, the candidate exchange of the media crate (TTL, epochs), which
precedes `MediaSession`, and several streams on one connection in `TunnelStream` would add most.

The runs are kept few: a new question joins a run of its module where the bounds allow it.

Not modelled, and why:

* `crates/baseline`: a sequential dial and accept with telemetry; its path watcher is that of the
  media crate.
* `crates/browser-iroh`, `iroh.js`, `relay-lab.js`, `browser.js`: one dial and one echo driven by a
  page; the relay they use is modelled with any clients.
* `index.js`: stateless. `worker/scripts`: sequential operator tools.
* `crates/common`, candidate statistics (`peer-proof.js`), result schemas: data without behaviour.
* `h3-probe` and `compare()` of the HTTP/3 observer, `stun-probe`: sequential requests and a report.
* Vendored iroh, noq-udp, h3-noq: third-party; they appear through what the code above observes. Of
  iroh, only the list of a connection's paths and the order of its updates and events are modelled.
* Of the media crate: the exchange of direct addresses before the connection, frame timestamps,
  latency statistics. Of the STUN crate: requests and their integrity, the classification of
  datagrams.
