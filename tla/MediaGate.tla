----------------------------- MODULE MediaGate -----------------------------
(***************************************************************************)
(* The fail-closed gate of crates/media-separation/src/lib.rs (MediaGate,  *)
(* l.355-498) as a pure function: Apply(g, signal) is the gate after one   *)
(* raw path signal.  Stopped(r) of the code is the state r itself.         *)
(***************************************************************************)
EXTENDS Naturals

StopReason == {"RelayPathObserved", "DirectPathLost", "ConnectionClosed"}
GateState == {"AwaitingDirect", "DirectReady"} \cup StopReason

\* direct_ready: direct_ready_at_unix_ms is Some.
Gate == [state : GateState, ever_had_direct : BOOLEAN, direct_ready : BOOLEAN]
NewGate == [state |-> "AwaitingDirect", ever_had_direct |-> FALSE, direct_ready |-> FALSE]

Stopped(g) == g.state \in StopReason

\* PathSignal: a snapshot of the open paths, or the end of the connection.
Snapshot(open_direct, has_relay, selected_direct) ==
  [closed |-> FALSE, open_direct |-> open_direct, has_relay |-> has_relay,
   selected_direct |-> selected_direct]
ConnectionClosed == [Snapshot(0, FALSE, FALSE) EXCEPT !.closed = TRUE]
Signal == [closed : BOOLEAN, open_direct : Nat, has_relay : BOOLEAN, selected_direct : BOOLEAN]

stop(g, reason) == [g EXCEPT !.state = reason]

\* A snapshot without relay paths.
Reconcile(g, signal) ==
  LET seen == [g EXCEPT !.ever_had_direct = @ \/ signal.open_direct > 0]
  IN  CASE g.ever_had_direct /\ signal.open_direct = 0 -> stop(g, "DirectPathLost")
        [] signal.selected_direct /\ ~(g.ever_had_direct /\ signal.open_direct = 0) ->
             [seen EXCEPT !.state = "DirectReady", !.direct_ready = TRUE]
        [] OTHER -> IF g.state = "DirectReady" THEN stop(seen, "DirectPathLost") ELSE seen

Apply(g, signal) ==
  CASE Stopped(g) -> g
    [] ~Stopped(g) /\ signal.closed -> stop(g, "ConnectionClosed")
    [] ~Stopped(g) /\ ~signal.closed /\ signal.has_relay -> stop(g, "RelayPathObserved")
    [] OTHER -> Reconcile(g, signal)
=============================================================================
