----------------------------- MODULE FailClosed -----------------------------
(***************************************************************************)
(* What a media session promises its two programs, without paths, monitors,*)
(* queues or connections: frames pass a side one by one, each let in while *)
(* its gate is open; the gate of a side, once stopped, stays so; and a side*)
(* that reports success has an open gate, and its frames were all taken.   *)
(***************************************************************************)
EXTENDS Naturals

VARIABLES
  path,     \* per side: the gate is waiting, direct or stopped
  inside,   \* per side: a frame has been let in and has not passed
  frames,   \* frames the sender has written, the receiver has taken
  report    \* per side: running, success or failure

Side == {"sender", "receiver"}

Init ==
  /\ path = [s \in Side |-> "waiting"]
  /\ inside = [s \in Side |-> FALSE]
  /\ frames = [s \in Side |-> 0]
  /\ report = [s \in Side |-> "running"]

\* A report of success is about a gate that no longer moves.
Turns(s, from, to) ==
  /\ path[s] \in from /\ report[s] # "success"
  /\ path' = [path EXCEPT ![s] = to]
  /\ UNCHANGED <<inside, frames, report>>

Reach(s) == Turns(s, {"waiting"}, "direct")
Stop(s) == Turns(s, {"waiting", "direct"}, "stopped")

\* The sender lets frames in under a direct path, the receiver until it is stopped.
Open(s) == IF s = "sender" THEN path[s] = "direct" ELSE path[s] # "stopped"

LetIn(s) ==
  /\ ~inside[s] /\ Open(s) /\ report[s] = "running"
  /\ inside' = [inside EXCEPT ![s] = TRUE]
  /\ UNCHANGED <<path, frames, report>>

Withdraw(s) ==
  /\ inside[s] /\ inside' = [inside EXCEPT ![s] = FALSE]
  /\ UNCHANGED <<path, frames, report>>

Pass(s) ==
  /\ inside[s] /\ inside' = [inside EXCEPT ![s] = FALSE]
  /\ s = "receiver" => frames[s] < frames["sender"]
  /\ frames' = [frames EXCEPT ![s] = @ + 1]
  /\ UNCHANGED <<path, report>>

Ends(s, outcome) ==
  /\ report[s] = "running" /\ ~inside[s]
  /\ report' = [report EXCEPT ![s] = outcome]
  /\ UNCHANGED <<path, inside, frames>>

Taken(s) ==
  frames["receiver"] = frames["sender"] \/ (s = "sender" /\ path["receiver"] = "stopped")

Succeed(s) ==
  /\ path[s] # "stopped" /\ (s = "sender" => path[s] = "direct")
  /\ Taken(s)
  /\ Ends(s, "success")

Next ==
  \E s \in Side :
    Reach(s) \/ Stop(s) \/ LetIn(s) \/ Withdraw(s) \/ Pass(s) \/ Succeed(s) \/ Ends(s, "failure")

Spec == Init /\ [][Next]_<<path, inside, frames, report>>
=============================================================================
