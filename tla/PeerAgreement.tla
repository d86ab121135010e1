--------------------------- MODULE PeerAgreement ---------------------------
(***************************************************************************)
(* What two WebRTC test pages report to their users.  A page reports once; *)
(* the offerer reports success only after the answerer has, and with the   *)
(* same verdict about the NATs between them.                               *)
(***************************************************************************)
EXTENDS PeerRole

VARIABLES outcome, verdict

Init ==
  /\ outcome = [r \in Role |-> "none"]
  /\ verdict = [r \in Role |-> FALSE]

Reports(r, result) ==
  /\ outcome[r] = "none"
  /\ outcome' = [outcome EXCEPT ![r] = result]

Confirm ==
  /\ Reports("answerer", "done")
  /\ \E good \in BOOLEAN : verdict' = [verdict EXCEPT !["answerer"] = good]

Agree ==
  /\ outcome["answerer"] = "done"
  /\ Reports("offerer", "done")
  /\ verdict' = [verdict EXCEPT !["offerer"] = verdict["answerer"]]

Fail(r) == Reports(r, "failed") /\ UNCHANGED verdict

Next == Confirm \/ Agree \/ \E r \in Role : Fail(r)

Spec == Init /\ [][Next]_<<outcome, verdict>>
=============================================================================
