------------------------------ MODULE PeerRole ------------------------------
(* The two seats of a signaling room, in the order of their admission. *)
Role == {"offerer", "answerer"}
Peer(r) == IF r = "offerer" THEN "answerer" ELSE "offerer"
=============================================================================
