--------------------------- MODULE RelayDirectory ---------------------------
(***************************************************************************)
(* What the relay promises its clients, without handlers, time or storage: *)
(* every identity has at most one route, a reconnect replaces the route in *)
(* one step, and a socket that has been retired never carries one again.   *)
(***************************************************************************)
CONSTANTS
  Socket,
  Identity,
  None       \* not a socket

VARIABLES
  route,    \* the socket an identity is reached on, or None
  retired   \* the sockets that are out of use for good

Init ==
  /\ route = [i \in Identity |-> None]
  /\ retired = {}

\* The newcomer takes over and its predecessor is retired at the same moment.
Claim(i, s) ==
  /\ s \notin retired
  /\ \A j \in Identity : route[j] # s
  /\ route' = [route EXCEPT ![i] = s]
  /\ retired' = retired \cup ({route[i]} \ {None})

Retire(S) ==
  /\ route' = [i \in Identity |-> IF route[i] \in S THEN None ELSE route[i]]
  /\ retired' = retired \cup S

Next ==
  \/ \E i \in Identity, s \in Socket : Claim(i, s)
  \/ \E S \in SUBSET Socket : Retire(S)

Spec == Init /\ [][Next]_<<route, retired>>
=============================================================================
