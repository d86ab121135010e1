----------------------------- MODULE MCNatPeer ------------------------------
(* The peers, and responses that their probes may have to read. *)
EXTENDS NatPeer, Bitwise

MCTxn == <<7, 33, 0, 255, 1, 2, 3, 4, 5, 6, 7, 8>>
MCStale == [MCTxn EXCEPT ![12] = 9]

MCSent ==
  {[type |-> "success", is |-> [port |-> <<13, 5>>, ip |-> [i \in 1..n |-> 16 * i - 9]]] : n \in {4, 16}} \cup
  {[type |-> "error", is |-> [code |-> c, reason |-> r]] : c \in {300, 499, 699}, r \in {<<>>, <<1>>, <<1, 2, 3, 4, 5>>}}

\* Values of each alignment, ones with the header of a wanted attribute inside, one too
\* short to be wanted, and ones that only the other parser wants.
MCOthers ==
  {[type |-> 6, value |-> [i \in 1..n |-> 7]] : n \in 0..4} \cup
  {[type |-> 34, value |-> <<0, Mapped, 0, 4, 0>>], [type |-> 34, value |-> <<0, 0, ErrorCode, 0, 4, 1>>],
   [type |-> ErrorCode, value |-> <<0, 0, 4>>], [type |-> ErrorCode, value |-> <<0, 0, 4, 4>>],
   [type |-> Mapped, value |-> <<0, 1, 5, 5, 1, 2, 3, 4>>]}

\* The operator of the code is that of the library.
ASSUME XorAssumption == \A a, b \in Byte : XorByte(a, b) = a ^^ b
=============================================================================
