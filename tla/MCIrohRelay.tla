---------------------------- MODULE MCIrohRelay ----------------------------
(* Small instances of the relay for TLC. *)
EXTENDS IrohRelay, TLC

\* Sockets, identities and handlers are interchangeable: nothing orders them.
Symmetry == Permutations(Socket) \cup Permutations(Identity) \cup Permutations(Task)
=============================================================================
