------------------------ MODULE MCOutstandingCommands ------------------------
(* The list of outstanding commands on its own, small instance. *)
EXTENDS OutstandingCommands, TLC

\* Connections and keys are only compared for equality.
Symmetry == Permutations(Conns) \union Permutations(Keys)
=============================================================================
