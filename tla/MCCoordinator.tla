--------------------------- MODULE MCCoordinator ---------------------------
(* Three requests at two coordinators that may take over from each other.  *)
EXTENDS Coordinator, TLC
Symmetry == Permutations(Node) \cup Permutations(Call)
=============================================================================
