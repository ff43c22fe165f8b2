-------------------------- MODULE MCMmoCoordinator --------------------------
(* A small instance of MmoCoordinator, and of its refinement, for TLC.     *)
EXTENDS MmoRefinesSessions, TLC

Symmetry == Permutations(Peer) \cup Permutations(Map)
=============================================================================
