--------------------------- MODULE MCMmoBattleFlow ---------------------------
(* Small instances of MmoBattleFlow for TLC.                               *)
EXTENDS MmoBattleFlow, TLC

Symmetry == Permutations(Peer)

LinkPayload == {"hello", "party", "bye"}
=============================================================================
