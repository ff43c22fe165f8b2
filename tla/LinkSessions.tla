---------------------------- MODULE LinkSessions ----------------------------
(***************************************************************************)
(* What the coordinator promises about pairing, without maps, messages or  *)
(* ids: every player goes through the states of docs/protocol.md:57-61,    *)
(* and enters and leaves "pending" and "battle" together with one partner. *)
(* The code has no such object: it keeps the pairing in four maps, whose   *)
(* agreement is what the refinement MmoCoordinator => LinkSessions shows.  *)
(***************************************************************************)
CONSTANT Peer

VARIABLES
  phase,    \* phase[p]: the state of p in docs/protocol.md:57-61
  partner   \* partner[p]: whom p is pending or in battle with, else p itself

svars == <<phase, partner>>

Phase == {"connected", "joined", "pending", "battle", "disconnected"}

Init ==
  /\ phase   = [p \in Peer |-> "connected"]
  /\ partner = [p \in Peer |-> p]

Join(p) ==
  /\ phase[p] = "connected"
  /\ phase' = [phase EXCEPT ![p] = "joined"]
  /\ UNCHANGED partner

\* Two free players become a pair ...
Pair(p, q) ==
  /\ p # q
  /\ phase[p] = "joined" /\ phase[q] = "joined"
  /\ phase'   = [phase EXCEPT ![p] = "pending", ![q] = "pending"]
  /\ partner' = [partner EXCEPT ![p] = q, ![q] = p]

\* ... that fights ...
Fight(p) ==
  /\ phase[p] = "pending"
  /\ phase' = [phase EXCEPT ![p] = "battle", ![partner[p]] = "battle"]
  /\ UNCHANGED partner

\* ... or parts, before or after the battle ...
Part(p) ==
  /\ phase[p] \in {"pending", "battle"}
  /\ phase'   = [phase EXCEPT ![p] = "joined", ![partner[p]] = "joined"]
  /\ partner' = [partner EXCEPT ![p] = p, ![partner[p]] = partner[p]]

\* ... also because one of the two is gone, which frees the other.
Drop(p) ==
  /\ phase[p] # "disconnected"
  /\ phase' = [q \in Peer |-> CASE q = p -> "disconnected"
                                [] q # p /\ partner[p] = q -> "joined"
                                [] OTHER -> phase[q]]
  /\ partner' = [partner EXCEPT ![p] = p, ![partner[p]] = partner[p]]

Next == \E p \in Peer :
  \/ Join(p)
  \/ \E q \in Peer : Pair(p, q)
  \/ Fight(p)
  \/ Part(p)
  \/ Drop(p)

Spec == Init /\ [][Next]_svars
=============================================================================
