---------------------------- MODULE MCLinkBattle ----------------------------
(* Small instances of LinkBattle for TLC.                                  *)
EXTENDS LinkBattle

\* The move list as the battle began with it, and in any order.
AsBegun   == {<<1, 2>>}
Reordered == AsBegun \cup {<<2, 1>>}

\* Nothing decisive happens.
Quiet == {[by |-> "move", outs |-> <<>>]}
QuietOrOut == Quiet \cup {[by |-> "move", outs |-> <<"guest">>]}
\* All that can decide the battle but for the roles of host and guest, which the
\* model tells apart only by the order in a signature.
GuestFirst ==
  Quiet \cup {d \in Fate : d.outs # <<>> /\ Head(d.outs) = "guest"
                           /\ (d.by = "move" \/ Len(d.outs) = 1)}

\* Behind a decisive turn no turn is executed, so it does not matter what it would bring.
Start ==
  Init /\ \A n \in 2..MaxTurns : fate[n - 1].outs # <<>> => fate[n] \in Quiet

StartFair == Start /\ [][Next]_vars /\ Fairness
=============================================================================
