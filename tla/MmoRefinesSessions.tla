-------------------------- MODULE MmoRefinesSessions --------------------------
(***************************************************************************)
(* The coordinator implements LinkSessions: the phase and the partner of a *)
(* player are read off the connection, challenge and battle books.         *)
(***************************************************************************)
EXTENDS MmoCoordinator

phaseOf == [c \in Peer |->
  IF conn[c] = "connected" THEN "connected"
  ELSE IF conn[c] = "closed" THEN "disconnected"
  ELSE IF Fighting(c) THEN "battle"
  ELSE IF Pending(c) THEN "pending"
  ELSE "joined"]

\* The players c is engaged with, read off the challenges and the battles.
Engagements(c) == {Parties(ch) : ch \in {x \in challenges : c \in Parties(x)}}
                  \cup {Members(b) : b \in {x \in battles : c \in Members(x)}}
Others(c) == (UNION Engagements(c)) \ {c}

partnerOf == [c \in Peer |-> IF Others(c) = {} THEN c ELSE CHOOSE q \in Others(c) : TRUE]

Sessions == INSTANCE LinkSessions WITH phase <- phaseOf, partner <- partnerOf

\* Every step of the coordinator is a step of LinkSessions, or changes nothing
\* there: players are paired and parted two at a time, and only as
\* docs/protocol.md:55-66 allows.
ImplementsSessions == Sessions!Spec
=============================================================================
