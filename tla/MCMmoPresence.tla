---------------------------- MODULE MCMmoPresence ----------------------------
(* Small instances of MmoPresence for TLC.                                 *)
EXTENDS MmoPresence

CONSTANT x \* the position in which all players start

\* One pair may challenge and fight: the first challenge is id 1, its battle id 2.
BattleApp ==
  [type : {"challenge"}, target : Peer]
  \cup [type : {"challenge_reply"}, id : {1}, accept : {TRUE}]
  \cup [type : {"battle_end"}, id : {2}]

\* Positions only matter when they change, so all may start in the same one.
Start == PresenceInit /\ \A c \in Peer : here[c].pos = x
StartFair == Start /\ [][PresenceNext]_allVars /\ Fairness
=============================================================================
