--------------------------- MODULE MmoCoordinator ---------------------------
(***************************************************************************)
(* The MMO coordinator of the backend: the single in-memory object that    *)
(* keeps who is on which map, which challenges are open and which link     *)
(* battles run, and that tells every peer what it has to know.             *)
(* (backend/src/modules/mmo/application/mmo-coordinator.ts)                *)
(*                                                                         *)
(* Node runs one handler at a time, so one handler is one step.  A player  *)
(* is named by its connection: the program draws a fresh player id per     *)
(* connection, and a connection joins at most once.  The ids of challenges *)
(* and battles are numbered in the order in which they are drawn.          *)
(*                                                                         *)
(* sent[c] is what the last step passed to c's peer.send, in call order.   *)
(* Modules that put a network around the coordinator append it to their    *)
(* channels.                                                               *)
(***************************************************************************)
EXTENDS Naturals, Sequences, FiniteSets

CONSTANTS
  Peer,      \* the connections clients ever open
  Map,       \* map ids
  Pos,       \* positions (tile, pixel, facing, moving: opaque to the server)
  Payload,   \* link payloads, opaque to the server
  MaxDraws   \* bound: how many challenge and battle ids are ever drawn

ASSUME MaxDrawsAssumption == MaxDraws \in Nat

VARIABLES
  conn,       \* conn[c]: "connected", then "joined" (in both player maps), then "closed"
  place,      \* place[c]: where the joined player is
  battleOf,   \* battleOf[c]: PlayerState.battleId
  challenges, \* the pending challenges
  battles,    \* the running battles
  drawn,      \* how many ids randomUUID has returned for challenges and battles
  sent        \* sent[c]: the messages of the last step for c

players == <<conn, place, battleOf>>
matches == <<challenges, battles, drawn>>
state   == <<conn, place, battleOf, challenges, battles, drawn>>
vars    == <<conn, place, battleOf, challenges, battles, drawn, sent>>

NoBattle == 0
Nowhere  == [map |-> "none", pos |-> "none"]
Id       == Nat \ {0}
Place    == [map : Map, pos : Pos]

Challenge == [id : Id, from : Peer, to : Peer]
Battle    == [id : Id, host : Peer, guest : Peer]
Members(b) == {b.host, b.guest}
Parties(ch) == {ch.from, ch.to}

(***************************************************************************)
(* What a client may say.  A client can name any player and any id, also   *)
(* ones that are not or no longer valid.                                   *)
(***************************************************************************)
KnownIds == 1..MaxDraws

ClientMessage ==
       [type : {"join_world", "move"}, map : Map, pos : Pos]
  \cup [type : {"challenge"}, target : Peer]
  \cup [type : {"challenge_reply"}, id : KnownIds, accept : BOOLEAN]
  \cup [type : {"battle_message"}, id : KnownIds, payload : Payload]
  \cup [type : {"battle_end"}, id : KnownIds]
  \cup [type : {"ping"}]

-----------------------------------------------------------------------------
(* Messages to peers.                                                      *)

Quiet       == [c \in Peer |-> <<>>]
ToAll(S, m) == [c \in Peer |-> IF c \in S THEN <<m>> ELSE <<>>]
To(p, m)    == ToAll({p}, m)
s ++ t      == [c \in Peer |-> s[c] \o t[c]]
Error(code) == [type |-> "error", code |-> code]

Joined    == {c \in Peer : conn[c] = "joined"}
OnMap(m)  == {c \in Joined : place[c].map = m}
Public(c, at) == [id |-> c, map |-> at.map, pos |-> at.pos]

\* Mutant of Snapshot: everybody is in it, whatever his map.
SnapshotEverywhere(c, m) ==
  To(c, [type |-> "snapshot", map |-> m, players |-> {Public(q, place[q]) : q \in Joined \ {c}}])
\* What a player that enters a map is shown of the others there.
Snapshot(c, m) ==
  LET others == {Public(q, place[q]) : q \in OnMap(m) \ {c}}
  IN  To(c, [type |-> "snapshot", map |-> m, players |-> others])
      ++ To(c, [type |-> "world_snapshot", map |-> m, players |-> others])

-----------------------------------------------------------------------------
(* join_world *)

\* Mutant of OnHello: the player is registered but his position is not kept.
HelloWithoutPlace(c, at) ==
  /\ conn[c] = "connected"
  /\ conn' = [conn EXCEPT ![c] = "joined"]
  /\ sent' = Quiet
  /\ UNCHANGED <<place, battleOf, matches>>
OnHello(c, at) ==
  \/ /\ conn[c] = "joined"
     /\ sent' = To(c, Error("already_initialized"))
     /\ UNCHANGED state
  \/ /\ conn[c] = "connected"
     /\ conn'  = [conn EXCEPT ![c] = "joined"]
     /\ place' = [place EXCEPT ![c] = at]
     /\ sent'  = To(c, [type |-> "welcome", id |-> c])
                 ++ Snapshot(c, at.map)
                 ++ ToAll(OnMap(at.map), [type |-> "player_joined", player |-> Public(c, at)])
     /\ UNCHANGED <<battleOf, matches>>

(* Every other message of a connection that has not joined. *)
NotInitialized(c) ==
  /\ conn[c] = "connected"
  /\ sent' = To(c, Error("not_initialized"))
  /\ UNCHANGED state

(* move *)

OnMove(c, at) ==
  \/ /\ battleOf[c] # NoBattle
     /\ sent' = To(c, Error("in_battle"))
     /\ UNCHANGED state
  \/ /\ battleOf[c] = NoBattle
     /\ place' = [place EXCEPT ![c] = at]
     /\ LET old  == OnMap(place[c].map) \ {c}
            here == OnMap(at.map) \ {c}
        IN  sent' = IF place[c].map # at.map
                    THEN ToAll(old, [type |-> "player_left", id |-> c])
                         ++ Snapshot(c, at.map)
                         ++ ToAll(here, [type |-> "player_joined", player |-> Public(c, at)])
                    ELSE ToAll(here, [type |-> "player_moved", player |-> Public(c, at)])
     /\ UNCHANGED <<conn, battleOf, matches>>

(* challenge *)

Available(c, t) == t \in Joined /\ place[t].map = place[c].map
Fighting(c)     == battleOf[c] # NoBattle
\* Mutant of Pending: a player who was challenged still counts as free.
OwnChallenge(c) == \E ch \in challenges : c = ch.from
Pending(c)      == \E ch \in challenges : c \in Parties(ch)

OnChallenge(c, t) ==
  \/ /\ ~Available(c, t)
     /\ sent' = To(c, Error("target_unavailable"))
     /\ UNCHANGED state
  \/ /\ Available(c, t)
     /\ t = c \/ Fighting(t) \/ Fighting(c)
     /\ sent' = To(c, Error("cannot_challenge"))
     /\ UNCHANGED state
  \/ /\ Available(c, t)
     /\ t # c /\ ~Fighting(t) /\ ~Fighting(c)
     /\ Pending(c) \/ Pending(t)
     /\ sent' = To(c, Error("challenge_pending"))
     /\ UNCHANGED state
  \/ /\ Available(c, t)
     /\ t # c /\ ~Fighting(t) /\ ~Fighting(c)
     /\ ~Pending(c) /\ ~Pending(t)
     /\ drawn < MaxDraws
     /\ drawn' = drawn + 1
     /\ challenges' = challenges \cup {[id |-> drawn', from |-> c, to |-> t]}
     /\ sent' = To(c, [type |-> "challenge_sent", id |-> drawn', target |-> t])
                ++ To(t, [type |-> "challenge_received", id |-> drawn', from |-> c])
     /\ UNCHANGED <<players, battles>>

(* challenge_reply *)

\* Mutant of Refused: the maps are not compared again at the reply.
RefusedAnywhere(c, ch) == ch.from \notin Joined \/ Fighting(ch.from) \/ Fighting(c)
\* The reply is answered, and the challenge gone, before the challenger is
\* found to have left the map.
Refused(c, ch) ==
  \/ ch.from \notin Joined
  \/ place[ch.from].map # place[c].map
  \/ Fighting(ch.from)
  \/ Fighting(c)

OnChallengeReply(c, id, accept) ==
  \/ /\ ~\E ch \in challenges : ch.id = id /\ ch.to = c
     /\ sent' = To(c, Error("challenge_not_found"))
     /\ UNCHANGED state
  \/ \E ch \in challenges :
       /\ ch.id = id /\ ch.to = c
       /\ challenges' = challenges \ {ch}
       /\ UNCHANGED <<conn, place>>
       /\ \/ /\ Refused(c, ch)
             /\ sent' = To(c, Error("challenger_unavailable"))
             /\ UNCHANGED <<battleOf, battles, drawn>>
          \/ /\ ~Refused(c, ch)
             /\ ~accept
             /\ sent' = ToAll(Parties(ch), [type |-> "challenge_declined", id |-> id])
             /\ UNCHANGED <<battleOf, battles, drawn>>
          \/ /\ ~Refused(c, ch)
             /\ accept
             /\ drawn < MaxDraws
             /\ drawn'    = drawn + 1
             /\ battles'  = battles \cup {[id |-> drawn', host |-> ch.from, guest |-> c]}
             /\ battleOf' = [battleOf EXCEPT ![ch.from] = drawn', ![c] = drawn']
             /\ sent' = To(ch.from, [type |-> "battle_start", id |-> drawn',
                                     role |-> "host", opponent |-> c])
                        ++ To(c, [type |-> "battle_start", id |-> drawn',
                                  role |-> "guest", opponent |-> ch.from])

(* battle_message *)

\* Mutant of OnBattleMessage: the payload also comes back to its sender.
EchoBattleMessage(c, msg) ==
  \E b \in battles :
    /\ b.id = msg.id /\ battleOf[c] = b.id /\ c \in Members(b)
    /\ sent' = ToAll(Members(b), [type |-> "battle_message", id |-> b.id, from |-> c,
                                   payload |-> msg.payload])
    /\ UNCHANGED state
OnBattleMessage(c, msg) ==
  \/ /\ ~\E b \in battles : b.id = msg.id /\ battleOf[c] = b.id /\ c \in Members(b)
     /\ sent' = To(c, Error("battle_not_found"))
     /\ UNCHANGED state
  \/ \E b \in battles :
       /\ b.id = msg.id /\ battleOf[c] = b.id /\ c \in Members(b)
       /\ sent' = ToAll((Members(b) \ {c}) \cap Joined,
                        [type |-> "battle_message", id |-> b.id, from |-> c, payload |-> msg.payload])
       /\ UNCHANGED state

(* battle_end, and the end of a battle one of whose players disconnects *)

Ending(c, id) == {b \in battles : b.id = id /\ c \in Members(b)}
\* Mutant of InEnding: only the player who ends the battle is freed and told.
SenderOnly(c, id) == IF Ending(c, id) = {} THEN {} ELSE {c}
InEnding(c, id) == UNION {Members(b) : b \in Ending(c, id)}

OnBattleEnd(c, id) ==
  LET told == InEnding(c, id) \cap Joined
  IN  /\ battles'  = battles \ Ending(c, id)
      /\ battleOf' = [q \in Peer |-> IF q \in told THEN NoBattle ELSE battleOf[q]]
      /\ sent' = ToAll(told, [type |-> "battle_ended", id |-> id, reason |-> "ended"])
      /\ UNCHANGED <<conn, place, challenges, drawn>>

(* ping *)

OnPing(c) ==
  /\ sent' = To(c, [type |-> "pong"])
  /\ UNCHANGED state

-----------------------------------------------------------------------------
Handle(c, msg) ==
  \/ msg.type = "join_world" /\ OnHello(c, [map |-> msg.map, pos |-> msg.pos])
  \/ msg.type # "join_world" /\ NotInitialized(c)
  \/ /\ conn[c] = "joined"
     /\ \/ msg.type = "move" /\ OnMove(c, [map |-> msg.map, pos |-> msg.pos])
        \/ msg.type = "challenge" /\ OnChallenge(c, msg.target)
        \/ msg.type = "challenge_reply" /\ OnChallengeReply(c, msg.id, msg.accept)
        \/ msg.type = "battle_message" /\ OnBattleMessage(c, msg)
        \/ msg.type = "battle_end" /\ OnBattleEnd(c, msg.id)
        \/ msg.type = "ping" /\ OnPing(c)

\* Mutant of ChallengesOf: only the challenges the player has sent go with him.
SentBy(c) == {ch \in challenges : c = ch.from}
ChallengesOf(c) == {ch \in challenges : c \in Parties(ch)}

(* What removeChallengesFor tells the other party of c's challenge.  A     *)
(* player is party to at most one challenge (OneEngagement), so at most    *)
(* one cancellation reaches anyone.                                        *)
\* Mutant of CancelNotices: the challenge goes without a word.
NoNotices(c) == Quiet
CancelNotices(c) ==
  LET Lost(q) == {ch \in challenges : Parties(ch) = {c, q}}
  IN  [q \in Peer |->
         IF q \in Joined \ {c} /\ Lost(q) # {}
         THEN <<[type |-> "challenge_cancelled", id |-> (CHOOSE ch \in Lost(q) : TRUE).id]>>
         ELSE <<>>]

(* The connection is gone.  Its player is taken out of both maps first, so *)
(* nothing of what follows reaches it.                                     *)
Disconnect(c) ==
  \/ /\ conn[c] = "connected"
     /\ conn' = [conn EXCEPT ![c] = "closed"]
     /\ sent' = Quiet
     /\ UNCHANGED <<place, battleOf, matches>>
  \/ /\ conn[c] = "joined"
     /\ conn'  = [conn EXCEPT ![c] = "closed"]
     /\ place' = [place EXCEPT ![c] = Nowhere]
     /\ drawn' = drawn
     /\ LET opponent == InEnding(c, battleOf[c]) \cap (Joined \ {c})
        IN  /\ challenges' = challenges \ ChallengesOf(c)
            /\ battles'    = battles \ Ending(c, battleOf[c])
            /\ battleOf'   = [q \in Peer |-> IF q \in opponent \cup {c} THEN NoBattle ELSE battleOf[q]]
            /\ sent' = CancelNotices(c)
                       ++ ToAll(opponent, [type |-> "battle_ended", id |-> battleOf[c],
                                           reason |-> "opponent_disconnected"])
                       ++ ToAll(OnMap(place[c].map) \ {c}, [type |-> "player_left", id |-> c])

Init ==
  /\ conn       = [c \in Peer |-> "connected"]
  /\ place      = [c \in Peer |-> Nowhere]
  /\ battleOf   = [c \in Peer |-> NoBattle]
  /\ challenges = {}
  /\ battles    = {}
  /\ drawn      = 0
  /\ sent       = Quiet

Next == \E c \in Peer : Disconnect(c) \/ \E msg \in ClientMessage : Handle(c, msg)

Spec == Init /\ [][Next]_vars
-----------------------------------------------------------------------------
(* Properties.                                                             *)

\* Every variable holds a value of its kind: the record types of the maps of
\* mmo-coordinator.ts:29-32.
TypeOK ==
  /\ conn \in [Peer -> {"connected", "joined", "closed"}]
  /\ place \in [Peer -> Place \cup {Nowhere}]
  /\ \A c \in Joined : place[c] \in Place
  /\ battleOf \in [Peer -> Nat]
  /\ challenges \subseteq Challenge
  /\ battles \subseteq Battle
  /\ drawn \in 0..MaxDraws

\* A player is party to at most one pending challenge or running battle, and
\* nobody challenges or fights himself: what onChallenge's checks are for, also
\* after any sequence of replies, map changes, endings and disconnections.
OneEngagement ==
  /\ \A x, y \in challenges : Parties(x) \cap Parties(y) # {} => x = y
  /\ \A x, y \in battles : Members(x) \cap Members(y) # {} => x = y
  /\ \A ch \in challenges, b \in battles : Parties(ch) \cap Members(b) = {}
  /\ \A ch \in challenges : ch.from # ch.to
  /\ \A b \in battles : b.host # b.guest

\* The two books of a battle agree: PlayerState.battleId names a battle exactly
\* for the two joined players that the battle names.
BattleBooks ==
  \A c \in Peer :
    /\ \A b \in battles : c \in Members(b) <=> battleOf[c] = b.id
    /\ Fighting(c) => \E b \in battles : b.id = battleOf[c]

\* No challenge and no battle names a player who has not joined or has left.
OnlyJoinedEngaged ==
  /\ \A ch \in challenges : Parties(ch) \subseteq Joined
  /\ \A b \in battles : Members(b) \subseteq Joined

\* Two fighters stand on one map for as long as their battle runs: the check at
\* the reply and the refusal of moves in battle together keep them there.
FightersShareMap ==
  \A b \in battles : place[b.host].map = place[b.guest].map

Told(c, types) == \E i \in DOMAIN sent'[c] : sent'[c][i].type \in types
EndNotices(c, id) ==
  {i \in DOMAIN sent'[c] : sent'[c][i].type = "battle_ended" /\ sent'[c][i].id = id}

\* A battle that ends is reported once to each of its players who is still
\* there, and nobody is told of the end of a battle that was not his.
EndsReported ==
  /\ \A b \in battles \ battles' : \A c \in Members(b) \cap Joined' :
       Cardinality(EndNotices(c, b.id)) = 1
  /\ \A c \in Peer : Told(c, {"battle_ended"}) =>
       \E b \in battles \ battles' : c \in Members(b)
EndsAreReported == [][EndsReported]_vars

\* In the same step o is told what c is told in m, with the other role.
Answered(c, o, m) ==
  \E j \in DOMAIN sent'[o] : \E r \in {"host", "guest"} :
    r # m.role /\ sent'[o][j] = [type |-> "battle_start", id |-> m.id, role |-> r, opponent |-> c]

\* A battle starts with both players told in the same step, each of the other,
\* in complementary roles, standing on one map and free until then.
StartsPaired ==
  \A c \in Peer : \A i \in DOMAIN sent'[c] :
    sent'[c][i].type = "battle_start" =>
      LET m == sent'[c][i]
          o == m.opponent
      IN  /\ o # c /\ ~Fighting(c) /\ ~Fighting(o)
          /\ place[c].map = place[o].map
          /\ \E ch \in challenges \ challenges' : Parties(ch) = {c, o}
          /\ Answered(c, o, m)
StartsArePaired == [][StartsPaired]_vars

\* Link payloads stay inside their battle: one reaches a player only from the
\* opponent of the battle he is in, and bears the id of that battle.
PayloadsInBattle ==
  \A c \in Peer : \A i \in DOMAIN sent'[c] :
    sent'[c][i].type = "battle_message" =>
      \E b \in battles : /\ Members(b) = {c, sent'[c][i].from}
                         /\ battleOf[c] = b.id /\ b.id = sent'[c][i].id
PayloadsStayInBattle == [][PayloadsInBattle]_vars

\* When a challenge is settled both parties who are still there hear of it, with
\* the one exception the code makes: a challenger who has walked to another map
\* is not told that the reply was refused (onChallengeReply lines 151-154).
SettledReported ==
  \A ch \in challenges \ challenges' : \A c \in Parties(ch) \cap Joined' :
    \/ Told(c, {"challenge_declined", "challenge_cancelled", "battle_start"})
    \/ c = ch.to /\ Told(c, {"error"})
    \/ c = ch.from /\ place[ch.from].map # place[ch.to].map
SettledChallengesAreReported == [][SettledReported]_vars
=============================================================================
