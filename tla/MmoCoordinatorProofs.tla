------------------------ MODULE MmoCoordinatorProofs ------------------------
(***************************************************************************)
(* Proofs about the coordinator, for every set of peers, maps and positions*)
(* and every bound on the ids: its safety, what each of its steps tells the*)
(* peers, and that it implements LinkSessions.                             *)
(*                                                                         *)
(* None of the invariants is inductive by itself.  That a player is in one *)
(* battle rests on battleOf naming it, that battleOf names it rests on ids *)
(* never being drawn twice, and that two fighters share a map rests on     *)
(* battleOf being set while they fight.  IInv puts them together with the  *)
(* freshness of ids.                                                       *)
(***************************************************************************)
EXTENDS MmoRefinesSessions, ListInduction, SequenceTheorems, FiniteSetTheorems, TLAPS

\* An id names one challenge or battle, and is among those drawn.
FreshIds ==
  /\ \A ch \in challenges : ch.id <= drawn
  /\ \A b \in battles : b.id <= drawn
  /\ \A x, y \in challenges : x.id = y.id => x = y
  /\ \A x, y \in battles : x.id = y.id => x = y

IInv ==
  /\ TypeOK
  /\ FreshIds
  /\ OneEngagement
  /\ BattleBooks
  /\ OnlyJoinedEngaged
  /\ FightersShareMap

-----------------------------------------------------------------------------
LEMMA InitIInv == Init => IInv
  BY MaxDrawsAssumption
  DEF Init, IInv, TypeOK, FreshIds, OneEngagement, BattleBooks, OnlyJoinedEngaged,
      FightersShareMap, Joined, Fighting, NoBattle

\* A step that leaves the coordinator's state alone keeps IInv.
LEMMA StutterIInv == IInv /\ UNCHANGED state => IInv'
  BY DEF state, IInv, TypeOK, FreshIds, OneEngagement, BattleBooks, OnlyJoinedEngaged,
         FightersShareMap, Joined, Fighting

\* Someone who is in a battle has joined, and is not in a challenge.
LEMMA FighterFacts ==
  ASSUME IInv, NEW c \in Peer, Fighting(c)
  PROVE  /\ c \in Joined
         /\ ~Pending(c)
         /\ \E b \in battles : c \in Members(b) /\ b.id = battleOf[c]
  BY DEF IInv, OneEngagement, BattleBooks, OnlyJoinedEngaged, Pending

\* Someone who is not in a battle is a member of none.
LEMMA NonFighterFacts ==
  ASSUME IInv, NEW c \in Peer, ~Fighting(c)
  PROVE  \A b \in battles : c \notin Members(b)
  BY DEF IInv, TypeOK, BattleBooks, Fighting, NoBattle, Battle, Id

LEMMA HelloIInv ==
  ASSUME IInv, NEW c \in Peer, NEW at \in Place, OnHello(c, at)
  PROVE  IInv'
<1>1. CASE UNCHANGED state
  BY <1>1, StutterIInv
<1>2. CASE /\ conn[c] = "connected"
           /\ conn'  = [conn EXCEPT ![c] = "joined"]
           /\ place' = [place EXCEPT ![c] = at]
           /\ UNCHANGED <<battleOf, matches>>
  <2> USE <1>2 DEF matches
  <2>1. TypeOK'
    BY DEF IInv, TypeOK, Joined
  <2>2. Joined \subseteq Joined'
    BY DEF Joined, IInv, TypeOK
  <2>3. c \notin Joined
    BY DEF Joined
  <2>4. FreshIds' /\ OneEngagement' /\ BattleBooks'
    BY DEF IInv, FreshIds, OneEngagement, BattleBooks, Fighting
  <2>5. OnlyJoinedEngaged'
    BY <2>2 DEF IInv, OnlyJoinedEngaged
  <2>6. FightersShareMap'
    <3> SUFFICES ASSUME NEW b \in battles PROVE place'[b.host].map = place'[b.guest].map
      BY DEF FightersShareMap
    <3>1. b.host # c /\ b.guest # c /\ b.host \in Peer /\ b.guest \in Peer
      BY <2>3 DEF IInv, OnlyJoinedEngaged, Members, TypeOK, Battle
    <3> QED BY <3>1 DEF IInv, FightersShareMap, TypeOK
  <2> QED BY <2>1, <2>4, <2>5, <2>6 DEF IInv
<1> QED BY <1>1, <1>2 DEF OnHello

LEMMA MoveIInv ==
  ASSUME IInv, NEW c \in Peer, NEW at \in Place, c \in Joined, OnMove(c, at)
  PROVE  IInv'
<1>1. CASE UNCHANGED state
  BY <1>1, StutterIInv
<1>2. CASE /\ battleOf[c] = NoBattle
           /\ place' = [place EXCEPT ![c] = at]
           /\ UNCHANGED <<conn, battleOf, matches>>
  <2> USE <1>2 DEF matches
  <2>1. TypeOK'
    BY DEF IInv, TypeOK, Joined
  <2>2. FreshIds' /\ OneEngagement' /\ BattleBooks' /\ OnlyJoinedEngaged'
    BY DEF IInv, FreshIds, OneEngagement, BattleBooks, OnlyJoinedEngaged, Fighting, Joined
  <2>3. FightersShareMap'
    <3> SUFFICES ASSUME NEW b \in battles PROVE place'[b.host].map = place'[b.guest].map
      BY DEF FightersShareMap
    <3>1. b.host # c /\ b.guest # c /\ b.host \in Peer /\ b.guest \in Peer
      BY NonFighterFacts DEF IInv, Members, TypeOK, Battle, Fighting
    <3> QED BY <3>1 DEF IInv, FightersShareMap, TypeOK
  <2> QED BY <2>1, <2>2, <2>3 DEF IInv
<1> QED BY <1>1, <1>2 DEF OnMove

LEMMA ChallengeIInv ==
  ASSUME IInv, NEW c \in Peer, NEW t \in Peer, c \in Joined, OnChallenge(c, t)
  PROVE  IInv'
<1>1. CASE UNCHANGED state
  BY <1>1, StutterIInv
<1>2. CASE /\ Available(c, t)
           /\ t # c /\ ~Fighting(t) /\ ~Fighting(c)
           /\ ~Pending(c) /\ ~Pending(t)
           /\ drawn < MaxDraws
           /\ drawn' = drawn + 1
           /\ challenges' = challenges \cup {[id |-> drawn', from |-> c, to |-> t]}
           /\ UNCHANGED <<players, battles>>
  <2> DEFINE new == [id |-> drawn + 1, from |-> c, to |-> t]
  <2> USE <1>2 DEF players
  <2>1. /\ new \in Challenge /\ drawn \in Nat /\ drawn' \in 0..MaxDraws
        /\ challenges' = challenges \cup {new}
        /\ Parties(new) = {c, t}
    BY MaxDrawsAssumption DEF IInv, TypeOK, Challenge, Id, Parties
  <2>2. TypeOK'
    BY <2>1 DEF IInv, TypeOK, Joined
  <2>3. FreshIds'
    BY <2>1 DEF IInv, TypeOK, FreshIds, Challenge, Battle, Id
  <2>4. OneEngagement'
    <3>1. \A x \in challenges : Parties(x) \cap Parties(new) = {}
      BY <2>1 DEF Pending
    <3>2. \A b \in battles : Parties(new) \cap Members(b) = {}
      BY <2>1, NonFighterFacts
    <3> QED BY <2>1, <3>1, <3>2 DEF IInv, OneEngagement
  <2>5. BattleBooks' /\ FightersShareMap'
    BY DEF IInv, BattleBooks, FightersShareMap, Fighting
  <2>6. OnlyJoinedEngaged'
    BY <2>1 DEF IInv, OnlyJoinedEngaged, Joined, Available
  <2> QED BY <2>2, <2>3, <2>4, <2>5, <2>6 DEF IInv
<1> QED BY <1>1, <1>2 DEF OnChallenge

\* Challenges can go without anything else changing: a reply refused or declined.
LEMMA FewerChallengesIInv ==
  ASSUME IInv, challenges' \subseteq challenges,
         UNCHANGED <<conn, place, battleOf, battles, drawn>>
  PROVE  IInv'
  BY DEF IInv, TypeOK, FreshIds, OneEngagement, BattleBooks, OnlyJoinedEngaged,
         FightersShareMap, Joined, Fighting

LEMMA AcceptIInv ==
  ASSUME IInv, NEW c \in Peer, c \in Joined,
         NEW ch \in challenges, ch.to = c, ~Refused(c, ch), drawn < MaxDraws,
         challenges' = challenges \ {ch},
         UNCHANGED <<conn, place>>,
         drawn' = drawn + 1,
         battles' = battles \cup {[id |-> drawn', host |-> ch.from, guest |-> c]},
         battleOf' = [battleOf EXCEPT ![ch.from] = drawn', ![c] = drawn']
  PROVE  IInv'
<1> DEFINE new == [id |-> drawn + 1, host |-> ch.from, guest |-> c]
<1>1. /\ ch.from \in Peer /\ ch.from # c /\ ch.from \in Joined
      /\ ~Fighting(ch.from) /\ ~Fighting(c)
      /\ place[ch.from].map = place[c].map
      /\ Parties(ch) = {ch.from, c}
  BY DEF Refused, IInv, TypeOK, OneEngagement, Challenge, Parties
<1>2. /\ new \in Battle /\ drawn \in Nat /\ drawn' \in 0..MaxDraws
      /\ battles' = battles \cup {new}
      /\ Members(new) = {ch.from, c}
      /\ new.id = drawn + 1 /\ new.host = ch.from /\ new.guest = c
  BY <1>1, MaxDrawsAssumption DEF IInv, TypeOK, Battle, Id, Members
<1>3. \A b \in battles : Members(b) \cap Members(new) = {}
  BY <1>1, <1>2, NonFighterFacts
<1>4. TypeOK'
  BY <1>1, <1>2 DEF IInv, TypeOK, Joined
<1>5. FreshIds'
  BY <1>1, <1>2 DEF IInv, TypeOK, FreshIds, Challenge, Battle, Id
<1>6. OneEngagement'
  <2>1. \A x \in challenges' : Parties(x) \cap Members(new) = {}
    BY <1>1, <1>2 DEF IInv, OneEngagement
  <2> QED BY <1>1, <1>2, <1>3, <2>1 DEF IInv, OneEngagement
<1>7. BattleBooks'
  <2> SUFFICES ASSUME NEW q \in Peer
               PROVE  /\ \A b \in battles' : q \in Members(b) <=> battleOf'[q] = b.id
                      /\ Fighting(q)' => \E b \in battles' : b.id = battleOf'[q]
    BY DEF BattleBooks
  <2>0. battleOf \in [Peer -> Nat]
    BY DEF IInv, TypeOK
  <2>1. CASE q \in Members(new)
    <3>1. battleOf'[q] = drawn + 1
      BY <1>1, <1>2, <2>0, <2>1
    <3>2. \A b \in battles : q \notin Members(b) /\ b.id # drawn + 1
      BY <1>2, <1>3, <2>1 DEF IInv, FreshIds, TypeOK, Battle, Id
    <3> QED BY <1>2, <2>1, <3>1, <3>2
  <2>2. CASE q \notin Members(new)
    <3>1. battleOf'[q] = battleOf[q]
      BY <1>1, <1>2, <2>0, <2>2
    <3>2. battleOf[q] # drawn + 1
      <4>1. CASE Fighting(q)
        BY <4>1, <1>2 DEF IInv, BattleBooks, FreshIds, TypeOK, Battle, Id
      <4>2. CASE ~Fighting(q)
        BY <4>2, <1>2 DEF Fighting, NoBattle
      <4> QED BY <4>1, <4>2
    <3>3. Fighting(q)' <=> Fighting(q)
      BY <3>1 DEF Fighting
    <3> HIDE DEF new
    <3>4. \A b \in battles : q \in Members(b) <=> battleOf'[q] = b.id
      BY <3>1 DEF IInv, BattleBooks
    <3>5. q \in Members(new) <=> battleOf'[q] = new.id
      BY <1>2, <2>2, <3>1, <3>2
    <3>6. Fighting(q)' => \E b \in battles : b.id = battleOf'[q]
      BY <3>1, <3>3 DEF IInv, BattleBooks
    <3> QED BY <1>2, <3>4, <3>5, <3>6
  <2> QED BY <2>1, <2>2
<1>8. OnlyJoinedEngaged'
  BY <1>1, <1>2 DEF IInv, OnlyJoinedEngaged, Joined
<1>9. FightersShareMap'
  BY <1>1, <1>2 DEF IInv, FightersShareMap
<1> QED BY <1>4, <1>5, <1>6, <1>7, <1>8, <1>9 DEF IInv

LEMMA ReplyIInv ==
  ASSUME IInv, NEW c \in Peer, NEW id, NEW accept, c \in Joined,
         OnChallengeReply(c, id, accept)
  PROVE  IInv'
<1>1. CASE UNCHANGED state
  BY <1>1, StutterIInv
<1>2. CASE \E ch \in challenges : /\ challenges' = challenges \ {ch}
                                  /\ UNCHANGED <<conn, place, battleOf, battles, drawn>>
  BY <1>2, FewerChallengesIInv
<1>3. CASE \E ch \in challenges :
             /\ ch.to = c
             /\ challenges' = challenges \ {ch}
             /\ UNCHANGED <<conn, place>>
             /\ ~Refused(c, ch)
             /\ drawn < MaxDraws
             /\ drawn' = drawn + 1
             /\ battles' = battles \cup {[id |-> drawn', host |-> ch.from, guest |-> c]}
             /\ battleOf' = [battleOf EXCEPT ![ch.from] = drawn', ![c] = drawn']
  BY <1>3, AcceptIInv
<1> QED BY <1>1, <1>2, <1>3 DEF OnChallengeReply

\* The battles that c ends with id go, with the battleId of everyone in them.
LEMMA EndingFacts ==
  ASSUME IInv, NEW c \in Peer, NEW id, NEW gone,
         battles' = battles \ Ending(c, id),
         battleOf' = [q \in Peer |-> IF q \in InEnding(c, id) \cup gone THEN NoBattle ELSE battleOf[q]],
         \A q \in gone : q \in InEnding(c, id) \/ battleOf[q] = NoBattle
  PROVE  BattleBooks'
<1> SUFFICES ASSUME NEW q \in Peer
             PROVE  /\ \A b \in battles' : q \in Members(b) <=> battleOf'[q] = b.id
                    /\ Fighting(q)' => \E b \in battles' : b.id = battleOf'[q]
  BY DEF BattleBooks
<1>1. CASE q \in InEnding(c, id)
  <2>1. battleOf'[q] = NoBattle
    BY <1>1
  <2>2. \A b \in battles' : q \notin Members(b)
    BY <1>1 DEF IInv, OneEngagement, InEnding, Ending
  <2>3. \A b \in battles' : b.id # NoBattle
    BY DEF IInv, TypeOK, Battle, Id, NoBattle
  <2> QED BY <2>1, <2>2, <2>3 DEF Fighting
<1>2. CASE q \notin InEnding(c, id)
  <2>1. battleOf'[q] = battleOf[q]
    BY <1>2
  <2>2. \A b \in battles : q \in Members(b) => b \in battles'
    BY <1>2 DEF InEnding
  <2> QED BY <2>1, <2>2 DEF IInv, BattleBooks, Fighting
<1> QED BY <1>1, <1>2

LEMMA BattleEndIInv ==
  ASSUME IInv, NEW c \in Peer, NEW id, c \in Joined, OnBattleEnd(c, id)
  PROVE  IInv'
<1>1. InEnding(c, id) \subseteq Joined
  BY DEF IInv, OnlyJoinedEngaged, InEnding, Ending
<1>2. /\ battles' = battles \ Ending(c, id)
      /\ battleOf' = [q \in Peer |-> IF q \in InEnding(c, id) \cup {} THEN NoBattle ELSE battleOf[q]]
      /\ UNCHANGED <<conn, place, challenges, drawn>>
  BY <1>1 DEF OnBattleEnd
<1>3. BattleBooks'
  BY <1>2, EndingFacts
<1>4. TypeOK'
  BY <1>2 DEF IInv, TypeOK, Joined, NoBattle
<1>5. FreshIds' /\ OneEngagement' /\ OnlyJoinedEngaged' /\ FightersShareMap'
  BY <1>2 DEF IInv, FreshIds, OneEngagement, OnlyJoinedEngaged, FightersShareMap, Joined
<1> QED BY <1>3, <1>4, <1>5 DEF IInv

LEMMA DisconnectIInv ==
  ASSUME IInv, NEW c \in Peer, Disconnect(c)
  PROVE  IInv'
<1>1. CASE /\ conn[c] = "connected"
           /\ conn' = [conn EXCEPT ![c] = "closed"]
           /\ UNCHANGED <<place, battleOf, matches>>
  <2>1. Joined' = Joined
    BY <1>1 DEF Joined, IInv, TypeOK
  <2> QED BY <1>1, <2>1 DEF matches, IInv, TypeOK, FreshIds, OneEngagement, BattleBooks,
                            OnlyJoinedEngaged, FightersShareMap, Fighting
<1>2. CASE /\ conn[c] = "joined"
           /\ conn' = [conn EXCEPT ![c] = "closed"]
           /\ place' = [place EXCEPT ![c] = Nowhere]
           /\ drawn' = drawn
           /\ challenges' = challenges \ ChallengesOf(c)
           /\ battles' = battles \ Ending(c, battleOf[c])
           /\ battleOf' = [q \in Peer |->
                             IF q \in (InEnding(c, battleOf[c]) \cap (Joined \ {c})) \cup {c}
                             THEN NoBattle ELSE battleOf[q]]
  <2>1. Joined' = Joined \ {c}
    BY <1>2 DEF Joined, IInv, TypeOK
  <2>2. InEnding(c, battleOf[c]) \subseteq Joined
    BY DEF IInv, OnlyJoinedEngaged, InEnding, Ending
  <2>3. c \in InEnding(c, battleOf[c]) \/ battleOf[c] = NoBattle
    BY DEF IInv, BattleBooks, Fighting, InEnding, Ending
  <2>4. (InEnding(c, battleOf[c]) \cap (Joined \ {c})) \cup {c} = InEnding(c, battleOf[c]) \cup {c}
    BY <2>2
  <2>5. BattleBooks'
    BY <1>2, <2>3, <2>4, EndingFacts
  <2>6. TypeOK'
    BY <1>2, <2>1 DEF IInv, TypeOK, NoBattle
  <2>7. FreshIds' /\ OneEngagement'
    BY <1>2 DEF IInv, FreshIds, OneEngagement
  <2>8. \A b \in battles' : c \notin Members(b)
    BY <1>2, <2>3, <2>5 DEF IInv, BattleBooks, Ending, TypeOK
  <2>9. OnlyJoinedEngaged'
    BY <1>2, <2>1, <2>8 DEF IInv, OnlyJoinedEngaged, ChallengesOf
  <2>10. FightersShareMap'
    <3> SUFFICES ASSUME NEW b \in battles' PROVE place'[b.host].map = place'[b.guest].map
      BY DEF FightersShareMap
    <3>1. b \in battles /\ b.host # c /\ b.guest # c /\ b.host \in Peer /\ b.guest \in Peer
      BY <1>2, <2>8 DEF Members, IInv, TypeOK, Battle
    <3> QED BY <1>2, <3>1 DEF IInv, FightersShareMap, TypeOK
  <2> QED BY <2>5, <2>6, <2>7, <2>9, <2>10 DEF IInv
<1> QED BY <1>1, <1>2 DEF Disconnect

LEMMA HandleIInv ==
  ASSUME IInv, NEW c \in Peer, NEW msg \in ClientMessage, Handle(c, msg)
  PROVE  IInv'
<1>1. /\ msg.type \in {"join_world", "move"} => [map |-> msg.map, pos |-> msg.pos] \in Place
      /\ msg.type = "challenge" => msg.target \in Peer
  BY DEF ClientMessage, Place
<1>2. CASE msg.type = "join_world" /\ OnHello(c, [map |-> msg.map, pos |-> msg.pos])
  BY <1>1, <1>2, HelloIInv
<1>3. CASE NotInitialized(c)
  BY <1>3, StutterIInv DEF NotInitialized
<1>4. CASE c \in Joined /\ msg.type = "move" /\ OnMove(c, [map |-> msg.map, pos |-> msg.pos])
  BY <1>1, <1>4, MoveIInv
<1>5. CASE c \in Joined /\ msg.type = "challenge" /\ OnChallenge(c, msg.target)
  BY <1>1, <1>5, ChallengeIInv
<1>6. CASE c \in Joined /\ msg.type = "challenge_reply" /\ OnChallengeReply(c, msg.id, msg.accept)
  BY <1>6, ReplyIInv
<1>7. CASE OnBattleMessage(c, msg)
  BY <1>7, StutterIInv DEF OnBattleMessage
<1>8. CASE c \in Joined /\ msg.type = "battle_end" /\ OnBattleEnd(c, msg.id)
  BY <1>8, BattleEndIInv
<1>9. CASE OnPing(c)
  BY <1>9, StutterIInv DEF OnPing
<1>10. conn[c] = "joined" => c \in Joined
  BY DEF Joined
<1> QED
  BY <1>2, <1>3, <1>4, <1>5, <1>6, <1>7, <1>8, <1>9, <1>10 DEF Handle

LEMMA StepIInv == IInv /\ [Next]_vars => IInv'
<1> SUFFICES ASSUME IInv, [Next]_vars PROVE IInv'
  OBVIOUS
<1>1. CASE UNCHANGED vars
  BY <1>1, StutterIInv DEF vars, state
<1>2. ASSUME NEW c \in Peer, Disconnect(c) PROVE IInv'
  BY <1>2, DisconnectIInv
<1>3. ASSUME NEW c \in Peer, NEW msg \in ClientMessage, Handle(c, msg) PROVE IInv'
  BY <1>3, HandleIInv
<1> QED BY <1>1, <1>2, <1>3 DEF Next

\* The invariants of the coordinator hold together in every reachable state.
THEOREM Safety == Spec => []IInv
  BY InitIInv, StepIInv, PTL DEF Spec

-----------------------------------------------------------------------------
\* The books keep their types (mmo-coordinator.ts:29-32).
THEOREM TypeCorrect == Spec => []TypeOK
<1>1. IInv => TypeOK
  BY DEF IInv
<1> QED BY <1>1, Safety, PTL

\* Nobody is ever party to two challenges, two battles, or one of each.
THEOREM EngagedOnce == Spec => []OneEngagement
<1>1. IInv => OneEngagement
  BY DEF IInv
<1> QED BY <1>1, Safety, PTL

\* battleId and the battle book always agree.
THEOREM BooksAgree == Spec => []BattleBooks
<1>1. IInv => BattleBooks
  BY DEF IInv
<1> QED BY <1>1, Safety, PTL

\* Only players who are there are challenged or fight.
THEOREM EngagedAreJoined == Spec => []OnlyJoinedEngaged
<1>1. IInv => OnlyJoinedEngaged
  BY DEF IInv
<1> QED BY <1>1, Safety, PTL

\* Fighters stay on one map.
THEOREM FightersTogether == Spec => []FightersShareMap
<1>1. IInv => FightersShareMap
  BY DEF IInv
<1> QED BY <1>1, Safety, PTL

-----------------------------------------------------------------------------
(***************************************************************************)
(* What every step of the coordinator tells its peers: the action          *)
(* properties of MmoCoordinator for every instance.                        *)
(*                                                                         *)
(* They rest on IInv.  That the opponent of a player who drops hears of    *)
(* the end of the battle exactly once needs that he is in no challenge     *)
(* (OneEngagement); that a refused reply leaves no challenger waiting who  *)
(* is still on the map needs that neither party of a pending challenge can *)
(* be in a battle; that a payload stays between the two players of the     *)
(* battle it names needs the two books to agree.                           *)
(***************************************************************************)

\* What c is told in s, and the outboxes whose messages are in S.
Messages(s, c) == {s[c][i] : i \in DOMAIN s[c]}
Outbox(S) == [Peer -> Seq(S)]

\* What the ways to address peers put into an outbox.
LEMMA ToAllMessages ==
  ASSUME NEW T, NEW S, NEW m \in S
  PROVE  /\ ToAll(T, m) \in Outbox(S)
         /\ \A c \in Peer : Messages(ToAll(T, m), c) = IF c \in T THEN {m} ELSE {}
  BY DEF ToAll, Outbox, Messages

\* Quiet is an outbox in which nobody is told anything.
LEMMA QuietMessages ==
  ASSUME NEW S
  PROVE  Quiet \in Outbox(S) /\ \A c \in Peer : Messages(Quiet, c) = {}
  BY DEF Quiet, Outbox, Messages

\* ++ tells everybody what either side tells him.
LEMMA JoinedMessages ==
  ASSUME NEW S, NEW s \in Outbox(S), NEW t \in Outbox(S)
  PROVE  /\ s ++ t \in Outbox(S)
         /\ \A c \in Peer : Messages(s ++ t, c) = Messages(s, c) \cup Messages(t, c)
<1>1. \A c \in Peer : s[c] \in Seq(S) /\ t[c] \in Seq(S) /\ (s ++ t)[c] = s[c] \o t[c]
  BY DEF Outbox, ++
<1>2. s ++ t \in Outbox(S)
  BY <1>1, ConcatProperties DEF Outbox, ++
<1>3. ASSUME NEW c \in Peer PROVE Messages(s ++ t, c) = Messages(s, c) \cup Messages(t, c)
  <2> DEFINE a == s[c]
             b == t[c]
  <2>1. a \in Seq(S) /\ b \in Seq(S) /\ (s ++ t)[c] = a \o b
    BY <1>1
  <2>2. /\ DOMAIN a = 1..Len(a) /\ DOMAIN b = 1..Len(b) /\ Len(a) \in Nat /\ Len(b) \in Nat
        /\ DOMAIN (a \o b) = 1..Len(a) + Len(b)
        /\ \A i \in 1..Len(a) + Len(b) : (a \o b)[i] = IF i <= Len(a) THEN a[i] ELSE b[i - Len(a)]
    <3> HIDE DEF a, b
    <3>0. a \in Seq(S) /\ b \in Seq(S)
      BY <2>1
    <3>1. DOMAIN a = 1..Len(a) /\ DOMAIN b = 1..Len(b) /\ Len(a) \in Nat /\ Len(b) \in Nat
      BY <2>1, LenProperties
    <3>2. a \o b \in Seq(S) /\ Len(a \o b) = Len(a) + Len(b)
      BY <3>0, ConcatProperties
    <3>3. DOMAIN (a \o b) = 1..Len(a) + Len(b)
      BY <3>2, LenProperties
    <3>4. \A i \in 1..Len(a) + Len(b) : (a \o b)[i] = IF i <= Len(a) THEN a[i] ELSE b[i - Len(a)]
      BY <3>0, ConcatProperties
    <3> QED BY <3>1, <3>3, <3>4
  <2> HIDE DEF a, b
  <2>3. \A i \in 1..Len(b) : (a \o b)[i + Len(a)] = b[i] /\ i + Len(a) \in DOMAIN (a \o b)
    BY <2>2
  <2>4. {(a \o b)[i] : i \in DOMAIN (a \o b)} = {a[i] : i \in DOMAIN a} \cup {b[i] : i \in DOMAIN b}
    <3>1. \A i \in DOMAIN a : a[i] = (a \o b)[i] /\ i \in DOMAIN (a \o b)
      BY <2>2
    <3>2. ASSUME NEW i \in 1..Len(a) + Len(b)
          PROVE  \/ i \in 1..Len(a) /\ (a \o b)[i] = a[i]
                 \/ i - Len(a) \in 1..Len(b) /\ (a \o b)[i] = b[i - Len(a)]
      <4>1. CASE i <= Len(a)
        BY <2>2, <4>1
      <4>2. CASE ~(i <= Len(a))
        <5>1. i - Len(a) \in 1..Len(b)
          BY <2>2, <4>2
        <5>2. (a \o b)[i] = b[i - Len(a)]
          BY <2>2, <4>2
        <5> QED BY <5>1, <5>2
      <4> QED BY <4>1, <4>2
    <3>3. \A i \in DOMAIN b : \E j \in DOMAIN (a \o b) : (a \o b)[j] = b[i]
      <4>1. \A i \in DOMAIN b : (a \o b)[i + Len(a)] = b[i] /\ i + Len(a) \in DOMAIN (a \o b)
        BY <2>2, <2>3
      <4> QED BY <4>1
    <3>4. DOMAIN a = 1..Len(a) /\ DOMAIN b = 1..Len(b) /\ DOMAIN (a \o b) = 1..Len(a) + Len(b)
      BY <2>2
    <3> QED BY <3>1, <3>2, <3>3, <3>4
  <2> QED BY <2>1, <2>4 DEF Messages, a, b
<1> QED BY <1>2, <1>3

-----------------------------------------------------------------------------
\* What the action properties say of one step.
Reports == EndsReported /\ StartsPaired /\ PayloadsInBattle /\ SettledReported

\* Nobody hears of a battle, and no challenge or battle is over.
Uneventful ==
  /\ \A q \in Peer : \A m \in Messages(sent', q) : m.type \notin {"battle_start", "battle_message", "battle_ended"}
  /\ challenges \subseteq challenges' /\ battles \subseteq battles'

\* A step in which nothing of a challenge or battle ends is all right.
LEMMA UneventfulReports == Uneventful => Reports
  BY DEF Uneventful, Reports, EndsReported, StartsPaired, PayloadsInBattle, SettledReported, Messages, Told

\* One message to each of T reaches T and nobody else.
LEMMA ToldToOne ==
  ASSUME NEW T, NEW m, sent' = ToAll(T, m)
  PROVE  \A q \in Peer : Messages(sent', q) = IF q \in T THEN {m} ELSE {}
  BY ToAllMessages

\* A step that only sends one harmless message is uneventful.
LEMMA OneUneventful ==
  ASSUME NEW T, NEW m, m.type \notin {"battle_start", "battle_message", "battle_ended"},
         sent' = ToAll(T, m), UNCHANGED <<challenges, battles>>
  PROVE  Uneventful
  BY ToldToOne DEF Uneventful

\* Refusing a request is uneventful.
LEMMA ErrorUneventful ==
  ASSUME NEW c \in Peer, NEW code, sent' = To(c, Error(code)), UNCHANGED state
  PROVE  Uneventful
  BY OneUneventful DEF To, Error, state

\* The handlers that leave challenges and battles alone or add to them.
LEMMA HelloUneventful ==
  ASSUME NEW c \in Peer, NEW at \in Place, OnHello(c, at)
  PROVE  Uneventful
<1>1. CASE sent' = To(c, Error("already_initialized")) /\ UNCHANGED state
  BY <1>1, ErrorUneventful
<1>2. CASE /\ sent' = To(c, [type |-> "welcome", id |-> c])
                     ++ Snapshot(c, at.map)
                     ++ ToAll(OnMap(at.map), [type |-> "player_joined", player |-> Public(c, at)])
           /\ UNCHANGED matches
  <2> DEFINE others == {Public(q, place[q]) : q \in OnMap(at.map) \ {c}}
             m1 == [type |-> "welcome", id |-> c]
             m2 == [type |-> "snapshot", map |-> at.map, players |-> others]
             m3 == [type |-> "world_snapshot", map |-> at.map, players |-> others]
             m4 == [type |-> "player_joined", player |-> Public(c, at)]
             S == {m1, m2, m3, m4}
  <2>1. \A m \in S : m.type \notin {"battle_start", "battle_message", "battle_ended"}
    OBVIOUS
  <2>2. sent' = ToAll({c}, m1) ++ (ToAll({c}, m2) ++ ToAll({c}, m3)) ++ ToAll(OnMap(at.map), m4)
    BY <1>2 DEF To, Snapshot
  <2> HIDE DEF m1, m2, m3, m4
  <2>3. sent' \in Outbox(S)
    BY <2>2, ToAllMessages, JoinedMessages
  <2>4. \A q \in Peer : Messages(sent', q) \subseteq S
    BY <2>3 DEF Outbox, Messages
  <2> QED BY <1>2, <2>1, <2>4 DEF Uneventful, matches
<1> QED BY <1>1, <1>2 DEF OnHello

\* onMove.
LEMMA MoveUneventful ==
  ASSUME NEW c \in Peer, NEW at \in Place, OnMove(c, at)
  PROVE  Uneventful
<1>1. CASE sent' = To(c, Error("in_battle")) /\ UNCHANGED state
  BY <1>1, ErrorUneventful
<1> DEFINE others == {Public(q, place[q]) : q \in OnMap(at.map) \ {c}}
           old == OnMap(place[c].map) \ {c}
           here == OnMap(at.map) \ {c}
           m1 == [type |-> "player_left", id |-> c]
           m2 == [type |-> "snapshot", map |-> at.map, players |-> others]
           m3 == [type |-> "world_snapshot", map |-> at.map, players |-> others]
           m4 == [type |-> "player_joined", player |-> Public(c, at)]
           m5 == [type |-> "player_moved", player |-> Public(c, at)]
           S == {m1, m2, m3, m4}
<1>2. CASE /\ sent' = ToAll(old, m1) ++ Snapshot(c, at.map) ++ ToAll(here, m4)
           /\ UNCHANGED matches
  <2>1. \A m \in S : m.type \notin {"battle_start", "battle_message", "battle_ended"}
    OBVIOUS
  <2>2. sent' = ToAll(old, m1) ++ (ToAll({c}, m2) ++ ToAll({c}, m3)) ++ ToAll(here, m4)
    BY <1>2 DEF To, Snapshot
  <2> HIDE DEF m1, m2, m3, m4, old, here
  <2>3. sent' \in Outbox(S)
    BY <2>2, ToAllMessages, JoinedMessages
  <2>4. \A q \in Peer : Messages(sent', q) \subseteq S
    BY <2>3 DEF Outbox, Messages
  <2> QED BY <1>2, <2>1, <2>4 DEF Uneventful, matches
<1>3. CASE sent' = ToAll(here, m5) /\ UNCHANGED matches
  <2>1. m5.type \notin {"battle_start", "battle_message", "battle_ended"}
    OBVIOUS
  <2> QED BY <1>3, <2>1, OneUneventful DEF matches
<1> QED BY <1>1, <1>2, <1>3 DEF OnMove

\* onChallenge.
LEMMA ChallengeUneventful ==
  ASSUME NEW c \in Peer, NEW t \in Peer, OnChallenge(c, t)
  PROVE  Uneventful
<1>1. CASE \E code : sent' = To(c, Error(code)) /\ UNCHANGED state
  BY <1>1, ErrorUneventful
<1> DEFINE m1 == [type |-> "challenge_sent", id |-> drawn', target |-> t]
           m2 == [type |-> "challenge_received", id |-> drawn', from |-> c]
           S == {m1, m2}
<1>2. CASE /\ sent' = To(c, m1) ++ To(t, m2)
           /\ challenges \subseteq challenges' /\ UNCHANGED battles
  <2>1. \A m \in S : m.type \notin {"battle_start", "battle_message", "battle_ended"}
    OBVIOUS
  <2> HIDE DEF m1, m2
  <2>2. sent' \in Outbox(S)
    BY <1>2, ToAllMessages, JoinedMessages DEF To
  <2>3. \A q \in Peer : Messages(sent', q) \subseteq S
    BY <2>2 DEF Outbox, Messages
  <2> QED BY <1>2, <2>1, <2>3 DEF Uneventful
<1> QED BY <1>1, <1>2 DEF OnChallenge

\* onPing.
LEMMA PingUneventful ==
  ASSUME NEW c \in Peer, OnPing(c)
  PROVE  Uneventful
  BY OneUneventful DEF OnPing, To, state

-----------------------------------------------------------------------------
\* With one message for each of two players, each gets his.
LEMMA TwoMessages ==
  ASSUME NEW a \in Peer, NEW b \in Peer, a # b, NEW m1, NEW m2,
         sent' = To(a, m1) ++ To(b, m2)
  PROVE  /\ sent'[a] = <<m1>> /\ sent'[b] = <<m2>>
         /\ \A q \in Peer \ {a, b} : sent'[q] = <<>>
<1>1. \A q \in Peer : sent'[q] = To(a, m1)[q] \o To(b, m2)[q]
  BY DEF ++
<1>2. \A q \in Peer : /\ To(a, m1)[q] = IF q = a THEN <<m1>> ELSE <<>>
                      /\ To(b, m2)[q] = IF q = b THEN <<m2>> ELSE <<>>
  BY DEF To, ToAll
<1>3. <<m1>> \o <<>> = <<m1>> /\ <<>> \o <<m2>> = <<m2>> /\ <<>> \o <<>> = <<>>
  OBVIOUS
<1> QED BY <1>1, <1>2, <1>3

\* onChallengeReply: refused, declined or accepted, the parties hear of it.
LEMMA ReplyReports ==
  ASSUME IInv, NEW c \in Peer, NEW id, NEW accept, c \in Joined,
         OnChallengeReply(c, id, accept)
  PROVE  Reports
<1>1. CASE sent' = To(c, Error("challenge_not_found")) /\ UNCHANGED state
  BY <1>1, ErrorUneventful, UneventfulReports
<1>2. CASE \E ch \in challenges : /\ ch.to = c /\ challenges' = challenges \ {ch}
                                  /\ UNCHANGED <<conn, place>>
                                  /\ Refused(c, ch)
                                  /\ sent' = To(c, Error("challenger_unavailable"))
                                  /\ UNCHANGED <<battleOf, battles, drawn>>
  <2> PICK ch \in challenges : /\ ch.to = c /\ challenges' = challenges \ {ch}
                               /\ UNCHANGED <<conn, place>>
                               /\ Refused(c, ch)
                               /\ sent' = To(c, Error("challenger_unavailable"))
                               /\ UNCHANGED <<battleOf, battles, drawn>>
    BY <1>2
  <2>1. ch.from \in Peer /\ ch.from \in Joined /\ Parties(ch) = {ch.from, c} /\ ch.from # c
    BY DEF IInv, TypeOK, Challenge, OnlyJoinedEngaged, OneEngagement, Parties
  <2>2. ~Fighting(ch.from) /\ ~Fighting(c)
    BY <2>1, FighterFacts DEF Pending
  <2>3. place[ch.from].map # place[ch.to].map
    BY <2>1, <2>2 DEF Refused
  <2>4. sent' = ToAll({c}, [type |-> "error", code |-> "challenger_unavailable"])
    BY DEF To, Error
  <2>5. sent'[c] = <<[type |-> "error", code |-> "challenger_unavailable"]>>
    BY <2>4 DEF ToAll
  <2>6. Told(c, {"error"})
    BY <2>5 DEF Told
  <2>7. SettledReported
    BY <2>1, <2>3, <2>6 DEF SettledReported
  <2>8. \A q \in Peer : \A i \in DOMAIN sent'[q] : sent'[q][i].type = "error"
    BY <2>4 DEF ToAll
  <2>9. EndsReported /\ StartsPaired /\ PayloadsInBattle
    BY <2>8 DEF EndsReported, StartsPaired, PayloadsInBattle, Told
  <2> QED BY <2>7, <2>9 DEF Reports
<1>3. CASE \E ch \in challenges : /\ ch.to = c /\ challenges' = challenges \ {ch}
                                  /\ UNCHANGED <<conn, place>>
                                  /\ sent' = ToAll(Parties(ch), [type |-> "challenge_declined", id |-> id])
                                  /\ UNCHANGED <<battleOf, battles, drawn>>
  <2> PICK ch \in challenges : /\ ch.to = c /\ challenges' = challenges \ {ch}
                               /\ sent' = ToAll(Parties(ch), [type |-> "challenge_declined", id |-> id])
                               /\ UNCHANGED battles
    BY <1>3
  <2>1. \A q \in Parties(ch) : q \in Peer /\ sent'[q] = <<[type |-> "challenge_declined", id |-> id]>>
    BY DEF IInv, TypeOK, Challenge, Parties, ToAll
  <2>2. \A q \in Parties(ch) : Told(q, {"challenge_declined", "challenge_cancelled", "battle_start"})
    BY <2>1 DEF Told
  <2>3. SettledReported
    BY <2>2 DEF SettledReported
  <2>4. \A q \in Peer : \A i \in DOMAIN sent'[q] : sent'[q][i].type = "challenge_declined"
    BY DEF ToAll
  <2>5. EndsReported /\ StartsPaired /\ PayloadsInBattle
    BY <2>4 DEF EndsReported, StartsPaired, PayloadsInBattle, Told
  <2> QED BY <2>3, <2>5 DEF Reports
<1>4. CASE \E ch \in challenges :
             /\ ch.to = c
             /\ challenges' = challenges \ {ch}
             /\ ~Refused(c, ch)
             /\ battles' = battles \cup {[id |-> drawn', host |-> ch.from, guest |-> c]}
             /\ sent' = To(ch.from, [type |-> "battle_start", id |-> drawn',
                                     role |-> "host", opponent |-> c])
                        ++ To(c, [type |-> "battle_start", id |-> drawn',
                                  role |-> "guest", opponent |-> ch.from])
  <2> DEFINE m1 == [type |-> "battle_start", id |-> drawn', role |-> "host", opponent |-> c]
             m2(f) == [type |-> "battle_start", id |-> drawn', role |-> "guest", opponent |-> f]
  <2> PICK ch \in challenges :
             /\ ch.to = c
             /\ challenges' = challenges \ {ch}
             /\ ~Refused(c, ch)
             /\ battles' = battles \cup {[id |-> drawn', host |-> ch.from, guest |-> c]}
             /\ sent' = To(ch.from, m1) ++ To(c, m2(ch.from))
    BY <1>4
  <2> DEFINE f == ch.from
             n2 == m2(f)
  <2>1. f \in Peer /\ f # c /\ Parties(ch) = {f, c}
    BY DEF IInv, TypeOK, Challenge, OneEngagement, Parties
  <2>2. ~Fighting(f) /\ ~Fighting(c) /\ place[f].map = place[c].map
    BY DEF Refused
  <2>3. /\ m1.type = "battle_start" /\ m1.role = "host" /\ m1.opponent = c
        /\ n2.type = "battle_start" /\ n2.role = "guest" /\ n2.opponent = f
        /\ m1 = [type |-> "battle_start", id |-> n2.id, role |-> "host", opponent |-> c]
        /\ n2 = [type |-> "battle_start", id |-> m1.id, role |-> "guest", opponent |-> f]
    OBVIOUS
  <2>4. sent' = To(f, m1) ++ To(c, n2)
    OBVIOUS
  <2>5. ch \in challenges \ challenges' /\ battles \ battles' = {}
        /\ \A x \in challenges \ challenges' : x = ch
    OBVIOUS
  <2> HIDE DEF m1, n2, f
  <2>6. /\ sent'[f] = <<m1>> /\ sent'[c] = <<n2>>
        /\ \A q \in Peer \ {f, c} : sent'[q] = <<>>
    BY <2>1, <2>4, TwoMessages
  <2>7. \A q \in Peer : \A i \in DOMAIN sent'[q] :
          \/ q = f /\ sent'[q][i] = m1
          \/ q = c /\ sent'[q][i] = n2
    BY <2>6
  <2>8. StartsPaired
    <3>1. Answered(f, c, m1)
      <4>1. 1 \in DOMAIN sent'[c] /\ sent'[c][1] = n2
        BY <2>6
      <4> QED BY <4>1, <2>3 DEF Answered
    <3>2. Answered(c, f, n2)
      <4>1. 1 \in DOMAIN sent'[f] /\ sent'[f][1] = m1
        BY <2>6
      <4> QED BY <4>1, <2>3 DEF Answered
    <3>3. SUFFICES ASSUME NEW q \in Peer, NEW i \in DOMAIN sent'[q]
                   PROVE  LET m == sent'[q][i]
                              o == m.opponent
                          IN  /\ o # q /\ ~Fighting(q) /\ ~Fighting(o)
                              /\ place[q].map = place[o].map
                              /\ \E x \in challenges \ challenges' : Parties(x) = {q, o}
                              /\ Answered(q, o, m)
      BY DEF StartsPaired
    <3>4. \E x \in challenges \ challenges' : Parties(x) = {f, c}
      BY <2>1, <2>5
    <3>5. CASE q = f /\ sent'[q][i] = m1
      BY <3>1, <3>4, <3>5, <2>1, <2>2, <2>3
    <3>6. CASE q = c /\ sent'[q][i] = n2
      BY <3>2, <3>4, <3>6, <2>1, <2>2, <2>3
    <3> QED BY <2>7, <3>5, <3>6
  <2>9. SettledReported
    <3>1. Told(f, {"challenge_declined", "challenge_cancelled", "battle_start"})
      BY <2>3, <2>6 DEF Told
    <3>2. Told(c, {"challenge_declined", "challenge_cancelled", "battle_start"})
      BY <2>3, <2>6 DEF Told
    <3> QED BY <2>1, <2>5, <3>1, <3>2 DEF SettledReported
  <2>10. EndsReported /\ PayloadsInBattle
    <3>1. \A q \in Peer : \A i \in DOMAIN sent'[q] : sent'[q][i].type = "battle_start"
      BY <2>3, <2>7
    <3>2. PayloadsInBattle
      BY <3>1 DEF PayloadsInBattle
    <3>3. EndsReported
      BY <2>5, <3>1 DEF EndsReported, Told
    <3> QED BY <3>2, <3>3
  <2> QED BY <2>8, <2>9, <2>10 DEF Reports
<1> QED BY <1>1, <1>2, <1>3, <1>4 DEF OnChallengeReply

\* onBattleMessage reaches the opponent only.
LEMMA BattleMessageReports ==
  ASSUME IInv, NEW c \in Peer, NEW msg, OnBattleMessage(c, msg)
  PROVE  Reports
<1>1. CASE sent' = To(c, Error("battle_not_found")) /\ UNCHANGED state
  BY <1>1, ErrorUneventful, UneventfulReports
<1>2. CASE \E b \in battles :
             /\ b.id = msg.id /\ battleOf[c] = b.id /\ c \in Members(b)
             /\ sent' = ToAll((Members(b) \ {c}) \cap Joined,
                              [type |-> "battle_message", id |-> b.id, from |-> c, payload |-> msg.payload])
             /\ UNCHANGED state
  <2> PICK b \in battles :
             /\ battleOf[c] = b.id /\ c \in Members(b)
             /\ sent' = ToAll((Members(b) \ {c}) \cap Joined,
                              [type |-> "battle_message", id |-> b.id, from |-> c, payload |-> msg.payload])
             /\ UNCHANGED state
    BY <1>2
  <2> DEFINE m == [type |-> "battle_message", id |-> b.id, from |-> c, payload |-> msg.payload]
  <2>1. \A q \in Peer : \A i \in DOMAIN sent'[q] : sent'[q][i] = m /\ q \in Members(b) /\ q # c
    BY DEF ToAll
  <2>2. m.type = "battle_message" /\ m.id = b.id /\ m.from = c
    OBVIOUS
  <2> HIDE DEF m
  <2>3. \A q \in Members(b) \ {c} : Members(b) = {q, c}
    BY DEF Members
  <2>4. \A q \in Members(b) : q \in Peer => battleOf[q] = b.id
    <3>1. BattleBooks /\ b \in battles
      BY DEF IInv
    <3> QED BY <3>1 DEF BattleBooks
  <2>5. PayloadsInBattle
    <3> SUFFICES ASSUME NEW q \in Peer, NEW i \in DOMAIN sent'[q]
                 PROVE  \E x \in battles : /\ Members(x) = {q, sent'[q][i].from}
                                           /\ battleOf[q] = x.id /\ x.id = sent'[q][i].id
      BY DEF PayloadsInBattle
    <3>1. sent'[q][i] = m /\ q \in Members(b) /\ q # c
      BY <2>1
    <3>2. Members(b) = {q, m.from} /\ battleOf[q] = b.id
      BY <2>2, <2>3, <2>4, <3>1
    <3> QED BY <2>2, <3>1, <3>2
  <2>6. \A q \in Peer : \A i \in DOMAIN sent'[q] : sent'[q][i].type = "battle_message"
    BY <2>1, <2>2
  <2>7. challenges' = challenges /\ battles' = battles
    BY DEF state
  <2>8. StartsPaired
    BY <2>6 DEF StartsPaired
  <2>9. EndsReported /\ SettledReported
    BY <2>6, <2>7 DEF EndsReported, SettledReported, Told
  <2> QED BY <2>5, <2>8, <2>9 DEF Reports
<1> QED BY <1>1, <1>2 DEF OnBattleMessage

\* Of a battle that c ends with id, everybody in it is in InEnding, and nobody else.
LEMMA InEndingFacts ==
  ASSUME IInv, NEW c \in Peer, NEW id, battles' = battles \ Ending(c, id)
  PROVE  /\ \A b \in battles \ battles' : b.id = id /\ Members(b) \subseteq InEnding(c, id) /\ c \in Members(b)
         /\ \A q \in InEnding(c, id) : \E b \in battles \ battles' : q \in Members(b)
         /\ InEnding(c, id) \subseteq Joined
  BY DEF IInv, OnlyJoinedEngaged, InEnding, Ending

\* onBattleEnd tells each fighter once.
LEMMA BattleEndReports ==
  ASSUME IInv, NEW c \in Peer, NEW id, OnBattleEnd(c, id)
  PROVE  Reports
<1> DEFINE told == InEnding(c, id) \cap Joined
           m == [type |-> "battle_ended", id |-> id, reason |-> "ended"]
<1>1. /\ battles' = battles \ Ending(c, id)
      /\ sent' = ToAll(told, m)
      /\ challenges' = challenges /\ conn' = conn
  BY DEF OnBattleEnd
<1>2. m.type = "battle_ended" /\ m.id = id
  OBVIOUS
<1> HIDE DEF m
<1>3. \A q \in Peer : sent'[q] = IF q \in InEnding(c, id) THEN <<m>> ELSE <<>>
  BY <1>1, InEndingFacts DEF ToAll
<1>4. ASSUME NEW b \in battles \ battles', NEW q \in Members(b)
      PROVE  Cardinality(EndNotices(q, b.id)) = 1
  <2>1. q \in InEnding(c, id) /\ q \in Peer /\ b.id = id
    BY <1>1, <1>4, InEndingFacts DEF Joined
  <2>2. sent'[q] = <<m>>
    BY <1>3, <2>1
  <2>3. EndNotices(q, b.id) = {1}
    BY <1>2, <2>1, <2>2 DEF EndNotices
  <2> QED BY <2>3, FS_Singleton
<1>5. \A q \in Peer : Told(q, {"battle_ended"}) => \E b \in battles \ battles' : q \in Members(b)
  <2>1. \A q \in Peer : Told(q, {"battle_ended"}) => q \in InEnding(c, id)
    BY <1>3 DEF Told
  <2> QED BY <1>1, <2>1, InEndingFacts
<1>6. \A q \in Peer : \A i \in DOMAIN sent'[q] : sent'[q][i].type = "battle_ended"
  BY <1>2, <1>3
<1>7. StartsPaired /\ PayloadsInBattle /\ SettledReported
  BY <1>1, <1>6 DEF StartsPaired, PayloadsInBattle, SettledReported
<1> QED BY <1>4, <1>5, <1>7 DEF Reports, EndsReported

-----------------------------------------------------------------------------
\* What the row s = a \o b \o d holds, where each part is at most one message.
Row(x, a, y, b, z, d, s) ==
  /\ \A i \in DOMAIN s : \/ s[i] = x
                         \/ b = <<y>> /\ s[i] = y
                         \/ s[i] = z
  /\ a = <<x>> => 1 \in DOMAIN s /\ s[1] = x
  /\ a = <<>> /\ b = <<y>> => /\ 1 \in DOMAIN s /\ s[1] = y
                              /\ \A i \in DOMAIN s : i # 1 => s[i] = z

\* A sequence of at most one message.
LEMMA OnePart ==
  ASSUME NEW S, NEW x \in S, NEW a \in {<<>>, <<x>>}
  PROVE  /\ a \in Seq(S) /\ Len(a) \in {0, 1}
         /\ a = <<x>> <=> Len(a) = 1
         /\ Len(a) = 1 => a[1] = x
<1>1. CASE a = <<>>
  BY <1>1
<1>2. CASE a = <<x>>
  BY <1>2
<1> QED BY <1>1, <1>2

\* What Row says holds of the three parts put together.
LEMMA ThreeParts ==
  ASSUME NEW x, NEW a \in {<<>>, <<x>>}, NEW y, NEW b \in {<<>>, <<y>>}, NEW z, NEW d \in {<<>>, <<z>>}
  PROVE  Row(x, a, y, b, z, d, (a \o b) \o d)
<1> DEFINE S == {x, y, z}
           t == a \o b
           s == t \o d
<1>1. /\ a \in Seq(S) /\ Len(a) \in {0, 1} /\ (a = <<x>> <=> Len(a) = 1) /\ (Len(a) = 1 => a[1] = x)
      /\ b \in Seq(S) /\ Len(b) \in {0, 1} /\ (b = <<y>> <=> Len(b) = 1) /\ (Len(b) = 1 => b[1] = y)
      /\ d \in Seq(S) /\ Len(d) \in {0, 1} /\ (d = <<z>> <=> Len(d) = 1) /\ (Len(d) = 1 => d[1] = z)
  <2>1. x \in S /\ y \in S /\ z \in S
    OBVIOUS
  <2> HIDE DEF S
  <2> QED BY <2>1, OnePart
<1>2. a = <<>> <=> Len(a) = 0
  BY <1>1
<1> HIDE DEF S
<1>3. /\ t \in Seq(S) /\ Len(t) = Len(a) + Len(b)
      /\ \A i \in 1..Len(a) + Len(b) : t[i] = IF i <= Len(a) THEN a[i] ELSE b[i - Len(a)]
  BY <1>1, ConcatProperties
<1> HIDE DEF t
<1>4. /\ s \in Seq(S) /\ Len(s) = Len(t) + Len(d)
      /\ \A i \in 1..Len(t) + Len(d) : s[i] = IF i <= Len(t) THEN t[i] ELSE d[i - Len(t)]
  <2>1. t \in Seq(S) /\ d \in Seq(S)
    BY <1>1, <1>3
  <2> QED BY <2>1, ConcatProperties
<1>5. Row(x, a, y, b, z, d, s)
  <2> HIDE DEF s
  <2> DEFINE la == Len(a)
             lb == Len(b)
             ld == Len(d)
  <2>0. la \in {0, 1} /\ lb \in {0, 1} /\ ld \in {0, 1}
    BY <1>1
  <2>1. DOMAIN s = 1..la + lb + ld
    BY <1>3, <1>4, LenProperties
  <2>2. \A i \in 1..la + lb + ld :
          s[i] = IF i <= la THEN a[i] ELSE IF i <= la + lb THEN b[i - la] ELSE d[i - (la + lb)]
    BY <1>3, <1>4, <2>0
  <2>3. (la = 1 => a[1] = x) /\ (lb = 1 => b[1] = y) /\ (ld = 1 => d[1] = z)
    BY <1>1
  <2>4. (a = <<x>> <=> la = 1) /\ (b = <<y>> <=> lb = 1) /\ (a = <<>> => la = 0)
    BY <1>1
  <2> HIDE DEF la, lb, ld
  <2>5. la = 1 => 1 \in DOMAIN s /\ s[1] = x
    BY <2>0, <2>1, <2>2, <2>3
  <2>6. la = 0 /\ lb = 1 => /\ 1 \in DOMAIN s /\ s[1] = y
                           /\ \A i \in DOMAIN s : i # 1 => s[i] = z
    BY <2>0, <2>1, <2>2, <2>3
  <2>7. \A i \in DOMAIN s : s[i] = x \/ (lb = 1 /\ s[i] = y) \/ s[i] = z
    BY <2>0, <2>1, <2>2, <2>3
  <2> QED BY <2>4, <2>5, <2>6, <2>7 DEF Row
<1> QED BY <1>5 DEF t

\* onDisconnect: the opponent, who is in no challenge, hears once of the end,
\* and the other party of a challenge hears that it is cancelled.
LEMMA DisconnectReports ==
  ASSUME IInv, NEW c \in Peer, Disconnect(c)
  PROVE  Reports
<1>1. CASE sent' = Quiet /\ UNCHANGED matches
  <2>1. Uneventful
    BY <1>1, QuietMessages DEF Uneventful, matches
  <2> QED BY <2>1, UneventfulReports
<1> DEFINE Lost(q) == {ch \in challenges : Parties(ch) = {c, q}}
           mc(q) == [type |-> "challenge_cancelled", id |-> (CHOOSE ch \in Lost(q) : TRUE).id]
           me == [type |-> "battle_ended", id |-> battleOf[c], reason |-> "opponent_disconnected"]
           ml == [type |-> "player_left", id |-> c]
           ended == InEnding(c, battleOf[c]) \cap (Joined \ {c})
<1>2. CASE /\ conn[c] = "joined"
           /\ conn' = [conn EXCEPT ![c] = "closed"]
           /\ challenges' = challenges \ ChallengesOf(c)
           /\ battles' = battles \ Ending(c, battleOf[c])
           /\ sent' = CancelNotices(c) ++ ToAll(ended, me) ++ ToAll(OnMap(place[c].map) \ {c}, ml)
  <2>1. Joined' = Joined \ {c}
    BY <1>2 DEF Joined, IInv, TypeOK
  <2> DEFINE cn(q) == CancelNotices(c)[q]
             en(q) == ToAll(ended, me)[q]
             ln(q) == ToAll(OnMap(place[c].map) \ {c}, ml)[q]
  <2>2. \A q \in Peer : sent'[q] = (cn(q) \o en(q)) \o ln(q)
    BY <1>2 DEF ++
  <2>3. \A q \in Peer : /\ cn(q) = IF q \in Joined \ {c} /\ Lost(q) # {} THEN <<mc(q)>> ELSE <<>>
                        /\ en(q) = IF q \in ended THEN <<me>> ELSE <<>>
                        /\ ln(q) \in {<<>>, <<ml>>}
    BY DEF CancelNotices, ToAll
  <2>4. /\ \A q \in Peer : mc(q).type = "challenge_cancelled"
        /\ me.type = "battle_ended" /\ me.id = battleOf[c]
        /\ ml.type = "player_left"
    OBVIOUS
  <2>5. \A q \in ended : Lost(q) = {}
    BY DEF IInv, OneEngagement, InEnding, Ending, Parties
  <2> HIDE DEF Lost, mc, me, ml, ended, cn, en, ln
  <2>6. ASSUME NEW q \in Peer
        PROVE  /\ \A i \in DOMAIN sent'[q] : \/ sent'[q][i] = mc(q)
                                             \/ q \in ended /\ sent'[q][i] = me
                                             \/ sent'[q][i] = ml
               /\ q \in Joined \ {c} /\ Lost(q) # {} => 1 \in DOMAIN sent'[q] /\ sent'[q][1] = mc(q)
               /\ q \in ended => /\ 1 \in DOMAIN sent'[q] /\ sent'[q][1] = me
                                 /\ \A i \in DOMAIN sent'[q] : i # 1 => sent'[q][i] = ml
    <3>1. <<mc(q)>> # <<>> /\ <<me>> # <<>>
      OBVIOUS
    <3>2. cn(q) \in {<<>>, <<mc(q)>>} /\ en(q) \in {<<>>, <<me>>} /\ ln(q) \in {<<>>, <<ml>>}
      BY <2>3
    <3>3. Row(mc(q), cn(q), me, en(q), ml, ln(q), sent'[q])
      BY <2>2, <3>2, ThreeParts
    <3>4. en(q) = <<me>> <=> q \in ended
      BY <2>3, <3>1
    <3> QED BY <2>3, <2>5, <3>3, <3>4 DEF Row
  <2>7. StartsPaired
    BY <2>4, <2>6 DEF StartsPaired
  <2>8. PayloadsInBattle
    BY <2>4, <2>6 DEF PayloadsInBattle
  <2>9. SettledReported
    <3> SUFFICES ASSUME NEW ch \in challenges \ challenges', NEW q \in Parties(ch) \cap Joined'
                 PROVE  Told(q, {"challenge_declined", "challenge_cancelled", "battle_start"})
      BY DEF SettledReported
    <3>1. q \in Peer /\ q \in Joined \ {c} /\ Parties(ch) = {c, q}
      BY <1>2, <2>1 DEF Joined, ChallengesOf, Parties
    <3>2. Lost(q) # {}
      BY <3>1 DEF Lost
    <3> QED BY <2>4, <2>6, <3>1, <3>2 DEF Told
  <2>10. EndsReported
    <3>1. ASSUME NEW b \in battles \ battles', NEW q \in Members(b) \cap Joined'
          PROVE  Cardinality(EndNotices(q, b.id)) = 1
      <4>1. q \in Peer /\ q \in ended /\ b.id = battleOf[c]
        BY <1>2, <2>1, <3>1, InEndingFacts DEF ended, Joined
      <4>2. EndNotices(q, b.id) = {1}
        BY <2>4, <2>6, <4>1 DEF EndNotices
      <4> QED BY <4>2, FS_Singleton
    <3>2. \A q \in Peer : Told(q, {"battle_ended"}) => q \in ended
      BY <2>4, <2>6 DEF Told
    <3>3. \A q \in ended : \E b \in battles \ battles' : q \in Members(b)
      BY <1>2, InEndingFacts DEF ended
    <3> QED BY <3>1, <3>2, <3>3 DEF EndsReported
  <2> QED BY <2>7, <2>8, <2>9, <2>10 DEF Reports
<1> QED BY <1>1, <1>2 DEF Disconnect

\* Every message, and then every step, reports what it ends.
LEMMA HandleReports ==
  ASSUME IInv, NEW c \in Peer, NEW msg \in ClientMessage, Handle(c, msg)
  PROVE  Reports
<1>1. /\ msg.type \in {"join_world", "move"} => [map |-> msg.map, pos |-> msg.pos] \in Place
      /\ msg.type = "challenge" => msg.target \in Peer
  BY DEF ClientMessage, Place
<1>2. CASE msg.type = "join_world" /\ OnHello(c, [map |-> msg.map, pos |-> msg.pos])
  BY <1>1, <1>2, HelloUneventful, UneventfulReports
<1>3. CASE NotInitialized(c)
  BY <1>3, ErrorUneventful, UneventfulReports DEF NotInitialized
<1>4. CASE msg.type = "move" /\ OnMove(c, [map |-> msg.map, pos |-> msg.pos])
  BY <1>1, <1>4, MoveUneventful, UneventfulReports
<1>5. CASE msg.type = "challenge" /\ OnChallenge(c, msg.target)
  BY <1>1, <1>5, ChallengeUneventful, UneventfulReports
<1>6. CASE c \in Joined /\ msg.type = "challenge_reply" /\ OnChallengeReply(c, msg.id, msg.accept)
  BY <1>6, ReplyReports
<1>7. CASE OnBattleMessage(c, msg)
  BY <1>7, BattleMessageReports
<1>8. CASE OnBattleEnd(c, msg.id)
  BY <1>8, BattleEndReports
<1>9. CASE OnPing(c)
  BY <1>9, PingUneventful, UneventfulReports
<1>10. conn[c] = "joined" => c \in Joined
  BY DEF Joined
<1> QED
  BY <1>2, <1>3, <1>4, <1>5, <1>6, <1>7, <1>8, <1>9, <1>10 DEF Handle

\* One step of any connection.
LEMMA NextReports ==
  ASSUME IInv, Next
  PROVE  Reports
  BY DisconnectReports, HandleReports DEF Next

\* The four action formulas hold of every step from a state in IInv.
LEMMA StepReports ==
  IInv /\ [Next]_vars =>
    [EndsReported]_vars /\ [StartsPaired]_vars /\ [PayloadsInBattle]_vars /\ [SettledReported]_vars
<1>1. ASSUME IInv, Next
      PROVE  EndsReported /\ StartsPaired /\ PayloadsInBattle /\ SettledReported
  BY <1>1, NextReports DEF Reports
<1> QED BY <1>1

\* A battle that ends is reported once to each of its players who is still there
\* (onBattleEnd and onDisconnect).
THEOREM EndsTold == Spec => EndsAreReported
  BY Safety, StepReports, PTL DEF Spec, EndsAreReported

\* A battle starts with both players told in the same step.
THEOREM StartsTold == Spec => StartsArePaired
  BY Safety, StepReports, PTL DEF Spec, StartsArePaired

\* Payloads stay inside their battle (onBattleMessage).
THEOREM PayloadsConfined == Spec => PayloadsStayInBattle
  BY Safety, StepReports, PTL DEF Spec, PayloadsStayInBattle

\* Nobody who is still there waits on a challenge that is gone.
THEOREM SettledTold == Spec => SettledChallengesAreReported
  BY Safety, StepReports, PTL DEF Spec, SettledChallengesAreReported

-----------------------------------------------------------------------------
(***************************************************************************)
(* The coordinator implements LinkSessions, for every instance.            *)
(*                                                                         *)
(* The abstract state is read off four maps, and says one thing of each    *)
(* player only because IInv keeps the maps in step: View is what they say  *)
(* then.  Each handler is one abstract step or none.                       *)
(***************************************************************************)

Free(c) == /\ conn[c] = "joined"
           /\ \A ch \in challenges : c \notin Parties(ch)
           /\ \A b \in battles : c \notin Members(b)

\* The phase and the partner of everybody, by the kind of engagement he is in.
View ==
  /\ \A c \in Peer :
       /\ conn[c] \in {"connected", "joined", "closed"}
       /\ conn[c] = "connected" => phaseOf[c] = "connected" /\ partnerOf[c] = c
       /\ conn[c] = "closed" => phaseOf[c] = "disconnected" /\ partnerOf[c] = c
       /\ Free(c) => phaseOf[c] = "joined" /\ partnerOf[c] = c
  /\ \A ch \in challenges :
       /\ ch.from \in Joined /\ ch.to \in Joined /\ ch.from # ch.to
       /\ phaseOf[ch.from] = "pending" /\ partnerOf[ch.from] = ch.to
       /\ phaseOf[ch.to] = "pending" /\ partnerOf[ch.to] = ch.from
  /\ \A b \in battles :
       /\ b.host \in Joined /\ b.guest \in Joined /\ b.host # b.guest
       /\ phaseOf[b.host] = "battle" /\ partnerOf[b.host] = b.guest
       /\ phaseOf[b.guest] = "battle" /\ partnerOf[b.guest] = b.host

\* A player with one possible partner has that partner.
LEMMA OnlyPartner ==
  ASSUME NEW c \in Peer, NEW q, Others(c) = {q}
  PROVE  partnerOf[c] = q
  BY DEF partnerOf

\* View follows from the coordinator's invariants.
LEMMA ViewHolds == IInv => View
<1> SUFFICES ASSUME IInv PROVE View
  OBVIOUS
<1>1. \A c \in Peer : conn[c] \in {"connected", "joined", "closed"}
  BY DEF IInv, TypeOK
<1>2. ASSUME NEW c \in Peer, \A ch \in challenges : c \notin Parties(ch), \A b \in battles : c \notin Members(b)
      PROVE  Others(c) = {} /\ ~Fighting(c) /\ ~Pending(c)
  BY <1>2 DEF Others, Engagements, Pending, IInv, BattleBooks
<1>3. ASSUME NEW c \in Peer, conn[c] # "joined"
      PROVE  Others(c) = {}
  <2>1. c \notin Joined
    BY <1>3 DEF Joined
  <2> QED BY <1>2, <2>1 DEF IInv, OnlyJoinedEngaged
<1>4. \A c \in Peer : Others(c) = {} => partnerOf[c] = c
  BY DEF partnerOf
<1>5. ASSUME NEW c \in Peer
      PROVE  /\ conn[c] = "connected" => phaseOf[c] = "connected" /\ partnerOf[c] = c
             /\ conn[c] = "closed" => phaseOf[c] = "disconnected" /\ partnerOf[c] = c
             /\ Free(c) => phaseOf[c] = "joined" /\ partnerOf[c] = c
  BY <1>2, <1>3, <1>4 DEF phaseOf, Free
<1>6. ASSUME NEW ch \in challenges, NEW c \in Parties(ch), NEW q \in Parties(ch), c # q
      PROVE  c \in Joined /\ phaseOf[c] = "pending" /\ partnerOf[c] = q
  <2>1. c \in Joined /\ c \in Peer
    BY <1>6 DEF IInv, OnlyJoinedEngaged, Joined
  <2>2. {x \in challenges : c \in Parties(x)} = {ch} /\ {x \in battles : c \in Members(x)} = {}
    BY <1>6 DEF IInv, OneEngagement
  <2>3. Others(c) = {q}
    <3>1. Engagements(c) = {Parties(ch)}
      BY <2>2 DEF Engagements
    <3>2. Parties(ch) = {c, q}
      BY <1>6 DEF Parties
    <3> QED BY <1>6, <3>1, <3>2 DEF Others
  <2>4. ~Fighting(c)
    BY <2>1, <2>2 DEF IInv, BattleBooks
  <2>5. Pending(c)
    BY <1>6 DEF Pending
  <2> QED BY <2>1, <2>3, <2>4, <2>5, OnlyPartner DEF phaseOf, Joined
<1>7. ASSUME NEW b \in battles, NEW c \in Members(b), NEW q \in Members(b), c # q
      PROVE  c \in Joined /\ phaseOf[c] = "battle" /\ partnerOf[c] = q
  <2>1. c \in Joined /\ c \in Peer
    BY <1>7 DEF IInv, OnlyJoinedEngaged, Joined
  <2>2. {x \in battles : c \in Members(x)} = {b} /\ {x \in challenges : c \in Parties(x)} = {}
    BY <1>7 DEF IInv, OneEngagement
  <2>3. Others(c) = {q}
    <3>1. Engagements(c) = {Members(b)}
      BY <2>2 DEF Engagements
    <3>2. Members(b) = {c, q}
      BY <1>7 DEF Members
    <3> QED BY <1>7, <3>1, <3>2 DEF Others
  <2>4. Fighting(c)
    BY <1>7, <2>1 DEF IInv, BattleBooks, TypeOK, Battle, Id, Fighting, NoBattle
  <2> QED BY <2>1, <2>3, <2>4, OnlyPartner DEF phaseOf, Joined
<1>8. /\ \A ch \in challenges : ch.from # ch.to
      /\ \A b \in battles : b.host # b.guest
  BY DEF IInv, OneEngagement
<1> QED BY <1>1, <1>5, <1>6, <1>7, <1>8 DEF View, Parties, Members

\* The abstract state is a function on the players before and after a step.
LEMMA ViewDomains ==
  /\ phaseOf = [x \in Peer |-> phaseOf[x]] /\ phaseOf' = [x \in Peer |-> phaseOf'[x]]
  /\ partnerOf = [x \in Peer |-> partnerOf[x]] /\ partnerOf' = [x \in Peer |-> partnerOf'[x]]
  BY DEF phaseOf, partnerOf

\* Whose engagement does not change, nor his connection, is seen as before.
LEMMA SameView ==
  ASSUME View, View', NEW x \in Peer, conn'[x] = conn[x],
         \A ch : x \in Parties(ch) => (ch \in challenges <=> ch \in challenges'),
         \A b : x \in Members(b) => (b \in battles <=> b \in battles')
  PROVE  phaseOf'[x] = phaseOf[x] /\ partnerOf'[x] = partnerOf[x]
<1>1. CASE conn[x] # "joined"
  BY <1>1 DEF View
<1>2. CASE Free(x)
  BY <1>2 DEF View, Free
<1>3. ASSUME NEW ch \in challenges, x \in Parties(ch)
      PROVE  phaseOf'[x] = phaseOf[x] /\ partnerOf'[x] = partnerOf[x]
  BY <1>3 DEF View, Parties
<1>4. ASSUME NEW b \in battles, x \in Members(b)
      PROVE  phaseOf'[x] = phaseOf[x] /\ partnerOf'[x] = partnerOf[x]
  BY <1>4 DEF View, Members
<1> QED BY <1>1, <1>2, <1>3, <1>4 DEF Free

\* A step that leaves connections, challenges and battles alone is invisible.
LEMMA Invisible ==
  ASSUME View, View', UNCHANGED <<conn, challenges, battles>>
  PROVE  UNCHANGED <<phaseOf, partnerOf>>
<1>1. \A x \in Peer : phaseOf'[x] = phaseOf[x] /\ partnerOf'[x] = partnerOf[x]
  BY SameView
<1> QED BY <1>1 DEF phaseOf, partnerOf

LEMMA HelloJoins ==
  ASSUME View, View', IInv, NEW c \in Peer, NEW at, OnHello(c, at)
  PROVE  Sessions!Join(c) \/ UNCHANGED <<phaseOf, partnerOf>>
<1>1. CASE UNCHANGED state
  BY <1>1, Invisible DEF state
<1>2. CASE /\ conn[c] = "connected"
           /\ conn' = [conn EXCEPT ![c] = "joined"]
           /\ UNCHANGED matches
  <2>1. c \notin Joined
    BY <1>2 DEF Joined
  <2>2. \A x \in Peer \ {c} : phaseOf'[x] = phaseOf[x] /\ partnerOf'[x] = partnerOf[x]
    BY <1>2, SameView DEF matches, IInv, TypeOK
  <2>3. Free(c)'
    BY <1>2, <2>1 DEF Free, matches, IInv, TypeOK, OnlyJoinedEngaged
  <2>4. phaseOf[c] = "connected" /\ phaseOf'[c] = "joined" /\ partnerOf[c] = c /\ partnerOf'[c] = c
    BY <1>2, <2>3 DEF View
  <2>5. phaseOf' = [phaseOf EXCEPT ![c] = "joined"]
    BY <2>2, <2>4, ViewDomains
  <2>6. partnerOf' = partnerOf
    BY <2>2, <2>4, ViewDomains
  <2> QED BY <2>4, <2>5, <2>6 DEF Sessions!Join
<1> QED BY <1>1, <1>2 DEF OnHello

\* A challenge that can be issued pairs two free players.
LEMMA ChallengePairs ==
  ASSUME View, View', IInv, NEW c \in Peer, NEW t \in Peer, c \in Joined, OnChallenge(c, t)
  PROVE  Sessions!Pair(c, t) \/ UNCHANGED <<phaseOf, partnerOf>>
<1>1. CASE UNCHANGED state
  BY <1>1, Invisible DEF state
<1>2. CASE /\ Available(c, t)
           /\ t # c /\ ~Fighting(t) /\ ~Fighting(c)
           /\ ~Pending(c) /\ ~Pending(t)
           /\ challenges' = challenges \cup {[id |-> drawn', from |-> c, to |-> t]}
           /\ UNCHANGED <<players, battles>>
  <2> DEFINE new == [id |-> drawn', from |-> c, to |-> t]
  <2>1. new.from = c /\ new.to = t /\ challenges' = challenges \cup {new}
    BY <1>2
  <2>2. Free(c) /\ Free(t)
    BY <1>2, NonFighterFacts DEF Free, Pending, Available, Joined
  <2> HIDE DEF new
  <2>3. /\ phaseOf[c] = "joined" /\ phaseOf[t] = "joined"
        /\ phaseOf'[c] = "pending" /\ phaseOf'[t] = "pending"
        /\ partnerOf'[c] = t /\ partnerOf'[t] = c
    BY <2>1, <2>2 DEF View
  <2>4. ASSUME NEW x \in Peer \ {c, t}
        PROVE  phaseOf'[x] = phaseOf[x] /\ partnerOf'[x] = partnerOf[x]
    <3>1. x \notin Parties(new)
      BY <2>1 DEF Parties
    <3> QED BY <1>2, <2>1, <3>1, SameView DEF players
  <2>5. phaseOf' = [phaseOf EXCEPT ![c] = "pending", ![t] = "pending"]
    BY <2>3, <2>4, ViewDomains
  <2>6. partnerOf' = [partnerOf EXCEPT ![c] = t, ![t] = c]
    BY <1>2, <2>3, <2>4, ViewDomains
  <2> QED BY <1>2, <2>3, <2>5, <2>6 DEF Sessions!Pair
<1> QED BY <1>1, <1>2 DEF OnChallenge

\* A challenge that goes, with no battle in its place, parts its two players.
LEMMA ChallengeParts ==
  ASSUME View, View', IInv, NEW ch \in challenges, challenges' = challenges \ {ch},
         UNCHANGED <<conn, battles>>
  PROVE  Sessions!Part(ch.to)
<1> DEFINE c == ch.to
           f == ch.from
<1>1. c \in Peer /\ f \in Peer /\ c # f /\ c \in Joined /\ f \in Joined /\ Parties(ch) = {c, f}
  BY DEF View, Joined, Parties
<1>2. /\ phaseOf[c] = "pending" /\ partnerOf[c] = f
      /\ phaseOf[f] = "pending" /\ partnerOf[f] = c
  BY DEF View
<1>3. Free(c)' /\ Free(f)'
  <2>1. \A x \in challenges' : c \notin Parties(x) /\ f \notin Parties(x)
    BY <1>1 DEF IInv, OneEngagement
  <2>2. \A b \in battles : c \notin Members(b) /\ f \notin Members(b)
    BY <1>1 DEF IInv, OneEngagement
  <2> QED BY <1>1, <2>1, <2>2 DEF Free, Joined
<1>4. /\ phaseOf'[c] = "joined" /\ phaseOf'[f] = "joined"
      /\ partnerOf'[c] = c /\ partnerOf'[f] = f
  BY <1>1, <1>3 DEF View
<1>5. \A x \in Peer \ {c, f} : phaseOf'[x] = phaseOf[x] /\ partnerOf'[x] = partnerOf[x]
  BY <1>1, SameView
<1> HIDE DEF c, f
<1>6. phaseOf' = [phaseOf EXCEPT ![c] = "joined", ![partnerOf[c]] = "joined"]
  BY <1>1, <1>2, <1>4, <1>5, ViewDomains
<1>7. partnerOf' = [partnerOf EXCEPT ![c] = c, ![partnerOf[c]] = partnerOf[c]]
  <2>1. partnerOf' = [partnerOf EXCEPT ![c] = c, ![f] = f]
    BY <1>1, <1>4, <1>5, ViewDomains
  <2> QED BY <1>2, <2>1
<1>8. Sessions!Part(c)
  BY <1>2, <1>6, <1>7 DEF Sessions!Part
<1> QED BY <1>8 DEF c

\* A challenge that becomes a battle makes its two players fight.
LEMMA AcceptFights ==
  ASSUME View, View', IInv, NEW ch \in challenges, challenges' = challenges \ {ch},
         NEW b, b.host = ch.from, b.guest = ch.to, battles' = battles \cup {b},
         UNCHANGED conn
  PROVE  Sessions!Fight(ch.to)
<1> DEFINE c == ch.to
           f == ch.from
<1>1. c \in Peer /\ f \in Peer /\ c # f /\ Parties(ch) = {c, f} /\ Members(b) = {c, f}
  BY DEF View, Joined, Parties, Members
<1>2. /\ phaseOf[c] = "pending" /\ partnerOf[c] = f
      /\ phaseOf[f] = "pending" /\ partnerOf[f] = c
  BY DEF View
<1>3. b \in battles'
  OBVIOUS
<1>4. /\ phaseOf'[c] = "battle" /\ phaseOf'[f] = "battle"
      /\ partnerOf'[c] = f /\ partnerOf'[f] = c
  BY <1>3 DEF View
<1>5. \A x \in Peer \ {c, f} : phaseOf'[x] = phaseOf[x] /\ partnerOf'[x] = partnerOf[x]
  BY <1>1, SameView
<1> HIDE DEF c, f
<1>6. phaseOf' = [phaseOf EXCEPT ![c] = "battle", ![f] = "battle"]
  BY <1>1, <1>4, <1>5, ViewDomains
<1>7. partnerOf' = partnerOf
  BY <1>1, <1>2, <1>4, <1>5, ViewDomains
<1>8. Sessions!Fight(c)
  BY <1>2, <1>6, <1>7 DEF Sessions!Fight
<1> QED BY <1>8 DEF c

LEMMA ReplyIsSession ==
  ASSUME View, View', IInv, NEW c \in Peer, NEW id, NEW accept, OnChallengeReply(c, id, accept)
  PROVE  Sessions!Part(c) \/ Sessions!Fight(c) \/ UNCHANGED <<phaseOf, partnerOf>>
<1>1. CASE UNCHANGED state
  BY <1>1, Invisible DEF state
<1>2. CASE \E ch \in challenges : /\ ch.to = c /\ challenges' = challenges \ {ch}
                                  /\ UNCHANGED <<conn, place, battleOf, battles, drawn>>
  BY <1>2, ChallengeParts
<1>3. CASE \E ch \in challenges :
             /\ ch.to = c
             /\ challenges' = challenges \ {ch}
             /\ UNCHANGED <<conn, place>>
             /\ battles' = battles \cup {[id |-> drawn', host |-> ch.from, guest |-> c]}
  <2> PICK ch \in challenges :
             /\ ch.to = c
             /\ challenges' = challenges \ {ch}
             /\ UNCHANGED <<conn, place>>
             /\ battles' = battles \cup {[id |-> drawn', host |-> ch.from, guest |-> c]}
    BY <1>3
  <2> DEFINE new == [id |-> drawn', host |-> ch.from, guest |-> c]
  <2>1. new.host = ch.from /\ new.guest = ch.to /\ battles' = battles \cup {new}
    OBVIOUS
  <2> HIDE DEF new
  <2> QED BY <2>1, AcceptFights
<1> QED BY <1>1, <1>2, <1>3 DEF OnChallengeReply

\* The battle that a player is in when he ends it is the only one that goes.
LEMMA EndingIsOne ==
  ASSUME IInv, NEW c \in Peer, NEW id
  PROVE  Ending(c, id) = {} \/ \E b \in battles : Ending(c, id) = {b} /\ c \in Members(b)
  BY DEF IInv, OneEngagement, Ending

LEMMA BattleEndParts ==
  ASSUME View, View', IInv, NEW c \in Peer, NEW id, OnBattleEnd(c, id)
  PROVE  Sessions!Part(c) \/ UNCHANGED <<phaseOf, partnerOf>>
<1>1. battles' = battles \ Ending(c, id) /\ UNCHANGED <<conn, challenges>>
  BY DEF OnBattleEnd
<1>2. CASE Ending(c, id) = {}
  BY <1>1, <1>2, Invisible
<1>3. CASE \E b \in battles : Ending(c, id) = {b} /\ c \in Members(b)
  <2> PICK b \in battles : Ending(c, id) = {b} /\ c \in Members(b)
    BY <1>3
  <2>0. b.host # b.guest
    BY DEF View
  <2> PICK q : q # c /\ Members(b) = {c, q}
    BY <2>0 DEF Members
  <2>1. q \in Peer /\ q \in Joined /\ c \in Joined
    BY DEF View, Joined, Members
  <2>2. /\ phaseOf[c] = "battle" /\ partnerOf[c] = q
        /\ phaseOf[q] = "battle" /\ partnerOf[q] = c
    BY DEF View, Members
  <2>3. Free(c)' /\ Free(q)'
    <3>1. \A x \in battles' : c \notin Members(x) /\ q \notin Members(x)
      BY <1>1 DEF IInv, OneEngagement
    <3>2. \A ch \in challenges : c \notin Parties(ch) /\ q \notin Parties(ch)
      BY DEF IInv, OneEngagement
    <3> QED BY <1>1, <2>1, <3>1, <3>2 DEF Free, Joined
  <2>4. /\ phaseOf'[c] = "joined" /\ phaseOf'[q] = "joined"
        /\ partnerOf'[c] = c /\ partnerOf'[q] = q
    BY <2>1, <2>3 DEF View
  <2>5. \A x \in Peer \ {c, q} : phaseOf'[x] = phaseOf[x] /\ partnerOf'[x] = partnerOf[x]
    BY <1>1, SameView
  <2>6. phaseOf' = [phaseOf EXCEPT ![c] = "joined", ![partnerOf[c]] = "joined"]
    BY <2>1, <2>2, <2>4, <2>5, ViewDomains
  <2>7. partnerOf' = [partnerOf EXCEPT ![c] = c, ![q] = q]
    BY <2>1, <2>4, <2>5, ViewDomains
  <2>8. partnerOf' = [partnerOf EXCEPT ![c] = c, ![partnerOf[c]] = partnerOf[c]]
    BY <2>2, <2>7
  <2> QED BY <2>2, <2>6, <2>8 DEF Sessions!Part
<1> QED BY <1>2, <1>3, EndingIsOne

\* Who disconnects leaves his pair, and the other is free.
LEMMA DisconnectDrops ==
  ASSUME View, View', IInv, NEW c \in Peer, Disconnect(c)
  PROVE  Sessions!Drop(c)
<1>1. /\ conn[c] \in {"connected", "joined"}
      /\ conn' = [conn EXCEPT ![c] = "closed"]
      /\ conn \in [Peer -> {"connected", "joined", "closed"}]
  BY DEF Disconnect, IInv, TypeOK
<1>2. conn'[c] = "closed" /\ \A x \in Peer \ {c} : conn'[x] = conn[x]
  BY <1>1
<1>3. phaseOf[c] # "disconnected"
  <2>1. CASE conn[c] = "connected"
    BY <2>1 DEF View
  <2>2. CASE Free(c)
    BY <2>2 DEF View
  <2>3. ASSUME NEW ch \in challenges, c \in Parties(ch) PROVE phaseOf[c] = "pending"
    BY <2>3 DEF View, Parties
  <2>4. ASSUME NEW b \in battles, c \in Members(b) PROVE phaseOf[c] = "battle"
    BY <2>4 DEF View, Members
  <2> QED BY <1>1, <2>1, <2>2, <2>3, <2>4 DEF Free
<1>4. phaseOf'[c] = "disconnected" /\ partnerOf'[c] = c
  BY <1>2 DEF View
<1>5. /\ \A x \in challenges : x \in challenges' <=> c \notin Parties(x)
      /\ \A b \in battles : b \in battles' <=> c \notin Members(b)
      /\ challenges' \subseteq challenges /\ battles' \subseteq battles
  <2>1. CASE conn[c] = "connected" /\ UNCHANGED matches
    <3>1. c \notin Joined
      BY <2>1 DEF Joined
    <3> QED BY <2>1, <3>1 DEF matches, IInv, OnlyJoinedEngaged
  <2>2. CASE challenges' = challenges \ ChallengesOf(c) /\ battles' = battles \ Ending(c, battleOf[c])
    BY <2>2 DEF ChallengesOf, Ending, IInv, BattleBooks
  <2> QED BY <2>1, <2>2 DEF Disconnect
\* Whoever is paired with c is free afterwards.
<1>6. ASSUME NEW q \in Peer \ {c},
             (\E ch \in challenges : Parties(ch) = {c, q}) \/ (\E b \in battles : Members(b) = {c, q})
      PROVE  /\ partnerOf[c] = q /\ partnerOf[q] = c
             /\ phaseOf'[q] = "joined" /\ partnerOf'[q] = q
  <2>1. partnerOf[c] = q /\ partnerOf[q] = c /\ conn[q] = "joined"
    BY <1>6 DEF View, Parties, Members, Joined
  <2>2. Free(q)'
    BY <1>2, <1>5, <1>6, <2>1 DEF Free, IInv, OneEngagement
  <2> QED BY <2>1, <2>2 DEF View
\* Whoever is not, and was not c's partner, is seen as before.
<1>7. ASSUME NEW q \in Peer \ {c},
             ~\E ch \in challenges : Parties(ch) = {c, q}, ~\E b \in battles : Members(b) = {c, q}
      PROVE  phaseOf'[q] = phaseOf[q] /\ partnerOf'[q] = partnerOf[q]
  <2>1. \A ch \in challenges : q \in Parties(ch) => c \notin Parties(ch)
    BY <1>7 DEF Parties
  <2>2. \A b \in battles : q \in Members(b) => c \notin Members(b)
    BY <1>7 DEF Members
  <2>3. \A ch : q \in Parties(ch) => (ch \in challenges <=> ch \in challenges')
    BY <1>5, <2>1
  <2>4. \A b : q \in Members(b) => (b \in battles <=> b \in battles')
    BY <1>5, <2>2
  <2> QED BY <1>2, <2>3, <2>4, SameView
<1>8. ASSUME NEW q \in Peer \ {c}
      PROVE  /\ partnerOf[c] = q <=> (\/ \E ch \in challenges : Parties(ch) = {c, q}
                                      \/ \E b \in battles : Members(b) = {c, q})
             /\ partnerOf[c] \in Peer
  <2>1. CASE conn[c] = "connected"
    <3>1. c \notin Joined
      BY <2>1 DEF Joined
    <3> QED BY <2>1, <3>1 DEF View, IInv, OnlyJoinedEngaged
  <2>2. CASE Free(c)
    BY <2>2 DEF View, Free
  <2>3. ASSUME NEW ch \in challenges, c \in Parties(ch)
        PROVE  \E p \in Peer : partnerOf[c] = p /\ Parties(ch) = {c, p}
    BY <2>3 DEF View, Parties, Joined
  <2>4. ASSUME NEW b \in battles, c \in Members(b)
        PROVE  \E p \in Peer : partnerOf[c] = p /\ Members(b) = {c, p}
    BY <2>4 DEF View, Members, Joined
  <2>5. (\E ch \in challenges : c \in Parties(ch)) \/ (\E b \in battles : c \in Members(b))
        \/ conn[c] = "connected" \/ Free(c)
    BY <1>1 DEF Free
  <2>6. partnerOf[c] = q => \/ \E ch \in challenges : Parties(ch) = {c, q}
                            \/ \E b \in battles : Members(b) = {c, q}
    BY <2>1, <2>2, <2>3, <2>4, <2>5 DEF View
  <2>7. partnerOf[c] \in Peer
    BY <2>1, <2>2, <2>3, <2>4, <2>5 DEF View
  <2> QED BY <1>6, <2>6, <2>7
<1>9. phaseOf' = [q \in Peer |-> CASE q = c -> "disconnected"
                                   [] q # c /\ partnerOf[c] = q -> "joined"
                                   [] OTHER -> phaseOf[q]]
  <2>1. \A q \in Peer \ {c} : phaseOf'[q] = IF partnerOf[c] = q THEN "joined" ELSE phaseOf[q]
    BY <1>6, <1>7, <1>8
  <2> QED BY <1>4, <2>1, ViewDomains
<1>10. partnerOf' = [partnerOf EXCEPT ![c] = c, ![partnerOf[c]] = partnerOf[c]]
  <2>1. \A q \in Peer \ {c} : partnerOf'[q] = IF partnerOf[c] = q THEN q ELSE partnerOf[q]
    BY <1>6, <1>7, <1>8
  <2> QED BY <1>4, <2>1, ViewDomains
<1> QED BY <1>3, <1>9, <1>10 DEF Sessions!Drop

\* The coordinator starts with everybody connected and by himself.
LEMMA InitIsSession == Init => Sessions!Init
<1> SUFFICES ASSUME Init PROVE Sessions!Init
  OBVIOUS
<1>1. View
  BY InitIInv, ViewHolds
<1>2. \A c \in Peer : phaseOf[c] = "connected" /\ partnerOf[c] = c
  BY <1>1 DEF View, Init
<1> QED BY <1>2, ViewDomains DEF Sessions!Init

LEMMA HandleIsSession ==
  ASSUME View, View', IInv, NEW c \in Peer, NEW msg \in ClientMessage, Handle(c, msg)
  PROVE  \/ Sessions!Join(c) \/ Sessions!Fight(c) \/ Sessions!Part(c)
         \/ \E t \in Peer : Sessions!Pair(c, t)
         \/ UNCHANGED <<phaseOf, partnerOf>>
<1>1. msg.type = "challenge" => msg.target \in Peer
  BY DEF ClientMessage
<1>2. CASE OnHello(c, [map |-> msg.map, pos |-> msg.pos])
  BY <1>2, HelloJoins
<1>3. CASE UNCHANGED state
  BY <1>3, Invisible DEF state
<1>4. CASE UNCHANGED <<conn, battleOf, matches>>
  BY <1>4, Invisible DEF matches
<1>5. CASE c \in Joined /\ msg.type = "challenge" /\ OnChallenge(c, msg.target)
  BY <1>1, <1>5, ChallengePairs
<1>6. CASE OnChallengeReply(c, msg.id, msg.accept)
  BY <1>6, ReplyIsSession
<1>7. CASE OnBattleEnd(c, msg.id)
  BY <1>7, BattleEndParts
<1>8. conn[c] = "joined" => c \in Joined
  BY DEF Joined
<1>9. NotInitialized(c) \/ OnBattleMessage(c, msg) \/ OnPing(c) => UNCHANGED state
  BY DEF NotInitialized, OnBattleMessage, OnPing
<1>10. OnMove(c, [map |-> msg.map, pos |-> msg.pos]) =>
         UNCHANGED state \/ UNCHANGED <<conn, battleOf, matches>>
  BY DEF OnMove
<1> QED BY <1>2, <1>3, <1>4, <1>5, <1>6, <1>7, <1>8, <1>9, <1>10 DEF Handle

\* Every step of the coordinator is one step of LinkSessions or none.
LEMMA StepIsSession ==
  ASSUME IInv, IInv', View, View', [Next]_vars
  PROVE  [Sessions!Next]_(Sessions!svars)
<1>1. CASE UNCHANGED vars
  BY <1>1, Invisible DEF vars, Sessions!svars
<1>2. ASSUME NEW c \in Peer, Disconnect(c) PROVE Sessions!Next
  BY <1>2, DisconnectDrops DEF Sessions!Next
<1>3. ASSUME NEW c \in Peer, NEW msg \in ClientMessage, Handle(c, msg)
      PROVE  [Sessions!Next]_(Sessions!svars)
  BY <1>3, HandleIsSession DEF Sessions!Next, Sessions!svars
<1> QED BY <1>1, <1>2, <1>3 DEF Next

\* The coordinator pairs and parts players as LinkSessions says
\* (docs/protocol.md:55-66), whatever the players send and in whatever order.
THEOREM Implementation == Spec => ImplementsSessions
<1>1. IInv /\ IInv' /\ View /\ View' /\ [Next]_vars => [Sessions!Next]_(Sessions!svars)
  BY StepIsSession
<1> QED BY Safety, InitIsSession, ViewHolds, <1>1, PTL DEF Spec, ImplementsSessions, Sessions!Spec
=============================================================================
