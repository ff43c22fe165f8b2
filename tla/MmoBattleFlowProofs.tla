-------------------------- MODULE MmoBattleFlowProofs --------------------------
(***************************************************************************)
(* Proofs about MmoBattleFlow: server, streams and clients together.       *)
(*                                                                         *)
(* A client acts on what the server said some messages ago.  The invariant *)
(* therefore speaks of each client's record and stream as one: what he has *)
(* begun and what he will be told are battles one after the other, each    *)
(* over before the next, and the last of them is the one the server has    *)
(* him in (Stream).  A step of his own moves the border between record and *)
(* stream; a step of the server adds to the end of the stream, and the     *)
(* coordinator's invariant IInv says that what it adds fits.               *)
(*                                                                         *)
(* On top of that, Negotiated follows the hellos and parties of a battle   *)
(* from one client through both streams to the other.                      *)
(***************************************************************************)
EXTENDS MmoBattleFlow, MmoCoordinatorProofs

-----------------------------------------------------------------------------
\* handleMessage goes through its list item after item: what each item keeps, the list keeps.
LEMMA HandlingKeeps ==
  ASSUME NEW S, NEW X, NEW c \in Peer, NEW f \in S, NEW ps \in Seq(X),
         \A g \in S, p \in X : HandlePayload(c, g, p) \in S
  PROVE  Handling(c, f, ps) \in S
<1> DEFINE E(g) == [n \in 0..Len(ps) |-> IF n = 0 THEN f ELSE HandlePayload(c, g[n - 1], ps[n])]
           after == CHOOSE g : g = E(g)
<1>1. Handling(c, f, ps) = after[Len(ps)]
  BY DEF Handling
<1>2. PICK F \in [S \X X -> S] : F = [rx \in S \X X |-> HandlePayload(c, rx[1], rx[2])]
  OBVIOUS
<1>3. PICK g \in [0..Len(ps) -> S] : Course(g, F, f, ps)
  BY CourseExists
<1>4. Len(ps) \in Nat /\ \A n \in 1..Len(ps) : ps[n] \in X
  BY LenProperties, ElementOfSeq
<1>5. g = E(g)
  <2>1. \A n \in 1..Len(ps) : /\ n - 1 \in 0..Len(ps) /\ n # 0 /\ n \in 0..Len(ps)
                              /\ g[n - 1] \in S /\ g[n] = HandlePayload(c, g[n - 1], ps[n])
    <3> SUFFICES ASSUME NEW n \in 1..Len(ps)
                 PROVE  /\ n - 1 \in 0..Len(ps) /\ n # 0 /\ n \in 0..Len(ps)
                        /\ g[n - 1] \in S /\ g[n] = HandlePayload(c, g[n - 1], ps[n])
      OBVIOUS
    <3>1. n - 1 \in 0..Len(ps) /\ n # 0 /\ n \in 0..Len(ps) /\ ps[n] \in X
      BY <1>4
    <3>2. g[n - 1] \in S /\ g[n] = F[<<g[n - 1], ps[n]>>]
      BY <1>3, <3>1 DEF Course
    <3>3. F[<<g[n - 1], ps[n]>>] = HandlePayload(c, g[n - 1], ps[n])
      BY <1>2, <3>1, <3>2
    <3> QED BY <3>1, <3>2, <3>3
  <2>2. \A n \in 0..Len(ps) : g[n] = IF n = 0 THEN f ELSE HandlePayload(c, g[n - 1], ps[n])
    BY <1>4, <2>1, <1>3 DEF Course
  <2> QED BY <2>2
<1> HIDE DEF E
<1>6. after = E(after)
  BY <1>5
<1> HIDE DEF after
<1>7. \A n \in 0..Len(ps) : after[n] = IF n = 0 THEN f ELSE HandlePayload(c, after[n - 1], ps[n])
  BY <1>6 DEF E
<1> DEFINE T == {n \in 0..Len(ps) : after[n] \in S}
<1>8. 0 \in T
  BY <1>4, <1>7
<1>9. ASSUME NEW n \in 0..Len(ps), n \in T, n < Len(ps) PROVE n + 1 \in T
  <2>1. n + 1 \in 0..Len(ps) /\ n + 1 # 0 /\ (n + 1) - 1 = n /\ ps[n + 1] \in X /\ after[n] \in S
    BY <1>4, <1>9
  <2>2. after[n + 1] = HandlePayload(c, after[n], ps[n + 1])
    BY <1>7, <2>1
  <2> QED BY <2>1, <2>2
<1> HIDE DEF T
<1>10. 0..Len(ps) \subseteq T
  BY <1>4, <1>8, <1>9, Inductive
<1> QED BY <1>1, <1>4, <1>10 DEF T

-----------------------------------------------------------------------------
(***************************************************************************)
(* The stream of a client: what the server has told him and he has not     *)
(* read yet.  A battle begins where its start is told, and the battle of   *)
(* an open net began before the stream.                                    *)
(***************************************************************************)

\* What a BattleFlow takes notice of.
Notice ==
       [type : {"challenge_received"}, id : Id, from : Peer]
  \cup [type : {"battle_start"}, id : Id, role : {"host", "guest"}, opponent : Peer]
  \cup [type : {"battle_message"}, id : Id, from : Peer, payload : Payload]
  \cup [type : {"battle_ended"}, id : Id, reason : {"ended", "opponent_disconnected"}]

\* Between its places i and j the stream s tells that battle id is over.
Ended(s, i, j, id) ==
  \E k \in 1..Len(s) : i < k /\ k < j /\ s[k].type = "battle_ended" /\ s[k].id = id

\* A battle begins at the place i of s; the one that f holds a net for began at place 0.
BeginsAt(f, s, i) == IF i = 0 THEN f.open ELSE s[i].type = "battle_start"
\* The battle that begins at place i.
BattleAt(f, s, i) == IF i = 0 THEN f.net ELSE s[i].id

\* One battle is over before the next begins.
Parted(f, s) ==
  \A i, j \in 0..Len(s) :
    i < j /\ BeginsAt(f, s, i) /\ BeginsAt(f, s, j) => Ended(s, i, j, BattleAt(f, s, i))

\* A battle that has begun is the server's, or its end is told.
Current(f, s, b) ==
  \A i \in 0..Len(s) :
    BeginsAt(f, s, i) => BattleAt(f, s, i) = b \/ Ended(s, i, Len(s) + 1, BattleAt(f, s, i))

\* Battles begin in the order of their ids.
Rising(f, s) ==
  \A j \in 1..Len(s) : s[j].type = "battle_start" =>
    /\ f.battleId < s[j].id
    /\ \A i \in 1..Len(s) : i < j /\ s[i].type = "battle_start" => s[i].id < s[j].id

\* The end of the server's battle is not told before it is over.
NotOver(s, b) == \A k \in 1..Len(s) : s[k].type = "battle_ended" => s[k].id # b

\* All that is told is of ids the server has drawn.
Drawn(s, d) == \A i \in 1..Len(s) : s[i].id <= d

\* The net is of the battle the flow has begun last, which was drawn.
NetOf(f, d) == /\ f.net \in {NoBattle, f.battleId} /\ f.battleId <= d
               /\ f.open => f.net # NoBattle

\* What the server has told a client and he has not read, against his flow, his battle
\* and the ids drawn: the order that lets one net at a time be open, and none for long
\* after its battle.
Stream(f, s, b, d) ==
  Parted(f, s) /\ Current(f, s, b) /\ Rising(f, s) /\ NotOver(s, b) /\ Drawn(s, d) /\ NetOf(f, d)

\* The rest of a list that is not empty, place by place.
LEMMA TailAt ==
  ASSUME NEW S, NEW s \in Seq(S), s # <<>>
  PROVE  /\ Tail(s) \in Seq(S) /\ Len(s) \in Nat /\ Len(Tail(s)) = Len(s) - 1 /\ Len(s) >= 1
         /\ \A i \in 1..Len(s) - 1 : Tail(s)[i] = s[i + 1]
         /\ Head(s) = s[1] /\ Head(s) \in S /\ 1 \in 1..Len(s)
         /\ \A i \in 1..Len(s) : s[i] \in S
<1>1. Len(s) \in Nat /\ Len(s) # 0 /\ \A i \in 1..Len(s) : s[i] \in S
  BY LenProperties, ElementOfSeq, EmptySeq
<1>2. Tail(s) \in Seq(S) /\ Len(Tail(s)) = Len(s) - 1 /\ Head(s) = s[1]
  BY HeadTailProperties
<1>3. \A i \in 1..Len(s) - 1 : Tail(s)[i] = s[i + 1]
  BY HeadTailProperties, <1>2
<1> QED BY <1>1, <1>2, <1>3

\* A list with one more, place by place.
LEMMA AppendAt ==
  ASSUME NEW S, NEW s \in Seq(S), NEW m \in S
  PROVE  /\ Append(s, m) \in Seq(S) /\ Len(s) \in Nat /\ Len(Append(s, m)) = Len(s) + 1
         /\ \A i \in 1..Len(s) : Append(s, m)[i] = s[i]
         /\ Append(s, m)[Len(s) + 1] = m
         /\ \A i \in 1..Len(s) : s[i] \in S
  BY AppendProperties, LenProperties, ElementOfSeq

\* What is noticed is of a challenge or a battle.
LEMMA NoticeIds ==
  ASSUME NEW m \in Notice
  PROVE  m.id \in Nat /\ m.id # NoBattle /\ m.type \in Noticed
  BY DEF Notice, Id, NoBattle, Noticed

\* An end told later in the list is told in the rest of it.
LEMMA EndedTail ==
  ASSUME NEW s \in Seq(Notice), s # <<>>, NEW i \in Nat, NEW j \in Nat, NEW id, Ended(s, i + 1, j + 1, id)
  PROVE  Ended(Tail(s), i, j, id)
<1>1. PICK k \in 1..Len(s) : i + 1 < k /\ k < j + 1 /\ s[k].type = "battle_ended" /\ s[k].id = id
  BY DEF Ended
<1>2. PICK p : p = k - 1
  OBVIOUS
<1>3. p \in 1..Len(s) - 1 /\ i < p /\ p < j /\ p + 1 = k
  BY <1>1, <1>2, TailAt
<1>4. p \in 1..Len(Tail(s)) /\ Tail(s)[p] = s[k]
  BY <1>3, TailAt
<1> QED BY <1>1, <1>3, <1>4 DEF Ended

\* An end that is told stays told.
LEMMA EndedAppend ==
  ASSUME NEW s \in Seq(Notice), NEW m \in Notice, NEW i, NEW j, NEW id, Ended(s, i, j, id)
  PROVE  Ended(Append(s, m), i, j, id)
<1>1. PICK k \in 1..Len(s) : i < k /\ k < j /\ s[k].type = "battle_ended" /\ s[k].id = id
  BY DEF Ended
<1>2. k \in 1..Len(Append(s, m)) /\ Append(s, m)[k] = s[k]
  BY AppendAt
<1> QED BY <1>1, <1>2 DEF Ended

\* BattleFlow takes the first message; its battle is then the one that begins with it, or
\* the one it had and whose end this message does not tell.
Takes(f, g, m) ==
  g.open => \/ m.type = "battle_start" /\ g.net = m.id
            \/ f.open /\ g.net = f.net /\ m.type # "battle_start" /\ ~(m.type = "battle_ended" /\ m.id = f.net)

\* What begins at a place of the rest began at a place of the whole list, and an end told
\* after the one is told after the other.
LEMMA TailPlace ==
  ASSUME NEW s \in Seq(Notice), s # <<>>, NEW f, NEW g, Takes(f, g, Head(s)),
         NEW i \in 0..Len(Tail(s)), BeginsAt(g, Tail(s), i)
  PROVE  /\ \E p \in 0..i + 1 : /\ p = i + 1 \/ (p = 0 /\ i = 0)
                                /\ BeginsAt(f, s, p) /\ BattleAt(f, s, p) = BattleAt(g, Tail(s), i)
                                /\ \A j \in Nat : Ended(s, p, j, BattleAt(f, s, p))
                                                   => Ended(s, i + 1, j, BattleAt(f, s, p))
<1>1. /\ Len(s) \in Nat /\ Len(Tail(s)) = Len(s) - 1 /\ Len(s) >= 1 /\ Head(s) = s[1]
      /\ \A k \in 1..Len(s) - 1 : Tail(s)[k] = s[k + 1]
  BY TailAt
<1>2. CASE i # 0
  <2>1. i + 1 \in 0..i + 1 /\ i + 1 # 0 /\ Tail(s)[i] = s[i + 1]
    BY <1>1, <1>2
  <2>2. BeginsAt(f, s, i + 1) /\ BattleAt(f, s, i + 1) = BattleAt(g, Tail(s), i)
    BY <1>2, <2>1 DEF BeginsAt, BattleAt
  <2> QED BY <2>1, <2>2
<1>3. CASE i = 0
  <2>1. g.open
    BY <1>3 DEF BeginsAt
  <2>2. CASE Head(s).type = "battle_start" /\ g.net = Head(s).id
    <3>1. 1 \in 0..i + 1 /\ 1 = i + 1 /\ 1 # 0
      BY <1>3
    <3>2. BeginsAt(f, s, 1) /\ BattleAt(f, s, 1) = BattleAt(g, Tail(s), i)
      BY <1>1, <1>3, <2>2 DEF BeginsAt, BattleAt
    <3> QED BY <3>1, <3>2
  <2>3. CASE f.open /\ g.net = f.net /\ ~(Head(s).type = "battle_ended" /\ Head(s).id = f.net)
    <3>1. 0 \in 0..i + 1
      BY <1>3
    <3>2. BeginsAt(f, s, 0) /\ BattleAt(f, s, 0) = BattleAt(g, Tail(s), i) /\ BattleAt(f, s, 0) = f.net
      BY <1>3, <2>3 DEF BeginsAt, BattleAt
    <3>3. ASSUME NEW j \in Nat, Ended(s, 0, j, f.net) PROVE Ended(s, i + 1, j, f.net)
      <4>1. PICK k \in 1..Len(s) : 0 < k /\ k < j /\ s[k].type = "battle_ended" /\ s[k].id = f.net
        BY <3>3 DEF Ended
      <4>2. k # 1
        BY <1>1, <2>3, <4>1
      <4>3. i + 1 < k
        BY <1>1, <1>3, <4>1, <4>2
      <4> QED BY <4>1, <4>3 DEF Ended
    <3> QED BY <1>3, <3>1, <3>2, <3>3
  <2> QED BY <2>1, <2>2, <2>3 DEF Takes
<1> QED BY <1>2, <1>3

\* The rest of the stream is parted and current for the record that took the first message.
LEMMA TailParted ==
  ASSUME NEW s \in Seq(Notice), s # <<>>, NEW f, NEW g, Takes(f, g, Head(s)), NEW b,
         Parted(f, s), Current(f, s, b)
  PROVE  Parted(g, Tail(s)) /\ Current(g, Tail(s), b)
<1>1. /\ Len(s) \in Nat /\ Len(Tail(s)) = Len(s) - 1 /\ Len(s) >= 1
      /\ \A k \in 1..Len(s) - 1 : Tail(s)[k] = s[k + 1]
  BY TailAt
<1>2. ASSUME NEW i \in 0..Len(Tail(s)), NEW j \in 0..Len(Tail(s)),
             i < j, BeginsAt(g, Tail(s), i), BeginsAt(g, Tail(s), j)
      PROVE  Ended(Tail(s), i, j, BattleAt(g, Tail(s), i))
  <2>1. PICK p \in 0..i + 1 : /\ BeginsAt(f, s, p) /\ BattleAt(f, s, p) = BattleAt(g, Tail(s), i)
                              /\ \A n \in Nat : Ended(s, p, n, BattleAt(f, s, p))
                                                  => Ended(s, i + 1, n, BattleAt(f, s, p))
    BY <1>2, TailPlace
  <2>2. i \in Nat /\ j \in Nat /\ p \in 0..Len(s) /\ j + 1 \in 0..Len(s) /\ p < j + 1 /\ j # 0 /\ j + 1 # 0 /\ j + 1 \in Nat
    BY <1>1, <1>2, <2>1
  <2>3. BeginsAt(f, s, j + 1)
    BY <1>1, <1>2, <2>2 DEF BeginsAt
  <2>4. Ended(s, p, j + 1, BattleAt(f, s, p))
    BY <2>1, <2>2, <2>3 DEF Parted
  <2>5. Ended(s, i + 1, j + 1, BattleAt(f, s, p))
    BY <2>1, <2>2, <2>4
  <2> QED BY <2>1, <2>2, <2>5, EndedTail
<1>3. ASSUME NEW i \in 0..Len(Tail(s)), BeginsAt(g, Tail(s), i), BattleAt(g, Tail(s), i) # b
      PROVE  Ended(Tail(s), i, Len(Tail(s)) + 1, BattleAt(g, Tail(s), i))
  <2>1. PICK p \in 0..i + 1 : /\ BeginsAt(f, s, p) /\ BattleAt(f, s, p) = BattleAt(g, Tail(s), i)
                              /\ \A n \in Nat : Ended(s, p, n, BattleAt(f, s, p))
                                                  => Ended(s, i + 1, n, BattleAt(f, s, p))
    BY <1>3, TailPlace
  <2>2. /\ i \in Nat /\ p \in 0..Len(s) /\ Len(s) + 1 \in Nat /\ Len(Tail(s)) + 1 \in Nat
        /\ (Len(Tail(s)) + 1) + 1 = Len(s) + 1
    BY <1>1, <1>3, <2>1
  <2>3. Ended(s, p, Len(s) + 1, BattleAt(f, s, p))
    BY <1>3, <2>1, <2>2 DEF Current
  <2>4. Ended(s, i + 1, Len(s) + 1, BattleAt(f, s, p))
    BY <2>1, <2>2, <2>3
  <2>5. Ended(s, i + 1, (Len(Tail(s)) + 1) + 1, BattleAt(f, s, p))
    BY <2>2, <2>4
  <2> QED BY <2>1, <2>2, <2>5, EndedTail
<1> QED BY <1>2, <1>3 DEF Parted, Current

\* Order, ends and ids of the rest of the stream.
LEMMA TailRest ==
  ASSUME NEW s \in Seq(Notice), s # <<>>, NEW f \in FlowRecord, NEW b, NEW d,
         Rising(f, s), NotOver(s, b), Drawn(s, d)
  PROVE  /\ NotOver(Tail(s), b) /\ Drawn(Tail(s), d) /\ Tail(s) \in Seq(Notice)
         /\ \A g : g.battleId = f.battleId => Rising(g, Tail(s))
         /\ \A g : Head(s).type = "battle_start" /\ g.battleId = Head(s).id => Rising(g, Tail(s))
<1>1. /\ Len(s) \in Nat /\ Len(Tail(s)) = Len(s) - 1 /\ Len(s) >= 1 /\ Head(s) = s[1]
      /\ \A k \in 1..Len(s) - 1 : Tail(s)[k] = s[k + 1]
      /\ Tail(s) \in Seq(Notice)
  BY TailAt
<1>2. \A k \in 1..Len(Tail(s)) : k + 1 \in 1..Len(s) /\ 1 < k + 1 /\ Tail(s)[k] = s[k + 1]
  BY <1>1
<1>3. NotOver(Tail(s), b) /\ Drawn(Tail(s), d)
  BY <1>2 DEF NotOver, Drawn
<1>4. ASSUME NEW i \in 1..Len(Tail(s)), NEW j \in 1..Len(Tail(s)), i < j,
             Tail(s)[i].type = "battle_start", Tail(s)[j].type = "battle_start"
      PROVE  Tail(s)[i].id < Tail(s)[j].id
  <2>1. i + 1 \in 1..Len(s) /\ j + 1 \in 1..Len(s) /\ i + 1 < j + 1
    BY <1>1, <1>4
  <2> QED BY <1>2, <1>4, <2>1 DEF Rising
<1>5. ASSUME NEW g, g.battleId = f.battleId PROVE Rising(g, Tail(s))
  <2>1. \A j \in 1..Len(Tail(s)) : Tail(s)[j].type = "battle_start" => g.battleId < Tail(s)[j].id
    BY <1>2, <1>5 DEF Rising
  <2> QED BY <1>4, <2>1 DEF Rising
<1>6. ASSUME NEW g, Head(s).type = "battle_start", g.battleId = Head(s).id PROVE Rising(g, Tail(s))
  <2>1. \A j \in 1..Len(Tail(s)) : Tail(s)[j].type = "battle_start" => g.battleId < Tail(s)[j].id
    <3>1. 1 \in 1..Len(s)
      BY <1>1
    <3> QED BY <1>1, <1>2, <1>6, <3>1 DEF Rising
  <2> QED BY <1>4, <2>1 DEF Rising
<1> QED BY <1>1, <1>3, <1>5, <1>6

-----------------------------------------------------------------------------
(***************************************************************************)
(* The server adds to a stream.                                            *)
(***************************************************************************)

\* The server tells a player m, which is not of his battle's begin or end.
TellsOther(m, b, b2) == m.type \in {"challenge_received", "battle_message"} /\ b2 = b
\* It tells him that his battle begins.
TellsStart(m, b, b2) == m.type = "battle_start" /\ b = NoBattle /\ b2 = m.id
\* It tells him that his battle is over.
TellsEnd(m, b, b2)   == m.type = "battle_ended" /\ b # NoBattle /\ m.id = b /\ b2 = NoBattle
\* The server tells a player m and has him, from then on, in battle b2 instead of b.
Tells(m, b, b2) == TellsOther(m, b, b2) \/ TellsStart(m, b, b2) \/ TellsEnd(m, b, b2)

\* What begins at a place of the stream is a battle.
LEMMA BattlesAreReal ==
  ASSUME NEW s \in Seq(Notice), NEW f, NEW d, NetOf(f, d), NEW i \in 0..Len(s), BeginsAt(f, s, i)
  PROVE  BattleAt(f, s, i) # NoBattle
<1>1. CASE i = 0
  BY <1>1 DEF BeginsAt, BattleAt, NetOf
<1>2. CASE i # 0
  <2>1. Len(s) \in Nat /\ i \in 1..Len(s)
    BY <1>2, LenProperties
  <2>2. s[i] \in Notice
    BY <2>1, ElementOfSeq
  <2> QED BY <1>2, <2>2, NoticeIds DEF BattleAt
<1> QED BY <1>1, <1>2

\* One more message changes nothing at the places before it.
LEMMA AppendPlace ==
  ASSUME NEW s \in Seq(Notice), NEW m \in Notice, NEW f, NEW i \in 0..Len(s)
  PROVE  /\ BeginsAt(f, Append(s, m), i) = BeginsAt(f, s, i)
         /\ BattleAt(f, Append(s, m), i) = BattleAt(f, s, i)
<1>1. CASE i = 0
  BY <1>1 DEF BeginsAt, BattleAt
<1>2. CASE i # 0
  <2>1. i \in 1..Len(s)
    BY <1>2, LenProperties
  <2>2. Append(s, m)[i] = s[i]
    BY <2>1, AppendAt
  <2> QED BY <1>2, <2>2 DEF BeginsAt, BattleAt
<1> QED BY <1>1, <1>2

\* A stream that gets what the server tells stays parted and current: a start comes to who is
\* in no battle, so that the ends of all before it are on the stream.
LEMMA AppendParted ==
  ASSUME NEW s \in Seq(Notice), NEW m \in Notice, NEW f, NEW d, NEW b, NEW b2,
         Parted(f, s), Current(f, s, b), NetOf(f, d), Tells(m, b, b2)
  PROVE  Parted(f, Append(s, m)) /\ Current(f, Append(s, m), b2)
<1> DEFINE t == Append(s, m)
           n == Len(s)
<1>1. /\ t \in Seq(Notice) /\ n \in Nat /\ Len(t) = n + 1 /\ t[n + 1] = m
      /\ \A i \in 1..n : t[i] = s[i]
  BY AppendAt
<1>2. \A i \in 0..n : BeginsAt(f, t, i) = BeginsAt(f, s, i) /\ BattleAt(f, t, i) = BattleAt(f, s, i)
  BY AppendPlace
<1>3. \A i \in 0..n : BeginsAt(f, s, i) => BattleAt(f, s, i) # NoBattle
  BY BattlesAreReal
<1>4. \A i, j, id : Ended(s, i, j, id) => Ended(t, i, j, id)
  BY EndedAppend
<1>5. /\ BeginsAt(f, t, n + 1) => m.type = "battle_start"
      /\ BattleAt(f, t, n + 1) = m.id
  BY <1>1 DEF BeginsAt, BattleAt
<1> HIDE DEF t, n
<1>6. ASSUME NEW i \in 0..Len(t), NEW j \in 0..Len(t), i < j, BeginsAt(f, t, i), BeginsAt(f, t, j)
      PROVE  Ended(t, i, j, BattleAt(f, t, i))
  <2>1. i \in 0..n
    BY <1>1, <1>6
  <2>2. CASE j \in 0..n
    <3>1. Ended(s, i, j, BattleAt(f, s, i))
      BY <1>2, <1>6, <2>1, <2>2 DEF Parted, n
    <3> QED BY <1>2, <1>4, <2>1, <3>1
  <2>3. CASE j = n + 1
    <3>1. b = NoBattle
      BY <1>5, <1>6, <2>3 DEF Tells, TellsOther, TellsStart, TellsEnd
    <3>2. BeginsAt(f, s, i) /\ BattleAt(f, s, i) # NoBattle
      BY <1>2, <1>3, <1>6, <2>1
    <3>3. Ended(s, i, n + 1, BattleAt(f, s, i))
      BY <2>1, <3>1, <3>2 DEF Current, n
    <3> QED BY <1>2, <1>4, <2>1, <2>3, <3>3
  <2> QED BY <1>1, <2>2, <2>3
<1>7. ASSUME NEW i \in 0..Len(t), BeginsAt(f, t, i), BattleAt(f, t, i) # b2
      PROVE  Ended(t, i, Len(t) + 1, BattleAt(f, t, i))
  <2>1. CASE i = n + 1
    BY <1>5, <1>7, <2>1 DEF Tells, TellsOther, TellsStart, TellsEnd
  <2>2. CASE i \in 0..n
    <3>1. BeginsAt(f, s, i) /\ BattleAt(f, t, i) = BattleAt(f, s, i) /\ BattleAt(f, s, i) # NoBattle
      BY <1>2, <1>3, <1>7, <2>2
    <3>2. CASE Ended(s, i, n + 1, BattleAt(f, s, i))
      <4>1. PICK k \in 1..Len(t) : /\ i < k /\ k < n + 1
                                   /\ t[k].type = "battle_ended" /\ t[k].id = BattleAt(f, t, i)
        <5>1. Ended(t, i, n + 1, BattleAt(f, t, i))
          BY <1>4, <3>1, <3>2
        <5> QED BY <5>1 DEF Ended
      <4>2. k < Len(t) + 1
        BY <1>1, <4>1
      <4> QED BY <4>1, <4>2 DEF Ended
    <3>3. CASE BattleAt(f, s, i) = b
      <4>1. m.type = "battle_ended" /\ m.id = b
        BY <1>7, <3>1, <3>3 DEF Tells, TellsOther, TellsStart, TellsEnd
      <4>2. n + 1 \in 1..Len(t) /\ i < n + 1 /\ n + 1 < Len(t) + 1
        BY <1>1, <2>2
      <4> QED BY <1>1, <3>1, <3>3, <4>1, <4>2 DEF Ended
    <3> QED BY <2>2, <3>1, <3>2, <3>3 DEF Current, n
  <2> QED BY <1>1, <2>1, <2>2
<1>8. Parted(f, t) /\ Current(f, t, b2)
  BY <1>6, <1>7 DEF Parted, Current
<1> QED BY <1>8 DEF t

\* What is drawn grows; who is told of a start is told of the newest id.
LEMMA AppendStream ==
  ASSUME NEW s \in Seq(Notice), NEW m \in Notice, NEW f \in FlowRecord, NEW d \in Nat, NEW d2 \in Nat,
         NEW b \in Nat, NEW b2 \in Nat,
         Stream(f, s, b, d), Tells(m, b, b2), d <= d2, m.id <= d2, b <= d,
         m.type = "battle_start" => d < m.id
  PROVE  Append(s, m) \in Seq(Notice) /\ Stream(f, Append(s, m), b2, d2)
<1> DEFINE t == Append(s, m)
           n == Len(s)
<1>1. /\ t \in Seq(Notice) /\ n \in Nat /\ Len(t) = n + 1 /\ t[n + 1] = m
      /\ \A i \in 1..n : t[i] = s[i] /\ s[i] \in Notice
  BY AppendAt
<1>2. Parted(f, t) /\ Current(f, t, b2)
  BY AppendParted DEF Stream
<1> HIDE DEF t
<1>3. \A i \in 1..n + 1 : i \in 1..n \/ i = n + 1
  BY <1>1
<1>4. m.id \in Nat /\ m.id # NoBattle /\ f.battleId \in Nat
  BY NoticeIds DEF FlowRecord
<1>5. \A i \in 1..n : s[i].id <= d /\ s[i].id \in Nat /\ s[i].id # NoBattle
  BY <1>1, NoticeIds DEF Stream, Drawn
<1>6. Drawn(t, d2)
  <2> SUFFICES ASSUME NEW i \in 1..n + 1 PROVE t[i].id <= d2
    BY <1>1 DEF Drawn
  <2>1. CASE i \in 1..n
    <3>1. t[i] = s[i] /\ s[i].id <= d /\ s[i].id \in Nat
      BY <1>1, <1>5, <2>1
    <3> QED BY <3>1
  <2>2. CASE i = n + 1
    BY <1>1, <2>2
  <2> QED BY <1>3, <2>1, <2>2
<1>7. NetOf(f, d2)
  BY <1>4 DEF Stream, NetOf
<1>8. NotOver(t, b2)
  <2> SUFFICES ASSUME NEW i \in 1..n + 1, t[i].type = "battle_ended" PROVE t[i].id # b2
    BY <1>1 DEF NotOver
  <2>1. CASE i = n + 1
    BY <1>1, <1>4, <2>1 DEF Tells, TellsOther, TellsStart, TellsEnd
  <2>2. CASE i \in 1..n
    <3>1. t[i] = s[i] /\ s[i].type = "battle_ended"
      BY <1>1, <2>2
    <3>2. s[i].id # b
      BY <2>2, <3>1 DEF Stream, NotOver
    <3>3. s[i].id <= d /\ s[i].id \in Nat /\ s[i].id # NoBattle
      BY <1>5, <2>2
    <3>4. b2 = b \/ b2 = NoBattle \/ (b2 = m.id /\ d < m.id)
      BY DEF Tells, TellsOther, TellsStart, TellsEnd
    <3> QED BY <1>4, <3>1, <3>2, <3>3, <3>4
  <2> QED BY <1>3, <2>1, <2>2
<1>9. Rising(f, t)
  <2> SUFFICES ASSUME NEW j \in 1..n + 1, t[j].type = "battle_start"
               PROVE  /\ f.battleId < t[j].id
                      /\ \A i \in 1..n + 1 : i < j /\ t[i].type = "battle_start" => t[i].id < t[j].id
    BY <1>1 DEF Rising
  <2>1. CASE j \in 1..n
    <3>1. t[j] = s[j] /\ f.battleId < s[j].id
      BY <1>1, <2>1 DEF Stream, Rising
    <3>2. ASSUME NEW i \in 1..n + 1, i < j, t[i].type = "battle_start" PROVE t[i].id < t[j].id
      <4>1. i \in 1..n
        BY <1>1, <2>1, <3>2
      <4>2. t[i] = s[i]
        BY <1>1, <4>1
      <4> QED BY <2>1, <3>1, <3>2, <4>1, <4>2 DEF Stream, Rising
    <3> QED BY <3>1, <3>2
  <2>2. CASE j = n + 1
    <3>1. t[j] = m /\ m.type = "battle_start" /\ d < m.id
      BY <1>1, <2>2
    <3>2. f.battleId <= d
      BY DEF Stream, NetOf
    <3>3. ASSUME NEW i \in 1..n + 1, i < j PROVE t[i].id < m.id
      <4>1. i \in 1..n
        BY <1>1, <2>2, <3>3
      <4>2. t[i] = s[i] /\ s[i].id <= d /\ s[i].id \in Nat
        BY <1>1, <1>5, <4>1
      <4> QED BY <1>4, <3>1, <4>2
    <3>4. f.battleId < m.id
      BY <1>4, <3>1, <3>2
    <3> QED BY <3>1, <3>3, <3>4
  <2> QED BY <1>3, <2>1, <2>2
<1> QED BY <1>1, <1>2, <1>6, <1>7, <1>8, <1>9 DEF Stream, t

\* More ids are drawn, and the player is not told anything.
LEMMA SilentStream ==
  ASSUME NEW s \in Seq(Notice), NEW f \in FlowRecord, NEW d \in Nat, NEW d2 \in Nat, NEW b,
         Stream(f, s, b, d), d <= d2
  PROVE  Stream(f, s, b, d2)
<1>1. \A i \in 1..Len(s) : s[i].id \in Nat
  BY ElementOfSeq, NoticeIds
<1>2. Drawn(s, d2)
  BY <1>1 DEF Stream, Drawn
<1>3. NetOf(f, d2)
  <2>1. f.battleId \in Nat
    BY DEF FlowRecord
  <2> QED BY <2>1 DEF Stream, NetOf
<1> QED BY <1>2, <1>3 DEF Stream

\* What the player does to his flow between two messages: he keeps his net or drops it.
LEMMA KeptStream ==
  ASSUME NEW s \in Seq(Notice), NEW f, NEW g, NEW d, NEW b,
         Stream(f, s, b, d), g.battleId = f.battleId, g.net \in {NoBattle, f.net},
         g.open => f.open /\ g.net = f.net
  PROVE  Stream(g, s, b, d)
<1>1. \A i \in 0..Len(s) : BeginsAt(g, s, i) => BeginsAt(f, s, i) /\ BattleAt(g, s, i) = BattleAt(f, s, i)
  BY DEF BeginsAt, BattleAt
<1>2. Parted(g, s) /\ Current(g, s, b)
  BY <1>1 DEF Stream, Parted, Current
<1>3. Rising(g, s)
  BY DEF Stream, Rising
<1>4. NetOf(g, d)
  BY DEF Stream, NetOf
<1> QED BY <1>2, <1>3, <1>4 DEF Stream

-----------------------------------------------------------------------------
(***************************************************************************)
(* What is noticed of a list of messages.                                  *)
(***************************************************************************)

\* Noticeable as a course through its list.
Keeps(k, s) ==
  /\ k[0] = <<>>
  /\ \A n \in 1..Len(s) : k[n] = IF s[n].type \in Noticed THEN Append(k[n - 1], s[n]) ELSE k[n - 1]
  /\ Noticeable(s) = k[Len(s)]

\* The messages taken notice of, prefix by prefix.
LEMMA NoticeableCourse ==
  ASSUME NEW X, NEW s \in Seq(X)
  PROVE  \E k \in [0..Len(s) -> Seq(X)] : Keeps(k, s)
<1> DEFINE E(g) == [n \in 0..Len(s) |->
                      IF n = 0 THEN <<>>
                      ELSE IF s[n].type \in Noticed THEN Append(g[n - 1], s[n]) ELSE g[n - 1]]
           kept == CHOOSE g : g = E(g)
           Step(rx) == IF rx[2].type \in Noticed THEN Append(rx[1], rx[2]) ELSE rx[1]
<1>1. Noticeable(s) = kept[Len(s)]
  BY DEF Noticeable
<1>2. PICK F \in [Seq(X) \X X -> Seq(X)] : F = [rx \in Seq(X) \X X |-> Step(rx)]
  <2>1. \A r \in Seq(X), x \in X : Append(r, x) \in Seq(X)
    BY AppendProperties
  <2> QED BY <2>1
<1>3. <<>> \in Seq(X)
  OBVIOUS
<1>4. PICK g \in [0..Len(s) -> Seq(X)] : Course(g, F, <<>>, s)
  BY <1>3, CourseExists
<1>5. Len(s) \in Nat /\ \A n \in 1..Len(s) : s[n] \in X
  BY LenProperties, ElementOfSeq
<1>6. \A n \in 1..Len(s) : g[n] = Step(<<g[n - 1], s[n]>>)
  <2> SUFFICES ASSUME NEW n \in 1..Len(s) PROVE g[n] = Step(<<g[n - 1], s[n]>>)
    OBVIOUS
  <2>1. n - 1 \in 0..Len(s) /\ s[n] \in X
    BY <1>5
  <2>2. g[n - 1] \in Seq(X) /\ g[n] = F[<<g[n - 1], s[n]>>]
    BY <1>4, <2>1 DEF Course
  <2> HIDE DEF Step
  <2> QED BY <1>2, <2>1, <2>2
<1>7. g[0] = <<>>
  BY <1>4 DEF Course
<1>8. g = E(g)
  <2>1. \A n \in 0..Len(s) : g[n] = E(g)[n]
    <3> SUFFICES ASSUME NEW n \in 0..Len(s)
                 PROVE  g[n] = IF n = 0 THEN <<>>
                               ELSE IF s[n].type \in Noticed THEN Append(g[n - 1], s[n]) ELSE g[n - 1]
      OBVIOUS
    <3>1. CASE n = 0
      BY <1>7, <3>1
    <3>2. CASE n # 0
      <4>1. n \in 1..Len(s)
        BY <1>5, <3>2
      <4> QED BY <1>6, <3>2, <4>1
    <3> QED BY <3>1, <3>2
  <2> QED BY <2>1
<1> HIDE DEF E
<1>9. kept = E(kept)
  BY <1>8
<1> HIDE DEF kept
<1>10. DOMAIN kept = 0..Len(s) /\ kept = [n \in 0..Len(s) |-> kept[n]]
  BY <1>9 DEF E
<1>11. /\ kept[0] = <<>>
       /\ \A n \in 1..Len(s) : kept[n] = Step(<<kept[n - 1], s[n]>>)
  <2>1. \A n \in 0..Len(s) : kept[n] = IF n = 0 THEN <<>>
                                      ELSE IF s[n].type \in Noticed THEN Append(kept[n - 1], s[n])
                                      ELSE kept[n - 1]
    BY <1>9 DEF E
  <2>2. kept[0] = <<>>
    <3>1. 0 \in 0..Len(s)
      BY <1>5
    <3> QED BY <2>1, <3>1
  <2>3. ASSUME NEW n \in 1..Len(s) PROVE kept[n] = Step(<<kept[n - 1], s[n]>>)
    <3>1. n \in 0..Len(s) /\ n # 0
      BY <1>5
    <3> QED BY <2>1, <3>1
  <2> QED BY <2>2, <2>3
<1> HIDE DEF Step
<1> DEFINE T == {n \in 0..Len(s) : kept[n] = g[n]}
<1>12. 0 \in T
  BY <1>5, <1>7, <1>11
<1>13. ASSUME NEW n \in 0..Len(s), n \in T, n < Len(s) PROVE n + 1 \in T
  <2>1. n + 1 \in 1..Len(s) /\ n + 1 \in 0..Len(s) /\ (n + 1) - 1 = n /\ kept[n] = g[n]
    BY <1>5, <1>13
  <2>2. kept[n + 1] = Step(<<kept[n], s[n + 1]>>) /\ g[n + 1] = Step(<<g[n], s[n + 1]>>)
    BY <1>6, <1>11, <2>1
  <2> QED BY <2>1, <2>2
<1> HIDE DEF T
<1>14. 0..Len(s) \subseteq T
  BY <1>5, <1>12, <1>13, Inductive
<1>15. kept = g
  BY <1>10, <1>14 DEF T
<1>16. Keeps(g, s)
  BY <1>1, <1>6, <1>7, <1>15 DEF Keeps, Step
<1> QED BY <1>16

\* Of one message: it, or nothing.
LEMMA NoticeableOne ==
  ASSUME NEW m
  PROVE  /\ Noticeable(<<>>) = <<>>
         /\ Noticeable(<<m>>) = IF m.type \in Noticed THEN <<m>> ELSE <<>>
<1>1. PICK k : Keeps(k, <<>>)
  <2>1. <<>> \in Seq({m})
    OBVIOUS
  <2> QED BY <2>1, NoticeableCourse
<1>2. Noticeable(<<>>) = <<>>
  <2>1. Len(<<>>) = 0
    OBVIOUS
  <2> QED BY <1>1, <2>1 DEF Keeps
<1>3. PICK j \in [0..Len(<<m>>) -> Seq({m})] : Keeps(j, <<m>>)
  <2>1. <<m>> \in Seq({m})
    OBVIOUS
  <2> QED BY <2>1, NoticeableCourse
<1>4. Len(<<m>>) = 1 /\ <<m>>[1] = m /\ 1 - 1 = 0 /\ 1 \in 1..1
  OBVIOUS
<1>5. j[1] = IF m.type \in Noticed THEN Append(j[0], m) ELSE j[0]
  BY <1>3, <1>4 DEF Keeps
<1>6. j[0] = <<>> /\ Noticeable(<<m>>) = j[1]
  BY <1>3, <1>4 DEF Keeps
<1>7. Append(<<>>, m) = <<m>>
  OBVIOUS
<1> QED BY <1>2, <1>5, <1>6, <1>7

\* To append is to append at the end of the second list.
Appends(p, q, x) == Append(p \o q, x) = p \o Append(q, x)

\* A joined list grows at its end.
LEMMA AppendToConcat ==
  ASSUME NEW X, NEW p \in Seq(X), NEW q \in Seq(X), NEW x \in X
  PROVE  Appends(p, q, x)
<1>0. <<x>> \in Seq(X)
  OBVIOUS
<1>1. PICK r : r = <<x>>
  OBVIOUS
<1>5. r \in Seq(X)
  BY <1>0, <1>1
<1>2. (p \o q) \o r = p \o (q \o r)
  BY <1>5, ConcatAssociative
<1>3. p \o q \in Seq(X)
  BY ConcatProperties
<1>4. Append(p \o q, x) = (p \o q) \o r /\ Append(q, x) = q \o r
  BY <1>1, <1>3, AppendIsConcat
<1> QED BY <1>2, <1>4 DEF Appends

\* What is noticed of two lists, one after the other: that is how a stream grows.
LEMMA NoticeableConcat ==
  ASSUME NEW X, NEW s \in Seq(X), NEW t \in Seq(X)
  PROVE  Noticeable(s \o t) = Noticeable(s) \o Noticeable(t)
<1>1. /\ s \o t \in Seq(X) /\ Len(s) \in Nat /\ Len(t) \in Nat /\ Len(s \o t) = Len(s) + Len(t)
      /\ \A i \in 1..Len(s) : (s \o t)[i] = s[i]
      /\ \A i \in 1..Len(t) : (s \o t)[Len(s) + i] = t[i] /\ t[i] \in X
  <2>1. s \o t \in Seq(X) /\ Len(s) \in Nat /\ Len(t) \in Nat /\ Len(s \o t) = Len(s) + Len(t)
    BY ConcatProperties, LenProperties
  <2>2. \A i \in 1..Len(s) + Len(t) : (s \o t)[i] = IF i <= Len(s) THEN s[i] ELSE t[i - Len(s)]
    BY ConcatProperties
  <2>3. \A i \in 1..Len(s) : (s \o t)[i] = s[i]
    BY <2>1, <2>2
  <2>4. ASSUME NEW i \in 1..Len(t) PROVE (s \o t)[Len(s) + i] = t[i] /\ t[i] \in X
    <3>1. Len(s) + i \in 1..Len(s) + Len(t) /\ ~(Len(s) + i <= Len(s)) /\ (Len(s) + i) - Len(s) = i
      BY <2>1
    <3>2. t[i] \in X
      BY ElementOfSeq
    <3> QED BY <2>2, <3>1, <3>2
  <2> QED BY <2>1, <2>3, <2>4
<1>2. PICK k \in [0..Len(s) -> Seq(X)] : Keeps(k, s)
  BY NoticeableCourse
<1>3. PICK j \in [0..Len(t) -> Seq(X)] : Keeps(j, t)
  BY NoticeableCourse
<1>4. PICK h \in [0..Len(s \o t) -> Seq(X)] : Keeps(h, s \o t)
  BY <1>1, NoticeableCourse
<1> DEFINE u == s \o t
           a == Len(s)
           z == Len(t)
<1>5. /\ h[0] = <<>> /\ Noticeable(u) = h[a + z]
      /\ \A n \in 1..a + z : h[n] = IF u[n].type \in Noticed THEN Append(h[n - 1], u[n]) ELSE h[n - 1]
  BY <1>1, <1>4 DEF Keeps
<1>6. /\ k[0] = <<>> /\ Noticeable(s) = k[a] /\ k[a] \in Seq(X)
      /\ \A n \in 1..a : k[n] = IF s[n].type \in Noticed THEN Append(k[n - 1], s[n]) ELSE k[n - 1]
  BY <1>1, <1>2 DEF Keeps
<1>7. /\ j[0] = <<>> /\ Noticeable(t) = j[z]
      /\ \A n \in 1..z : j[n] = IF t[n].type \in Noticed THEN Append(j[n - 1], t[n]) ELSE j[n - 1]
      /\ \A n \in 0..z : j[n] \in Seq(X)
  BY <1>1, <1>3 DEF Keeps
<1>8. /\ a \in Nat /\ z \in Nat
      /\ \A i \in 1..a : u[i] = s[i]
      /\ \A i \in 1..z : u[a + i] = t[i] /\ t[i] \in X
  BY <1>1
<1> HIDE DEF u, a, z
<1> DEFINE A == {n \in 0..a : h[n] = k[n]}
           B == {n \in 0..z : h[a + n] = k[a] \o j[n]}
<1>9. 0..a \subseteq A
  <2>1. 0 \in A
    BY <1>5, <1>6, <1>8
  <2>2. ASSUME NEW n \in 0..a, n \in A, n < a PROVE n + 1 \in A
    <3>1. n + 1 \in 1..a + z /\ n + 1 \in 1..a /\ n + 1 \in 0..a /\ (n + 1) - 1 = n /\ h[n] = k[n]
      BY <1>8, <2>2
    <3>2. u[n + 1] = s[n + 1]
      BY <1>8, <3>1
    <3>3. h[n + 1] = IF u[n + 1].type \in Noticed THEN Append(h[n], u[n + 1]) ELSE h[n]
      BY <1>5, <3>1
    <3>4. k[n + 1] = IF s[n + 1].type \in Noticed THEN Append(k[n], s[n + 1]) ELSE k[n]
      BY <1>6, <3>1
    <3> QED BY <3>1, <3>2, <3>3, <3>4
  <2> HIDE DEF A
  <2> QED BY <1>8, <2>1, <2>2, Inductive
<1>10. h[a] = k[a]
  BY <1>8, <1>9
<1>11. 0..z \subseteq B
  <2>1. 0 \in B
    <3>1. k[a] \o <<>> = k[a]
      BY <1>6, ConcatEmptySeq
    <3>2. 0 \in 0..z /\ a + 0 = a
      BY <1>8
    <3>3. h[a + 0] = k[a] \o j[0]
      BY <1>7, <1>10, <3>1, <3>2
    <3> QED BY <3>2, <3>3
  <2>2. ASSUME NEW n \in 0..z, n \in B, n < z PROVE n + 1 \in B
    <3>0. h[a + n] = k[a] \o j[n]
      BY <2>2
    <3>1. /\ a + (n + 1) \in 1..a + z /\ n + 1 \in 1..z /\ n + 1 \in 0..z /\ (n + 1) - 1 = n
          /\ (a + (n + 1)) - 1 = a + n
      <4> HIDE DEF B
      <4> QED BY <1>8, <2>2
    <3>2. u[a + (n + 1)] = t[n + 1] /\ t[n + 1] \in X /\ j[n] \in Seq(X)
      BY <1>7, <1>8, <3>1
    <3>3. h[a + (n + 1)] = IF t[n + 1].type \in Noticed THEN Append(k[a] \o j[n], t[n + 1]) ELSE k[a] \o j[n]
      BY <1>5, <3>0, <3>1, <3>2
    <3>4. j[n + 1] = IF t[n + 1].type \in Noticed THEN Append(j[n], t[n + 1]) ELSE j[n]
      BY <1>7, <3>1
    <3>5. Append(k[a] \o j[n], t[n + 1]) = k[a] \o Append(j[n], t[n + 1])
      <4>1. k[a] \in Seq(X) /\ j[n] \in Seq(X) /\ t[n + 1] \in X
        BY <1>6, <3>2
      <4>2. Appends(k[a], j[n], t[n + 1])
        BY <4>1, AppendToConcat
      <4> QED BY <4>2 DEF Appends
    <3> QED BY <3>1, <3>3, <3>4, <3>5
  <2> HIDE DEF B
  <2> QED BY <1>8, <2>1, <2>2, Inductive
<1>12. h[a + z] = k[a] \o j[z]
  <2>1. z \in 0..z
    BY <1>8
  <2> QED BY <1>11, <2>1
<1> QED BY <1>5, <1>6, <1>7, <1>12 DEF u

-----------------------------------------------------------------------------
(***************************************************************************)
(* What a step of the server's tells a player: one lemma per handler.      *)
(***************************************************************************)

\* What a BattleFlow sends.
Spoken ==
       [type : {"challenge"}, target : Peer]
  \cup [type : {"challenge_reply"}, id : KnownIds, accept : BOOLEAN]
  \cup [type : {"battle_message"}, id : KnownIds, payload : Payload]
  \cup [type : {"battle_end"}, id : KnownIds]

\* What the step tells q that his BattleFlow takes notice of.
LearnsNothing(q) == Noticeable(sent'[q]) = <<>> /\ battleOf'[q] = battleOf[q]
\* q learns m, and the server has him in the battle m says.
Learns(q, m) ==
  /\ Noticeable(sent'[q]) = <<m>>
  /\ m.id <= drawn'
  /\ Tells(m, battleOf[q], battleOf'[q])
  /\ m.type = "battle_start" => drawn < m.id
\* q learns what the server itself has to tell him.
LearnsNews(q) == \E m \in Notice : Learns(q, m) /\ m.type # "battle_message"

\* q learns the payload that c sends in msg.
Relays(c, msg, q) ==
  /\ msg.type = "battle_message"
  /\ \E b \in battles : b.id = msg.id /\ c # q /\ c \in Members(b) /\ q \in Members(b)
  /\ \E m \in Notice : Learns(q, m) /\ m.type = "battle_message" /\ m.id = msg.id /\ m.payload = msg.payload

\* What a message msg of c's can tell q.
Hears(c, msg, q) == LearnsNothing(q) \/ LearnsNews(q) \/ Relays(c, msg, q)

\* A new battle has a new id.
Booked == drawn' \in Nat /\ drawn <= drawn' /\ \A b \in battles' : b \in battles \/ b.id > drawn

\* When one message goes to T, who is in T gets it.
LEMMA HeardOfOne ==
  ASSUME NEW T, NEW m, sent' = ToAll(T, m), NEW q \in Peer
  PROVE  Noticeable(sent'[q]) = IF q \in T /\ m.type \in Noticed THEN <<m>> ELSE <<>>
<1>1. sent'[q] = IF q \in T THEN <<m>> ELSE <<>>
  BY DEF ToAll
<1> QED BY <1>1, NoticeableOne

\* An error is not taken notice of.
LEMMA ErrorHears ==
  ASSUME IInv, NEW c \in Peer, NEW code, sent' = To(c, Error(code)), UNCHANGED state, NEW q \in Peer
  PROVE  LearnsNothing(q) /\ Booked
<1>1. Error(code).type \notin Noticed
  BY DEF Error, Noticed
<1>2. Noticeable(sent'[q]) = <<>>
  BY <1>1, HeardOfOne DEF To
<1> QED BY <1>2 DEF LearnsNothing, Booked, state, IInv, TypeOK

\* A challenge is told to the challenged player.
LEMMA ChallengeHears ==
  ASSUME IInv, NEW c \in Peer, NEW t \in Peer, OnChallenge(c, t), NEW q \in Peer
  PROVE  (LearnsNothing(q) \/ LearnsNews(q)) /\ Booked
<1>1. CASE \E code : sent' = To(c, Error(code)) /\ UNCHANGED state
  BY <1>1, ErrorHears
<1> DEFINE m1 == [type |-> "challenge_sent", id |-> drawn', target |-> t]
           m2 == [type |-> "challenge_received", id |-> drawn', from |-> c]
<1>2. CASE /\ sent' = To(c, m1) ++ To(t, m2) /\ t # c /\ drawn' = drawn + 1
           /\ UNCHANGED <<battleOf, battles>>
  <2>0. drawn \in Nat
    BY DEF IInv, TypeOK
  <2>1. m2 \in Notice /\ m2.type = "challenge_received" /\ m2.id = drawn' /\ m1.type \notin Noticed /\ m2.type \in Noticed
    BY <1>2, <2>0 DEF Notice, Id, Noticed
  <2> HIDE DEF m1, m2
  <2>2. /\ sent'[c] = <<m1>> /\ sent'[t] = <<m2>>
        /\ \A p \in Peer \ {c, t} : sent'[p] = <<>>
    BY <1>2, TwoMessages
  <2>3. CASE q = t
    <3>1. Noticeable(sent'[q]) = <<m2>>
      BY <2>1, <2>2, <2>3, NoticeableOne
    <3>2. Learns(q, m2)
      BY <1>2, <2>0, <2>1, <3>1 DEF Learns, Tells, TellsOther
    <3> QED BY <1>2, <2>0, <2>1, <3>2 DEF LearnsNews, Booked
  <2>4. CASE q # t
    <3>1. Noticeable(sent'[q]) = <<>>
      BY <2>1, <2>2, <2>4, NoticeableOne
    <3> QED BY <1>2, <2>0, <3>1 DEF LearnsNothing, Booked
  <2> QED BY <2>3, <2>4
<1> QED BY <1>1, <1>2 DEF OnChallenge, players

\* A reply that is taken begins one battle for both, with an id not used before.
LEMMA ReplyHears ==
  ASSUME IInv, NEW c \in Peer, NEW id, NEW accept, OnChallengeReply(c, id, accept), NEW q \in Peer
  PROVE  (LearnsNothing(q) \/ LearnsNews(q)) /\ Booked
<1>0. drawn \in Nat /\ battleOf \in [Peer -> Nat]
  BY DEF IInv, TypeOK
<1>1. CASE \E code : sent' = To(c, Error(code)) /\ UNCHANGED state
  BY <1>1, ErrorHears
<1>2. CASE \E T, m : sent' = ToAll(T, m) /\ m.type \notin Noticed /\ UNCHANGED <<battleOf, battles, drawn>>
  <2>1. PICK T, m : sent' = ToAll(T, m) /\ m.type \notin Noticed /\ UNCHANGED <<battleOf, battles, drawn>>
    BY <1>2
  <2>2. Noticeable(sent'[q]) = <<>>
    BY <2>1, HeardOfOne
  <2> QED BY <1>0, <2>1, <2>2 DEF LearnsNothing, Booked
<1>3. CASE \E ch \in challenges :
             /\ ch.to = c /\ ~Refused(c, ch)
             /\ drawn' = drawn + 1
             /\ battles' = battles \cup {[id |-> drawn', host |-> ch.from, guest |-> c]}
             /\ battleOf' = [battleOf EXCEPT ![ch.from] = drawn', ![c] = drawn']
             /\ sent' = To(ch.from, [type |-> "battle_start", id |-> drawn', role |-> "host", opponent |-> c])
                        ++ To(c, [type |-> "battle_start", id |-> drawn', role |-> "guest", opponent |-> ch.from])
  <2>1. PICK ch \in challenges :
             /\ ch.to = c /\ ~Refused(c, ch)
             /\ drawn' = drawn + 1
             /\ battles' = battles \cup {[id |-> drawn', host |-> ch.from, guest |-> c]}
             /\ battleOf' = [battleOf EXCEPT ![ch.from] = drawn', ![c] = drawn']
             /\ sent' = To(ch.from, [type |-> "battle_start", id |-> drawn', role |-> "host", opponent |-> c])
                        ++ To(c, [type |-> "battle_start", id |-> drawn', role |-> "guest", opponent |-> ch.from])
    BY <1>3
  <2>2. PICK a \in Peer : a = ch.from /\ a # c /\ battleOf[a] = NoBattle /\ battleOf[c] = NoBattle
    BY <2>1 DEF IInv, TypeOK, Challenge, OneEngagement, Refused, Fighting
  <2>3. PICK m1 : m1 = [type |-> "battle_start", id |-> drawn', role |-> "host", opponent |-> c]
    OBVIOUS
  <2>4. PICK m2 : m2 = [type |-> "battle_start", id |-> drawn', role |-> "guest", opponent |-> a]
    OBVIOUS
  <2>5. /\ m1 \in Notice /\ m1.type = "battle_start" /\ m1.id = drawn'
        /\ m2 \in Notice /\ m2.type = "battle_start" /\ m2.id = drawn'
    BY <1>0, <2>1, <2>3, <2>4 DEF Notice, Id
  <2>6. "battle_start" \in Noticed
    BY DEF Noticed
  <2>7. sent' = To(a, m1) ++ To(c, m2)
    BY <2>1, <2>2, <2>3, <2>4
  <2>8. /\ sent'[a] = <<m1>> /\ sent'[c] = <<m2>>
        /\ \A p \in Peer \ {a, c} : sent'[p] = <<>>
    BY <2>2, <2>7, TwoMessages
  <2>9. Booked
    BY <1>0, <2>1 DEF Booked
  <2>10. ASSUME NEW m \in {m1, m2}, sent'[q] = <<m>>, q \in {a, c} PROVE LearnsNews(q)
    <3>1. m \in Notice /\ m.type = "battle_start" /\ m.id = drawn'
      BY <2>5, <2>10
    <3>2. Noticeable(sent'[q]) = <<m>>
      BY <2>6, <2>10, <3>1, NoticeableOne
    <3>3. battleOf[q] = NoBattle /\ battleOf'[q] = drawn'
      BY <1>0, <2>1, <2>2, <2>10
    <3>4. Tells(m, battleOf[q], battleOf'[q])
      BY <3>1, <3>3 DEF Tells, TellsStart
    <3>5. m.id <= drawn' /\ drawn < m.id
      BY <1>0, <2>1, <3>1
    <3>6. Learns(q, m)
      BY <3>2, <3>4, <3>5 DEF Learns
    <3> QED BY <3>1, <3>6 DEF LearnsNews
  <2>11. CASE q = a
    BY <2>8, <2>9, <2>10, <2>11
  <2>12. CASE q = c
    BY <2>8, <2>9, <2>10, <2>12
  <2>13. CASE q \notin {a, c}
    <3>1. Noticeable(sent'[q]) = <<>>
      BY <2>8, <2>13, NoticeableOne
    <3>2. battleOf'[q] = battleOf[q]
      BY <1>0, <2>1, <2>2, <2>13
    <3> QED BY <2>9, <3>1, <3>2 DEF LearnsNothing
  <2> QED BY <2>11, <2>12, <2>13
<1>4. CASE ~\E ch \in challenges : ch.id = id /\ ch.to = c
  BY <1>1, <1>4 DEF OnChallengeReply
<1>5. CASE \E ch \in challenges : ch.id = id /\ ch.to = c
  <2>1. PICK ch \in challenges :
             /\ ch.to = c
             /\ \/ /\ sent' = To(c, Error("challenger_unavailable"))
                   /\ UNCHANGED <<battleOf, battles, drawn>>
                \/ /\ sent' = ToAll(Parties(ch), [type |-> "challenge_declined", id |-> id])
                   /\ UNCHANGED <<battleOf, battles, drawn>>
                \/ /\ ~Refused(c, ch)
                   /\ drawn' = drawn + 1
                   /\ battles' = battles \cup {[id |-> drawn', host |-> ch.from, guest |-> c]}
                   /\ battleOf' = [battleOf EXCEPT ![ch.from] = drawn', ![c] = drawn']
                   /\ sent' = To(ch.from, [type |-> "battle_start", id |-> drawn', role |-> "host", opponent |-> c])
                              ++ To(c, [type |-> "battle_start", id |-> drawn', role |-> "guest", opponent |-> ch.from])
    BY <1>5 DEF OnChallengeReply
  <2>2. CASE sent' = To(c, Error("challenger_unavailable")) /\ UNCHANGED <<battleOf, battles, drawn>>
    <3>1. Error("challenger_unavailable").type \notin Noticed
      BY DEF Error, Noticed
    <3> QED BY <1>2, <2>2, <3>1 DEF To
  <2>3. CASE /\ sent' = ToAll(Parties(ch), [type |-> "challenge_declined", id |-> id])
             /\ UNCHANGED <<battleOf, battles, drawn>>
    <3>1. [type |-> "challenge_declined", id |-> id].type \notin Noticed
      BY DEF Noticed
    <3> QED BY <1>2, <2>3, <3>1
  <2> QED BY <1>3, <2>1, <2>2, <2>3
<1> QED BY <1>4, <1>5

\* A payload goes to the members of its sender's battle.
LEMMA BattleMessageHears ==
  ASSUME IInv, NEW c \in Peer, NEW msg, msg.type = "battle_message", msg.payload \in Payload,
         OnBattleMessage(c, msg), NEW q \in Peer
  PROVE  (LearnsNothing(q) \/ Relays(c, msg, q)) /\ Booked
<1>1. CASE sent' = To(c, Error("battle_not_found")) /\ UNCHANGED state
  BY <1>1, ErrorHears
<1>2. CASE \E b \in battles :
             /\ b.id = msg.id /\ battleOf[c] = b.id /\ c \in Members(b)
             /\ sent' = ToAll((Members(b) \ {c}) \cap Joined,
                              [type |-> "battle_message", id |-> b.id, from |-> c, payload |-> msg.payload])
             /\ UNCHANGED state
  <2>1. PICK b \in battles :
             /\ b.id = msg.id /\ c \in Members(b)
             /\ sent' = ToAll((Members(b) \ {c}) \cap Joined,
                              [type |-> "battle_message", id |-> b.id, from |-> c, payload |-> msg.payload])
             /\ UNCHANGED state
    BY <1>2
  <2>2. PICK m : m = [type |-> "battle_message", id |-> b.id, from |-> c, payload |-> msg.payload]
    OBVIOUS
  <2>3. b.id \in Id /\ b.id <= drawn /\ drawn \in Nat
    BY DEF IInv, TypeOK, Battle, FreshIds
  <2>4. m \in Notice /\ m.type = "battle_message" /\ m.id = b.id /\ m.payload = msg.payload
    BY <2>2, <2>3 DEF Notice
  <2>5. Noticeable(sent'[q]) = IF q \in (Members(b) \ {c}) \cap Joined THEN <<m>> ELSE <<>>
    <3>1. sent' = ToAll((Members(b) \ {c}) \cap Joined, m)
      BY <2>1, <2>2
    <3>2. m.type \in Noticed
      BY <2>4 DEF Noticed
    <3> QED BY <3>1, <3>2, HeardOfOne
  <2>6. UNCHANGED <<battleOf, battles, drawn>>
    BY <2>1 DEF state
  <2>7. Booked
    BY <2>3, <2>6 DEF Booked
  <2>8. CASE q \in (Members(b) \ {c}) \cap Joined
    <3>1. Learns(q, m)
      BY <2>3, <2>4, <2>5, <2>6, <2>8 DEF Learns, Tells, TellsOther
    <3> QED BY <2>1, <2>4, <2>7, <2>8, <3>1 DEF Relays
  <2>9. CASE q \notin (Members(b) \ {c}) \cap Joined
    BY <2>5, <2>6, <2>7, <2>9 DEF LearnsNothing
  <2> QED BY <2>8, <2>9
<1> QED BY <1>1, <1>2 DEF OnBattleMessage

\* Who is in a battle is the server's fighter of it.
LEMMA MemberFacts ==
  ASSUME IInv, NEW c \in Peer, NEW id, NEW q \in InEnding(c, id), q \in Peer
  PROVE  battleOf[q] = id /\ id \in Id /\ id # NoBattle /\ id <= drawn /\ q \in Joined
<1>1. PICK b \in battles : b.id = id /\ q \in Members(b)
  BY DEF InEnding, Ending
<1>2. b.id \in Id /\ battleOf[q] = b.id /\ q \in Joined /\ b.id <= drawn
  BY <1>1 DEF IInv, TypeOK, Battle, BattleBooks, OnlyJoinedEngaged, FreshIds
<1> QED BY <1>1, <1>2 DEF Id, NoBattle

\* A battle_end tells both players of the battle that it is over.
LEMMA BattleEndHears ==
  ASSUME IInv, NEW c \in Peer, NEW id, OnBattleEnd(c, id), NEW q \in Peer
  PROVE  (LearnsNothing(q) \/ LearnsNews(q)) /\ Booked
<1>1. PICK m : m = [type |-> "battle_ended", id |-> id, reason |-> "ended"]
  OBVIOUS
<1>2. PICK told : told = InEnding(c, id) \cap Joined
  OBVIOUS
<1>3. /\ battleOf' = [p \in Peer |-> IF p \in told THEN NoBattle ELSE battleOf[p]]
      /\ sent' = ToAll(told, m)
      /\ drawn' = drawn /\ battles' \subseteq battles
  BY <1>1, <1>2 DEF OnBattleEnd
<1>4. m.type = "battle_ended" /\ m.id = id /\ m.type \in Noticed
  BY <1>1 DEF Noticed
<1>5. drawn \in Nat
  BY DEF IInv, TypeOK
<1>6. Booked
  BY <1>3, <1>5 DEF Booked
<1>7. Noticeable(sent'[q]) = IF q \in told THEN <<m>> ELSE <<>>
  BY <1>3, <1>4, HeardOfOne
<1>8. CASE q \in told
  <2>1. battleOf[q] = id /\ id \in Id /\ id # NoBattle /\ id <= drawn
    BY <1>2, <1>8, MemberFacts
  <2>2. m \in Notice
    BY <1>1, <2>1 DEF Notice
  <2>3. battleOf'[q] = NoBattle
    BY <1>3, <1>8
  <2>4. Learns(q, m)
    BY <1>3, <1>4, <1>7, <1>8, <2>1, <2>3 DEF Learns, Tells, TellsEnd
  <2> QED BY <1>4, <1>6, <2>2, <2>4 DEF LearnsNews
<1>9. CASE q \notin told
  BY <1>3, <1>6, <1>7, <1>9 DEF LearnsNothing
<1> QED BY <1>8, <1>9

\* A disconnection ends the player's battle for his opponent.
LEMMA DisconnectHears ==
  ASSUME IInv, NEW c \in Peer, c \in Joined, Disconnect(c), NEW q \in Peer, q # c
  PROVE  (LearnsNothing(q) \/ LearnsNews(q)) /\ Booked
<1>1. PICK opponent : opponent = InEnding(c, battleOf[c]) \cap (Joined \ {c})
  OBVIOUS
<1>2. PICK m : m = [type |-> "battle_ended", id |-> battleOf[c], reason |-> "opponent_disconnected"]
  OBVIOUS
<1>3. PICK l : l = [type |-> "player_left", id |-> c]
  OBVIOUS
<1>4. /\ battles' \subseteq battles /\ drawn' = drawn
      /\ battleOf' = [p \in Peer |-> IF p \in opponent \cup {c} THEN NoBattle ELSE battleOf[p]]
      /\ sent' = CancelNotices(c) ++ ToAll(opponent, m) ++ ToAll(OnMap(place[c].map) \ {c}, l)
  BY <1>1, <1>2, <1>3 DEF Disconnect, Joined
<1>5. m.type = "battle_ended" /\ m.id = battleOf[c] /\ m.type \in Noticed /\ l.type \notin Noticed
  BY <1>2, <1>3 DEF Noticed
<1>6. drawn \in Nat
  BY DEF IInv, TypeOK
<1>7. Booked
  BY <1>4, <1>6 DEF Booked
<1>8. PICK x : /\ x.type \notin Noticed /\ CancelNotices(c)[q] \in {<<>>, <<x>>}
  <2>1. PICK id : CancelNotices(c)[q] \in {<<>>, <<[type |-> "challenge_cancelled", id |-> id]>>}
    BY DEF CancelNotices
  <2>2. [type |-> "challenge_cancelled", id |-> id].type \notin Noticed
    BY DEF Noticed
  <2> QED BY <2>1, <2>2
<1>9. PICK a : a = CancelNotices(c)[q]
  OBVIOUS
<1>10. PICK b : b = ToAll(opponent, m)[q]
  OBVIOUS
<1>11. PICK d : d = ToAll(OnMap(place[c].map) \ {c}, l)[q]
  OBVIOUS
<1>12. /\ b = IF q \in opponent THEN <<m>> ELSE <<>>
       /\ d \in {<<>>, <<l>>} /\ a \in {<<>>, <<x>>}
       /\ sent'[q] = (a \o b) \o d
  <2>1. sent'[q] = (a \o b) \o d
    BY <1>4, <1>9, <1>10, <1>11 DEF ++
  <2>2. /\ b = IF q \in opponent THEN <<m>> ELSE <<>>
        /\ d \in {<<>>, <<l>>}
    BY <1>10, <1>11 DEF ToAll
  <2> QED BY <1>8, <1>9, <2>1, <2>2
<1>13. Noticeable(sent'[q]) = (Noticeable(a) \o Noticeable(b)) \o Noticeable(d)
  <2> DEFINE X == {x, m, l}
  <2>1. a \in Seq(X) /\ b \in Seq(X) /\ d \in Seq(X)
    <3>1. <<>> \in Seq(X) /\ <<x>> \in Seq(X) /\ <<m>> \in Seq(X) /\ <<l>> \in Seq(X)
      OBVIOUS
    <3> QED BY <1>12, <3>1
  <2> HIDE DEF X
  <2>2. a \o b \in Seq(X)
    BY <2>1, ConcatProperties
  <2>3. Noticeable((a \o b) \o d) = Noticeable(a \o b) \o Noticeable(d)
    BY <2>1, <2>2, NoticeableConcat
  <2>4. Noticeable(a \o b) = Noticeable(a) \o Noticeable(b)
    BY <2>1, NoticeableConcat
  <2> QED BY <1>12, <2>3, <2>4
<1>14. Noticeable(a) = <<>> /\ Noticeable(d) = <<>>
  BY <1>5, <1>8, <1>12, NoticeableOne
<1>15. Noticeable(b) = b
  BY <1>5, <1>12, NoticeableOne
<1>16. (<<>> \o b) \o <<>> = b
  <2>1. <<>> \o <<m>> = <<m>> /\ <<m>> \o <<>> = <<m>> /\ <<>> \o <<>> = <<>>
    OBVIOUS
  <2> QED BY <1>12, <2>1
<1>17. Noticeable(sent'[q]) = b
  BY <1>13, <1>14, <1>15, <1>16
<1>18. CASE q \in opponent
  <2>1. battleOf[q] = battleOf[c] /\ battleOf[c] \in Id /\ battleOf[c] # NoBattle /\ battleOf[c] <= drawn
    BY <1>1, <1>18, MemberFacts
  <2>2. m \in Notice
    BY <1>2, <2>1 DEF Notice
  <2>3. battleOf'[q] = NoBattle
    BY <1>4, <1>18
  <2>4. Learns(q, m)
    BY <1>4, <1>5, <1>12, <1>17, <1>18, <2>1, <2>3 DEF Learns, Tells, TellsEnd
  <2> QED BY <1>5, <1>7, <2>2, <2>4 DEF LearnsNews
<1>19. CASE q \notin opponent
  <2>1. battleOf'[q] = battleOf[q]
    BY <1>4, <1>19
  <2> QED BY <1>7, <1>12, <1>17, <1>19, <2>1 DEF LearnsNothing
<1> QED BY <1>18, <1>19

\* A message is handled: who stays hears of at most one thing.
LEMMA HandleHears ==
  ASSUME IInv, NEW c \in Peer, c \in Joined, NEW msg \in Spoken, Handle(c, msg), NEW q \in Peer
  PROVE  Hears(c, msg, q) /\ Booked /\ conn' = conn
<1>1. /\ msg.type \in {"challenge", "challenge_reply", "battle_message", "battle_end"}
      /\ msg.type = "challenge" => msg.target \in Peer
      /\ msg.type = "battle_message" => msg.payload \in Payload
  BY DEF Spoken
<1>2. conn[c] = "joined"
  BY DEF Joined
<1>3. CASE msg.type = "challenge"
  <2>1. OnChallenge(c, msg.target)
    BY <1>2, <1>3 DEF Handle, NotInitialized
  <2>2. conn' = conn
    BY <2>1 DEF OnChallenge, state, players
  <2> QED BY <1>1, <1>3, <2>1, <2>2, ChallengeHears DEF Hears
<1>4. CASE msg.type = "challenge_reply"
  <2>1. OnChallengeReply(c, msg.id, msg.accept)
    BY <1>2, <1>4 DEF Handle, NotInitialized
  <2>2. conn' = conn
    BY <2>1 DEF OnChallengeReply, state
  <2> QED BY <2>1, <2>2, ReplyHears DEF Hears
<1>5. CASE msg.type = "battle_message"
  <2>1. OnBattleMessage(c, msg)
    BY <1>2, <1>5 DEF Handle, NotInitialized
  <2>2. conn' = conn
    BY <2>1 DEF OnBattleMessage, state
  <2> QED BY <1>1, <1>5, <2>1, <2>2, BattleMessageHears DEF Hears
<1>6. CASE msg.type = "battle_end"
  <2>1. OnBattleEnd(c, msg.id)
    BY <1>2, <1>6 DEF Handle, NotInitialized
  <2>2. conn' = conn
    BY <2>1 DEF OnBattleEnd
  <2> QED BY <2>1, <2>2, BattleEndHears DEF Hears
<1> QED BY <1>1, <1>3, <1>4, <1>5, <1>6

-----------------------------------------------------------------------------
(***************************************************************************)
(* BattleFlow, record by record: the payloads.                             *)
(***************************************************************************)

\* No two players are refused by their games: the mods and the parties fit.
NoClash == Clash \cup Unfit = {}

\* What the payloads in X can make of the record f.
Goes(f, g, X) ==
  /\ g \in FlowRecord
  /\ g.net = f.net /\ g.battleId = f.battleId
  /\ g.open => f.open
  /\ NoClash => /\ f.open => g.open
                /\ (f.peerHello => f.partySent) => (g.peerHello => g.partySent)
  /\ f.partySent => g.partySent
  /\ f.peerHello => g.peerHello
  /\ f.theirParty => g.theirParty
  /\ g.active /\ ~f.active => g.peerHello /\ g.theirParty
  /\ g.theirParty => f.theirParty \/ "party" \in X
  /\ Range(g.inbox) \subseteq X

\* The members of a list with one more.
LEMMA RangeAppend ==
  ASSUME NEW X, NEW s \in Seq(X), NEW m \in X
  PROVE  Range(Append(s, m)) = Range(s) \cup {m} /\ Append(s, m) \in Seq(X)
<1>1. Append(s, m) = s \o <<m>> /\ Append(s, m) \in Seq(X) /\ <<m>> \in Seq(X)
  BY AppendIsConcat, AppendProperties
<1>2. Range(<<m>>) = {m}
  BY DEF Range
<1>3. PICK t \in Seq(X) : t = <<m>>
  BY <1>1
<1>4. Range(s \o t) = Range(s) \cup Range(t)
  BY RangeConcatenation
<1> QED BY <1>1, <1>2, <1>3, <1>4

\* The members of a list, without the first.
LEMMA RangeTail ==
  ASSUME NEW X, NEW s \in Seq(X), s # <<>>
  PROVE  Range(s) = {Head(s)} \cup Range(Tail(s)) /\ Tail(s) \in Seq(X) /\ Head(s) \in X
<1>1. /\ Len(s) \in Nat /\ Len(Tail(s)) = Len(s) - 1 /\ Len(s) >= 1 /\ Tail(s) \in Seq(X)
      /\ \A i \in 1..Len(s) - 1 : Tail(s)[i] = s[i + 1]
      /\ Head(s) = s[1] /\ Head(s) \in X
  BY TailAt
<1>2. /\ DOMAIN s = 1..Len(s) /\ DOMAIN Tail(s) = 1..Len(s) - 1
  BY <1>1, LenProperties
<1>3. ASSUME NEW i \in 1..Len(s) PROVE s[i] \in {Head(s)} \cup Range(Tail(s))
  <2>1. CASE i = 1
    BY <1>1, <2>1
  <2>2. CASE i # 1
    <3>1. i - 1 \in 1..Len(s) - 1 /\ (i - 1) + 1 = i
      BY <1>1, <2>2
    <3>2. Tail(s)[i - 1] = s[i]
      BY <1>1, <3>1
    <3> QED BY <1>2, <3>1, <3>2 DEF Range
  <2> QED BY <2>1, <2>2
<1>4. ASSUME NEW i \in 1..Len(s) - 1 PROVE Tail(s)[i] \in Range(s)
  <2>1. i + 1 \in 1..Len(s)
    BY <1>1
  <2> QED BY <1>1, <1>2, <2>1 DEF Range
<1>5. Head(s) \in Range(s)
  <2>1. 1 \in 1..Len(s)
    BY <1>1
  <2> QED BY <1>1, <1>2, <2>1 DEF Range
<1>6. Range(s) = {s[i] : i \in 1..Len(s)} /\ Range(Tail(s)) = {Tail(s)[i] : i \in 1..Len(s) - 1}
  BY <1>2 DEF Range
<1> QED BY <1>1, <1>3, <1>4, <1>5, <1>6

\* The members of a list, without the last.
LEMMA RangeFront ==
  ASSUME NEW X, NEW s \in Seq(X), s # <<>>
  PROVE  /\ Front(s) \in Seq(X) /\ Range(Front(s)) \subseteq Range(s)
         /\ Last(s) \in Range(s) /\ Last(s) \in X
<1>1. Len(s) \in Nat /\ Len(s) # 0 /\ DOMAIN s = 1..Len(s) /\ \A i \in 1..Len(s) : s[i] \in X
  BY LenProperties, ElementOfSeq, EmptySeq
<1>2. Len(s) \in 1..Len(s)
  BY <1>1
<1>3. Last(s) \in Range(s) /\ Last(s) \in X
  BY <1>1, <1>2 DEF Last, Range
<1>4. 1 \in Int /\ Len(s) - 1 \in 0..Len(s) /\ Len(s) - 1 \in Int /\ \A i \in 1..Len(s) - 1 : i \in 1..Len(s)
  BY <1>1
<1>5. /\ Front(s) \in Seq(X)
      /\ Len(Front(s)) = Len(s) - 1
      /\ \A i \in 1..Len(s) - 1 : Front(s)[i] = s[i]
  <2>1. Front(s) = [i \in 1..Len(s) - 1 |-> s[i]]
    BY <1>1, <1>4 DEF Front
  <2> DEFINE n == Len(s) - 1
  <2>2. n \in Nat /\ \A i \in 1..n : s[i] \in X
    BY <1>1, <1>4
  <2>3. Front(s) = [i \in 1..n |-> s[i]]
    BY <2>1
  <2> HIDE DEF n
  <2>4. Front(s) \in Seq(X) /\ Len(Front(s)) = n /\ \A i \in 1..n : Front(s)[i] = s[i]
    BY <2>2, <2>3, IsASeq
  <2> QED BY <2>4 DEF n
<1>6. DOMAIN Front(s) = 1..Len(s) - 1
  BY <1>5, LenProperties
<1>7. Range(Front(s)) \subseteq Range(s)
  BY <1>1, <1>4, <1>5, <1>6 DEF Range
<1> QED BY <1>3, <1>5, <1>7

-----------------------------------------------------------------------------
\* tryStartBattle: the battle starts with both hellos and both parties.
LEMMA TryGoes ==
  ASSUME NEW c \in Peer, NEW f \in FlowRecord, NEW X, NEW g, Goes(f, g, X)
  PROVE  Goes(f, TryStartBattle(c, g), X)
<1>1. g \in FlowRecord
  BY DEF Goes
<1>2. CASE TryStartBattle(c, g) = g
  BY <1>2
<1>3. CASE TryStartBattle(c, g) = Fail(g) /\ ~NoClash
  <2>1. PICK h : h = Fail(g)
    OBVIOUS
  <2>2. /\ h \in FlowRecord /\ h.net = g.net /\ h.battleId = g.battleId /\ ~h.open
        /\ h.peerHello = g.peerHello /\ h.partySent = g.partySent /\ h.theirParty = g.theirParty
        /\ h.active = g.active /\ h.inbox = g.inbox
    BY <1>1, <2>1 DEF Fail, FlowRecord
  <2>3. Goes(f, h, X)
    BY <1>3, <2>2 DEF Goes
  <2> QED BY <1>3, <2>1, <2>3
<1>4. CASE /\ g.peerHello /\ g.theirParty
           /\ TryStartBattle(c, g) = [g EXCEPT !.active = TRUE, !.stage = "battleRunning"]
  <2>1. PICK h : h = [g EXCEPT !.active = TRUE, !.stage = "battleRunning"]
    OBVIOUS
  <2>2. /\ h \in FlowRecord /\ h.net = g.net /\ h.battleId = g.battleId /\ h.open = g.open
        /\ h.peerHello = g.peerHello /\ h.partySent = g.partySent /\ h.theirParty = g.theirParty
        /\ h.inbox = g.inbox
    BY <1>1, <2>1 DEF FlowRecord
  <2>3. Goes(f, h, X)
    BY <1>4, <2>2 DEF Goes
  <2> QED BY <1>4, <2>1, <2>3
<1> QED BY <1>1, <1>2, <1>3, <1>4 DEF TryStartBattle, NoClash

\* One payload handled.
LEMMA PayloadGoes ==
  ASSUME NEW c \in Peer, NEW f \in FlowRecord, NEW X \in SUBSET Payload, NEW g, Goes(f, g, X),
         NEW p \in X
  PROVE  Goes(f, HandlePayload(c, g, p), X)
<1>1. g \in FlowRecord
  BY DEF Goes
<1>2. CASE ~NoClash /\ HandlePayload(c, g, p) = Fail([g EXCEPT !.peerHello = TRUE])
  <2>1. PICK h : h = Fail([g EXCEPT !.peerHello = TRUE])
    OBVIOUS
  <2>2. /\ h \in FlowRecord /\ h.net = g.net /\ h.battleId = g.battleId /\ ~h.open
        /\ h.peerHello /\ h.partySent = g.partySent /\ h.theirParty = g.theirParty
        /\ h.active = g.active /\ h.inbox = g.inbox
    BY <1>1, <2>1 DEF Fail, FlowRecord
  <2>3. Goes(f, h, X)
    BY <1>2, <2>2 DEF Goes
  <2> QED BY <1>2, <2>1, <2>3
<1>3. CASE HandlePayload(c, g, p) =
             TryStartBattle(c, [g EXCEPT !.peerHello = TRUE, !.partySent = TRUE, !.stage = "battleParty"])
  <2>1. PICK h : h = [g EXCEPT !.peerHello = TRUE, !.partySent = TRUE, !.stage = "battleParty"]
    OBVIOUS
  <2>2. /\ h \in FlowRecord /\ h.net = g.net /\ h.battleId = g.battleId /\ h.open = g.open
        /\ h.peerHello /\ h.partySent /\ h.theirParty = g.theirParty
        /\ h.active = g.active /\ h.inbox = g.inbox
    BY <1>1, <2>1 DEF FlowRecord
  <2>3. Goes(f, h, X)
    BY <2>2 DEF Goes
  <2> QED BY <1>3, <2>1, <2>3, TryGoes
<1>4. CASE p = "party" /\ HandlePayload(c, g, p) = TryStartBattle(c, [g EXCEPT !.theirParty = TRUE])
  <2>1. PICK h : h = [g EXCEPT !.theirParty = TRUE]
    OBVIOUS
  <2>2. /\ h \in FlowRecord /\ h.net = g.net /\ h.battleId = g.battleId /\ h.open = g.open
        /\ h.peerHello = g.peerHello /\ h.partySent = g.partySent /\ h.theirParty
        /\ h.active = g.active /\ h.inbox = g.inbox
    BY <1>1, <2>1 DEF FlowRecord
  <2>3. Goes(f, h, X)
    BY <1>4, <2>2 DEF Goes
  <2> QED BY <1>4, <2>1, <2>3, TryGoes
<1>5. CASE HandlePayload(c, g, p) = [g EXCEPT !.inbox = Append(@, p)]
  <2>1. PICK h : h = [g EXCEPT !.inbox = Append(@, p)]
    OBVIOUS
  <2>2. g.inbox \in Seq(Payload) /\ p \in Payload
    BY <1>1 DEF FlowRecord
  <2>3. Append(g.inbox, p) \in Seq(Payload) /\ Range(Append(g.inbox, p)) = Range(g.inbox) \cup {p}
    BY <2>2, RangeAppend
  <2>4. /\ h \in FlowRecord /\ h.net = g.net /\ h.battleId = g.battleId /\ h.open = g.open
        /\ h.peerHello = g.peerHello /\ h.partySent = g.partySent /\ h.theirParty = g.theirParty
        /\ h.active = g.active /\ h.inbox = Append(g.inbox, p)
    BY <1>1, <2>1, <2>3 DEF FlowRecord
  <2>5. Goes(f, h, X)
    BY <2>3, <2>4 DEF Goes
  <2> QED BY <1>5, <2>1, <2>5
<1> QED BY <1>2, <1>3, <1>4, <1>5 DEF HandlePayload, NoClash

\* One message of the battle handled, with all that was put back before.
LEMMA IngestGoes ==
  ASSUME NEW c \in Peer, NEW f \in FlowRecord, NEW m, m.payload \in Payload,
         f.net # NoBattle, f.open, f.net = m.id
  PROVE  Goes(f, Ingest(c, f, m), Range(f.inbox) \cup {m.payload})
<1> DEFINE X == Range(f.inbox) \cup {m.payload}
           ps == Append(f.inbox, m.payload)
<1>1. f.inbox \in Seq(Payload)
  BY DEF FlowRecord
<1>2. ps \in Seq(Payload) /\ Range(ps) = X /\ X \in SUBSET Payload
  BY <1>1, RangeAppend, RangeOfSeq
<1>3. ps \in Seq(X)
  BY <1>2, SeqOfRange
<1> HIDE DEF X, ps
<1>4. CASE f.stage = "battleRunning"
  <2>1. PICK h : h = [f EXCEPT !.inbox = ps]
    OBVIOUS
  <2>2. /\ h \in FlowRecord /\ h.net = f.net /\ h.battleId = f.battleId /\ h.open = f.open
        /\ h.peerHello = f.peerHello /\ h.partySent = f.partySent /\ h.theirParty = f.theirParty
        /\ h.active = f.active /\ h.inbox = ps
    BY <1>2, <2>1 DEF FlowRecord
  <2>3. Goes(f, h, X)
    BY <1>2, <2>2 DEF Goes
  <2>4. Ingest(c, f, m) = h
    BY <1>4, <2>1 DEF Ingest, ps
  <2> QED BY <2>3, <2>4 DEF X
<1>5. CASE f.stage # "battleRunning"
  <2> DEFINE S == {g \in FlowRecord : Goes(f, g, X)}
  <2>1. PICK h : h = [f EXCEPT !.inbox = <<>>]
    OBVIOUS
  <2>2. <<>> \in Seq(Payload) /\ Range(<<>>) = {}
    BY DEF Range
  <2>3. /\ h \in FlowRecord /\ h.net = f.net /\ h.battleId = f.battleId /\ h.open = f.open
        /\ h.peerHello = f.peerHello /\ h.partySent = f.partySent /\ h.theirParty = f.theirParty
        /\ h.active = f.active /\ h.inbox = <<>>
    BY <2>1, <2>2 DEF FlowRecord
  <2>4. Goes(f, h, X)
    BY <2>2, <2>3 DEF Goes
  <2>5. h \in S
    BY <2>3, <2>4
  <2>6. \A g \in S, p \in X : HandlePayload(c, g, p) \in S
    <3> SUFFICES ASSUME NEW g \in S, NEW p \in X PROVE HandlePayload(c, g, p) \in S
      OBVIOUS
    <3>1. Goes(f, HandlePayload(c, g, p), X)
      BY <1>2, PayloadGoes
    <3> QED BY <3>1 DEF Goes
  <2> HIDE DEF S
  <2>7. Handling(c, h, ps) \in S
    BY <1>3, <2>5, <2>6, HandlingKeeps
  <2>8. Ingest(c, f, m) = Handling(c, h, ps)
    BY <1>5, <2>1 DEF Ingest, ps
  <2> QED BY <2>7, <2>8 DEF S, X
<1> QED BY <1>4, <1>5

-----------------------------------------------------------------------------
(***************************************************************************)
(* BattleFlow, record by record: the messages.                             *)
(***************************************************************************)

\* A client has the other's party for the battle id, or may have it.
PartyAt(f, id) == f.net = id /\ (f.theirParty \/ "party" \in Range(f.inbox))

\* The record g is what the message m makes of f.
Turned(f, g, m) ==
  /\ g \in FlowRecord /\ Takes(f, g, m)
  /\ g.net \in {NoBattle, g.battleId}
  /\ g.open => g.net # NoBattle
  /\ \/ g.battleId = f.battleId /\ g.net = f.net
     \/ m.type = "battle_start" /\ g.battleId = m.id /\ g.net = m.id
  /\ g.partySent /\ ~f.partySent => g.net # NoBattle
  /\ g.active /\ ~f.active => g.net # NoBattle /\ g.peerHello /\ g.theirParty
  /\ \A id : PartyAt(g, id) =>
       PartyAt(f, id) \/ (m.type = "battle_message" /\ m.id = id /\ m.payload = "party")
  /\ m.type # "battle_start" => /\ g.net = f.net
                                /\ g.open => f.open
                                /\ f.peerHello => g.peerHello
                                /\ f.theirParty => g.theirParty

\* What more it is when no pair of players is refused.
Flows(f, g, m) ==
  NoClash =>
    /\ (f.peerHello => f.partySent) => (g.peerHello => g.partySent)
    /\ m.type = "battle_start" /\ ~f.open => g.net = m.id /\ g.open
    /\ f.open /\ m.type # "battle_start" /\ ~(m.type = "battle_ended" /\ m.id = f.net) =>
         g.open /\ (f.partySent => g.partySent)
    /\ g.partySent /\ ~f.partySent => g.open

\* A challenge is shown, and nothing else.
LEMMA PromptTurns ==
  ASSUME NEW f \in FlowRecord, NEW d, NetOf(f, d), NEW m, m.type = "challenge_received",
         NEW g, g = [f EXCEPT !.stage = "challengeReceived"]
  PROVE  Turned(f, g, m) /\ Flows(f, g, m)
<1>1. /\ g \in FlowRecord /\ g.net = f.net /\ g.battleId = f.battleId /\ g.open = f.open
      /\ g.peerHello = f.peerHello /\ g.partySent = f.partySent /\ g.theirParty = f.theirParty
      /\ g.active = f.active /\ g.inbox = f.inbox
  BY DEF FlowRecord
<1>2. Takes(f, g, m)
  BY <1>1 DEF Takes
<1>3. \A id : PartyAt(g, id) => PartyAt(f, id)
  BY <1>1 DEF PartyAt
<1>4. Turned(f, g, m)
  BY <1>1, <1>2, <1>3 DEF Turned, NetOf
<1>5. Flows(f, g, m)
  BY <1>1 DEF Flows
<1> QED BY <1>4, <1>5

\* A start opens a net of its own, unless one is open.
LEMMA StartTurns ==
  ASSUME NEW f \in FlowRecord, NEW d, NetOf(f, d), NEW m \in Notice, m.type = "battle_start",
         NEW g, g = StartNegotiation(f, m)
  PROVE  Turned(f, g, m) /\ Flows(f, g, m)
<1>2. CASE f.net # NoBattle /\ f.open
  <2>1. /\ g \in FlowRecord /\ g.net = f.net /\ g.battleId = f.battleId /\ ~g.open
        /\ g.peerHello = f.peerHello /\ g.partySent = f.partySent /\ g.theirParty = f.theirParty
        /\ g.active = f.active /\ g.inbox = f.inbox
    BY <1>2 DEF FlowRecord, StartNegotiation, Fail
  <2>2. \A id : PartyAt(g, id) => PartyAt(f, id)
    BY <2>1 DEF PartyAt
  <2>3. Turned(f, g, m)
    BY <2>1, <2>2 DEF Turned, NetOf, Takes
  <2>4. Flows(f, g, m)
    BY <1>2, <2>1 DEF Flows
  <2> QED BY <2>3, <2>4
<1>3. CASE ~(f.net # NoBattle /\ f.open)
  <2>1. ~f.open
    BY <1>3 DEF NetOf
  <2>2. m.id \in Nat /\ m.id # NoBattle /\ m.opponent \in Peer
    BY DEF Notice, Id, NoBattle
  <2>3. <<>> \in Seq(Payload) /\ Range(<<>>) = {}
    BY DEF Range
  <2>4. g = [f EXCEPT !.stage = "battleHello", !.battleId = m.id, !.opponent = m.opponent,
                      !.net = m.id, !.open = TRUE, !.inbox = <<>>,
                      !.peerHello = FALSE, !.theirParty = FALSE, !.partySent = FALSE]
    BY <1>3 DEF StartNegotiation
  <2>5. /\ g \in FlowRecord /\ g.net = m.id /\ g.battleId = m.id /\ g.open
        /\ ~g.peerHello /\ ~g.partySent /\ ~g.theirParty /\ g.active = f.active /\ g.inbox = <<>>
    <3>1. PICK h : h = [f EXCEPT !.stage = "battleHello", !.battleId = m.id, !.opponent = m.opponent,
                                 !.net = m.id]
      OBVIOUS
    <3>2. h \in FlowRecord /\ h.net = m.id /\ h.battleId = m.id /\ h.active = f.active
      BY <2>2, <3>1 DEF FlowRecord
    <3>3. PICK k : k = [h EXCEPT !.open = TRUE, !.inbox = <<>>]
      OBVIOUS
    <3>4. /\ k \in FlowRecord /\ k.net = m.id /\ k.battleId = m.id /\ k.active = f.active
          /\ k.open /\ k.inbox = <<>>
      BY <2>3, <3>2, <3>3 DEF FlowRecord
    <3>5. g = [k EXCEPT !.peerHello = FALSE, !.theirParty = FALSE, !.partySent = FALSE]
      BY <2>4, <3>1, <3>3
    <3> QED BY <3>4, <3>5 DEF FlowRecord
  <2>6. \A id : ~PartyAt(g, id)
    BY <2>3, <2>5 DEF PartyAt
  <2>7. Turned(f, g, m)
    BY <2>2, <2>5, <2>6 DEF Turned, Takes
  <2>8. Flows(f, g, m)
    BY <2>1, <2>5 DEF Flows
  <2> QED BY <2>7, <2>8
<1> QED BY <1>2, <1>3

\* A payload is for the open net of its battle.
LEMMA MessageTurns ==
  ASSUME NEW c \in Peer, NEW f \in FlowRecord, NEW d, NetOf(f, d), NEW m \in Notice,
         m.type = "battle_message", NEW g, g = Ingest(c, f, m)
  PROVE  Turned(f, g, m) /\ Flows(f, g, m)
<1>1. CASE f.net = NoBattle \/ ~f.open \/ f.net # m.id
  <2>1. g = f
    BY <1>1 DEF Ingest
  <2>2. Takes(f, g, m)
    BY <2>1 DEF Takes
  <2> QED BY <2>1, <2>2 DEF Turned, Flows, NetOf
<1>2. CASE ~(f.net = NoBattle \/ ~f.open \/ f.net # m.id)
  <2>1. m.payload \in Payload
    BY DEF Notice
  <2> DEFINE X == Range(f.inbox) \cup {m.payload}
  <2>2. Goes(f, g, X)
    BY <1>2, <2>1, IngestGoes
  <2>3. "party" \in X => "party" \in Range(f.inbox) \/ m.payload = "party"
    OBVIOUS
  <2> HIDE DEF X
  <2>4. ASSUME NEW id, PartyAt(g, id)
        PROVE  PartyAt(f, id) \/ (m.type = "battle_message" /\ m.id = id /\ m.payload = "party")
    <3>1. f.net = id /\ m.id = id
      BY <1>2, <2>2, <2>4 DEF Goes, PartyAt
    <3>2. f.theirParty \/ "party" \in X
      BY <2>2, <2>4 DEF Goes, PartyAt
    <3> QED BY <2>3, <3>1, <3>2 DEF PartyAt
  <2>5. Takes(f, g, m)
    BY <2>2 DEF Takes, Goes
  <2>6. Turned(f, g, m)
    BY <1>2, <2>2, <2>4, <2>5 DEF Turned, Goes, NetOf
  <2>7. Flows(f, g, m)
    BY <1>2, <2>2 DEF Flows, Goes
  <2> QED BY <2>6, <2>7
<1> QED BY <1>1, <1>2

\* The end of the battle closes its net.
LEMMA EndTurns ==
  ASSUME NEW f \in FlowRecord, NEW d, NetOf(f, d), NEW m, m.type = "battle_ended",
         NEW g, g = BattleEnded(f, m)
  PROVE  Turned(f, g, m) /\ Flows(f, g, m)
<1>1. CASE m.id # f.battleId
  <2>1. g = f
    BY <1>1 DEF BattleEnded
  <2>2. f.open => f.net = f.battleId
    BY DEF NetOf
  <2>3. Takes(f, g, m)
    BY <1>1, <2>1, <2>2 DEF Takes
  <2> QED BY <2>1, <2>3 DEF Turned, Flows, NetOf
<1>2. CASE m.id = f.battleId
  <2>1. g = [f EXCEPT !.open = FALSE, !.stage = IF @ = "battleRunning" THEN @ ELSE "idle"]
    BY <1>2 DEF BattleEnded
  <2>2. /\ g \in FlowRecord /\ g.net = f.net /\ g.battleId = f.battleId /\ ~g.open
        /\ g.peerHello = f.peerHello /\ g.partySent = f.partySent /\ g.theirParty = f.theirParty
        /\ g.active = f.active /\ g.inbox = f.inbox
    BY <2>1 DEF FlowRecord
  <2>3. \A id : PartyAt(g, id) => PartyAt(f, id)
    BY <2>2 DEF PartyAt
  <2>4. f.open => f.net = m.id
    BY <1>2 DEF NetOf
  <2>5. Turned(f, g, m)
    BY <2>2, <2>3 DEF Turned, NetOf, Takes
  <2>6. Flows(f, g, m)
    BY <2>2, <2>4 DEF Flows
  <2> QED BY <2>5, <2>6
<1> QED BY <1>1, <1>2

\* What any message makes of the record.
LEMMA HeardTurns ==
  ASSUME NEW c \in Peer, NEW f \in FlowRecord, NEW d, NetOf(f, d), NEW m \in Notice,
         NEW g, g = Heard(c, f, m)
  PROVE  Turned(f, g, m) /\ Flows(f, g, m)
<1>1. m.type \in {"challenge_received", "battle_start", "battle_message", "battle_ended"}
  BY DEF Notice
<1>2. CASE m.type = "challenge_received"
  BY <1>2, PromptTurns DEF Heard
<1>3. CASE m.type = "battle_start"
  BY <1>3, StartTurns DEF Heard
<1>4. CASE m.type = "battle_message"
  BY <1>4, MessageTurns DEF Heard
<1>5. CASE m.type = "battle_ended"
  BY <1>5, EndTurns DEF Heard
<1> QED BY <1>1, <1>2, <1>3, <1>4, <1>5

\* The stream after its first message.
LEMMA TurnedStream ==
  ASSUME NEW s \in Seq(Notice), s # <<>>, NEW f \in FlowRecord, NEW g, NEW b, NEW d \in Nat,
         Stream(f, s, b, d), Turned(f, g, Head(s))
  PROVE  /\ Stream(g, Tail(s), b, d)
         /\ Head(s).type = "battle_start" => ~f.open /\ f.battleId < Head(s).id
         /\ Head(s).type = "battle_ended" => Head(s).id # b
         /\ Head(s).id <= d
<1>1. /\ Len(s) \in Nat /\ Len(s) >= 1 /\ Head(s) = s[1] /\ 1 \in 1..Len(s)
  BY TailAt
<1>2. Head(s).id <= d /\ (Head(s).type = "battle_ended" => Head(s).id # b)
  BY <1>1 DEF Stream, Drawn, NotOver
<1>3. Head(s).type = "battle_start" => f.battleId < Head(s).id
  BY <1>1 DEF Stream, Rising
<1>4. Head(s).type = "battle_start" => ~f.open
  <2> SUFFICES ASSUME Head(s).type = "battle_start", f.open PROVE FALSE
    OBVIOUS
  <2>1. 0 \in 0..Len(s) /\ 1 \in 0..Len(s) /\ 0 < 1 /\ 1 # 0
    BY <1>1
  <2>2. BeginsAt(f, s, 0) /\ BeginsAt(f, s, 1)
    BY <1>1, <2>1 DEF BeginsAt
  <2>3. Ended(s, 0, 1, BattleAt(f, s, 0))
    BY <2>1, <2>2 DEF Stream, Parted
  <2> QED BY <2>3 DEF Ended
<1>5. Takes(f, g, Head(s))
  BY DEF Turned
<1>6. Parted(g, Tail(s)) /\ Current(g, Tail(s), b)
  BY <1>5, TailParted DEF Stream
<1>7. NotOver(Tail(s), b) /\ Drawn(Tail(s), d) /\ Rising(g, Tail(s))
  BY TailRest DEF Stream, Turned
<1>8. NetOf(g, d)
  BY <1>2 DEF Stream, NetOf, Turned
<1> QED BY <1>2, <1>3, <1>4, <1>6, <1>7, <1>8 DEF Stream

-----------------------------------------------------------------------------
(***************************************************************************)
(* The invariant of the streams, and the steps of one game.                *)
(***************************************************************************)

\* The screens a game shows are of challenges and battles that were drawn, and of battles
\* that its flow has begun.
OnScreen(f, v, d) ==
  \A w \in Range(v) : w.id <= d /\ (w.kind # "prompt" => w.id <= f.battleId)

\* Payloads go out for battles that were drawn.
OnWire(u, d) == \A x \in Range(u) : x.type = "battle_message" => x.id <= d

\* What the variables hold.
FlowTypes ==
  /\ conn \in [Peer -> {"joined", "closed"}]
  /\ flow \in [Peer -> FlowRecord]
  /\ screens \in [Peer -> Seq(Screen)]
  /\ up \in [Peer -> Seq(Spoken)]
  /\ down \in [Peer -> Seq(Notice)]
  /\ \A c \in Peer : OnWire(up[c], drawn)

\* Each client by itself, against the battle the server has it in.
InStep ==
  \A c \in Joined : /\ Stream(flow[c], down[c], battleOf[c], drawn)
                    /\ OnScreen(flow[c], screens[c], drawn)

\* The invariant of the streams.
FlowInv == IInv /\ FlowTypes /\ InStep

-----------------------------------------------------------------------------
\* Payloads in their envelopes.
LEMMA EnvelopesAre ==
  ASSUME NEW id, NEW ps \in Seq(Payload), ps # <<>> => id \in KnownIds
  PROVE  /\ Envelopes(id, ps) \in Seq(Spoken)
         /\ \A x \in Range(Envelopes(id, ps)) :
              x.type = "battle_message" /\ x.id = id /\ id \in KnownIds /\ x.payload \in Range(ps)
<1>1. Len(ps) \in Nat /\ DOMAIN ps = 1..Len(ps) /\ \A i \in 1..Len(ps) : ps[i] \in Payload
  BY LenProperties, ElementOfSeq
<1>2. \A i \in 1..Len(ps) : id \in KnownIds
  BY <1>1, EmptySeq
<1> DEFINE n == Len(ps)
           e == Envelopes(id, ps)
<1>3. e = [i \in 1..n |-> Envelope(id, ps[i])]
  BY <1>1 DEF Envelopes
<1>4. \A i \in 1..n : Envelope(id, ps[i]) \in Spoken
  BY <1>1, <1>2 DEF Envelope, Spoken
<1>5. e \in Seq(Spoken)
  <2> HIDE DEF n, e
  <2>1. n \in Nat
    BY <1>1 DEF n
  <2> QED BY <1>3, <1>4, <2>1, IsASeq
<1>6. ASSUME NEW x \in Range(e)
      PROVE  x.type = "battle_message" /\ x.id = id /\ id \in KnownIds /\ x.payload \in Range(ps)
  <2>1. PICK i \in 1..n : x = Envelope(id, ps[i])
    BY <1>3, <1>6 DEF Range
  <2> QED BY <1>1, <1>2, <2>1 DEF Envelope, Range
<1> QED BY <1>5, <1>6

\* What goes out when a record turns into another.
LEMMA PayloadsAre ==
  ASSUME NEW f, NEW g, g.partySent /\ ~f.partySent => g.net # NoBattle
  PROVE  /\ Payloads(f, g) \in Seq(Payload)
         /\ "party" \in Range(Payloads(f, g)) => g.partySent /\ ~f.partySent
         /\ Payloads(f, g) # <<>> => g.net # NoBattle
<1>1. "hello" \in Payload /\ "party" \in Payload
  BY PayloadAssumption
<1>2. PICK a : a = IF g.net # NoBattle /\ g.open /\ f.net # g.net THEN <<"hello">> ELSE <<>>
  OBVIOUS
<1>3. PICK b : b = IF g.partySent /\ ~f.partySent THEN <<"party">> ELSE <<>>
  OBVIOUS
<1>4. Payloads(f, g) = a \o b
  BY <1>2, <1>3 DEF Payloads
<1>5. <<"hello">> \in Seq(Payload) /\ <<"party">> \in Seq(Payload) /\ <<>> \in Seq(Payload)
  BY <1>1
<1>6. a \in Seq(Payload) /\ b \in Seq(Payload)
  BY <1>2, <1>3, <1>5
<1>7. Range(<<"hello">>) = {"hello"} /\ Range(<<"party">>) = {"party"} /\ Range(<<>>) = {}
  BY DEF Range
<1>8. "party" \in Range(a) \cup Range(b) => g.partySent /\ ~f.partySent
  BY <1>2, <1>3, <1>7
<1>9. Range(a \o b) = Range(a) \cup Range(b) /\ a \o b \in Seq(Payload)
  BY <1>6, RangeConcatenation, ConcatProperties
<1>10. a \o b # <<>> => a # <<>> \/ b # <<>>
  BY <1>6, ConcatEmptySeq
<1>11. a # <<>> \/ b # <<>> => g.net # NoBattle
  BY <1>2, <1>3
<1> QED BY <1>4, <1>8, <1>9, <1>10, <1>11

-----------------------------------------------------------------------------
\* One game goes on, and the server does nothing.
Becomes(c, g, s, v, u) ==
  /\ flow' = [flow EXCEPT ![c] = g]
  /\ down' = [down EXCEPT ![c] = s]
  /\ screens' = [screens EXCEPT ![c] = v]
  /\ up' = [up EXCEPT ![c] = u]
  /\ UNCHANGED state

\* A step of one game keeps the invariant of the streams when its stream, its screens and its
\* wire are what they should be afterwards.
LEMMA LocalStep ==
  ASSUME FlowInv, NEW c \in Joined, NEW g \in FlowRecord, NEW s \in Seq(Notice),
         NEW v \in Seq(Screen), NEW u \in Seq(Spoken), Becomes(c, g, s, v, u),
         Stream(g, s, battleOf[c], drawn), OnScreen(g, v, drawn), OnWire(u, drawn)
  PROVE  FlowInv'
<1>1. /\ IInv' /\ conn' = conn /\ battleOf' = battleOf /\ drawn' = drawn /\ Joined' = Joined
  BY StutterIInv DEF Becomes, state, FlowInv, Joined
<1>2. c \in Peer
  BY DEF Joined
<1>3. FlowTypes'
  BY <1>1, <1>2 DEF FlowInv, FlowTypes, Becomes
<1>4. ASSUME NEW q \in Joined
      PROVE  Stream(flow'[q], down'[q], battleOf[q], drawn) /\ OnScreen(flow'[q], screens'[q], drawn)
  <2>1. q \in Peer
    BY DEF Joined
  <2>2. CASE q = c
    BY <2>1, <2>2 DEF Becomes, FlowInv, FlowTypes
  <2>3. CASE q # c
    <3>1. flow'[q] = flow[q] /\ down'[q] = down[q] /\ screens'[q] = screens[q]
      BY <2>1, <2>3 DEF Becomes, FlowInv, FlowTypes
    <3> QED BY <3>1 DEF FlowInv, InStep
  <2> QED BY <2>2, <2>3
<1>5. InStep'
  BY <1>1, <1>4 DEF InStep
<1> QED BY <1>1, <1>3, <1>5 DEF FlowInv

\* What FlowInv says of a client that is there.
LEMMA ClientFacts ==
  ASSUME FlowInv, NEW c \in Joined
  PROVE  /\ c \in Peer /\ flow[c] \in FlowRecord /\ down[c] \in Seq(Notice)
         /\ screens[c] \in Seq(Screen) /\ up[c] \in Seq(Spoken) /\ OnWire(up[c], drawn)
         /\ Stream(flow[c], down[c], battleOf[c], drawn) /\ OnScreen(flow[c], screens[c], drawn)
         /\ NetOf(flow[c], drawn)
         /\ drawn \in Nat /\ MaxDraws \in Nat /\ drawn <= MaxDraws
         /\ flow[c].battleId \in Nat /\ flow[c].battleId <= drawn
  BY MaxDrawsAssumption DEF FlowInv, FlowTypes, InStep, Joined, IInv, TypeOK, Stream, NetOf, FlowRecord

\* A stream to which u adds nothing but what is on no battle's wire, or is of a drawn one.
LEMMA WireAdds ==
  ASSUME NEW u \in Seq(Spoken), NEW t \in Seq(Spoken), NEW d, OnWire(u, d), OnWire(t, d)
  PROVE  u \o t \in Seq(Spoken) /\ OnWire(u \o t, d) /\ Range(u \o t) = Range(u) \cup Range(t)
<1>1. Range(u \o t) = Range(u) \cup Range(t) /\ u \o t \in Seq(Spoken)
  BY RangeConcatenation, ConcatProperties
<1> QED BY <1>1 DEF OnWire

\* One message on the wire, or none.
LEMMA OneOnWire ==
  ASSUME NEW x \in Spoken, NEW d, x.type = "battle_message" => x.id <= d
  PROVE  <<x>> \in Seq(Spoken) /\ OnWire(<<x>>, d) /\ Range(<<x>>) = {x}
         /\ <<>> \in Seq(Spoken) /\ OnWire(<<>>, d) /\ Range(<<>>) = {}
<1>1. Range(<<x>>) = {x} /\ Range(<<>>) = {}
  BY DEF Range
<1> QED BY <1>1 DEF OnWire

-----------------------------------------------------------------------------
\* What FinishBattle and FadeEnds make of a record.
LEMMA FinishedIs ==
  ASSUME NEW f \in FlowRecord, NEW g, g = Finished(f)
  PROVE  /\ g \in FlowRecord /\ g.battleId = f.battleId /\ g.net = NoBattle /\ ~g.open /\ ~g.active
         /\ g.peerHello = f.peerHello /\ g.partySent = f.partySent
<1>1. <<>> \in Seq(Payload) /\ NoBattle \in Nat
  BY DEF NoBattle
<1>2. PICK h : h = [f EXCEPT !.stage = "idle", !.active = FALSE]
  OBVIOUS
<1>3. h \in FlowRecord /\ h.battleId = f.battleId /\ ~h.active /\ h.peerHello = f.peerHello /\ h.partySent = f.partySent
  BY <1>2 DEF FlowRecord
<1>4. PICK k : k = [h EXCEPT !.net = NoBattle, !.open = FALSE]
  OBVIOUS
<1>5. /\ k \in FlowRecord /\ k.battleId = f.battleId /\ k.net = NoBattle /\ ~k.open /\ ~k.active
      /\ k.peerHello = f.peerHello /\ k.partySent = f.partySent
  BY <1>1, <1>3, <1>4 DEF FlowRecord
<1>6. g = [k EXCEPT !.inbox = <<>>]
  BY <1>2, <1>4 DEF Finished
<1> QED BY <1>1, <1>5, <1>6 DEF FlowRecord

\* What the player says when the battle on his screen is over: bye, on its open net.
Bye(f, id) == IF f.net = id /\ f.open THEN <<Envelope(id, "bye")>> ELSE <<>>

\* The bye is of a battle that was drawn.
LEMMA ByeIs ==
  ASSUME NEW f, NEW d \in Nat, NetOf(f, d), f.battleId \in Nat, d <= MaxDraws, MaxDraws \in Nat, NEW id
  PROVE  /\ Bye(f, id) \in Seq(Spoken) /\ OnWire(Bye(f, id), d)
         /\ \A x \in Range(Bye(f, id)) : x.type = "battle_message" /\ x.payload = "bye"
<1>1. CASE f.net = id /\ f.open
  <2>1. id \in KnownIds /\ id <= d
    BY <1>1 DEF NetOf, KnownIds, NoBattle
  <2>2. PICK x : x = Envelope(id, "bye")
    OBVIOUS
  <2>3. x \in Spoken /\ x.type = "battle_message" /\ x.payload = "bye" /\ x.id = id
    BY <2>1, <2>2, PayloadAssumption DEF Envelope, Spoken
  <2>4. Bye(f, id) = <<x>>
    BY <1>1, <2>2 DEF Bye
  <2> QED BY <2>1, <2>3, <2>4, OneOnWire
<1>2. CASE ~(f.net = id /\ f.open)
  <2>1. Bye(f, id) = <<>>
    BY <1>2 DEF Bye
  <2>2. Range(<<>>) = {} /\ <<>> \in Seq(Spoken)
    BY DEF Range
  <2> QED BY <2>1, <2>2 DEF OnWire
<1> QED BY <1>1, <1>2

\* The battle_end is of the battle begun last.
LEMMA EndMessageIs ==
  ASSUME NEW f, f.battleId \in KnownIds, NEW d
  PROVE  /\ EndMessage(f) \in Seq(Spoken) /\ OnWire(EndMessage(f), d)
         /\ Range(EndMessage(f)) = {[type |-> "battle_end", id |-> f.battleId]}
<1>1. PICK x : x = [type |-> "battle_end", id |-> f.battleId]
  OBVIOUS
<1>2. x \in Spoken /\ x.type = "battle_end"
  BY <1>1 DEF Spoken
<1>3. EndMessage(f) = <<x>>
  BY <1>1 DEF EndMessage
<1> QED BY <1>1, <1>2, <1>3, OneOnWire

-----------------------------------------------------------------------------
(***************************************************************************)
(* The negotiation: who plays, and who has sent his party.                 *)
(***************************************************************************)

\* The stream s has a message of this type about id.
Has(s, type, id) == \E x \in Range(s) : x.type = type /\ x.id = id

\* A battle of the server's is played: BattleIsPlayed for one client.
PlayedBy(f, s, u, b) ==
  b # NoBattle => Has(s, "battle_start", b) \/ (f.net = b /\ f.open) \/ Has(u, "battle_end", b)

\* Who has had the other's hello has sent his party, and plays with the other's.
Prepared(f, v) ==
  /\ f.peerHello => f.partySent
  /\ f.active /\ f.open /\ [kind |-> "battle", id |-> f.net] \in Range(v) => f.peerHello /\ f.theirParty

\* The party of the battle id is on a stream.
PartyIn(s, id) == \E x \in Range(s) : x.type = "battle_message" /\ x.id = id /\ x.payload = "party"

\* A client has sent his party for the battle id and holds its net, or he is on his way out.
HasSent(f, u, id) == (f.net = id /\ f.open /\ f.partySent) \/ Has(u, "battle_end", id)

\* No party of o's is on its way to c, or with him, that o has not sent for the battle id.
SentFirst(c, o, id) ==
  PartyIn(up[o], id) \/ PartyIn(down[c], id) \/ PartyAt(flow[c], id) => HasSent(flow[o], up[o], id)

\* Every battle is played by who is in it, and no party is had that was not sent.
Negotiated ==
  /\ \A c \in Joined : /\ PlayedBy(flow[c], down[c], up[c], battleOf[c])
                       /\ Prepared(flow[c], screens[c])
  /\ \A b \in battles : \A c, o \in Members(b) : c # o => SentFirst(c, o, b.id)

\* The invariant of the whole system.
NegotiationInv == FlowInv /\ (NoClash => Negotiated)

-----------------------------------------------------------------------------
\* c's game goes on towards its battle.
Progresses(c, g, s, v, u) ==
  /\ Range(up[c]) \subseteq Range(u)
  /\ \A id : PartyIn(s, id) => PartyIn(down[c], id)
  /\ \A id : id # NoBattle /\ PartyAt(g, id) => PartyAt(flow[c], id) \/ PartyIn(down[c], id)
  /\ \A id : PartyIn(u, id) => PartyIn(up[c], id) \/ (g.net = id /\ g.open /\ g.partySent)
  /\ flow[c].open /\ flow[c].net = battleOf[c] =>
       \/ g.open /\ g.net = battleOf[c] /\ (flow[c].partySent => g.partySent)
       \/ Has(u, "battle_end", battleOf[c])
  /\ Has(down[c], "battle_start", battleOf[c]) =>
       Has(s, "battle_start", battleOf[c]) \/ (g.open /\ g.net = battleOf[c])
  /\ Prepared(flow[c], screens[c]) => Prepared(g, v)

\* More on a stream, nothing less.
LEMMA HasMore ==
  ASSUME NEW u, NEW t, Range(u) \subseteq Range(t), NEW type, NEW id, Has(u, type, id)
  PROVE  Has(t, type, id)
  BY DEF Has

\* A game that goes on does not leave its battle untold.
LEMMA ProgressPlayed ==
  ASSUME NEW c, NEW g, NEW s, NEW v, NEW u, Progresses(c, g, s, v, u),
         PlayedBy(flow[c], down[c], up[c], battleOf[c])
  PROVE  PlayedBy(g, s, u, battleOf[c])
<1> SUFFICES ASSUME battleOf[c] # NoBattle
             PROVE  Has(s, "battle_start", battleOf[c]) \/ (g.net = battleOf[c] /\ g.open)
                    \/ Has(u, "battle_end", battleOf[c])
  BY DEF PlayedBy
<1>1. CASE Has(down[c], "battle_start", battleOf[c])
  BY <1>1 DEF Progresses
<1>2. CASE flow[c].net = battleOf[c] /\ flow[c].open
  BY <1>2 DEF Progresses
<1>3. CASE Has(up[c], "battle_end", battleOf[c])
  BY <1>3, HasMore DEF Progresses
<1> QED BY <1>1, <1>2, <1>3 DEF PlayedBy

\* A game that goes on does not unsend its party.
LEMMA ProgressSent ==
  ASSUME NEW c, NEW g, NEW s, NEW v, NEW u, Progresses(c, g, s, v, u),
         HasSent(flow[c], up[c], battleOf[c])
  PROVE  HasSent(g, u, battleOf[c])
<1>1. CASE flow[c].net = battleOf[c] /\ flow[c].open /\ flow[c].partySent
  BY <1>1 DEF Progresses, HasSent
<1>2. CASE Has(up[c], "battle_end", battleOf[c])
  BY <1>2, HasMore DEF Progresses, HasSent
<1> QED BY <1>1, <1>2 DEF HasSent

\* The server has both players of a battle in it.
LEMMA FightersFacts ==
  ASSUME IInv, NEW b \in battles, NEW c \in Members(b)
  PROVE  c \in Joined /\ c \in Peer /\ battleOf[c] = b.id /\ b.id \in Nat /\ b.id # NoBattle /\ b.id <= drawn
<1>1. c \in Joined /\ c \in Peer
  BY DEF IInv, OnlyJoinedEngaged, Joined
<1>2. b.id \in Nat /\ b.id # NoBattle
  BY DEF IInv, TypeOK, Battle, Id, NoBattle
<1>3. battleOf[c] = b.id /\ b.id <= drawn
  BY <1>1 DEF IInv, BattleBooks, FreshIds
<1> QED BY <1>1, <1>2, <1>3

\* What one game does leaves every battle negotiated.
LEMMA LocalNegotiated ==
  ASSUME FlowInv, Negotiated, NEW c \in Joined, NEW g, NEW s, NEW v, NEW u,
         Becomes(c, g, s, v, u), Progresses(c, g, s, v, u)
  PROVE  Negotiated'
<1>1. battleOf' = battleOf /\ battles' = battles /\ Joined' = Joined /\ c \in Peer
  BY DEF Becomes, state, Joined
<1>2. flow'[c] = g /\ down'[c] = s /\ screens'[c] = v /\ up'[c] = u
  BY <1>1 DEF Becomes, FlowInv, FlowTypes
<1>3. ASSUME NEW q \in Peer, q # c
      PROVE  flow'[q] = flow[q] /\ down'[q] = down[q] /\ screens'[q] = screens[q] /\ up'[q] = up[q]
  BY <1>3 DEF Becomes, FlowInv, FlowTypes
<1>4. ASSUME NEW q \in Joined
      PROVE  PlayedBy(flow'[q], down'[q], up'[q], battleOf[q]) /\ Prepared(flow'[q], screens'[q])
  <2>1. PlayedBy(flow[q], down[q], up[q], battleOf[q]) /\ Prepared(flow[q], screens[q]) /\ q \in Peer
    BY DEF Negotiated, Joined
  <2>2. CASE q = c
    <3>1. PlayedBy(g, s, u, battleOf[c])
      BY <2>1, <2>2, ProgressPlayed
    <3>2. Prepared(g, v)
      BY <2>1, <2>2 DEF Progresses
    <3> QED BY <1>2, <2>2, <3>1, <3>2
  <2>3. CASE q # c
    BY <1>3, <2>1, <2>3
  <2> QED BY <2>2, <2>3
<1>5. ASSUME NEW b \in battles, NEW q \in Members(b), NEW o \in Members(b), q # o
      PROVE  SentFirst(q, o, b.id)'
  <2>1. SentFirst(q, o, b.id)
    BY <1>5 DEF Negotiated
  <2>2. /\ q \in Peer /\ battleOf[q] = b.id /\ o \in Peer /\ battleOf[o] = b.id /\ b.id # NoBattle
    BY FightersFacts DEF FlowInv
  <2>3. HasSent(flow[o], up[o], b.id) => HasSent(flow'[o], up'[o], b.id)
    <3>1. CASE o = c
      BY <1>2, <2>2, <3>1, ProgressSent
    <3>2. CASE o # c
      BY <1>3, <2>2, <3>2
    <3> QED BY <3>1, <3>2
  <2>4. PartyIn(up'[o], b.id) => PartyIn(up[o], b.id) \/ HasSent(flow'[o], up'[o], b.id)
    <3>1. CASE o = c
      BY <1>2, <3>1 DEF Progresses, HasSent
    <3>2. CASE o # c
      BY <1>3, <2>2, <3>2
    <3> QED BY <3>1, <3>2
  <2>5. PartyIn(down'[q], b.id) \/ PartyAt(flow'[q], b.id) => PartyIn(down[q], b.id) \/ PartyAt(flow[q], b.id)
    <3>1. CASE q = c
      BY <1>2, <2>2, <3>1 DEF Progresses
    <3>2. CASE q # c
      BY <1>3, <2>2, <3>2
    <3> QED BY <3>1, <3>2
  <2>6. PartyIn(up'[o], b.id) \/ PartyIn(down'[q], b.id) \/ PartyAt(flow'[q], b.id)
          => HasSent(flow'[o], up'[o], b.id)
    BY <2>1, <2>3, <2>4, <2>5 DEF SentFirst
  <2> QED BY <2>6 DEF SentFirst
<1>6. \A q \in Joined' : /\ PlayedBy(flow'[q], down'[q], up'[q], battleOf'[q])
                         /\ Prepared(flow'[q], screens'[q])
  BY <1>1, <1>4
<1>7. \A b \in battles' : \A q, o \in Members(b) : q # o => SentFirst(q, o, b.id)'
  BY <1>1, <1>5
<1> QED BY <1>6, <1>7 DEF Negotiated

-----------------------------------------------------------------------------
\* A step of c's own that keeps what FlowInv and Negotiated say of him.
Plays(c) ==
  \E g \in FlowRecord, s \in Seq(Notice), v \in Seq(Screen), u \in Seq(Spoken) :
    /\ Becomes(c, g, s, v, u)
    /\ Stream(g, s, battleOf[c], drawn) /\ OnScreen(g, v, drawn) /\ OnWire(u, drawn)
    /\ NoClash => Progresses(c, g, s, v, u)

\* A step of one game keeps the invariant.
LEMMA PlaysKeeps ==
  ASSUME NegotiationInv, NEW c \in Joined, Plays(c)
  PROVE  NegotiationInv'
<1>1. PICK g \in FlowRecord, s \in Seq(Notice), v \in Seq(Screen), u \in Seq(Spoken) :
        /\ Becomes(c, g, s, v, u)
        /\ Stream(g, s, battleOf[c], drawn) /\ OnScreen(g, v, drawn) /\ OnWire(u, drawn)
        /\ NoClash => Progresses(c, g, s, v, u)
  BY DEF Plays
<1>2. FlowInv'
  BY <1>1, LocalStep DEF NegotiationInv
<1>3. NoClash => Negotiated'
  BY <1>1, LocalNegotiated DEF NegotiationInv
<1> QED BY <1>2, <1>3 DEF NegotiationInv, NoClash

-----------------------------------------------------------------------------
(***************************************************************************)
(* The steps of one game: the player's own.                                *)
(***************************************************************************)

\* f and g differ in their stage.
LEMMA StageOnly ==
  ASSUME NEW f \in FlowRecord, NEW g,
         g \in {[f EXCEPT !.stage = x] : x \in {"idle", "challengeSent", "challengeAccepted"}}
  PROVE  /\ g \in FlowRecord /\ g.net = f.net /\ g.battleId = f.battleId /\ g.open = f.open
         /\ g.peerHello = f.peerHello /\ g.partySent = f.partySent /\ g.theirParty = f.theirParty
         /\ g.active = f.active /\ g.inbox = f.inbox
  BY DEF FlowRecord

\* The player sends a challenge or answers one.
LEMMA StagePlays ==
  ASSUME FlowInv, NEW c \in Joined, NEW g,
         g \in {[flow[c] EXCEPT !.stage = x] : x \in {"idle", "challengeSent", "challengeAccepted"}},
         NEW v \in Seq(Screen), Range(v) \subseteq Range(screens[c]),
         NEW x \in Spoken, x.type \in {"challenge", "challenge_reply"},
         Becomes(c, g, down[c], v, Append(up[c], x))
  PROVE  Plays(c)
<1> DEFINE f == flow[c]
           u == Append(up[c], x)
<1>1. /\ f \in FlowRecord /\ down[c] \in Seq(Notice) /\ screens[c] \in Seq(Screen) /\ up[c] \in Seq(Spoken)
      /\ OnWire(up[c], drawn) /\ Stream(f, down[c], battleOf[c], drawn) /\ OnScreen(f, screens[c], drawn)
  BY ClientFacts
<1>2. /\ g \in FlowRecord /\ g.net = f.net /\ g.battleId = f.battleId /\ g.open = f.open
      /\ g.peerHello = f.peerHello /\ g.partySent = f.partySent /\ g.theirParty = f.theirParty
      /\ g.active = f.active /\ g.inbox = f.inbox
  BY <1>1, StageOnly
<1>3. u \in Seq(Spoken) /\ Range(u) = Range(up[c]) \cup {x}
  BY <1>1, RangeAppend
<1> HIDE DEF f, u
<1>4. Stream(g, down[c], battleOf[c], drawn)
  BY <1>1, <1>2, KeptStream
<1>5. OnScreen(g, v, drawn)
  BY <1>1, <1>2 DEF OnScreen
<1>6. OnWire(u, drawn)
  BY <1>1, <1>3 DEF OnWire
<1>7. Progresses(c, g, down[c], v, u)
  <2>1. \A id : PartyIn(u, id) => PartyIn(up[c], id)
    BY <1>3 DEF PartyIn
  <2>2. \A id : PartyAt(g, id) => PartyAt(f, id)
    BY <1>2 DEF PartyAt
  <2>3. Prepared(f, screens[c]) => Prepared(g, v)
    BY <1>2 DEF Prepared
  <2> QED BY <1>2, <1>3, <2>1, <2>2, <2>3 DEF Progresses, f
<1> QED BY <1>1, <1>2, <1>3, <1>4, <1>5, <1>6, <1>7 DEF Plays, u

\* The player challenges another.
LEMMA ChallengePlays ==
  ASSUME FlowInv, NEW c \in Peer, NEW t \in Peer, SendChallenge(c, t)
  PROVE  c \in Joined /\ Plays(c)
<1>1. c \in Joined
  BY DEF SendChallenge, Joined
<1>2. PICK g : g = [flow[c] EXCEPT !.stage = "challengeSent"]
  OBVIOUS
<1>3. PICK x : x = [type |-> "challenge", target |-> t]
  OBVIOUS
<1>4. x \in Spoken /\ x.type = "challenge"
  BY <1>3 DEF Spoken
<1>5. Becomes(c, g, down[c], screens[c], Append(up[c], x))
  BY <1>2, <1>3 DEF SendChallenge, Becomes, FlowInv, FlowTypes
<1>6. screens[c] \in Seq(Screen)
  BY <1>1, ClientFacts
<1> QED BY <1>1, <1>2, <1>4, <1>5, <1>6, StagePlays

\* The player answers a challenge.
LEMMA ReplyPlays ==
  ASSUME FlowInv, NEW c \in Peer, NEW accepted \in BOOLEAN, Reply(c, accepted)
  PROVE  c \in Joined /\ Plays(c)
<1>1. c \in Joined
  BY DEF Reply, Joined
<1>2. /\ screens[c] \in Seq(Screen) /\ screens[c] # <<>> /\ OnScreen(flow[c], screens[c], drawn)
      /\ drawn \in Nat /\ drawn <= MaxDraws /\ MaxDraws \in Nat
  BY <1>1, ClientFacts DEF Reply, TopIs, Top
<1>3. PICK w : w = Last(screens[c])
  OBVIOUS
<1>4. PICK v : v = Front(screens[c])
  OBVIOUS
<1>5. v \in Seq(Screen) /\ Range(v) \subseteq Range(screens[c]) /\ w \in Range(screens[c]) /\ w \in Screen
  BY <1>2, <1>3, <1>4, RangeFront
<1>6. w.id \in KnownIds
  <2>1. w.id \in Nat /\ w.id # 0 /\ w.id <= drawn
    BY <1>2, <1>5 DEF OnScreen, Screen, Id
  <2> QED BY <1>2, <2>1 DEF KnownIds
<1>7. PICK x : x = [type |-> "challenge_reply", id |-> w.id, accept |-> accepted]
  OBVIOUS
<1>8. x \in Spoken /\ x.type = "challenge_reply"
  BY <1>6, <1>7 DEF Spoken
<1>9. PICK g : g = [flow[c] EXCEPT !.stage = IF accepted THEN "challengeAccepted" ELSE "idle"]
  OBVIOUS
<1>10. g \in {[flow[c] EXCEPT !.stage = y] : y \in {"idle", "challengeSent", "challengeAccepted"}}
  BY <1>9
<1>11. Becomes(c, g, down[c], v, Append(up[c], x))
  BY <1>3, <1>4, <1>7, <1>9 DEF Reply, Becomes, FlowInv, FlowTypes
<1> QED BY <1>1, <1>5, <1>8, <1>10, <1>11, StagePlays

-----------------------------------------------------------------------------
\* The game leaves its battle and tells the server.
LEMMA LeavePlays ==
  ASSUME FlowInv, NEW c \in Joined, NEW g, g = Finished(flow[c]), flow[c].battleId \in KnownIds,
         NEW v \in Seq(Screen), Range(v) \subseteq Range(screens[c]),
         NEW t \in Seq(Spoken), OnWire(t, drawn), \A x \in Range(t) : x.type = "battle_message" => x.payload = "bye",
         NEW u, u = up[c] \o (t \o EndMessage(flow[c])),
         Becomes(c, g, down[c], v, u)
  PROVE  Plays(c)
<1> DEFINE f == flow[c]
           e == EndMessage(f)
           s == down[c]
<1>1. /\ f \in FlowRecord /\ s \in Seq(Notice) /\ screens[c] \in Seq(Screen) /\ up[c] \in Seq(Spoken)
      /\ OnWire(up[c], drawn) /\ Stream(f, s, battleOf[c], drawn) /\ OnScreen(f, screens[c], drawn)
      /\ NetOf(f, drawn)
  BY ClientFacts
<1>2. /\ g \in FlowRecord /\ g.battleId = f.battleId /\ g.net = NoBattle /\ ~g.open /\ ~g.active
      /\ g.peerHello = f.peerHello /\ g.partySent = f.partySent
  BY <1>1, FinishedIs
<1>3. /\ e \in Seq(Spoken) /\ OnWire(e, drawn) /\ Range(e) = {[type |-> "battle_end", id |-> f.battleId]}
  BY EndMessageIs
<1> HIDE DEF e
<1>4. t \o e \in Seq(Spoken) /\ OnWire(t \o e, drawn) /\ Range(t \o e) = Range(t) \cup Range(e)
  BY <1>3, WireAdds
<1>5. PICK z \in Seq(Spoken) : z = t \o e
  BY <1>4
<1>6. u \in Seq(Spoken) /\ OnWire(u, drawn) /\ Range(u) = Range(up[c]) \cup Range(z)
  <2>1. u = up[c] \o z
    BY <1>5 DEF e
  <2>2. PICK a \in Seq(Spoken) : a = up[c]
    BY <1>1
  <2>3. OnWire(a, drawn) /\ OnWire(z, drawn)
    BY <1>1, <1>4, <1>5, <2>2
  <2>4. a \o z \in Seq(Spoken) /\ OnWire(a \o z, drawn) /\ Range(a \o z) = Range(a) \cup Range(z)
    BY <2>3, WireAdds
  <2> QED BY <2>1, <2>2, <2>4
<1>7. Range(u) = Range(up[c]) \cup Range(t) \cup Range(e)
  BY <1>4, <1>5, <1>6
<1> HIDE DEF f, s
<1>8. Stream(g, s, battleOf[c], drawn)
  BY <1>1, <1>2, KeptStream
<1>9. OnScreen(g, v, drawn)
  BY <1>1, <1>2 DEF OnScreen
<1>10. Progresses(c, g, s, v, u)
  <2>1. \A x \in Range(e) : x.type = "battle_end" /\ x.id = f.battleId
    BY <1>3
  <2>2. \A id : PartyIn(u, id) => PartyIn(up[c], id)
    <3> SUFFICES ASSUME NEW id, NEW x \in Range(u), x.type = "battle_message", x.id = id, x.payload = "party"
                 PROVE  x \in Range(up[c])
      BY DEF PartyIn
    <3> QED BY <1>7, <2>1
  <2>3. \A id : id # NoBattle => ~PartyAt(g, id)
    BY <1>2 DEF PartyAt
  <2>4. f.open => Has(u, "battle_end", f.net)
    <3>1. f.open => f.net = f.battleId
      BY <1>1 DEF NetOf
    <3>2. [type |-> "battle_end", id |-> f.battleId] \in Range(u)
      BY <1>3, <1>7
    <3>3. Has(u, "battle_end", f.battleId)
      BY <3>2 DEF Has
    <3> QED BY <3>1, <3>3
  <2>5. Prepared(f, screens[c]) => Prepared(g, v)
    BY <1>2 DEF Prepared
  <2>6. Range(up[c]) \subseteq Range(u)
    BY <1>7
  <2> QED BY <2>2, <2>3, <2>4, <2>5, <2>6 DEF Progresses, f, s
<1> QED BY <1>1, <1>2, <1>6, <1>8, <1>9, <1>10 DEF Plays, s

\* A battle that is on the screen has been drawn, and its flow has begun it.
LEMMA BattleScreen ==
  ASSUME FlowInv, NEW c \in Joined, screens[c] # <<>>, Last(screens[c]).kind # "prompt"
  PROVE  /\ Last(screens[c]).id \in Id /\ Last(screens[c]).id <= flow[c].battleId
         /\ flow[c].battleId \in KnownIds
<1>1. /\ screens[c] \in Seq(Screen) /\ OnScreen(flow[c], screens[c], drawn)
      /\ drawn \in Nat /\ drawn <= MaxDraws /\ MaxDraws \in Nat
      /\ flow[c].battleId \in Nat /\ flow[c].battleId <= drawn
  BY ClientFacts
<1>2. PICK w : w = Last(screens[c])
  OBVIOUS
<1>3. w \in Range(screens[c]) /\ w \in Screen
  BY <1>1, <1>2, RangeFront
<1>4. w.id \in Id /\ w.id <= flow[c].battleId
  BY <1>1, <1>2, <1>3 DEF OnScreen, Screen
<1>5. flow[c].battleId \in KnownIds
  BY <1>1, <1>4 DEF Id, KnownIds
<1> QED BY <1>2, <1>4, <1>5

\* The fade after a battle is over: onFinish.
LEMMA FadePlays ==
  ASSUME FlowInv, NEW c \in Peer, FadeEnds(c)
  PROVE  c \in Joined /\ Plays(c)
<1>1. c \in Joined
  BY DEF FadeEnds, Joined
<1>2. screens[c] # <<>> /\ Last(screens[c]).kind = "battleReturn"
  BY DEF FadeEnds, TopIs, Top
<1>3. flow[c].battleId \in KnownIds
  BY <1>1, <1>2, BattleScreen
<1>4. PICK v : v = Front(screens[c])
  OBVIOUS
<1>5. v \in Seq(Screen) /\ Range(v) \subseteq Range(screens[c])
  BY <1>1, <1>2, <1>4, ClientFacts, RangeFront
<1>6. PICK t : t = <<>>
  OBVIOUS
<1>7. t \in Seq(Spoken) /\ Range(t) = {} /\ OnWire(t, drawn)
  BY <1>6 DEF Range, OnWire
<1>8. PICK g : g = Finished(flow[c])
  OBVIOUS
<1>9. t \o EndMessage(flow[c]) = EndMessage(flow[c])
  BY <1>6 DEF EndMessage
<1>10. PICK u : u = up[c] \o (t \o EndMessage(flow[c]))
  OBVIOUS
<1>11. Becomes(c, g, down[c], v, u)
  BY <1>4, <1>8, <1>9, <1>10 DEF FadeEnds, Becomes, FlowInv, FlowTypes
<1>12. \A x \in Range(t) : x.type = "battle_message" => x.payload = "bye"
  BY <1>7
<1> QED BY <1>1, <1>3, <1>5, <1>7, <1>8, <1>10, <1>11, <1>12, LeavePlays

\* The battle on the screen has its result.
LEMMA FinishPlays ==
  ASSUME FlowInv, NEW c \in Peer, NEW result, FinishBattle(c, result)
  PROVE  c \in Joined /\ Plays(c)
<1>1. c \in Joined
  BY DEF FinishBattle, Joined
<1>2. screens[c] # <<>> /\ Last(screens[c]).kind = "battle"
  BY DEF FinishBattle, TopIs, Top
<1>3. PICK id : id = Last(screens[c]).id
  OBVIOUS
<1>4. flow[c].battleId \in KnownIds /\ id \in Id /\ id <= flow[c].battleId
  BY <1>1, <1>2, <1>3, BattleScreen
<1>5. /\ flow[c] \in FlowRecord /\ down[c] \in Seq(Notice) /\ screens[c] \in Seq(Screen) /\ up[c] \in Seq(Spoken)
      /\ OnWire(up[c], drawn) /\ Stream(flow[c], down[c], battleOf[c], drawn)
      /\ OnScreen(flow[c], screens[c], drawn) /\ NetOf(flow[c], drawn)
      /\ drawn \in Nat /\ MaxDraws \in Nat /\ drawn <= MaxDraws
      /\ flow[c].battleId \in Nat /\ flow[c].battleId <= drawn
  BY <1>1, ClientFacts
<1>6. PICK t : t = Bye(flow[c], id)
  OBVIOUS
<1>7. /\ t \in Seq(Spoken) /\ OnWire(t, drawn)
      /\ \A x \in Range(t) : x.type = "battle_message" /\ x.payload = "bye"
  BY <1>5, <1>6, ByeIs
<1>8. PICK v : v = Front(screens[c])
  OBVIOUS
<1>9. v \in Seq(Screen) /\ Range(v) \subseteq Range(screens[c])
  BY <1>2, <1>5, <1>8, RangeFront
<1>10. CASE result = "lose"
  <2>1. PICK g : g = Finished(flow[c])
    OBVIOUS
  <2>2. PICK u : u = up[c] \o (t \o EndMessage(flow[c]))
    OBVIOUS
  <2>3. up' = [up EXCEPT ![c] = @ \o t \o EndMessage(flow[c])]
    BY <1>3, <1>6, <1>10 DEF FinishBattle, Bye
  <2>4. (up[c] \o t) \o EndMessage(flow[c]) = u
    <3>1. EndMessage(flow[c]) \in Seq(Spoken)
      BY <1>4, EndMessageIs
    <3>2. PICK e \in Seq(Spoken) : e = EndMessage(flow[c])
      BY <3>1
    <3>3. PICK a \in Seq(Spoken) : a = up[c]
      BY <1>5
    <3>4. (a \o t) \o e = a \o (t \o e)
      BY <1>7, ConcatAssociative
    <3> QED BY <2>2, <3>2, <3>3, <3>4
  <2>5. up' = [up EXCEPT ![c] = u]
    BY <2>3, <2>4 DEF FlowInv, FlowTypes
  <2>6. Becomes(c, g, down[c], v, u)
    BY <1>8, <1>10, <2>1, <2>5 DEF FinishBattle, Becomes, FlowInv, FlowTypes
  <2> QED BY <1>1, <1>4, <1>7, <1>9, <2>1, <2>2, <2>6, LeavePlays
<1>11. CASE result # "lose"
  <2>1. PICK y : y = [kind |-> "battleReturn", id |-> id]
    OBVIOUS
  <2>2. y \in Screen /\ y.kind = "battleReturn" /\ y.id = id
    BY <1>4, <2>1 DEF Screen
  <2>3. PICK w : w = Append(v, y)
    OBVIOUS
  <2>4. w \in Seq(Screen) /\ Range(w) = Range(v) \cup {y}
    BY <1>9, <2>2, <2>3, RangeAppend
  <2>5. PICK u : u = up[c] \o t
    OBVIOUS
  <2>6. u \in Seq(Spoken) /\ OnWire(u, drawn) /\ Range(u) = Range(up[c]) \cup Range(t)
    BY <1>5, <1>7, <2>5, WireAdds
  <2>7. Becomes(c, flow[c], down[c], w, u)
    BY <1>3, <1>6, <1>8, <1>11, <2>1, <2>3, <2>5 DEF FinishBattle, Becomes, Bye, FlowInv, FlowTypes
  <2>8. OnScreen(flow[c], w, drawn)
    <3>1. y.id <= drawn
      BY <1>4, <1>5, <2>2 DEF Id
    <3> QED BY <1>4, <1>5, <1>9, <2>2, <2>4, <3>1 DEF OnScreen
  <2>9. Progresses(c, flow[c], down[c], w, u)
    <3>1. \A i : PartyIn(u, i) => PartyIn(up[c], i)
      <4> SUFFICES ASSUME NEW x \in Range(u), x.payload = "party" PROVE x \in Range(up[c])
        BY DEF PartyIn
      <4> QED BY <1>7, <2>6
    <3>2. Prepared(flow[c], screens[c]) => Prepared(flow[c], w)
      BY <1>9, <2>2, <2>4 DEF Prepared
    <3>3. Range(up[c]) \subseteq Range(u)
      BY <2>6
    <3> QED BY <3>1, <3>2, <3>3 DEF Progresses
  <2> QED BY <1>1, <1>5, <2>4, <2>6, <2>7, <2>8, <2>9 DEF Plays
<1> QED BY <1>10, <1>11

-----------------------------------------------------------------------------
(***************************************************************************)
(* The steps of one game: a message.                                       *)
(***************************************************************************)

\* The screens that a message puts on top of the others.
Prompts(m) == IF m.type = "challenge_received" THEN <<[kind |-> "prompt", id |-> m.id]>> ELSE <<>>
Battles(f, g) == IF g.active /\ ~f.active THEN <<[kind |-> "battle", id |-> g.net]>> ELSE <<>>

\* A challenge puts its prompt on the screen.
LEMMA PromptsAre ==
  ASSUME NEW m \in Notice
  PROVE  /\ Prompts(m) \in Seq(Screen)
         /\ \A w \in Range(Prompts(m)) : w.kind = "prompt" /\ w.id = m.id
<1>1. PICK w : w = [kind |-> "prompt", id |-> m.id]
  OBVIOUS
<1>2. w \in Screen /\ w.kind = "prompt" /\ w.id = m.id
  BY <1>1 DEF Screen, Notice
<1>3. Range(<<w>>) = {w} /\ Range(<<>>) = {} /\ <<w>> \in Seq(Screen) /\ <<>> \in Seq(Screen)
  BY <1>2 DEF Range
<1>4. Prompts(m) = <<w>> \/ Prompts(m) = <<>>
  BY <1>1 DEF Prompts
<1> QED BY <1>2, <1>3, <1>4

\* A battle that becomes active is put on the screen, and it is the one of the net.
LEMMA BattlesAre ==
  ASSUME NEW f, NEW g \in FlowRecord, g.active /\ ~f.active => g.net # NoBattle
  PROVE  /\ Battles(f, g) \in Seq(Screen)
         /\ \A w \in Range(Battles(f, g)) : w.kind = "battle" /\ w.id = g.net /\ g.active /\ ~f.active /\ g.net # NoBattle
<1>1. PICK w : w = [kind |-> "battle", id |-> g.net]
  OBVIOUS
<1>2. w.kind = "battle" /\ w.id = g.net
  BY <1>1
<1>3. Range(<<w>>) = {w} /\ Range(<<>>) = {} /\ <<>> \in Seq(Screen)
  BY DEF Range
<1>4. CASE g.active /\ ~f.active
  <2>1. w \in Screen
    <3>1. g.net \in Nat
      BY DEF FlowRecord
    <3> QED BY <1>1, <1>4, <3>1 DEF Screen, Id, NoBattle
  <2>2. <<w>> \in Seq(Screen)
    BY <2>1
  <2>3. Battles(f, g) = <<w>>
    BY <1>1, <1>4 DEF Battles
  <2> QED BY <1>2, <1>3, <1>4, <2>2, <2>3
<1>5. CASE ~(g.active /\ ~f.active)
  <2>1. Battles(f, g) = <<>>
    BY <1>5 DEF Battles
  <2> QED BY <1>3, <2>1
<1> QED BY <1>4, <1>5

\* The next message of the stream is handled.
LEMMA MessagePlays ==
  ASSUME FlowInv, NEW c \in Peer, HandleMessage(c)
  PROVE  c \in Joined /\ Plays(c)
<1>1. c \in Joined /\ down[c] # <<>>
  BY DEF HandleMessage, Joined
<1>2. PICK f \in FlowRecord : f = flow[c]
  BY <1>1, ClientFacts
<1>3. PICK s \in Seq(Notice) : s = down[c]
  BY <1>1, ClientFacts
<1>4. /\ screens[c] \in Seq(Screen) /\ up[c] \in Seq(Spoken)
      /\ OnWire(up[c], drawn) /\ Stream(f, s, battleOf[c], drawn)
      /\ OnScreen(f, screens[c], drawn) /\ NetOf(f, drawn)
      /\ drawn \in Nat /\ MaxDraws \in Nat /\ drawn <= MaxDraws
      /\ f.battleId \in Nat /\ f.battleId <= drawn
  BY <1>1, <1>2, <1>3, ClientFacts
<1>5. PICK m \in Notice : m = Head(s)
  BY <1>1, <1>3, RangeTail
<1>6. PICK r \in Seq(Notice) : r = Tail(s) /\ Range(s) = {m} \cup Range(r)
  BY <1>1, <1>3, <1>5, RangeTail
<1>7. PICK g : g = Heard(c, f, m)
  OBVIOUS
<1>8. Turned(f, g, m) /\ Flows(f, g, m)
  BY <1>4, <1>7, HeardTurns
<1>9. /\ Stream(g, r, battleOf[c], drawn)
      /\ m.type = "battle_start" => ~f.open /\ f.battleId < m.id
      /\ m.type = "battle_ended" => m.id # battleOf[c]
      /\ m.id <= drawn
  BY <1>1, <1>3, <1>4, <1>5, <1>6, <1>8, TurnedStream
<1>10. /\ g \in FlowRecord /\ m.id \in Nat /\ m.id # NoBattle
       /\ g.net \in {NoBattle, g.battleId} /\ g.battleId \in Nat /\ g.battleId <= drawn
       /\ f.battleId <= g.battleId
  <2>1. g \in FlowRecord /\ g.net \in {NoBattle, g.battleId}
    BY <1>8 DEF Turned
  <2>2. m.id \in Nat /\ m.id # NoBattle
    BY NoticeIds
  <2>3. g.battleId = f.battleId \/ (m.type = "battle_start" /\ g.battleId = m.id)
    BY <1>8 DEF Turned
  <2> QED BY <1>4, <1>9, <2>1, <2>2, <2>3
<1> DEFINE ps == Payloads(f, g)
           e == Envelopes(g.net, ps)
           u == up[c] \o e
           v == screens[c] \o Prompts(m) \o Battles(f, g)
<1>11. /\ ps \in Seq(Payload)
       /\ "party" \in Range(ps) => g.partySent /\ ~f.partySent
       /\ ps # <<>> => g.net # NoBattle
  BY <1>8, PayloadsAre DEF Turned
<1>12. ps # <<>> => g.net \in KnownIds /\ g.net <= drawn
  BY <1>4, <1>10, <1>11 DEF KnownIds, NoBattle
<1> HIDE DEF ps
<1>13. /\ e \in Seq(Spoken)
       /\ \A x \in Range(e) : x.type = "battle_message" /\ x.id = g.net /\ x.payload \in Range(ps)
  BY <1>11, <1>12, EnvelopesAre
<1>14. OnWire(e, drawn)
  BY <1>4, <1>10, <1>13 DEF OnWire, NoBattle
<1> HIDE DEF e
<1>15. u \in Seq(Spoken) /\ OnWire(u, drawn) /\ Range(u) = Range(up[c]) \cup Range(e)
  <2>1. PICK a \in Seq(Spoken) : a = up[c]
    BY <1>4
  <2>2. a \o e \in Seq(Spoken) /\ OnWire(a \o e, drawn) /\ Range(a \o e) = Range(a) \cup Range(e)
    BY <1>4, <1>13, <1>14, <2>1, WireAdds
  <2> QED BY <2>1, <2>2
<1>16. /\ Prompts(m) \in Seq(Screen) /\ Battles(f, g) \in Seq(Screen)
       /\ \A w \in Range(Prompts(m)) : w.kind = "prompt" /\ w.id = m.id
       /\ \A w \in Range(Battles(f, g)) : w.kind = "battle" /\ w.id = g.net /\ g.active /\ ~f.active
  BY <1>8, <1>10, PromptsAre, BattlesAre DEF Turned
<1>17. v \in Seq(Screen) /\ Range(v) = Range(screens[c]) \cup Range(Prompts(m)) \cup Range(Battles(f, g))
  <2>1. PICK a \in Seq(Screen) : a = screens[c]
    BY <1>4
  <2>2. PICK p \in Seq(Screen) : p = Prompts(m)
    BY <1>16
  <2>3. PICK b \in Seq(Screen) : b = Battles(f, g)
    BY <1>16
  <2>4. a \o p \in Seq(Screen)
    BY ConcatProperties
  <2>5. Range(a \o p) = Range(a) \cup Range(p)
    BY RangeConcatenation
  <2>6. PICK ap \in Seq(Screen) : ap = a \o p
    BY <2>4
  <2>7. ap \o b \in Seq(Screen)
    BY ConcatProperties
  <2>8. Range(ap \o b) = Range(ap) \cup Range(b)
    BY RangeConcatenation
  <2> QED BY <2>1, <2>2, <2>3, <2>5, <2>6, <2>7, <2>8
<1> HIDE DEF u, v
<1>18. OnScreen(g, v, drawn)
  <2> SUFFICES ASSUME NEW w \in Range(v) PROVE w.id <= drawn /\ (w.kind # "prompt" => w.id <= g.battleId)
    BY DEF OnScreen
  <2>1. CASE w \in Range(screens[c])
    <3>1. w.id <= drawn /\ (w.kind # "prompt" => w.id <= f.battleId)
      BY <1>4, <2>1 DEF OnScreen
    <3>2. w.id \in Nat
      <4>1. w \in Screen
        BY <1>4, <2>1, RangeOfSeq
      <4> QED BY <4>1 DEF Screen, Id
    <3> QED BY <1>4, <1>10, <3>1, <3>2
  <2>2. CASE w \in Range(Prompts(m))
    BY <1>9, <1>16, <2>2
  <2>3. CASE w \in Range(Battles(f, g))
    <3>1. w.id = NoBattle \/ w.id = g.battleId
      BY <1>10, <1>16, <2>3
    <3> QED BY <1>4, <1>10, <3>1 DEF NoBattle
  <2> QED BY <1>17, <2>1, <2>2, <2>3
<1>19. Becomes(c, g, r, v, u)
  BY <1>2, <1>3, <1>5, <1>6, <1>7 DEF HandleMessage, Becomes, u, v, e, ps, Prompts, Battles, FlowInv, FlowTypes
<1>20. ASSUME NoClash PROVE Progresses(c, g, r, v, u)
  <2>1. Range(up[c]) \subseteq Range(u)
    BY <1>15
  <2>2. \A id : PartyIn(r, id) => PartyIn(s, id)
    BY <1>6 DEF PartyIn
  <2>3. ASSUME NEW id, PartyAt(g, id) PROVE PartyAt(f, id) \/ PartyIn(s, id)
    <3>1. CASE m.type = "battle_message" /\ m.id = id /\ m.payload = "party"
      BY <1>6, <3>1 DEF PartyIn
    <3> QED BY <1>8, <2>3, <3>1 DEF Turned
  <2>4. ASSUME NEW id, PartyIn(u, id) PROVE PartyIn(up[c], id) \/ (g.net = id /\ g.open /\ g.partySent)
    <3>1. PICK x \in Range(u) : x.type = "battle_message" /\ x.id = id /\ x.payload = "party"
      BY <2>4 DEF PartyIn
    <3>2. CASE x \in Range(up[c])
      BY <3>1, <3>2 DEF PartyIn
    <3>3. CASE x \in Range(e)
      <4>1. g.partySent /\ ~f.partySent /\ g.net = id
        BY <1>11, <1>13, <3>1, <3>3
      <4>2. g.open
        BY <1>8, <1>20, <4>1 DEF Flows
      <4> QED BY <4>1, <4>2
    <3> QED BY <1>15, <3>1, <3>2, <3>3
  <2>5. ASSUME f.open, f.net = battleOf[c] PROVE g.open /\ g.net = battleOf[c] /\ (f.partySent => g.partySent)
    <3>1. m.type # "battle_start" /\ ~(m.type = "battle_ended" /\ m.id = f.net)
      BY <1>9, <2>5
    <3> QED BY <1>8, <1>20, <2>5, <3>1 DEF Flows, Turned
  <2>6. ASSUME Has(s, "battle_start", battleOf[c])
        PROVE  Has(r, "battle_start", battleOf[c]) \/ (g.open /\ g.net = battleOf[c])
    <3>1. PICK x \in Range(s) : x.type = "battle_start" /\ x.id = battleOf[c]
      BY <2>6 DEF Has
    <3>2. CASE x = m
      BY <1>8, <1>9, <1>20, <3>1, <3>2 DEF Flows
    <3>3. CASE x \in Range(r)
      BY <3>1, <3>3 DEF Has
    <3> QED BY <1>6, <3>1, <3>2, <3>3
  <2>7. ASSUME Prepared(f, screens[c]) PROVE Prepared(g, v)
    <3>1. g.peerHello => g.partySent
      BY <1>8, <1>20, <2>7 DEF Prepared, Flows
    <3>2. ASSUME g.active, g.open, [kind |-> "battle", id |-> g.net] \in Range(v)
          PROVE  g.peerHello /\ g.theirParty
      <4>1. CASE ~f.active
        BY <1>8, <3>2, <4>1 DEF Turned
      <4>2. CASE f.active
        <5>1. PICK w : w = [kind |-> "battle", id |-> g.net]
          OBVIOUS
        <5>2. w.kind = "battle" /\ w.id = g.net
          BY <5>1
        <5>3. w \in Range(screens[c])
          BY <1>16, <1>17, <3>2, <4>2, <5>1, <5>2
        <5>4. CASE m.type = "battle_start"
          <6>1. g.net = m.id /\ f.battleId < m.id
            BY <1>8, <1>9, <1>20, <5>4 DEF Flows
          <6>2. w.id <= f.battleId
            BY <1>4, <5>2, <5>3 DEF OnScreen
          <6> QED BY <1>4, <1>10, <5>2, <6>1, <6>2
        <5>5. CASE m.type # "battle_start"
          <6>1. /\ g.net = f.net /\ f.open
                /\ f.peerHello => g.peerHello
                /\ f.theirParty => g.theirParty
            BY <1>8, <3>2, <5>5 DEF Turned
          <6>2. f.peerHello /\ f.theirParty
            BY <2>7, <4>2, <5>1, <5>3, <6>1 DEF Prepared
          <6> QED BY <6>1, <6>2
        <5> QED BY <5>4, <5>5
      <4> QED BY <4>1, <4>2
    <3> QED BY <3>1, <3>2 DEF Prepared
  <2> QED BY <1>2, <1>3, <2>1, <2>2, <2>3, <2>4, <2>5, <2>6, <2>7 DEF Progresses
<1> QED BY <1>1, <1>9, <1>10, <1>15, <1>17, <1>18, <1>19, <1>20 DEF Plays

-----------------------------------------------------------------------------
(***************************************************************************)
(* The steps of the server.                                                *)
(***************************************************************************)

\* What reaches q's BattleFlow in a step: nothing, one thing from the server, or one
\* payload that a member of his battle has on the way.
Informed(q) ==
  \/ LearnsNothing(q)
  \/ LearnsNews(q)
  \/ \E o \in Joined : \E msg \in Range(up[o]) : Relays(o, msg, q)

\* What m tells q was on a stream of someone in his battle.
PassedOn(q, m) ==
  \E o \in Joined : \E msg \in Range(up[o]) :
    Relays(o, msg, q) /\ m.id = msg.id /\ m.payload = msg.payload

\* Nobody is in a battle that was not drawn.
LEMMA BattleDrawn ==
  ASSUME IInv, NEW q \in Peer
  PROVE  battleOf[q] \in Nat /\ battleOf[q] <= drawn /\ drawn \in Nat
<1>1. battleOf[q] \in Nat /\ drawn \in Nat
  BY DEF IInv, TypeOK
<1>2. CASE battleOf[q] = NoBattle
  BY <1>1, <1>2 DEF NoBattle
<1>3. CASE battleOf[q] # NoBattle
  BY <1>1, <1>3 DEF IInv, BattleBooks, Fighting, FreshIds
<1> QED BY <1>1, <1>2, <1>3

\* His stream gets what he learns.
LEMMA StreamGrows ==
  ASSUME FlowInv, NEW q \in Joined, Booked, down'[q] = down[q] \o Noticeable(sent'[q]),
         NEW m \in Notice, Learns(q, m)
  PROVE  /\ down'[q] \in Seq(Notice) /\ Range(down'[q]) = Range(down[q]) \cup {m}
         /\ Stream(flow[q], down'[q], battleOf'[q], drawn')
<1>1. /\ q \in Peer /\ flow[q] \in FlowRecord /\ drawn \in Nat
      /\ Stream(flow[q], down[q], battleOf[q], drawn)
  BY ClientFacts
<1>2. PICK s \in Seq(Notice) : s = down[q]
  BY ClientFacts
<1>3. battleOf[q] \in Nat /\ battleOf[q] <= drawn
  BY <1>1, BattleDrawn DEF FlowInv
<1>4. /\ drawn' \in Nat /\ drawn <= drawn' /\ m.id <= drawn'
      /\ Tells(m, battleOf[q], battleOf'[q])
      /\ m.type = "battle_start" => drawn < m.id
      /\ Noticeable(sent'[q]) = <<m>>
  BY DEF Booked, Learns
<1>5. m.id \in Nat
  BY NoticeIds
<1>6. battleOf'[q] \in Nat
  BY <1>3, <1>4, <1>5 DEF Tells, TellsOther, TellsStart, TellsEnd, NoBattle
<1>7. down'[q] = Append(s, m)
  <2>1. Append(s, m) = s \o <<m>>
    BY AppendIsConcat
  <2> QED BY <1>2, <1>4, <2>1
<1>8. Append(s, m) \in Seq(Notice) /\ Range(Append(s, m)) = Range(s) \cup {m}
  BY RangeAppend
<1>9. Stream(flow[q], s, battleOf[q], drawn)
  BY <1>1, <1>2
<1>10. Stream(flow[q], Append(s, m), battleOf'[q], drawn')
  BY <1>1, <1>3, <1>4, <1>6, <1>9, AppendStream
<1> QED BY <1>2, <1>7, <1>8, <1>10

\* The stream of who learns nothing.
LEMMA StreamStays ==
  ASSUME FlowInv, NEW q \in Joined, Booked, down'[q] = down[q] \o Noticeable(sent'[q]),
         LearnsNothing(q)
  PROVE  /\ down'[q] = down[q] /\ down'[q] \in Seq(Notice)
         /\ Stream(flow[q], down'[q], battleOf'[q], drawn')
<1>1. /\ flow[q] \in FlowRecord /\ drawn \in Nat
      /\ Stream(flow[q], down[q], battleOf[q], drawn)
  BY ClientFacts
<1>2. PICK s \in Seq(Notice) : s = down[q]
  BY ClientFacts
<1>3. s \o <<>> = s
  BY ConcatEmptySeq
<1>4. down'[q] = s /\ battleOf'[q] = battleOf[q] /\ drawn' \in Nat /\ drawn <= drawn'
  BY <1>2, <1>3 DEF LearnsNothing, Booked
<1>5. Stream(flow[q], s, battleOf[q], drawn)
  BY <1>1, <1>2
<1>6. Stream(flow[q], s, battleOf[q], drawn')
  BY <1>1, <1>4, <1>5, SilentStream
<1> QED BY <1>2, <1>4, <1>6

\* Who is informed of nothing learns nothing, else one thing.
LEMMA InformedOf ==
  ASSUME NEW q, Informed(q)
  PROVE  \/ LearnsNothing(q)
         \/ \E m \in Notice : /\ Learns(q, m)
                              /\ m.type = "battle_message" => PassedOn(q, m)
<1>1. CASE LearnsNews(q)
  BY <1>1 DEF LearnsNews
<1>2. CASE \E o \in Joined : \E msg \in Range(up[o]) : Relays(o, msg, q)
  <2>0. PICK o \in Joined : \E msg \in Range(up[o]) : Relays(o, msg, q)
    BY <1>2
  <2>1. PICK msg \in Range(up[o]) : Relays(o, msg, q)
    BY <2>0
  <2>2. PICK m \in Notice : Learns(q, m) /\ m.id = msg.id /\ m.payload = msg.payload
    BY <2>1 DEF Relays
  <2> QED BY <2>1, <2>2 DEF PassedOn
<1> QED BY <1>1, <1>2 DEF Informed

\* A step of the server's, for those who are still there after it.
Serves ==
  /\ IInv' /\ Booked /\ Joined' \subseteq Joined
  /\ conn' \in [Peer -> {"joined", "closed"}]
  /\ UNCHANGED <<flow, screens>>
  /\ up' \in [Peer -> Seq(Spoken)] /\ \A q \in Peer : Range(up'[q]) \subseteq Range(up[q])
  /\ Deliver
  /\ \A q \in Joined' : Informed(q)

\* A step of the server keeps the invariant of the streams.
LEMMA ServesFlow ==
  ASSUME FlowInv, Serves
  PROVE  FlowInv'
<1>1. \A q \in Joined' : q \in Joined /\ q \in Peer /\ conn'[q] = "joined"
  BY DEF Serves, Joined
<1>2. \A q \in Joined' : down'[q] = down[q] \o Noticeable(sent'[q])
  BY <1>1 DEF Serves, Deliver
<1>3. drawn \in Nat /\ drawn' \in Nat /\ drawn <= drawn'
  BY DEF Serves, Booked, FlowInv, IInv, TypeOK
<1>4. ASSUME NEW q \in Joined'
      PROVE  down'[q] \in Seq(Notice) /\ Stream(flow[q], down'[q], battleOf'[q], drawn')
  <2>1. q \in Joined /\ down'[q] = down[q] \o Noticeable(sent'[q]) /\ Booked /\ Informed(q)
    BY <1>1, <1>2 DEF Serves
  <2>2. CASE LearnsNothing(q)
    BY <2>1, <2>2, StreamStays
  <2>3. CASE \E m \in Notice : Learns(q, m)
    BY <2>1, <2>3, StreamGrows
  <2> QED BY <2>1, <2>2, <2>3, InformedOf
<1>5. down' \in [Peer -> Seq(Notice)]
  <2>1. ASSUME NEW q \in Peer PROVE down'[q] \in Seq(Notice)
    <3>1. CASE q \in Joined'
      BY <1>4, <3>1
    <3>2. CASE q \notin Joined'
      <4>1. conn'[q] = "closed"
        BY <3>2 DEF Serves, Joined
      <4>2. down'[q] = <<>>
        BY <4>1 DEF Serves, Deliver
      <4> QED BY <4>2
    <3> QED BY <3>1, <3>2
  <2>2. DOMAIN down' = Peer /\ down' = [q \in Peer |-> down'[q]]
    BY DEF Serves, Deliver
  <2> QED BY <2>1, <2>2
<1>6. ASSUME NEW q \in Peer PROVE OnWire(up'[q], drawn')
  <2> SUFFICES ASSUME NEW x \in Range(up'[q]), x.type = "battle_message" PROVE x.id <= drawn'
    BY DEF OnWire
  <2>1. x \in Range(up[q]) /\ up[q] \in Seq(Spoken) /\ OnWire(up[q], drawn)
    BY DEF Serves, FlowInv, FlowTypes
  <2>2. x \in Spoken
    BY <2>1, RangeOfSeq
  <2>3. x.id \in Nat
    BY <2>2 DEF Spoken, KnownIds
  <2> QED BY <1>3, <2>1, <2>3 DEF OnWire
<1>7. FlowTypes'
  BY <1>5, <1>6 DEF FlowTypes, FlowInv, Serves
<1>8. ASSUME NEW q \in Joined' PROVE OnScreen(flow[q], screens[q], drawn')
  <2> SUFFICES ASSUME NEW w \in Range(screens[q])
               PROVE  w.id <= drawn' /\ (w.kind # "prompt" => w.id <= flow[q].battleId)
    BY DEF OnScreen
  <2>1. screens[q] \in Seq(Screen) /\ OnScreen(flow[q], screens[q], drawn)
    BY <1>1, ClientFacts
  <2>2. w \in Screen
    BY <2>1, RangeOfSeq
  <2>3. w.id \in Nat
    BY <2>2 DEF Screen, Id
  <2> QED BY <1>3, <2>1, <2>3 DEF OnScreen
<1>9. InStep'
  BY <1>4, <1>8 DEF InStep, Serves
<1> QED BY <1>7, <1>9 DEF FlowInv, Serves

\* Nobody's word that his battle is over is lost while the server has him in it.
EndsAreHeard ==
  \A q \in Joined' : battleOf'[q] # NoBattle /\ Has(up[q], "battle_end", battleOf'[q])
                       => Has(up'[q], "battle_end", battleOf'[q])

\* After a step of the server every battle is played: the start it has told is on the stream.
LEMMA ServesPlayed ==
  ASSUME FlowInv, Negotiated, Serves, EndsAreHeard, NEW q \in Joined'
  PROVE  PlayedBy(flow[q], down'[q], up'[q], battleOf'[q])
<1>1. q \in Joined /\ q \in Peer /\ conn'[q] = "joined" /\ Booked /\ Informed(q)
  BY DEF Serves, Joined
<1>2. down'[q] = down[q] \o Noticeable(sent'[q])
  BY <1>1 DEF Serves, Deliver
<1>3. PlayedBy(flow[q], down[q], up[q], battleOf[q])
  BY <1>1 DEF Negotiated
<1> SUFFICES ASSUME battleOf'[q] # NoBattle
             PROVE  \/ Has(down'[q], "battle_start", battleOf'[q])
                    \/ flow[q].net = battleOf'[q] /\ flow[q].open
                    \/ Has(up'[q], "battle_end", battleOf'[q])
  BY DEF PlayedBy
<1>4. CASE battleOf'[q] = battleOf[q] /\ Range(down[q]) \subseteq Range(down'[q])
  <2>1. CASE Has(down[q], "battle_start", battleOf[q])
    BY <1>4, <2>1, HasMore
  <2>2. CASE Has(up[q], "battle_end", battleOf[q])
    BY <1>4, <2>2 DEF EndsAreHeard
  <2> QED BY <1>3, <1>4, <2>1, <2>2 DEF PlayedBy
<1>5. CASE LearnsNothing(q)
  <2>1. down'[q] = down[q] /\ battleOf'[q] = battleOf[q]
    BY <1>1, <1>2, <1>5, StreamStays DEF LearnsNothing
  <2> QED BY <1>4, <2>1
<1>6. CASE \E m \in Notice : Learns(q, m)
  <2>1. PICK m \in Notice : Learns(q, m)
    BY <1>6
  <2>2. Range(down'[q]) = Range(down[q]) \cup {m}
    BY <1>1, <1>2, <2>1, StreamGrows
  <2>3. Tells(m, battleOf[q], battleOf'[q])
    BY <2>1 DEF Learns
  <2>4. CASE m.type = "battle_start" /\ battleOf'[q] = m.id
    BY <2>2, <2>4 DEF Has
  <2> QED BY <1>4, <2>2, <2>3, <2>4 DEF Tells, TellsOther, TellsStart, TellsEnd
<1> QED BY <1>1, <1>5, <1>6, InformedOf

\* A step of the server brings nobody a party that was not sent.
LEMMA ServesSent ==
  ASSUME FlowInv, Negotiated, Serves, EndsAreHeard,
         NEW b \in battles', NEW q \in Members(b), NEW o \in Members(b), q # o
  PROVE  SentFirst(q, o, b.id)'
<1>1. /\ q \in Joined' /\ o \in Joined' /\ battleOf'[o] = b.id /\ b.id \in Nat /\ b.id # NoBattle
  <2>1. q \in Joined' /\ o \in Joined' /\ q \in Peer /\ o \in Peer
    BY DEF Serves, IInv, OnlyJoinedEngaged, Joined
  <2>2. b.id \in Nat /\ b.id # NoBattle
    BY DEF Serves, IInv, TypeOK, Battle, Id, NoBattle
  <2>3. battleOf'[o] = b.id
    BY <2>1 DEF Serves, IInv, BattleBooks
  <2> QED BY <2>1, <2>2, <2>3
<1>2. /\ q \in Joined /\ q \in Peer /\ o \in Joined /\ o \in Peer /\ conn'[q] = "joined"
      /\ Booked /\ Informed(q)
  BY <1>1 DEF Serves, Joined
<1>3. down'[q] = down[q] \o Noticeable(sent'[q])
  BY <1>2 DEF Serves, Deliver
<1>4. PartyIn(up'[o], b.id) => PartyIn(up[o], b.id)
  BY <1>2 DEF Serves, PartyIn
<1>5. ASSUME PartyIn(down'[q], b.id)
      PROVE  \/ PartyIn(down[q], b.id)
             \/ \E p \in Joined : \E msg \in Range(up[p]) :
                  Relays(p, msg, q) /\ msg.id = b.id /\ msg.payload = "party"
  <2>1. PICK x \in Range(down'[q]) : x.type = "battle_message" /\ x.id = b.id /\ x.payload = "party"
    BY <1>5 DEF PartyIn
  <2>2. CASE LearnsNothing(q)
    <3>1. down'[q] = down[q]
      BY <1>2, <1>3, <2>2, StreamStays
    <3> QED BY <1>5, <3>1
  <2>3. CASE x \in Range(down[q])
    BY <2>1, <2>3 DEF PartyIn
  <2>4. ASSUME NEW m \in Notice, Learns(q, m), x \notin Range(down[q]) PROVE x = m
    BY <1>2, <1>3, <2>1, <2>4, StreamGrows
  <2> QED BY <1>2, <2>1, <2>2, <2>3, <2>4, InformedOf DEF PassedOn
<1>6. CASE b \in battles
  <2>1. SentFirst(q, o, b.id)
    BY <1>6 DEF Negotiated
  <2>2. ASSUME NEW p \in Joined, NEW msg \in Range(up[p]), Relays(p, msg, q), msg.id = b.id, msg.payload = "party"
        PROVE  PartyIn(up[o], b.id)
    <3>1. PICK b2 \in battles : b2.id = b.id /\ p # q /\ p \in Members(b2)
      BY <2>2 DEF Relays
    <3>2. b2 = b
      BY <1>6, <3>1 DEF FlowInv, IInv, FreshIds
    <3>3. p = o
      BY <3>1, <3>2 DEF Members
    <3> QED BY <2>2, <3>3 DEF PartyIn, Relays
  <2>3. HasSent(flow[o], up[o], b.id) => HasSent(flow[o], up'[o], b.id)
    BY <1>1 DEF HasSent, EndsAreHeard
  <2>4. PartyIn(up'[o], b.id) \/ PartyIn(down'[q], b.id) \/ PartyAt(flow[q], b.id) => HasSent(flow[o], up'[o], b.id)
    BY <1>4, <1>5, <2>1, <2>2, <2>3 DEF SentFirst
  <2> QED BY <2>4 DEF SentFirst, Serves
<1>7. CASE b \notin battles
  <2>1. b.id > drawn
    BY <1>2, <1>7 DEF Booked
  <2>2. /\ drawn \in Nat /\ NetOf(flow[q], drawn) /\ flow[q] \in FlowRecord
        /\ up[o] \in Seq(Spoken) /\ OnWire(up[o], drawn)
        /\ down[q] \in Seq(Notice) /\ Drawn(down[q], drawn)
    BY <1>2, ClientFacts DEF Stream
  <2>3. ~PartyIn(up[o], b.id)
    BY <1>1, <2>1, <2>2 DEF PartyIn, OnWire
  <2>4. ~PartyIn(down[q], b.id)
    <3>1. \A x \in Range(down[q]) : x.id <= drawn
      BY <2>2, RangeEquality DEF Drawn
    <3> QED BY <1>1, <2>1, <2>2, <3>1 DEF PartyIn
  <2>5. flow[q].net # b.id
    <3>1. flow[q].battleId \in Nat /\ flow[q].net \in {NoBattle, flow[q].battleId} /\ flow[q].battleId <= drawn
      BY <2>2 DEF NetOf, FlowRecord
    <3> QED BY <1>1, <2>1, <2>2, <3>1
  <2>6. ASSUME NEW p, NEW msg, Relays(p, msg, q) PROVE msg.id # b.id
    <3>1. PICK b2 \in battles : b2.id = msg.id
      BY <2>6 DEF Relays
    <3>2. b2.id <= drawn /\ b2.id \in Nat
      BY DEF FlowInv, IInv, FreshIds, TypeOK, Battle, Id
    <3> QED BY <1>1, <2>1, <2>2, <3>1, <3>2
  <2>7. ~(PartyIn(up'[o], b.id) \/ PartyIn(down'[q], b.id) \/ PartyAt(flow[q], b.id))
    BY <1>4, <1>5, <2>3, <2>4, <2>5, <2>6 DEF PartyAt
  <2> QED BY <2>7 DEF SentFirst, Serves
<1> QED BY <1>6, <1>7

\* A step of the server leaves every battle negotiated.
LEMMA ServesNegotiated ==
  ASSUME FlowInv, Negotiated, Serves, EndsAreHeard
  PROVE  Negotiated'
<1>1. ASSUME NEW q \in Joined'
      PROVE  PlayedBy(flow'[q], down'[q], up'[q], battleOf'[q]) /\ Prepared(flow'[q], screens'[q])
  <2>1. PlayedBy(flow[q], down'[q], up'[q], battleOf'[q])
    BY ServesPlayed
  <2>2. Prepared(flow[q], screens[q])
    BY DEF Negotiated, Serves
  <2> QED BY <2>1, <2>2 DEF Serves
<1>2. \A b \in battles' : \A q, o \in Members(b) : q # o => SentFirst(q, o, b.id)'
  BY ServesSent
<1> QED BY <1>1, <1>2 DEF Negotiated

-----------------------------------------------------------------------------
(***************************************************************************)
(* The steps of the server, action by action.                              *)
(***************************************************************************)

\* A battle_end frees its sender.
LEMMA EndFrees ==
  ASSUME IInv, NEW c \in Joined, NEW msg \in Spoken, msg.type = "battle_end", Handle(c, msg),
         battleOf'[c] = msg.id
  PROVE  FALSE
<1>1. c \in Peer /\ conn[c] = "joined" /\ msg.id # NoBattle
  BY DEF Joined, Spoken, KnownIds, NoBattle
<1>2. OnBattleEnd(c, msg.id)
  BY <1>1 DEF Handle, NotInitialized
<1>3. battleOf' = [q \in Peer |-> IF q \in InEnding(c, msg.id) \cap Joined THEN NoBattle ELSE battleOf[q]]
  BY <1>2 DEF OnBattleEnd
<1>4. c \notin InEnding(c, msg.id) /\ battleOf[c] = msg.id
  BY <1>1, <1>3
<1>5. PICK b \in battles : b.id = battleOf[c]
  BY <1>1, <1>4 DEF IInv, BattleBooks, Fighting
<1>6. c \in Members(b)
  BY <1>1, <1>5 DEF IInv, BattleBooks
<1> QED BY <1>4, <1>5, <1>6 DEF InEnding, Ending

\* The server handles the next message of c.
LEMMA ServerStepServes ==
  ASSUME FlowInv, NEW c \in Peer, ServerStep(c)
  PROVE  Serves /\ EndsAreHeard
<1>1. conn[c] = "joined" /\ c \in Joined /\ up[c] # <<>> /\ up[c] \in Seq(Spoken)
  BY DEF ServerStep, FlowInv, FlowTypes, Joined
<1>2. PICK msg \in Spoken : msg = Head(up[c])
  BY <1>1, RangeTail
<1>3. PICK u \in Seq(Spoken) : u = Tail(up[c]) /\ Range(up[c]) = {msg} \cup Range(u)
  BY <1>1, <1>2, RangeTail
<1>4. Handle(c, msg) /\ up' = [up EXCEPT ![c] = u] /\ Deliver /\ UNCHANGED <<flow, screens>>
  BY <1>2, <1>3 DEF ServerStep
<1>5. msg \in ClientMessage
  BY DEF Spoken, ClientMessage
<1>6. IInv'
  BY <1>4, <1>5, HandleIInv DEF FlowInv
<1>7. ASSUME NEW q \in Peer PROVE Hears(c, msg, q) /\ Booked /\ conn' = conn
  BY <1>1, <1>4, HandleHears DEF FlowInv
<1>8. Booked /\ conn' = conn /\ Joined' = Joined
  BY <1>7 DEF Joined
<1>9. ASSUME NEW q \in Joined PROVE Informed(q)
  <2>1. q \in Peer
    BY DEF Joined
  <2>2. Hears(c, msg, q)
    BY <1>7, <2>1
  <2> QED BY <1>1, <1>3, <2>2 DEF Hears, Informed
<1>10. up' \in [Peer -> Seq(Spoken)] /\ \A q \in Peer : Range(up'[q]) \subseteq Range(up[q])
  BY <1>3, <1>4 DEF FlowInv, FlowTypes
<1>11. Serves
  <2>1. conn' \in [Peer -> {"joined", "closed"}]
    BY <1>8 DEF FlowInv, FlowTypes
  <2> QED BY <1>4, <1>6, <1>8, <1>9, <1>10, <2>1 DEF Serves
<1>12. EndsAreHeard
  <2> SUFFICES ASSUME NEW q \in Joined', NEW x \in Range(up[q]),
                      x.type = "battle_end", x.id = battleOf'[q]
               PROVE  x \in Range(up'[q])
    BY DEF EndsAreHeard, Has
  <2>1. q \in Peer
    BY DEF Joined
  <2>2. CASE q # c
    BY <1>4, <2>1, <2>2 DEF FlowInv, FlowTypes
  <2>3. CASE q = c
    <3>1. x # msg
      BY <1>1, <1>4, <2>3, EndFrees DEF FlowInv
    <3>2. x \in Range(u)
      BY <1>3, <2>3, <3>1
    <3> QED BY <1>4, <2>1, <2>3, <3>2 DEF FlowInv, FlowTypes
  <2> QED BY <2>2, <2>3
<1> QED BY <1>11, <1>12

\* c disconnects.
LEMMA QuitServes ==
  ASSUME FlowInv, NEW c \in Peer, Quit(c)
  PROVE  Serves /\ EndsAreHeard
<1>1. Disconnect(c) /\ up' = [up EXCEPT ![c] = <<>>] /\ Deliver /\ UNCHANGED <<flow, screens>>
  BY DEF Quit
<1>2. conn[c] = "joined" /\ c \in Joined /\ conn' = [conn EXCEPT ![c] = "closed"]
  BY <1>1 DEF Disconnect, FlowInv, FlowTypes, Joined
<1>3. Joined' = Joined \ {c} /\ conn' \in [Peer -> {"joined", "closed"}]
  BY <1>2 DEF Joined, FlowInv, FlowTypes
<1>4. IInv'
  BY <1>1, DisconnectIInv DEF FlowInv
<1>5. Booked
  <2>1. battles' \subseteq battles /\ drawn' = drawn
    BY <1>1, <1>2 DEF Disconnect
  <2>2. drawn \in Nat
    BY DEF FlowInv, IInv, TypeOK
  <2> QED BY <2>1, <2>2 DEF Booked
<1>6. ASSUME NEW q \in Joined' PROVE Informed(q)
  <2>1. q \in Peer /\ q # c
    BY <1>3 DEF Joined
  <2> QED BY <1>1, <1>2, <2>1, DisconnectHears DEF Informed, FlowInv
<1>7. <<>> \in Seq(Spoken) /\ Range(<<>>) = {}
  BY DEF Range
<1>8. up' \in [Peer -> Seq(Spoken)] /\ \A q \in Peer : Range(up'[q]) \subseteq Range(up[q])
  BY <1>1, <1>7 DEF FlowInv, FlowTypes
<1>9. Serves
  BY <1>1, <1>3, <1>4, <1>5, <1>6, <1>8 DEF Serves
<1>10. EndsAreHeard
  <2>1. \A q \in Joined' : up'[q] = up[q]
    BY <1>1, <1>3 DEF FlowInv, FlowTypes, Joined
  <2> QED BY <2>1 DEF EndsAreHeard
<1> QED BY <1>9, <1>10

\* A step of the server keeps the invariant.
LEMMA ServesKeeps ==
  ASSUME NegotiationInv, Serves, EndsAreHeard
  PROVE  NegotiationInv'
<1>1. FlowInv'
  BY ServesFlow DEF NegotiationInv
<1>2. NoClash => Negotiated'
  BY ServesNegotiated DEF NegotiationInv
<1> QED BY <1>1, <1>2 DEF NegotiationInv, NoClash

\* All are joined, and nothing has been said.
LEMMA InitFlow == FlowInit => NegotiationInv
<1> SUFFICES ASSUME FlowInit PROVE NegotiationInv
  OBVIOUS
<1>1. PICK at \in Place : place = [c \in Peer |-> at]
  BY DEF FlowInit
<1>2. IInv
  <2>1. TypeOK
    <3>1. conn \in [Peer -> {"connected", "joined", "closed"}]
      BY DEF FlowInit
    <3>2. /\ place \in [Peer -> Place \cup {Nowhere}]
          /\ \A c \in Joined : place[c] \in Place
      BY <1>1 DEF Joined
    <3>3. battleOf \in [Peer -> Nat]
      BY DEF FlowInit, NoBattle
    <3>4. challenges \subseteq Challenge /\ battles \subseteq Battle
      BY DEF FlowInit
    <3>5. drawn \in 0..MaxDraws
      BY MaxDrawsAssumption DEF FlowInit
    <3> QED BY <3>1, <3>2, <3>3, <3>4, <3>5 DEF TypeOK
  <2> QED BY <2>1 DEF FlowInit, IInv, FreshIds, OneEngagement, BattleBooks, OnlyJoinedEngaged,
                      FightersShareMap, Fighting
<1>3. <<>> \in Seq(Spoken) /\ <<>> \in Seq(Screen) /\ <<>> \in Seq(Notice) /\ <<>> \in Seq(Payload)
      /\ Range(<<>>) = {} /\ Len(<<>>) = 0
  BY DEF Range
<1>4. ASSUME NEW c \in Peer
      PROVE  /\ flow[c] \in FlowRecord /\ flow[c].battleId = NoBattle /\ flow[c].net = NoBattle
             /\ ~flow[c].open /\ ~flow[c].peerHello /\ ~flow[c].active
             /\ down[c] = <<>> /\ up[c] = <<>> /\ screens[c] = <<>> /\ battleOf[c] = NoBattle
  BY <1>3 DEF FlowInit, Fresh, FlowRecord, NoBattle
<1>5. FlowTypes
  <2>1. \A c \in Peer : OnWire(up[c], drawn)
    BY <1>3, <1>4 DEF OnWire
  <2>2. flow \in [Peer -> FlowRecord]
    BY <1>4 DEF FlowInit
  <2> QED BY <1>3, <2>1, <2>2 DEF FlowInit, FlowTypes
<1>6. ASSUME NEW c \in Peer
      PROVE  Stream(flow[c], down[c], battleOf[c], drawn) /\ OnScreen(flow[c], screens[c], drawn)
  <2>1. drawn = 0 /\ drawn \in Nat
    BY DEF FlowInit
  <2>2. Parted(flow[c], <<>>) /\ Current(flow[c], <<>>, battleOf[c])
    BY <1>3, <1>4 DEF Parted, Current, BeginsAt
  <2>3. Rising(flow[c], <<>>) /\ NotOver(<<>>, battleOf[c]) /\ Drawn(<<>>, drawn)
    BY <1>3 DEF Rising, NotOver, Drawn
  <2>4. NetOf(flow[c], drawn)
    BY <1>4, <2>1 DEF NetOf, NoBattle
  <2> QED BY <1>3, <1>4, <2>2, <2>3, <2>4 DEF Stream, OnScreen
<1>7. InStep
  BY <1>6 DEF InStep, Joined
<1>8. Negotiated
  <2>1. battles = {}
    BY DEF FlowInit
  <2> QED BY <1>4, <2>1 DEF Negotiated, PlayedBy, Prepared, Joined
<1> QED BY <1>2, <1>5, <1>7, <1>8 DEF FlowInv, NegotiationInv

\* Every step keeps the invariant.
LEMMA StepFlow == NegotiationInv /\ [FlowNext]_flowVars => NegotiationInv'
<1> SUFFICES ASSUME NegotiationInv, [FlowNext]_flowVars PROVE NegotiationInv'
  OBVIOUS
<1>1. FlowInv
  BY DEF NegotiationInv
<1>2. CASE UNCHANGED flowVars
  <2>1. UNCHANGED <<conn, battleOf, battles, drawn, flow, screens, up, down>> /\ UNCHANGED state
    BY <1>2 DEF flowVars, vars, state
  <2>2. IInv'
    BY <1>1, <2>1, StutterIInv DEF FlowInv
  <2>3. FlowInv'
    BY <1>1, <2>1, <2>2 DEF FlowInv, FlowTypes, InStep, Joined
  <2>4. Negotiated => Negotiated'
    BY <2>1 DEF Negotiated, SentFirst, Joined
  <2> QED BY <2>3, <2>4 DEF NegotiationInv, NoClash
<1>3. ASSUME NEW c \in Peer, NEW t \in Peer, SendChallenge(c, t) PROVE NegotiationInv'
  BY <1>1, <1>3, ChallengePlays, PlaysKeeps
<1>4. ASSUME NEW c \in Peer, NEW accepted \in BOOLEAN, Reply(c, accepted) PROVE NegotiationInv'
  BY <1>1, <1>4, ReplyPlays, PlaysKeeps
<1>5. ASSUME NEW c \in Peer, HandleMessage(c) PROVE NegotiationInv'
  BY <1>1, <1>5, MessagePlays, PlaysKeeps
<1>6. ASSUME NEW c \in Peer, NEW result, FinishBattle(c, result) PROVE NegotiationInv'
  BY <1>1, <1>6, FinishPlays, PlaysKeeps
<1>7. ASSUME NEW c \in Peer, FadeEnds(c) PROVE NegotiationInv'
  BY <1>1, <1>7, FadePlays, PlaysKeeps
<1>8. ASSUME NEW c \in Peer, ServerStep(c) PROVE NegotiationInv'
  BY <1>1, <1>8, ServerStepServes, ServesKeeps
<1>9. ASSUME NEW c \in Peer, Quit(c) PROVE NegotiationInv'
  BY <1>1, <1>9, QuitServes, ServesKeeps
<1> QED BY <1>2, <1>3, <1>4, <1>5, <1>6, <1>7, <1>8, <1>9 DEF FlowNext

\* Every step of the server, of a game and of a player keeps the invariant: what a client
\* holds and what he will be told are battles one after the other, and, when no pair of
\* players is refused, each of them is played and negotiated.
THEOREM FlowSafety == FlowSpec => []NegotiationInv
  BY InitFlow, StepFlow, PTL DEF FlowSpec

\* Every variable holds a value of its kind: flow a BattleFlow's fields, the streams the
\* messages the two sides know.
THEOREM FlowTyped == FlowSpec => []FlowTypeOK
<1>1. NegotiationInv => FlowTypeOK
  <2> SUFFICES ASSUME NegotiationInv PROVE FlowTypeOK
    OBVIOUS
  <2>1. FlowInv
    BY DEF NegotiationInv
  <2>2. \A c \in Peer : Range(screens[c]) \subseteq Screen
    BY <2>1, RangeOfSeq DEF FlowInv, FlowTypes
  <2>3. \A c \in Peer : Range(up[c]) \subseteq Spoken
    BY <2>1, RangeOfSeq DEF FlowInv, FlowTypes
  <2>4. Spoken \subseteq ClientMessage
    BY DEF Spoken, ClientMessage
  <2>5. ASSUME NEW c \in Peer, NEW i \in DOMAIN down[c] PROVE down[c][i].type \in Noticed
    <3>1. down[c] \in Seq(Notice)
      BY <2>1 DEF FlowInv, FlowTypes
    <3>2. down[c][i] \in Notice
      BY <3>1, LenProperties, ElementOfSeq
    <3> QED BY <3>2, NoticeIds
  <2> QED BY <2>1, <2>2, <2>3, <2>4, <2>5 DEF FlowTypeOK, FlowInv, FlowTypes, IInv
<1> QED BY <1>1, FlowSafety, PTL

\* A client holds an open battle net only for the battle the server has him in, or the end
\* of that battle is on its way to him: BattleNet never carries a battle that is over.
THEOREM NetIsCurrent == FlowSpec => []NetHasBattle
<1>1. NegotiationInv => NetHasBattle
  <2> SUFFICES ASSUME NegotiationInv, NEW c \in Joined, NEW id, HasNet(c, id), battleOf[c] # id
               PROVE  InStream(down[c], "battle_ended", id)
    BY DEF NetHasBattle
  <2>1. Current(flow[c], down[c], battleOf[c]) /\ down[c] \in Seq(Notice)
    BY ClientFacts DEF NegotiationInv, Stream
  <2>2. Len(down[c]) \in Nat /\ DOMAIN down[c] = 1..Len(down[c])
    BY <2>1, LenProperties
  <2>3. 0 \in 0..Len(down[c])
    BY <2>2
  <2>4. BeginsAt(flow[c], down[c], 0) /\ BattleAt(flow[c], down[c], 0) = id
    BY DEF HasNet, BeginsAt, BattleAt
  <2>5. Ended(down[c], 0, Len(down[c]) + 1, id)
    BY <2>1, <2>3, <2>4 DEF Current
  <2> QED BY <2>2, <2>5 DEF Ended, InStream
<1> QED BY <1>1, FlowSafety, PTL

\* The two ways to say that a stream has a message.
LEMMA HasIsInStream ==
  ASSUME NEW s, NEW type, NEW id
  PROVE  Has(s, type, id) <=> InStream(s, type, id)
  BY DEF Has, InStream, Range

\* When no pair of players is refused (BattleFlow:fail tells the server nothing), whom the
\* server has in a battle is in it: its start is on the way to him, its net is open, or his
\* battle_end is on the way.
THEOREM BattlesArePlayed == NoClash => (FlowSpec => []BattleIsPlayed)
<1>1. NegotiationInv /\ NoClash => BattleIsPlayed
  <2> SUFFICES ASSUME NegotiationInv, NoClash, NEW c \in Joined, Fighting(c)
               PROVE  \/ InStream(down[c], "battle_start", battleOf[c])
                      \/ HasNet(c, battleOf[c])
                      \/ InStream(up[c], "battle_end", battleOf[c])
    BY DEF BattleIsPlayed
  <2>1. PlayedBy(flow[c], down[c], up[c], battleOf[c])
    BY DEF NegotiationInv, Negotiated
  <2> QED BY <2>1, HasIsInStream DEF PlayedBy, Fighting, HasNet
<1>2. ASSUME NoClash PROVE FlowSpec => []BattleIsPlayed
  <2>1. NegotiationInv => BattleIsPlayed
    BY <1>1, <1>2
  <2> QED BY <2>1, FlowSafety, PTL
<1> QED BY <1>2

\* When no pair of players is refused, a LinkBattle that runs over its net was built from
\* parties both sides sent for this battle, and the opponent is there or on his way out.
THEOREM BattlesAreNegotiated == NoClash => (FlowSpec => []BattleIsNegotiated)
<1>1. NegotiationInv /\ NoClash => BattleIsNegotiated
  <2> SUFFICES ASSUME NegotiationInv, NoClash, NEW b \in battles,
                      NEW c \in Members(b), NEW o \in Members(b), c # o,
                      HasNet(c, b.id), flow[c].active, Shows(c, "battle", b.id)
               PROVE  /\ flow[c].partySent
                      /\ \/ HasNet(o, b.id) /\ flow[o].partySent
                         \/ InStream(up[o], "battle_end", b.id)
    BY DEF BattleIsNegotiated
  <2>1. FlowInv /\ Negotiated
    BY DEF NegotiationInv
  <2>2. c \in Joined /\ c \in Peer
    BY <2>1, FightersFacts DEF FlowInv
  <2>3. Prepared(flow[c], screens[c]) /\ SentFirst(c, o, b.id)
    BY <2>1, <2>2 DEF Negotiated
  <2>4. [kind |-> "battle", id |-> flow[c].net] \in Range(screens[c]) /\ flow[c].open /\ flow[c].net = b.id
    BY DEF Shows, HasNet, Range
  <2>5. flow[c].peerHello /\ flow[c].theirParty /\ flow[c].partySent
    BY <2>3, <2>4 DEF Prepared
  <2>6. PartyAt(flow[c], b.id)
    BY <2>4, <2>5 DEF PartyAt
  <2>7. HasSent(flow[o], up[o], b.id)
    BY <2>3, <2>6 DEF SentFirst
  <2> QED BY <2>5, <2>7, HasIsInStream DEF HasSent, HasNet
<1>2. ASSUME NoClash PROVE FlowSpec => []BattleIsNegotiated
  <2>1. NegotiationInv => BattleIsNegotiated
    BY <1>1, <1>2
  <2> QED BY <2>1, FlowSafety, PTL
<1> QED BY <1>2
=============================================================================
