------------------------- MODULE MmoPresenceProofs -------------------------
(***************************************************************************)
(* Proofs about MmoPresence: the coordinator, the streams and the world    *)
(* clients together.                                                       *)
(*                                                                         *)
(* A client's view is late by what is on its stream.  The invariant is     *)
(* therefore ViewCatchesUp itself, of view and stream as one: an update of *)
(* the client moves the border between the two, and a step of the server   *)
(* adds to the stream exactly what turns the old truth into the new one.   *)
(* That last fact is about one handler of the coordinator at a time        *)
(* (Informs).                                                              *)
(*                                                                         *)
(* That no report is forgotten rests on the join being read first and      *)
(* once (JoinsFirst), and on nobody fighting (IInv).                       *)
(***************************************************************************)
EXTENDS MmoPresence, MmoCoordinatorProofs

\* What the server publishes of a player, and what a client can have in view: one record for
\* a player at most.
PublicPlayer == [id : Peer, map : Map, pos : Pos]
Views == {v \in SUBSET PublicPlayer : \A r, s \in v : r.id = s.id => r = s}

\* What the server says of presence, and what else it says.
PresenceMessage ==
       [type : {"snapshot", "world_snapshot"}, map : Map, players : Views]
  \cup [type : {"player_joined", "player_moved"}, player : PublicPlayer]
  \cup [type : {"player_left"}, id : Peer]
ErrorCode == {"already_initialized", "not_initialized", "in_battle", "target_unavailable",
              "cannot_challenge", "challenge_pending", "challenge_not_found",
              "challenger_unavailable", "battle_not_found"}
OtherMessage ==
       [type : {"welcome"}, id : Peer]
  \cup [type : {"error"}, code : ErrorCode]
  \cup [type : {"challenge_sent"}, id : Id, target : Peer]
  \cup [type : {"challenge_received"}, id : Id, from : Peer]
  \cup [type : {"challenge_declined", "challenge_cancelled"}, id : Id]
  \cup [type : {"battle_start"}, id : Id, role : {"host", "guest"}, opponent : Peer]
  \cup [type : {"battle_message"}, id : Id, from : Peer, payload : Payload]
  \cup [type : {"battle_ended"}, id : Nat, reason : {"ended", "opponent_disconnected"}]
  \cup [type : {"pong"}]
ServerMessage == PresenceMessage \cup OtherMessage

\* What is on the streams, and what the clients have in view.
StreamsOK ==
  /\ up \in [Peer -> Seq(ClientMessage)]
  /\ down \in [Peer -> Seq(ServerMessage)]
  /\ view \in [Peer -> Views]

\* A client's first message is its join, and it is the only one: the server has the client
\* on no map until it has read it, and reads no second one.
Announced(c) ==
  /\ published[c] = Nowhere => up[c] = <<>> /\ conn[c] = "connected"
  /\ published[c] # Nowhere /\ conn[c] = "connected" => up[c] # <<>> /\ up[c][1].type = "join_world"
  /\ \A i \in DOMAIN up[c] : up[c][i].type = "join_world" => i = 1 /\ conn[c] = "connected"
JoinsFirst == \A c \in Peer : conn[c] # "closed" => Announced(c)

\* The inductive invariant.
PInv ==
  /\ IInv
  /\ PresenceTypeOK
  /\ StreamsOK
  /\ ViewCatchesUp
  /\ JoinsFirst
  /\ ReportsArrive

-----------------------------------------------------------------------------
(***************************************************************************)
(* A view after a list of messages.                                        *)
(***************************************************************************)

\* A player's record is without another one's.
LEMMA WithoutIsView ==
  ASSUME NEW v \in Views, NEW id
  PROVE  Without(v, id) \in Views
  BY DEF Views, Without

\* One message turns a view into a view.
LEMMA HandledIsView ==
  ASSUME NEW c \in Peer, NEW v \in Views, NEW m \in ServerMessage
  PROVE  HandlePresence(c, v, m) \in Views
<1>1. CASE m \in [type : {"snapshot", "world_snapshot"}, map : Map, players : Views]
  <2>1. HandlePresence(c, v, m) = Without(m.players, c) /\ m.players \in Views
    BY <1>1 DEF HandlePresence
  <2> QED BY <2>1, WithoutIsView
<1>2. CASE m \in [type : {"player_joined", "player_moved"}, player : PublicPlayer]
  <2>1. HandlePresence(c, v, m) = Upsert(c, v, m.player) /\ m.player \in PublicPlayer
    BY <1>2 DEF HandlePresence
  <2>2. Upsert(c, v, m.player) \in Views
    BY <2>1 DEF Upsert, Without, Views
  <2> QED BY <2>1, <2>2
<1>3. CASE m \in [type : {"player_left"}, id : Peer]
  <2>1. HandlePresence(c, v, m) = Without(v, m.id)
    BY <1>3 DEF HandlePresence
  <2> QED BY <2>1, WithoutIsView
<1>4. CASE m \in OtherMessage
  <2>1. HandlePresence(c, v, m) = v
    BY <1>4 DEF HandlePresence, OtherMessage
  <2> QED BY <2>1
<1> QED BY <1>1, <1>2, <1>3, <1>4 DEF ServerMessage, PresenceMessage

\* Applied as a course through its list.
Follows(g, c, v, ms) ==
  /\ g[0] = v
  /\ Applied(c, v, ms) = g[Len(ms)]
  /\ \A n \in 1..Len(ms) : g[n] = HandlePresence(c, g[n - 1], ms[n])

\* The views that Applied goes through.
LEMMA AppliedCourse ==
  ASSUME NEW c \in Peer, NEW v \in Views, NEW ms \in Seq(ServerMessage)
  PROVE  \E g \in [0..Len(ms) -> Views] : Follows(g, c, v, ms)
<1> DEFINE E(g) == [n \in 0..Len(ms) |-> IF n = 0 THEN v ELSE HandlePresence(c, g[n - 1], ms[n])]
           after == CHOOSE g : g = E(g)
<1>1. Applied(c, v, ms) = after[Len(ms)]
  BY DEF Applied
<1>2. PICK F \in [Views \X ServerMessage -> Views] :
        F = [rx \in Views \X ServerMessage |-> HandlePresence(c, rx[1], rx[2])]
  <2>1. \A w \in Views, m \in ServerMessage : HandlePresence(c, w, m) \in Views
    BY HandledIsView
  <2> QED BY <2>1
<1>3. PICK g \in [0..Len(ms) -> Views] : Course(g, F, v, ms)
  BY CourseExists
<1>4. Len(ms) \in Nat /\ \A n \in 1..Len(ms) : ms[n] \in ServerMessage
  BY LenProperties, ElementOfSeq
<1>5. \A n \in 1..Len(ms) : g[n] = HandlePresence(c, g[n - 1], ms[n])
  <2> SUFFICES ASSUME NEW n \in 1..Len(ms) PROVE g[n] = HandlePresence(c, g[n - 1], ms[n])
    OBVIOUS
  <2>1. n - 1 \in 0..Len(ms) /\ ms[n] \in ServerMessage
    BY <1>4
  <2>2. g[n - 1] \in Views /\ g[n] = F[<<g[n - 1], ms[n]>>]
    BY <1>3, <2>1 DEF Course
  <2> QED BY <1>2, <2>1, <2>2
<1>6. g[0] = v
  BY <1>3 DEF Course
<1>7. g = E(g)
  <2>1. \A n \in 0..Len(ms) : g[n] = IF n = 0 THEN v ELSE HandlePresence(c, g[n - 1], ms[n])
    BY <1>4, <1>5, <1>6
  <2> QED BY <2>1
<1> HIDE DEF E
<1>8. after = E(after)
  BY <1>7
<1> HIDE DEF after
<1>9. /\ after = [n \in 0..Len(ms) |-> after[n]]
      /\ \A n \in 0..Len(ms) : after[n] = IF n = 0 THEN v ELSE HandlePresence(c, after[n - 1], ms[n])
  BY <1>8 DEF E
<1> DEFINE T == {n \in 0..Len(ms) : after[n] = g[n]}
<1>10. 0 \in T
  <2>1. 0 \in 0..Len(ms)
    BY <1>4
  <2>2. after[0] = v
    BY <1>9, <2>1
  <2> QED BY <1>6, <2>1, <2>2
<1>11. ASSUME NEW n \in 0..Len(ms), n \in T, n < Len(ms) PROVE n + 1 \in T
  <2>1. n + 1 \in 1..Len(ms) /\ n + 1 \in 0..Len(ms) /\ n + 1 # 0 /\ (n + 1) - 1 = n /\ after[n] = g[n]
    BY <1>4, <1>11
  <2>2. after[n + 1] = HandlePresence(c, after[n], ms[n + 1])
    BY <1>9, <2>1
  <2>3. g[n + 1] = HandlePresence(c, g[n], ms[n + 1])
    BY <1>5, <2>1
  <2> QED BY <2>1, <2>2, <2>3
<1> HIDE DEF T
<1>12. 0..Len(ms) \subseteq T
  BY <1>4, <1>10, <1>11, Inductive
<1>13. after[Len(ms)] = g[Len(ms)]
  BY <1>4, <1>12 DEF T
<1> QED BY <1>1, <1>3, <1>5, <1>6, <1>13 DEF Follows

\* Messages turn a view into a view.
LEMMA AppliedIsView ==
  ASSUME NEW c \in Peer, NEW v \in Views, NEW ms \in Seq(ServerMessage)
  PROVE  Applied(c, v, ms) \in Views
<1>1. PICK g \in [0..Len(ms) -> Views] : Follows(g, c, v, ms)
  BY AppliedCourse
<1>2. Len(ms) \in Nat
  BY LenProperties
<1> QED BY <1>1, <1>2 DEF Follows

\* No message, and one message.
LEMMA AppliedOne ==
  ASSUME NEW c \in Peer, NEW v \in Views, NEW m \in ServerMessage
  PROVE  Applied(c, v, <<>>) = v /\ Applied(c, v, <<m>>) = HandlePresence(c, v, m)
<1>1. Applied(c, v, <<>>) = v
  <2>1. <<>> \in Seq(ServerMessage) /\ Len(<<>>) = 0
    OBVIOUS
  <2>2. PICK g : Follows(g, c, v, <<>>)
    BY <2>1, AppliedCourse
  <2> QED BY <2>1, <2>2 DEF Follows
<1>2. Applied(c, v, <<m>>) = HandlePresence(c, v, m)
  <2>1. <<m>> \in Seq(ServerMessage) /\ Len(<<m>>) = 1 /\ <<m>>[1] = m /\ 1 - 1 = 0 /\ 1 \in 1..1
    OBVIOUS
  <2>2. PICK g : Follows(g, c, v, <<m>>)
    BY <2>1, AppliedCourse
  <2> QED BY <2>1, <2>2 DEF Follows
<1> QED BY <1>1, <1>2

\* A list is heard after another one: where a stream is cut does not matter.
LEMMA AppliedConcat ==
  ASSUME NEW c \in Peer, NEW v \in Views, NEW s \in Seq(ServerMessage), NEW t \in Seq(ServerMessage)
  PROVE  s \o t \in Seq(ServerMessage) /\ Applied(c, v, s \o t) = Applied(c, Applied(c, v, s), t)
<1> DEFINE X == ServerMessage
<1>1. /\ s \o t \in Seq(X) /\ Len(s) \in Nat /\ Len(t) \in Nat /\ Len(s \o t) = Len(s) + Len(t)
      /\ \A i \in 1..Len(s) : (s \o t)[i] = s[i]
      /\ \A i \in 1..Len(t) : (s \o t)[Len(s) + i] = t[i]
  <2> HIDE DEF X
  <2>1. s \in Seq(X) /\ t \in Seq(X)
    BY DEF X
  <2>2. s \o t \in Seq(X) /\ Len(s) \in Nat /\ Len(t) \in Nat /\ Len(s \o t) = Len(s) + Len(t)
    BY <2>1, ConcatProperties, LenProperties
  <2>3. \A i \in 1..Len(s) + Len(t) : (s \o t)[i] = IF i <= Len(s) THEN s[i] ELSE t[i - Len(s)]
    BY <2>1, ConcatProperties
  <2>4. \A i \in 1..Len(s) : (s \o t)[i] = s[i]
    BY <2>2, <2>3
  <2>5. ASSUME NEW i \in 1..Len(t) PROVE (s \o t)[Len(s) + i] = t[i]
    <3>1. Len(s) + i \in 1..Len(s) + Len(t) /\ ~(Len(s) + i <= Len(s)) /\ (Len(s) + i) - Len(s) = i
      BY <2>2
    <3> QED BY <2>3, <3>1
  <2> QED BY <2>2, <2>4, <2>5
<1> HIDE DEF X
<1>2. PICK w : w = Applied(c, v, s)
  OBVIOUS
<1>3. w \in Views
  BY <1>2, AppliedIsView
<1>4. PICK k : Follows(k, c, v, s)
  BY AppliedCourse
<1>5. PICK j : Follows(j, c, w, t)
  BY <1>3, AppliedCourse
<1>6. PICK h : Follows(h, c, v, s \o t)
  BY <1>1, AppliedCourse DEF X
<1> DEFINE u == s \o t
           a == Len(s)
           z == Len(t)
<1>7. /\ h[0] = v /\ Applied(c, v, u) = h[a + z]
      /\ \A n \in 1..a + z : h[n] = HandlePresence(c, h[n - 1], u[n])
  BY <1>1, <1>6 DEF Follows
<1>8. k[0] = v /\ w = k[a] /\ \A n \in 1..a : k[n] = HandlePresence(c, k[n - 1], s[n])
  BY <1>2, <1>4 DEF Follows
<1>9. j[0] = w /\ Applied(c, w, t) = j[z] /\ \A n \in 1..z : j[n] = HandlePresence(c, j[n - 1], t[n])
  BY <1>5 DEF Follows
<1>10. /\ a \in Nat /\ z \in Nat
       /\ \A i \in 1..a : u[i] = s[i]
       /\ \A i \in 1..z : u[a + i] = t[i]
  BY <1>1
<1> HIDE DEF u, a, z
<1> DEFINE A == {n \in 0..a : h[n] = k[n]}
           B == {n \in 0..z : h[a + n] = j[n]}
<1>11. 0..a \subseteq A
  <2>1. 0 \in A
    BY <1>7, <1>8, <1>10
  <2>2. ASSUME NEW n \in 0..a, n \in A, n < a PROVE n + 1 \in A
    <3>1. n + 1 \in 1..a + z /\ n + 1 \in 1..a /\ n + 1 \in 0..a /\ (n + 1) - 1 = n /\ h[n] = k[n]
      BY <1>10, <2>2
    <3>2. h[n + 1] = HandlePresence(c, h[n], s[n + 1])
      BY <1>7, <1>10, <3>1
    <3>3. k[n + 1] = HandlePresence(c, k[n], s[n + 1])
      BY <1>8, <3>1
    <3> QED BY <3>1, <3>2, <3>3
  <2> HIDE DEF A
  <2> QED BY <1>10, <2>1, <2>2, Inductive
<1>12. h[a] = w
  BY <1>8, <1>10, <1>11
<1>13. 0..z \subseteq B
  <2>1. 0 \in B
    <3>1. 0 \in 0..z /\ a + 0 = a
      BY <1>10
    <3> QED BY <1>9, <1>12, <3>1
  <2>2. ASSUME NEW n \in 0..z, n \in B, n < z PROVE n + 1 \in B
    <3>1. /\ a + (n + 1) \in 1..a + z /\ n + 1 \in 1..z /\ n + 1 \in 0..z /\ (n + 1) - 1 = n
          /\ (a + (n + 1)) - 1 = a + n /\ h[a + n] = j[n]
      BY <1>10, <2>2
    <3>2. h[a + (n + 1)] = HandlePresence(c, h[a + n], t[n + 1])
      BY <1>7, <1>10, <3>1
    <3>3. j[n + 1] = HandlePresence(c, j[n], t[n + 1])
      BY <1>9, <3>1
    <3> QED BY <3>1, <3>2, <3>3
  <2> HIDE DEF B
  <2> QED BY <1>10, <2>1, <2>2, Inductive
<1>14. h[a + z] = j[z]
  <2>1. z \in 0..z
    BY <1>10
  <2> QED BY <1>13, <2>1
<1> QED BY <1>1, <1>2, <1>7, <1>9, <1>14 DEF u, X

\* The first n items of a list, and the rest of it.
LEMMA ListCut ==
  ASSUME NEW X, NEW s \in Seq(X), NEW n \in 0..Len(s)
  PROVE  /\ SubSeq(s, 1, n) \in Seq(X)
         /\ SubSeq(s, n + 1, Len(s)) \in Seq(X)
         /\ SubSeq(s, 1, n) \o SubSeq(s, n + 1, Len(s)) = s
<1>1. Len(s) \in Nat /\ n \in Nat /\ n <= Len(s) /\ \A i \in 1..Len(s) : s[i] \in X
  BY LenProperties, ElementOfSeq
<1>2. PICK p, q : p = SubSeq(s, 1, n) /\ q = SubSeq(s, n + 1, Len(s))
  OBVIOUS
<1>3. p \in Seq(X) /\ Len(p) = n /\ \A i \in 1..n : p[i] = s[i]
  <2>1. \A i \in 1..n : s[i] \in X
    BY <1>1
  <2>2. /\ p \in Seq(X) /\ Len(p) = IF 1 <= n THEN n - 1 + 1 ELSE 0
        /\ \A i \in 1..n - 1 + 1 : p[i] = s[1 + i - 1]
    BY <1>1, <1>2, <2>1, SubSeqProperties
  <2> QED BY <1>1, <2>2
<1>4. q \in Seq(X) /\ Len(q) = Len(s) - n /\ \A i \in 1..Len(s) - n : q[i] = s[n + i]
  <2>1. \A i \in (n + 1)..Len(s) : s[i] \in X
    BY <1>1
  <2>2. n + 1 \in Int /\ Len(s) \in Int
    BY <1>1
  <2>3. /\ q \in Seq(X) /\ Len(q) = IF n + 1 <= Len(s) THEN Len(s) - (n + 1) + 1 ELSE 0
        /\ \A i \in 1..Len(s) - (n + 1) + 1 : q[i] = s[(n + 1) + i - 1]
    BY <1>2, <2>1, <2>2, SubSeqProperties
  <2>4. \A i \in 1..Len(s) - n : i \in 1..Len(s) - (n + 1) + 1 /\ (n + 1) + i - 1 = n + i
    BY <1>1
  <2>5. Len(q) = Len(s) - n
    BY <1>1, <2>3
  <2>6. \A i \in 1..Len(s) - n : q[i] = s[n + i]
    BY <2>3, <2>4
  <2> QED BY <2>3, <2>5, <2>6
<1>5. p \o q = s
  <2>1. /\ p \o q \in Seq(X) /\ Len(p \o q) = Len(p) + Len(q)
        /\ \A i \in 1..Len(p) + Len(q) : (p \o q)[i] = IF i <= Len(p) THEN p[i] ELSE q[i - Len(p)]
    BY <1>3, <1>4, ConcatProperties
  <2>2. PICK r : r = p \o q
    OBVIOUS
  <2>3. r \in Seq(X) /\ Len(r) = Len(s)
    <3>1. r \in Seq(X) /\ Len(r) = Len(p) + Len(q)
      BY <2>1, <2>2
    <3> QED BY <1>1, <1>3, <1>4, <3>1
  <2>4. ASSUME NEW i \in 1..Len(r) PROVE r[i] = s[i]
    <3>1. r[i] = IF i <= n THEN p[i] ELSE q[i - n]
      BY <1>1, <1>3, <1>4, <2>1, <2>2, <2>3
    <3>2. CASE i <= n
      BY <1>1, <1>3, <2>3, <3>1, <3>2
    <3>3. CASE ~(i <= n)
      <4>1. i - n \in 1..Len(s) - n /\ n + (i - n) = i
        BY <1>1, <2>3, <3>3
      <4> QED BY <1>4, <3>1, <3>3, <4>1
    <3> QED BY <3>2, <3>3
  <2>5. r = s
    BY <2>3, <2>4, SeqEqual
  <2> QED BY <2>2, <2>5
<1> QED BY <1>2, <1>3, <1>4, <1>5

-----------------------------------------------------------------------------
(***************************************************************************)
(* What a step of the coordinator's does to a view.                        *)
(***************************************************************************)

\* What the step tells q brings his view to where the players are now.  A player who joins
\* may have had anything in view.
Informed(q) ==
  conn'[q] = "joined" =>
    \A v \in Views : (conn[q] = "joined" => v = Truth(q)) => Applied(q, v, sent'[q]) = Truth(q)'
Informs == sent' \in Outbox(ServerMessage) /\ \A q \in Peer : Informed(q)

\* Messages that leave every view as it was.
Silent(s) == s \in Outbox(ServerMessage) /\ \A q \in Peer, v \in Views : Applied(q, v, s[q]) = v

\* One message to everybody in T.
LEMMA SaidToAll ==
  ASSUME NEW T, NEW m \in ServerMessage
  PROVE  /\ ToAll(T, m) \in Outbox(ServerMessage)
         /\ \A q \in Peer, v \in Views :
              Applied(q, v, ToAll(T, m)[q]) = IF q \in T THEN HandlePresence(q, v, m) ELSE v
<1>1. ToAll(T, m) \in Outbox(ServerMessage)
  BY ToAllMessages
<1>2. ASSUME NEW q \in Peer, NEW v \in Views
      PROVE  Applied(q, v, ToAll(T, m)[q]) = IF q \in T THEN HandlePresence(q, v, m) ELSE v
  <2>1. ToAll(T, m)[q] = IF q \in T THEN <<m>> ELSE <<>>
    BY DEF ToAll
  <2> QED BY <2>1, AppliedOne
<1> QED BY <1>1, <1>2

\* First s is said, then t.
LEMMA SaidBoth ==
  ASSUME NEW s \in Outbox(ServerMessage), NEW t \in Outbox(ServerMessage)
  PROVE  /\ s ++ t \in Outbox(ServerMessage)
         /\ \A q \in Peer, v \in Views :
              /\ Applied(q, v, s[q]) \in Views
              /\ Applied(q, v, (s ++ t)[q]) = Applied(q, Applied(q, v, s[q]), t[q])
<1>1. s ++ t \in Outbox(ServerMessage)
  BY JoinedMessages
<1>2. ASSUME NEW q \in Peer, NEW v \in Views
      PROVE  /\ Applied(q, v, s[q]) \in Views
             /\ Applied(q, v, (s ++ t)[q]) = Applied(q, Applied(q, v, s[q]), t[q])
  <2>1. s[q] \in Seq(ServerMessage) /\ t[q] \in Seq(ServerMessage) /\ (s ++ t)[q] = s[q] \o t[q]
    BY DEF Outbox, ++
  <2> QED BY <2>1, AppliedConcat, AppliedIsView
<1> QED BY <1>1, <1>2

\* What is not about presence is silent.
LEMMA SilentToAll ==
  ASSUME NEW T, NEW m \in OtherMessage
  PROVE  Silent(ToAll(T, m))
<1>1. m \in ServerMessage
  BY DEF ServerMessage
<1>2. \A q, v : HandlePresence(q, v, m) = v
  BY DEF HandlePresence, OtherMessage
<1> QED BY <1>1, <1>2, SaidToAll DEF Silent

\* So are two silent parts, one after the other.
LEMMA SilentBoth ==
  ASSUME NEW s, NEW t, Silent(s), Silent(t)
  PROVE  Silent(s ++ t)
  BY SaidBoth DEF Silent

\* A step that tells nothing of presence, and moves nobody.
LEMMA SilentStep ==
  ASSUME Silent(sent'), UNCHANGED <<conn, place>>
  PROVE  Informs
<1>1. \A q : Truth(q)' = Truth(q)
  BY DEF Truth, OnMap, Joined
<1> QED BY <1>1 DEF Informs, Informed, Silent

\* Errors are silent.
LEMMA ErrorInforms ==
  ASSUME NEW c \in Peer, NEW code \in ErrorCode, sent' = To(c, Error(code)), UNCHANGED state
  PROVE  Informs
<1>1. Error(code) \in OtherMessage
  BY DEF Error, OtherMessage
<1>2. Silent(sent')
  BY <1>1, SilentToAll DEF To
<1> QED BY <1>2, SilentStep DEF state

-----------------------------------------------------------------------------
(***************************************************************************)
(* The truth before and after a player joins, moves or leaves.             *)
(***************************************************************************)

\* What c would have in view on map m.
OthersOn(m, c) == {Public(q, place[q]) : q \in OnMap(m) \ {c}}

\* It is the truth on his own map.
LEMMA TruthIs ==
  ASSUME NEW c
  PROVE  Truth(c) = OthersOn(place[c].map, c)
  BY DEF Truth, OthersOn

\* It is a view.
LEMMA TruthIsView ==
  ASSUME TypeOK, NEW m, NEW c
  PROVE  OthersOn(m, c) \in Views /\ Truth(c) \in Views
<1>1. ASSUME NEW k PROVE OthersOn(k, c) \in Views
  <2>1. \A q \in OnMap(k) : Public(q, place[q]) \in PublicPlayer /\ Public(q, place[q]).id = q
    BY DEF OnMap, Public, PublicPlayer, TypeOK, Place, Joined
  <2> QED BY <2>1 DEF Views, OthersOn
<1>2. OthersOn(m, c) \in Views /\ OthersOn(place[c].map, c) \in Views
  BY <1>1
<1> QED BY <1>2, TruthIs

\* A player who is not there is not in the truth.
LEMMA StrangerAbsent ==
  ASSUME NEW q, NEW c, c \notin OnMap(place[q].map)
  PROVE  Without(Truth(q), c) = Truth(q)
  BY DEF Without, Truth, Public

\* What c's arrival at a place, from another or from outside, means for the others.
LEMMA ArrivalTruth ==
  ASSUME TypeOK, NEW c \in Peer, NEW at \in Place, conn'[c] = "joined",
         place' = [place EXCEPT ![c] = at], \A p \in Peer \ {c} : conn'[p] = conn[p],
         NEW q \in Joined, q # c
  PROVE  Truth(q)' = Without(Truth(q), c) \cup (IF place[q].map = at.map THEN {Public(c, at)} ELSE {})
<1>1. place'[q] = place[q] /\ place'[c] = at /\ q \in Peer /\ \A p \in Peer \ {c} : place'[p] = place[p]
  BY DEF TypeOK, Joined
<1>2. \A p \in Peer : p \in OnMap(place[q].map)' <=>
                        IF p = c THEN at.map = place[q].map ELSE p \in OnMap(place[q].map)
  BY <1>1 DEF OnMap, Joined
<1>3. Truth(q)' = {Public(p, place'[p]) : p \in OnMap(place[q].map)' \ {q}}
  BY <1>1 DEF Truth, OnMap, Joined, Public
<1>4. OnMap(place[q].map)' \subseteq Peer /\ OnMap(place[q].map) \subseteq Peer
  BY DEF OnMap, Joined
<1>5. Without(Truth(q), c) = {Public(p, place[p]) : p \in OnMap(place[q].map) \ {q, c}}
  BY DEF Without, Truth, Public
<1>6. OnMap(place[q].map)' \ {q} = (OnMap(place[q].map) \ {q, c})
                                    \cup (IF place[q].map = at.map THEN {c} ELSE {})
  BY <1>2, <1>4
<1>7. \A p \in OnMap(place[q].map) \ {q, c} : place'[p] = place[p]
  BY <1>1, <1>4
<1> QED BY <1>1, <1>3, <1>5, <1>6, <1>7

\* And what it means for c himself: the others on the map of the place.
LEMMA ArrivalOwnTruth ==
  ASSUME TypeOK, NEW c \in Peer, NEW at \in Place,
         place' = [place EXCEPT ![c] = at], \A p \in Peer \ {c} : conn'[p] = conn[p]
  PROVE  Truth(c)' = OthersOn(at.map, c)
<1>1. place'[c] = at /\ \A p \in Peer \ {c} : place'[p] = place[p]
  BY DEF TypeOK
<1>2. \A p \in Peer \ {c} : p \in OnMap(at.map)' <=> p \in OnMap(at.map)
  BY <1>1 DEF OnMap, Joined
<1>3. Truth(c)' = {Public(p, place'[p]) : p \in OnMap(at.map)' \ {c}}
  BY <1>1 DEF Truth, OnMap, Joined, Public
<1>4. OnMap(at.map)' \subseteq Peer /\ OnMap(at.map) \subseteq Peer
  BY DEF OnMap, Joined
<1>5. OnMap(at.map)' \ {c} = OnMap(at.map) \ {c}
  BY <1>2, <1>4
<1> QED BY <1>1, <1>3, <1>4, <1>5 DEF OthersOn

\* What c's leaving means for the others.
LEMMA LeavingTruth ==
  ASSUME TypeOK, NEW c \in Peer, conn' = [conn EXCEPT ![c] = "closed"],
         place' = [place EXCEPT ![c] = Nowhere], NEW q \in Joined, q # c
  PROVE  Truth(q)' = Without(Truth(q), c)
<1>1. /\ q \in Peer /\ place'[q] = place[q] /\ conn'[c] = "closed"
      /\ \A p \in Peer \ {c} : place'[p] = place[p] /\ conn'[p] = conn[p]
  BY DEF TypeOK, Joined
<1>2. \A p \in Peer : p \in OnMap(place[q].map)' <=> p # c /\ p \in OnMap(place[q].map)
  BY <1>1 DEF OnMap, Joined
<1>3. Truth(q)' = {Public(p, place'[p]) : p \in OnMap(place[q].map)' \ {q}}
  BY <1>1 DEF Truth, OnMap, Joined, Public
<1>4. OnMap(place[q].map)' \subseteq Peer /\ OnMap(place[q].map) \subseteq Peer
  BY DEF OnMap, Joined
<1>5. Without(Truth(q), c) = {Public(p, place[p]) : p \in OnMap(place[q].map) \ {q, c}}
  BY DEF Without, Truth, Public
<1>6. OnMap(place[q].map)' \ {q} = OnMap(place[q].map) \ {q, c}
  BY <1>2, <1>4
<1> QED BY <1>1, <1>3, <1>4, <1>5, <1>6

-----------------------------------------------------------------------------
(***************************************************************************)
(* Handler after handler: what each tells keeps every view up with the     *)
(* truth.                                                                  *)
(***************************************************************************)

\* What a player who enters a map is shown replaces all he had in view.
LEMMA SnapshotShows ==
  ASSUME TypeOK, NEW c \in Peer, NEW m \in Map
  PROVE  /\ Snapshot(c, m) \in Outbox(ServerMessage)
         /\ \A q \in Peer, v \in Views :
              Applied(q, v, Snapshot(c, m)[q])
                = IF q = c THEN OthersOn(m, c) ELSE v
<1>1. PICK others : others = OthersOn(m, c)
  OBVIOUS
<1>2. others \in Views /\ Without(others, c) = others
  <2>1. others \in Views
    BY <1>1, TruthIsView
  <2>2. \A r \in others : r.id # c
    BY <1>1 DEF OthersOn, Public
  <2> QED BY <2>1, <2>2 DEF Without
<1>3. PICK m1, m2 : /\ m1 = [type |-> "snapshot", map |-> m, players |-> others]
                    /\ m2 = [type |-> "world_snapshot", map |-> m, players |-> others]
  OBVIOUS
<1>4. m1 \in ServerMessage /\ m2 \in ServerMessage
  BY <1>2, <1>3 DEF ServerMessage, PresenceMessage
<1>5. \A v \in Views : HandlePresence(c, v, m1) = others /\ HandlePresence(c, v, m2) = others
  BY <1>2, <1>3 DEF HandlePresence
<1>6. Snapshot(c, m) = ToAll({c}, m1) ++ ToAll({c}, m2)
  BY <1>1, <1>3 DEF Snapshot, OthersOn, To
<1>7. /\ ToAll({c}, m1) \in Outbox(ServerMessage) /\ ToAll({c}, m2) \in Outbox(ServerMessage)
      /\ \A q \in Peer, v \in Views :
           /\ Applied(q, v, ToAll({c}, m1)[q]) = IF q = c THEN HandlePresence(q, v, m1) ELSE v
           /\ Applied(q, v, ToAll({c}, m2)[q]) = IF q = c THEN HandlePresence(q, v, m2) ELSE v
  BY <1>4, SaidToAll
<1>8. Snapshot(c, m) \in Outbox(ServerMessage)
  BY <1>6, <1>7, SaidBoth
<1>9. ASSUME NEW q \in Peer, NEW v \in Views
      PROVE  Applied(q, v, Snapshot(c, m)[q]) = IF q = c THEN others ELSE v
  <2>1. Applied(q, v, Snapshot(c, m)[q]) = Applied(q, Applied(q, v, ToAll({c}, m1)[q]), ToAll({c}, m2)[q])
    BY <1>6, <1>7, SaidBoth
  <2>2. CASE q = c
    BY <1>2, <1>5, <1>7, <2>1, <2>2
  <2>3. CASE q # c
    BY <1>7, <2>1, <2>3
  <2> QED BY <2>2, <2>3
<1> QED BY <1>1, <1>8, <1>9

\* A player joins.
LEMMA HelloInforms ==
  ASSUME IInv, NEW c \in Peer, NEW at \in Place, OnHello(c, at)
  PROVE  Informs
<1>0. TypeOK
  BY DEF IInv
<1>1. CASE sent' = To(c, Error("already_initialized")) /\ UNCHANGED state
  BY <1>1, ErrorInforms DEF ErrorCode
<1> DEFINE w == ToAll({c}, [type |-> "welcome", id |-> c])
           n == Snapshot(c, at.map)
           j == ToAll(OnMap(at.map), [type |-> "player_joined", player |-> Public(c, at)])
<1>2. CASE /\ conn[c] = "connected"
           /\ conn'  = [conn EXCEPT ![c] = "joined"]
           /\ place' = [place EXCEPT ![c] = at]
           /\ sent'  = w ++ n ++ j
  <2>1. at.map \in Map /\ Public(c, at) \in PublicPlayer
    BY DEF Place, Public, PublicPlayer
  <2>2. Silent(w)
    <3>1. [type |-> "welcome", id |-> c] \in OtherMessage
      BY DEF OtherMessage
    <3> QED BY <3>1, SilentToAll
  <2>3. n \in Outbox(ServerMessage)
    BY <1>0, <2>1, SnapshotShows
  <2>4. [type |-> "player_joined", player |-> Public(c, at)] \in ServerMessage
    BY <2>1 DEF ServerMessage, PresenceMessage
  <2>5. /\ j \in Outbox(ServerMessage)
        /\ \A q \in Peer, v \in Views :
             Applied(q, v, j[q]) = IF q \in OnMap(at.map) THEN Upsert(q, v, Public(c, at)) ELSE v
    <3>1. \A q, v : HandlePresence(q, v, [type |-> "player_joined", player |-> Public(c, at)])
                      = Upsert(q, v, Public(c, at))
      BY DEF HandlePresence
    <3> QED BY <2>4, <3>1, SaidToAll
  <2>6. ASSUME NEW q \in Peer, NEW v \in Views
        PROVE  Applied(q, v, n[q]) = IF q = c THEN OthersOn(at.map, c) ELSE v
    BY <1>0, <2>1, SnapshotShows
  <2> HIDE DEF w, n, j
  <2>7. w ++ n \in Outbox(ServerMessage) /\ sent' \in Outbox(ServerMessage)
    BY <1>2, <2>2, <2>3, <2>5, SaidBoth DEF Silent
  <2>8. ASSUME NEW q \in Peer, NEW v \in Views
        PROVE  Applied(q, v, sent'[q]) = Applied(q, Applied(q, v, n[q]), j[q])
    <3>1. Applied(q, v, sent'[q]) = Applied(q, Applied(q, v, (w ++ n)[q]), j[q])
      BY <1>2, <2>5, <2>7, SaidBoth
    <3>2. Applied(q, v, (w ++ n)[q]) = Applied(q, v, n[q])
      BY <2>2, <2>3, SaidBoth DEF Silent
    <3> QED BY <3>1, <3>2
  <2>9. c \notin Joined /\ conn'[c] = "joined" /\ \A p \in Peer \ {c} : conn'[p] = conn[p]
    BY <1>0, <1>2 DEF Joined, TypeOK
  <2>10. c \notin OnMap(at.map) /\ \A p : c \notin OnMap(place[p].map)
    BY <2>9 DEF OnMap
  <2>11. ASSUME NEW v \in Views PROVE Applied(c, v, sent'[c]) = Truth(c)'
    <3>1. Truth(c)' = OthersOn(at.map, c)
      BY <1>0, <1>2, <2>9, ArrivalOwnTruth
    <3>2. Truth(c)' \in Views
      BY <1>0, <3>1, TruthIsView
    <3>3. Applied(c, v, sent'[c]) = Applied(c, Truth(c)', j[c])
      BY <2>6, <2>8, <3>1
    <3> QED BY <2>5, <2>10, <3>2, <3>3
  <2>12. ASSUME NEW q \in Peer, q # c, conn'[q] = "joined" PROVE Applied(q, Truth(q), sent'[q]) = Truth(q)'
    <3>1. q \in Joined
      BY <2>9, <2>12 DEF Joined
    <3>2. Truth(q) \in Views
      BY <1>0, TruthIsView
    <3>3. Applied(q, Truth(q), sent'[q]) = IF q \in OnMap(at.map) THEN Upsert(q, Truth(q), Public(c, at)) ELSE Truth(q)
      <4>1. Applied(q, Truth(q), n[q]) = Truth(q)
        BY <2>6, <2>12, <3>2
      <4>2. Applied(q, Truth(q), sent'[q]) = Applied(q, Truth(q), j[q])
        BY <2>8, <3>2, <4>1
      <4> QED BY <2>5, <3>2, <4>2
    <3>4. Without(Truth(q), c) = Truth(q)
      BY <2>10, StrangerAbsent
    <3>5. Truth(q)' = Without(Truth(q), c) \cup (IF place[q].map = at.map THEN {Public(c, at)} ELSE {})
      BY <1>0, <1>2, <2>9, <2>12, <3>1, ArrivalTruth
    <3>6. Upsert(q, Truth(q), Public(c, at)) = Without(Truth(q), c) \cup {Public(c, at)}
      BY <2>12 DEF Upsert, Public
    <3>7. q \in OnMap(at.map) <=> place[q].map = at.map
      BY <3>1 DEF OnMap
    <3> QED BY <3>3, <3>4, <3>5, <3>6, <3>7
  <2>13. ASSUME NEW q \in Peer PROVE Informed(q)
    <3>1. CASE q = c
      BY <2>11, <3>1 DEF Informed
    <3>2. CASE q # c
      BY <2>9, <2>12, <3>2 DEF Informed
    <3> QED BY <3>1, <3>2
  <2> QED BY <2>7, <2>13 DEF Informs
<1> QED BY <1>1, <1>2 DEF OnHello, To

\* A player moves, on his map or to another one.
LEMMA MoveInforms ==
  ASSUME IInv, NEW c \in Peer, NEW at \in Place, c \in Joined, OnMove(c, at)
  PROVE  Informs
<1>0. TypeOK
  BY DEF IInv
<1>1. CASE sent' = To(c, Error("in_battle")) /\ UNCHANGED state
  BY <1>1, ErrorInforms DEF ErrorCode
<1> DEFINE old  == OnMap(place[c].map) \ {c}
           now  == OnMap(at.map) \ {c}
           l == ToAll(old, [type |-> "player_left", id |-> c])
           n == Snapshot(c, at.map)
           j == ToAll(now, [type |-> "player_joined", player |-> Public(c, at)])
           k == ToAll(now, [type |-> "player_moved", player |-> Public(c, at)])
<1>2. ASSUME /\ place' = [place EXCEPT ![c] = at]
             /\ sent' = IF place[c].map # at.map THEN l ++ n ++ j ELSE k
             /\ UNCHANGED conn
      PROVE  Informs
  <2>1. at.map \in Map /\ Public(c, at) \in PublicPlayer /\ conn'[c] = "joined"
    BY <1>2 DEF Place, Public, PublicPlayer, Joined
  <2>2. n \in Outbox(ServerMessage)
    BY <1>0, <2>1, SnapshotShows
  <2>3. /\ [type |-> "player_joined", player |-> Public(c, at)] \in ServerMessage
        /\ [type |-> "player_moved", player |-> Public(c, at)] \in ServerMessage
        /\ [type |-> "player_left", id |-> c] \in ServerMessage
    BY <2>1 DEF ServerMessage, PresenceMessage
  <2>4. /\ j \in Outbox(ServerMessage) /\ k \in Outbox(ServerMessage)
        /\ \A q \in Peer, v \in Views :
             /\ Applied(q, v, j[q]) = IF q \in now THEN Upsert(q, v, Public(c, at)) ELSE v
             /\ Applied(q, v, k[q]) = IF q \in now THEN Upsert(q, v, Public(c, at)) ELSE v
    <3>1. \A q, v : /\ HandlePresence(q, v, [type |-> "player_joined", player |-> Public(c, at)])
                         = Upsert(q, v, Public(c, at))
                    /\ HandlePresence(q, v, [type |-> "player_moved", player |-> Public(c, at)])
                         = Upsert(q, v, Public(c, at))
      BY DEF HandlePresence
    <3> QED BY <2>3, <3>1, SaidToAll
  <2>5. /\ l \in Outbox(ServerMessage)
        /\ \A q \in Peer, v \in Views : Applied(q, v, l[q]) = IF q \in old THEN Without(v, c) ELSE v
    <3>1. \A q, v : HandlePresence(q, v, [type |-> "player_left", id |-> c]) = Without(v, c)
      BY DEF HandlePresence
    <3> QED BY <2>3, <3>1, SaidToAll
  <2>6. ASSUME NEW q \in Peer, NEW v \in Views
        PROVE  Applied(q, v, n[q]) = IF q = c THEN OthersOn(at.map, c) ELSE v
    BY <1>0, <2>1, SnapshotShows
  <2>7. /\ Truth(c)' = OthersOn(at.map, c)
        /\ Truth(c)' \in Views
    <3>1. Truth(c)' = OthersOn(at.map, c)
      BY <1>0, <1>2, ArrivalOwnTruth
    <3> QED BY <1>0, <3>1, TruthIsView
  <2>8. c \notin old /\ c \notin now
    OBVIOUS
  <2>9. ASSUME NEW q \in Peer, q # c, conn[q] = "joined"
        PROVE  /\ q \in old <=> place[q].map = place[c].map
               /\ q \in now <=> place[q].map = at.map
               /\ Truth(q)' = Without(Truth(q), c) \cup (IF place[q].map = at.map THEN {Public(c, at)} ELSE {})
               /\ Truth(q) \in Views
               /\ q \notin old => Without(Truth(q), c) = Truth(q)
               /\ \A v : Upsert(q, v, Public(c, at)) = Without(v, c) \cup {Public(c, at)}
    <3>1. q \in Joined
      BY <2>9 DEF Joined
    <3>2. (q \in old <=> place[q].map = place[c].map) /\ (q \in now <=> place[q].map = at.map)
      BY <2>9, <3>1 DEF OnMap
    <3>3. Truth(q)' = Without(Truth(q), c) \cup (IF place[q].map = at.map THEN {Public(c, at)} ELSE {})
      BY <1>0, <1>2, <2>1, <2>9, <3>1, ArrivalTruth
    <3>4. Truth(q) \in Views
      BY <1>0, TruthIsView
    <3>5. q \notin old => Without(Truth(q), c) = Truth(q)
      <4>1. q \notin old => c \notin OnMap(place[q].map)
        BY <3>2 DEF OnMap
      <4> QED BY <4>1, StrangerAbsent
    <3>6. \A v : Upsert(q, v, Public(c, at)) = Without(v, c) \cup {Public(c, at)}
      BY <2>9 DEF Upsert, Public
    <3> QED BY <3>2, <3>3, <3>4, <3>5, <3>6
  <2> HIDE DEF l, n, j, k, old, now
  <2>10. CASE place[c].map # at.map
    <3>1. sent' = l ++ n ++ j
      BY <1>2, <2>10
    <3>2. l ++ n \in Outbox(ServerMessage) /\ sent' \in Outbox(ServerMessage)
      BY <2>2, <2>4, <2>5, <3>1, SaidBoth
    <3>3. ASSUME NEW q \in Peer, NEW v \in Views
          PROVE  Applied(q, v, sent'[q]) = Applied(q, Applied(q, Applied(q, v, l[q]), n[q]), j[q])
      <4>1. Applied(q, v, sent'[q]) = Applied(q, Applied(q, v, (l ++ n)[q]), j[q])
        BY <2>4, <3>1, <3>2, SaidBoth
      <4>2. Applied(q, v, (l ++ n)[q]) = Applied(q, Applied(q, v, l[q]), n[q])
        BY <2>2, <2>5, SaidBoth
      <4> QED BY <4>1, <4>2
    <3>4. ASSUME NEW v \in Views PROVE Applied(c, v, sent'[c]) = Truth(c)'
      <4>1. Applied(c, v, l[c]) = v
        BY <2>5, <2>8
      <4>2. Applied(c, v, n[c]) = Truth(c)'
        BY <2>6, <2>7
      <4>3. Applied(c, Truth(c)', j[c]) = Truth(c)'
        BY <2>4, <2>7, <2>8
      <4> QED BY <3>3, <4>1, <4>2, <4>3
    <3>5. ASSUME NEW q \in Peer, q # c, conn[q] = "joined"
          PROVE  Applied(q, Truth(q), sent'[q]) = Truth(q)'
      <4>1. PICK t : t = Truth(q)
        OBVIOUS
      <4>2. /\ t \in Views /\ Truth(q)' = Without(t, c) \cup (IF place[q].map = at.map THEN {Public(c, at)} ELSE {})
            /\ q \notin old => Without(t, c) = t
            /\ q \in now <=> place[q].map = at.map
            /\ ~(q \in old /\ q \in now)
            /\ \A v : Upsert(q, v, Public(c, at)) = Without(v, c) \cup {Public(c, at)}
        BY <2>9, <2>10, <3>5, <4>1
      <4>3. Without(t, c) \in Views
        BY <4>2, WithoutIsView
      <4>4. CASE q \in old
        <5>1. Applied(q, t, l[q]) = Without(t, c)
          BY <2>5, <4>2, <4>4
        <5>2. Applied(q, Without(t, c), n[q]) = Without(t, c)
          BY <2>6, <3>5, <4>3
        <5>3. Applied(q, Without(t, c), j[q]) = Without(t, c)
          BY <2>4, <4>2, <4>3, <4>4
        <5> QED BY <3>3, <4>1, <4>2, <4>4, <5>1, <5>2, <5>3
      <4>5. CASE q \notin old
        <5>1. Applied(q, t, l[q]) = t
          BY <2>5, <4>2, <4>5
        <5>2. Applied(q, t, n[q]) = t
          BY <2>6, <3>5, <4>2
        <5>3. Applied(q, t, j[q]) = IF q \in now THEN Upsert(q, t, Public(c, at)) ELSE t
          BY <2>4, <4>2
        <5>4. Applied(q, t, sent'[q]) = IF q \in now THEN Upsert(q, t, Public(c, at)) ELSE t
          BY <3>3, <4>2, <5>1, <5>2, <5>3
        <5> QED BY <4>1, <4>2, <4>5, <5>4
      <4> QED BY <4>4, <4>5
    <3>6. ASSUME NEW q \in Peer PROVE Informed(q)
      <4>1. CASE q = c
        BY <3>4, <4>1 DEF Informed
      <4>2. CASE q # c
        BY <1>2, <3>5, <4>2 DEF Informed
      <4> QED BY <4>1, <4>2
    <3> QED BY <3>2, <3>6 DEF Informs
  <2>11. CASE place[c].map = at.map
    <3>1. sent' = k
      BY <1>2, <2>11
    <3>2. Truth(c)' = Truth(c)
      BY <2>7, <2>11, TruthIs
    <3>3. Applied(c, Truth(c)', k[c]) = Truth(c)'
      BY <2>4, <2>7, <2>8
    <3>4. ASSUME NEW q \in Peer, q # c, conn[q] = "joined"
          PROVE  Applied(q, Truth(q), sent'[q]) = Truth(q)'
      <4>1. /\ Truth(q) \in Views
            /\ Truth(q)' = Without(Truth(q), c) \cup (IF place[q].map = at.map THEN {Public(c, at)} ELSE {})
            /\ q \notin old => Without(Truth(q), c) = Truth(q)
            /\ q \in now <=> place[q].map = at.map
            /\ q \in old <=> q \in now
            /\ \A v : Upsert(q, v, Public(c, at)) = Without(v, c) \cup {Public(c, at)}
        BY <2>9, <2>11, <3>4
      <4>2. Applied(q, Truth(q), sent'[q]) = IF q \in now THEN Upsert(q, Truth(q), Public(c, at)) ELSE Truth(q)
        BY <2>4, <3>1, <4>1
      <4> QED BY <4>1, <4>2
    <3>5. ASSUME NEW q \in Peer PROVE Informed(q)
      <4>1. CASE q = c
        BY <1>2, <3>1, <3>2, <3>3, <4>1 DEF Informed, Joined
      <4>2. CASE q # c
        BY <1>2, <3>4, <4>2 DEF Informed
      <4> QED BY <4>1, <4>2
    <3> QED BY <2>4, <3>1, <3>5 DEF Informs
  <2> QED BY <2>10, <2>11
<1> QED BY <1>1, <1>2 DEF OnMove

\* A challenge is not about presence.
LEMMA ChallengeInforms ==
  ASSUME IInv, NEW c \in Peer, NEW t \in Peer, OnChallenge(c, t)
  PROVE  Informs
<1>1. CASE \E code \in ErrorCode : sent' = To(c, Error(code)) /\ UNCHANGED state
  BY <1>1, ErrorInforms
<1>2. CASE /\ drawn' = drawn + 1
           /\ sent' = To(c, [type |-> "challenge_sent", id |-> drawn', target |-> t])
                      ++ To(t, [type |-> "challenge_received", id |-> drawn', from |-> c])
           /\ UNCHANGED <<conn, place>>
  <2>1. drawn' \in Id
    BY <1>2 DEF IInv, TypeOK, Id
  <2>2. /\ [type |-> "challenge_sent", id |-> drawn', target |-> t] \in OtherMessage
        /\ [type |-> "challenge_received", id |-> drawn', from |-> c] \in OtherMessage
    BY <2>1 DEF OtherMessage
  <2>3. Silent(sent')
    BY <1>2, <2>2, SilentToAll, SilentBoth DEF To
  <2> QED BY <1>2, <2>3, SilentStep
<1> QED BY <1>1, <1>2 DEF OnChallenge, ErrorCode, players

\* Nor is the reply to it.
LEMMA ReplyInforms ==
  ASSUME IInv, NEW c \in Peer, NEW id, NEW accept, OnChallengeReply(c, id, accept)
  PROVE  Informs
<1>1. CASE sent' = To(c, Error("challenge_not_found")) /\ UNCHANGED state
  BY <1>1, ErrorInforms DEF ErrorCode
<1>2. ASSUME NEW ch \in challenges, ch.id = id, ch.to = c, UNCHANGED <<conn, place>>,
             \/ sent' = To(c, Error("challenger_unavailable"))
             \/ sent' = ToAll(Parties(ch), [type |-> "challenge_declined", id |-> id])
             \/ /\ drawn' = drawn + 1
                /\ sent' = To(ch.from, [type |-> "battle_start", id |-> drawn', role |-> "host", opponent |-> c])
                           ++ To(c, [type |-> "battle_start", id |-> drawn', role |-> "guest", opponent |-> ch.from])
      PROVE  Informs
  <2>1. id \in Id /\ ch.from \in Peer /\ drawn \in Nat
    BY <1>2 DEF IInv, TypeOK, Challenge
  <2>2. CASE sent' = To(c, Error("challenger_unavailable"))
    <3>1. Error("challenger_unavailable") \in OtherMessage
      BY DEF Error, OtherMessage, ErrorCode
    <3>2. Silent(sent')
      BY <2>2, <3>1, SilentToAll DEF To
    <3> QED BY <1>2, <3>2, SilentStep
  <2>3. CASE sent' = ToAll(Parties(ch), [type |-> "challenge_declined", id |-> id])
    <3>1. [type |-> "challenge_declined", id |-> id] \in OtherMessage
      BY <2>1 DEF OtherMessage
    <3>2. Silent(sent')
      BY <2>3, <3>1, SilentToAll
    <3> QED BY <1>2, <3>2, SilentStep
  <2>4. CASE /\ drawn' = drawn + 1
             /\ sent' = To(ch.from, [type |-> "battle_start", id |-> drawn', role |-> "host", opponent |-> c])
                        ++ To(c, [type |-> "battle_start", id |-> drawn', role |-> "guest", opponent |-> ch.from])
    <3>1. drawn' \in Id
      BY <2>1, <2>4 DEF Id
    <3>2. /\ [type |-> "battle_start", id |-> drawn', role |-> "host", opponent |-> c] \in OtherMessage
          /\ [type |-> "battle_start", id |-> drawn', role |-> "guest", opponent |-> ch.from] \in OtherMessage
      BY <2>1, <3>1 DEF OtherMessage
    <3>3. Silent(sent')
      BY <2>4, <3>2, SilentToAll, SilentBoth DEF To
    <3> QED BY <1>2, <3>3, SilentStep
  <2> QED BY <1>2, <2>2, <2>3, <2>4
<1> QED BY <1>1, <1>2 DEF OnChallengeReply

\* What the server passes on between fighters is not about presence.
LEMMA BattleMessageInforms ==
  ASSUME IInv, NEW c \in Peer, NEW msg \in ClientMessage, msg.type = "battle_message", OnBattleMessage(c, msg)
  PROVE  Informs
<1>1. CASE sent' = To(c, Error("battle_not_found")) /\ UNCHANGED state
  BY <1>1, ErrorInforms DEF ErrorCode
<1>2. ASSUME NEW b \in battles, UNCHANGED state,
             sent' = ToAll((Members(b) \ {c}) \cap Joined,
                           [type |-> "battle_message", id |-> b.id, from |-> c, payload |-> msg.payload])
      PROVE  Informs
  <2>1. b.id \in Id /\ msg.payload \in Payload
    BY DEF IInv, TypeOK, Battle, ClientMessage
  <2>2. [type |-> "battle_message", id |-> b.id, from |-> c, payload |-> msg.payload] \in OtherMessage
    BY <2>1 DEF OtherMessage
  <2>3. Silent(sent')
    BY <1>2, <2>2, SilentToAll
  <2> QED BY <1>2, <2>3, SilentStep DEF state
<1> QED BY <1>1, <1>2 DEF OnBattleMessage

\* The end of a battle is not about presence.
LEMMA BattleEndInforms ==
  ASSUME NEW c \in Peer, NEW id \in Nat, OnBattleEnd(c, id)
  PROVE  Informs
<1>1. [type |-> "battle_ended", id |-> id, reason |-> "ended"] \in OtherMessage
  BY DEF OtherMessage
<1>2. Silent(sent') /\ UNCHANGED <<conn, place>>
  BY <1>1, SilentToAll DEF OnBattleEnd
<1> QED BY <1>2, SilentStep

\* Every message a client can send is handled so that all views stay up with the truth.
LEMMA HandleInforms ==
  ASSUME IInv, NEW c \in Peer, NEW msg \in ClientMessage, Handle(c, msg)
  PROVE  Informs
<1>1. /\ msg.type \in {"join_world", "move"} => [map |-> msg.map, pos |-> msg.pos] \in Place
      /\ msg.type = "challenge" => msg.target \in Peer
      /\ msg.type = "battle_end" => msg.id \in Nat
  BY MaxDrawsAssumption DEF ClientMessage, Place, KnownIds
<1>2. CASE msg.type = "join_world" /\ OnHello(c, [map |-> msg.map, pos |-> msg.pos])
  BY <1>1, <1>2, HelloInforms
<1>3. CASE NotInitialized(c)
  BY <1>3, ErrorInforms DEF NotInitialized, ErrorCode
<1>4. CASE c \in Joined /\ msg.type = "move" /\ OnMove(c, [map |-> msg.map, pos |-> msg.pos])
  BY <1>1, <1>4, MoveInforms
<1>5. CASE c \in Joined /\ msg.type = "challenge" /\ OnChallenge(c, msg.target)
  BY <1>1, <1>5, ChallengeInforms
<1>6. CASE msg.type = "challenge_reply" /\ OnChallengeReply(c, msg.id, msg.accept)
  BY <1>6, ReplyInforms
<1>7. CASE msg.type = "battle_message" /\ OnBattleMessage(c, msg)
  BY <1>7, BattleMessageInforms
<1>8. CASE msg.type = "battle_end" /\ OnBattleEnd(c, msg.id)
  BY <1>1, <1>8, BattleEndInforms
<1>9. CASE OnPing(c)
  <2>1. [type |-> "pong"] \in OtherMessage
    BY DEF OtherMessage
  <2>2. Silent(sent') /\ UNCHANGED <<conn, place>>
    BY <1>9, <2>1, SilentToAll DEF OnPing, To, state
  <2> QED BY <2>2, SilentStep
<1>10. conn[c] = "joined" => c \in Joined
  BY DEF Joined
<1> QED
  BY <1>2, <1>3, <1>4, <1>5, <1>6, <1>7, <1>8, <1>9, <1>10 DEF Handle

\* That a challenge is cancelled is not about presence.
LEMMA CancelSilent ==
  ASSUME IInv, NEW c \in Peer
  PROVE  Silent(CancelNotices(c))
<1> DEFINE Lost(q) == {ch \in challenges : Parties(ch) = {c, q}}
           note(q) == [type |-> "challenge_cancelled", id |-> (CHOOSE ch \in Lost(q) : TRUE).id]
<1>1. \A q \in Peer : CancelNotices(c)[q] = IF q \in Joined \ {c} /\ Lost(q) # {} THEN <<note(q)>> ELSE <<>>
  BY DEF CancelNotices
<1>2. ASSUME NEW q \in Peer, Lost(q) # {}
      PROVE  note(q) \in ServerMessage /\ \A p, v : HandlePresence(p, v, note(q)) = v
  <2>1. PICK ch : ch = CHOOSE d \in Lost(q) : TRUE
    OBVIOUS
  <2>2. ch \in Lost(q)
    BY <1>2, <2>1
  <2>3. ch.id \in Id
    BY <2>2 DEF IInv, TypeOK, Challenge
  <2>4. note(q) = [type |-> "challenge_cancelled", id |-> ch.id]
    BY <2>1
  <2> HIDE DEF note
  <2>5. note(q) \in ServerMessage
    BY <2>3, <2>4 DEF OtherMessage, ServerMessage
  <2>6. \A p, v : HandlePresence(p, v, note(q)) = v
    BY <2>4 DEF HandlePresence
  <2> QED BY <2>5, <2>6
<1> HIDE DEF Lost, note
<1>3. ASSUME NEW q \in Peer
      PROVE  /\ CancelNotices(c)[q] \in Seq(ServerMessage)
             /\ \A v \in Views : Applied(q, v, CancelNotices(c)[q]) = v
  <2>1. CASE CancelNotices(c)[q] = <<note(q)>> /\ Lost(q) # {}
    <3>1. note(q) \in ServerMessage /\ \A v : HandlePresence(q, v, note(q)) = v
      BY <1>2, <2>1
    <3>2. <<note(q)>> \in Seq(ServerMessage)
      BY <3>1
    <3> QED BY <2>1, <3>1, <3>2, AppliedOne
  <2>2. CASE CancelNotices(c)[q] = <<>>
    <3>1. [type |-> "pong"] \in ServerMessage
      BY DEF ServerMessage, OtherMessage
    <3>2. <<>> \in Seq(ServerMessage)
      OBVIOUS
    <3> QED BY <2>2, <3>1, <3>2, AppliedOne
  <2> QED BY <1>1, <2>1, <2>2
<1>4. CancelNotices(c) \in Outbox(ServerMessage)
  <2>1. PICK s : s = CancelNotices(c)
    OBVIOUS
  <2>2. s = [q \in Peer |-> s[q]]
    BY <2>1 DEF CancelNotices
  <2> QED BY <1>3, <2>1, <2>2 DEF Outbox
<1> QED BY <1>3, <1>4 DEF Silent

\* A player leaves, and those who had him in view have him no more.
LEMMA DisconnectInforms ==
  ASSUME IInv, NEW c \in Peer, Disconnect(c)
  PROVE  Informs
<1>0. TypeOK
  BY DEF IInv
<1>1. CASE /\ conn[c] = "connected"
           /\ conn' = [conn EXCEPT ![c] = "closed"]
           /\ sent' = Quiet
           /\ UNCHANGED place
  <2>1. \A q \in Peer : conn'[q] = "joined" <=> conn[q] = "joined"
    BY <1>0, <1>1 DEF TypeOK
  <2>2. \A q : Truth(q)' = Truth(q)
    BY <1>1, <2>1 DEF Truth, OnMap, Joined
  <2>3. [type |-> "pong"] \in ServerMessage
    BY DEF ServerMessage, OtherMessage
  <2>4. ASSUME NEW q \in Peer, NEW v \in Views PROVE Applied(q, v, sent'[q]) = v
    BY <1>1, <2>3, AppliedOne DEF Quiet
  <2>5. sent' \in Outbox(ServerMessage)
    BY <1>1, QuietMessages
  <2> QED BY <2>1, <2>2, <2>4, <2>5 DEF Informs, Informed
<1> DEFINE a == CancelNotices(c)
           opponent == InEnding(c, battleOf[c]) \cap (Joined \ {c})
           b == ToAll(opponent, [type |-> "battle_ended", id |-> battleOf[c], reason |-> "opponent_disconnected"])
           old == OnMap(place[c].map) \ {c}
           d == ToAll(old, [type |-> "player_left", id |-> c])
<1>2. CASE /\ conn[c] = "joined"
           /\ conn' = [conn EXCEPT ![c] = "closed"]
           /\ place' = [place EXCEPT ![c] = Nowhere]
           /\ sent' = a ++ b ++ d
  <2>1. Silent(a)
    BY CancelSilent
  <2>2. Silent(b)
    <3>1. battleOf[c] \in Nat
      BY <1>0 DEF TypeOK
    <3>2. [type |-> "battle_ended", id |-> battleOf[c], reason |-> "opponent_disconnected"] \in OtherMessage
      BY <3>1 DEF OtherMessage
    <3> QED BY <3>2, SilentToAll
  <2>3. /\ d \in Outbox(ServerMessage)
        /\ \A q \in Peer, v \in Views : Applied(q, v, d[q]) = IF q \in old THEN Without(v, c) ELSE v
    <3>1. \A q, v : HandlePresence(q, v, [type |-> "player_left", id |-> c]) = Without(v, c)
      BY DEF HandlePresence
    <3>2. [type |-> "player_left", id |-> c] \in ServerMessage
      BY DEF ServerMessage, PresenceMessage
    <3> QED BY <3>1, <3>2, SaidToAll
  <2>4. \A q \in Joined \ {c} : q \in old <=> place[q].map = place[c].map
    BY DEF OnMap
  <2> HIDE DEF a, b, d, old
  <2>5. Silent(a ++ b)
    BY <2>1, <2>2, SilentBoth
  <2>6. sent' \in Outbox(ServerMessage)
    BY <1>2, <2>3, <2>5, SaidBoth DEF Silent
  <2>7. ASSUME NEW q \in Peer, NEW v \in Views
        PROVE  Applied(q, v, sent'[q]) = IF q \in old THEN Without(v, c) ELSE v
    <3>1. Applied(q, v, sent'[q]) = Applied(q, Applied(q, v, (a ++ b)[q]), d[q])
      BY <1>2, <2>3, <2>5, SaidBoth DEF Silent
    <3>2. Applied(q, v, (a ++ b)[q]) = v
      BY <2>5 DEF Silent
    <3> QED BY <2>3, <3>1, <3>2
  <2>8. ASSUME NEW q \in Peer PROVE Informed(q)
    <3>1. CASE q = c
      BY <1>0, <1>2, <3>1 DEF Informed, TypeOK
    <3>2. CASE q # c /\ conn'[q] = "joined"
      <4>1. q \in Joined /\ conn[q] = "joined"
        BY <1>0, <1>2, <3>2 DEF TypeOK, Joined
      <4>2. Truth(q)' = Without(Truth(q), c) /\ Truth(q) \in Views
        BY <1>0, <1>2, <3>2, <4>1, LeavingTruth, TruthIsView
      <4>3. q \notin old => Without(Truth(q), c) = Truth(q)
        <5>1. q \notin old => c \notin OnMap(place[q].map)
          BY <2>4, <3>2, <4>1 DEF OnMap
        <5> QED BY <5>1, StrangerAbsent
      <4>4. Applied(q, Truth(q), sent'[q]) = Truth(q)'
        BY <2>7, <4>2, <4>3
      <4> QED BY <4>1, <4>4 DEF Informed
    <3> QED BY <3>1, <3>2 DEF Informed
  <2> QED BY <2>6, <2>8 DEF Informs
<1> QED BY <1>1, <1>2 DEF Disconnect

-----------------------------------------------------------------------------
(***************************************************************************)
(* Views and streams, step by step.                                        *)
(***************************************************************************)

\* An update of the client moves messages from his stream into his view.
LEMMA UpdateViews ==
  ASSUME StreamsOK, ViewCatchesUp, NEW c \in Peer, NEW n \in 0..Len(down[c]),
         view' = [view EXCEPT ![c] = Applied(c, @, SubSeq(down[c], 1, n))],
         Receive(c, n), UNCHANGED <<conn, place, gone>>
  PROVE  view' \in [Peer -> Views] /\ down' \in [Peer -> Seq(ServerMessage)] /\ ViewCatchesUp'
<1>1. PICK s : s = down[c]
  OBVIOUS
<1>2. s \in Seq(ServerMessage) /\ view[c] \in Views /\ n \in 0..Len(s)
  BY <1>1 DEF StreamsOK
<1>3. PICK t, u : t = SubSeq(s, 1, n) /\ u = SubSeq(s, n + 1, Len(s))
  OBVIOUS
<1>4. t \in Seq(ServerMessage) /\ u \in Seq(ServerMessage)
  BY <1>2, <1>3, ListCut
<1>10. t \o u = s
  BY <1>2, <1>3, ListCut
<1>5. view' = [view EXCEPT ![c] = Applied(c, view[c], t)] /\ down' = [down EXCEPT ![c] = u]
  BY <1>1, <1>3 DEF Receive
<1>6. Applied(c, view[c], t) \in Views
  BY <1>2, <1>4, AppliedIsView
<1>7. view' \in [Peer -> Views] /\ down' \in [Peer -> Seq(ServerMessage)]
  BY <1>4, <1>5, <1>6 DEF StreamsOK
<1>8. \A q : Truth(q)' = Truth(q) /\ (Live(q)' <=> Live(q))
  BY DEF Truth, OnMap, Joined, Live
<1>9. ASSUME NEW q \in Peer, Live(q) PROVE Applied(q, view'[q], down'[q]) = Truth(q)
  <2>1. Applied(q, view[q], down[q]) = Truth(q)
    BY <1>9 DEF ViewCatchesUp
  <2>2. CASE q = c
    <3>1. view'[c] = Applied(c, view[c], t) /\ down'[c] = u
      BY <1>5 DEF StreamsOK
    <3>2. Applied(c, view[c], t \o u) = Applied(c, Applied(c, view[c], t), u)
      <4>1. PICK v : v = view[c]
        OBVIOUS
      <4>2. v \in Views
        BY <1>2, <4>1
      <4>3. Applied(c, v, t \o u) = Applied(c, Applied(c, v, t), u)
        BY <1>4, <4>2, AppliedConcat
      <4> QED BY <4>1, <4>3
    <3> QED BY <1>1, <1>10, <2>1, <2>2, <3>1, <3>2
  <2>3. CASE q # c
    BY <1>5, <2>1, <2>3 DEF StreamsOK
  <2> QED BY <2>2, <2>3
<1> QED BY <1>7, <1>8, <1>9 DEF ViewCatchesUp

\* A step of the server adds what brings the views up to the new truth.
LEMMA ServerViews ==
  ASSUME StreamsOK, ViewCatchesUp, gone \in [Peer -> BOOLEAN], Informs, Deliver, UNCHANGED clientVars
  PROVE  view' \in [Peer -> Views] /\ down' \in [Peer -> Seq(ServerMessage)] /\ ViewCatchesUp'
<1>1. \A q \in Peer : /\ sent'[q] \in Seq(ServerMessage) /\ down[q] \in Seq(ServerMessage) /\ view[q] \in Views
                      /\ Informed(q) /\ view' = view /\ gone' = gone
  BY DEF Informs, Outbox, StreamsOK, clientVars
<1>2. \A q \in Peer : down[q] \o sent'[q] \in Seq(ServerMessage)
  BY <1>1, ConcatProperties
<1>3. \A q \in Peer : IF gone[q] THEN down'[q] = <<>> ELSE down'[q] = down[q] \o sent'[q]
  BY DEF Deliver
<1>4. down' \in [Peer -> Seq(ServerMessage)]
  <2>1. \A q \in Peer : down'[q] \in Seq(ServerMessage)
    <3>1. <<>> \in Seq(ServerMessage)
      OBVIOUS
    <3> QED BY <1>2, <1>3, <3>1
  <2> QED BY <2>1 DEF Deliver
<1>5. ASSUME NEW q \in Peer, Live(q)' PROVE Applied(q, view'[q], down'[q]) = Truth(q)'
  <2>1. conn'[q] = "joined" /\ ~gone[q]
    BY <1>1, <1>5 DEF Live
  <2>2. PICK v : v = Applied(q, view[q], down[q])
    OBVIOUS
  <2>3. v \in Views
    BY <1>1, <2>2, AppliedIsView
  <2>4. conn[q] = "joined" => v = Truth(q)
    BY <2>1, <2>2 DEF ViewCatchesUp, Live
  <2>5. Applied(q, v, sent'[q]) = Truth(q)'
    BY <1>1, <2>1, <2>3, <2>4 DEF Informed
  <2>6. Applied(q, view[q], down[q] \o sent'[q]) = Applied(q, v, sent'[q])
    BY <1>1, <2>2, AppliedConcat
  <2> QED BY <1>1, <1>3, <2>1, <2>5, <2>6
<1>6. view' \in [Peer -> Views]
  BY DEF StreamsOK, clientVars
<1> QED BY <1>4, <1>5, <1>6 DEF ViewCatchesUp

-----------------------------------------------------------------------------
(***************************************************************************)
(* Reports, step by step.                                                  *)
(***************************************************************************)

\* A handler moves nobody but the player whose message it handles.
LEMMA HandlerMoves ==
  ASSUME TypeOK, NEW c \in Peer,
         Disconnect(c) \/ \E msg \in ClientMessage : Handle(c, msg)
  PROVE  /\ \A q \in Peer \ {c} : conn'[q] = conn[q] /\ place'[q] = place[q]
         /\ drawn' = drawn \/ drawn' = drawn + 1
<1>1. CASE Disconnect(c)
  BY <1>1 DEF Disconnect, TypeOK, matches
<1>2. ASSUME NEW msg \in ClientMessage, Handle(c, msg)
      PROVE  /\ \A q \in Peer \ {c} : conn'[q] = conn[q] /\ place'[q] = place[q]
             /\ drawn' = drawn \/ drawn' = drawn + 1
  <2>1. CASE UNCHANGED state
    BY <2>1 DEF state
  <2>2. CASE \E at : OnHello(c, at) \/ OnMove(c, at)
    BY <2>2 DEF OnHello, OnMove, state, matches, TypeOK
  <2>3. CASE \E t : OnChallenge(c, t)
    BY <2>3 DEF OnChallenge, state, players
  <2>4. CASE \E id, accept : OnChallengeReply(c, id, accept)
    BY <2>4 DEF OnChallengeReply, state
  <2>5. CASE \E id : OnBattleEnd(c, id)
    BY <2>5 DEF OnBattleEnd
  <2> QED BY <1>2, <2>1, <2>2, <2>3, <2>4, <2>5 DEF Handle, NotInitialized, OnBattleMessage, OnPing
<1> QED BY <1>1, <1>2

\* A report is taken as it is; what is not a report leaves the player where he was.
LEMMA ReportTaken ==
  ASSUME TypeOK, NEW c \in Peer, NEW msg \in ClientMessage, Handle(c, msg),
         msg.type = "join_world" <=> conn[c] = "connected"
  PROVE  /\ conn'[c] = "joined"
         /\ IsReport(msg) /\ ~Fighting(c) => place'[c] = [map |-> msg.map, pos |-> msg.pos]
         /\ ~IsReport(msg) => place'[c] = place[c]
<1>1. conn[c] \in {"connected", "joined"}
  BY DEF Handle, OnHello, NotInitialized
<1>2. CASE msg.type = "join_world"
  <2>1. conn[c] = "connected"
    BY <1>2
  <2>2. OnHello(c, [map |-> msg.map, pos |-> msg.pos])
    BY <1>2, <2>1 DEF Handle
  <2> QED BY <1>2, <2>1, <2>2 DEF OnHello, TypeOK, IsReport
<1>3. CASE msg.type # "join_world"
  <2>1. conn[c] = "joined"
    BY <1>1, <1>3
  <2>2. CASE msg.type = "move"
    <3>1. OnMove(c, [map |-> msg.map, pos |-> msg.pos])
      BY <2>1, <2>2 DEF Handle, NotInitialized
    <3> QED BY <2>1, <2>2, <3>1 DEF OnMove, Fighting, TypeOK, IsReport, state
  <2>3. CASE msg.type # "move"
    <3>1. UNCHANGED <<conn, place>>
      <4>1. CASE \E t : OnChallenge(c, t)
        BY <4>1 DEF OnChallenge, state, players
      <4>2. CASE \E id, accept : OnChallengeReply(c, id, accept)
        BY <4>2 DEF OnChallengeReply, state
      <4>3. CASE OnBattleMessage(c, msg)
        BY <4>3 DEF OnBattleMessage, state
      <4>4. CASE \E id : OnBattleEnd(c, id)
        BY <4>4 DEF OnBattleEnd
      <4>5. CASE OnPing(c)
        BY <4>5 DEF OnPing, state
      <4> QED BY <1>3, <2>1, <2>3, <4>1, <4>2, <4>3, <4>4, <4>5 DEF Handle, NotInitialized
    <3> QED BY <1>3, <2>1, <2>3, <3>1 DEF IsReport
  <2> QED BY <2>2, <2>3
<1> QED BY <1>2, <1>3

\* Nobody fights before an id is drawn.
LEMMA NoFightYet ==
  ASSUME IInv, drawn = 0, NEW c \in Peer
  PROVE  ~Fighting(c)
<1> SUFFICES ASSUME Fighting(c) PROVE FALSE
  OBVIOUS
<1>1. PICK b \in battles : b.id = battleOf[c]
  BY DEF IInv, BattleBooks
<1>2. b.id \in Nat \ {0} /\ b.id <= 0
  BY DEF IInv, FreshIds, TypeOK, Battle, Id
<1> QED BY <1>2

\* Reports are of a player whose stream and place do not change.
LEMMA ReportsStay ==
  ASSUME NEW q, up'[q] = up[q], place'[q] = place[q], conn'[q] = conn[q], published'[q] = published[q]
  PROVE  /\ \A at : ReportedLast(q, at)' <=> ReportedLast(q, at)
         /\ Announced(q)' <=> Announced(q)
  BY DEF ReportedLast, Announced

\* The server takes the first message of c's stream.
LEMMA ReadReports ==
  ASSUME PInv, NEW c \in Peer, up[c] # <<>>, conn[c] # "closed", Handle(c, Head(up[c])),
         up' = [up EXCEPT ![c] = Tail(@)], UNCHANGED clientVars
  PROVE  JoinsFirst' /\ ReportsArrive'
<1>0. TypeOK /\ up[c] \in Seq(ClientMessage)
  BY DEF PInv, IInv, StreamsOK
<1>1. PICK s, m, r : s = up[c] /\ m = Head(s) /\ r = Tail(s)
  OBVIOUS
<1>2. /\ m \in ClientMessage /\ m = s[1] /\ Len(s) \in Nat /\ Len(s) >= 1 /\ Len(r) = Len(s) - 1
      /\ \A i \in 1..Len(s) - 1 : r[i] = s[i + 1]
      /\ DOMAIN s = 1..Len(s) /\ DOMAIN r = 1..Len(s) - 1
  <2>1. s \in Seq(ClientMessage) /\ s # <<>>
    BY <1>0, <1>1
  <2>2. Len(s) \in Nat /\ Len(s) # 0 /\ DOMAIN s = 1..Len(s)
    BY <2>1, LenProperties, EmptySeq
  <2>3. /\ m \in ClientMessage /\ m = s[1] /\ r \in Seq(ClientMessage) /\ Len(r) = Len(s) - 1
        /\ \A i \in 1..Len(r) : r[i] = s[i + 1]
    BY <1>1, <2>1, HeadTailProperties
  <2>4. DOMAIN r = 1..Len(r)
    BY <2>3, LenProperties
  <2> QED BY <2>2, <2>3, <2>4
<1>3. up'[c] = r /\ \A q \in Peer \ {c} : up'[q] = up[q]
  BY <1>1 DEF PInv, StreamsOK
<1>4. /\ \A q \in Peer \ {c} : conn'[q] = conn[q] /\ place'[q] = place[q]
      /\ drawn' = drawn \/ drawn' = drawn + 1
  BY <1>0, <1>1, <1>2, HandlerMoves
<1>5. Announced(c) /\ conn[c] \in {"connected", "joined"}
  BY <1>0 DEF PInv, JoinsFirst, TypeOK
<1>6. published[c] # Nowhere /\ (m.type = "join_world" <=> conn[c] = "connected")
  BY <1>1, <1>2, <1>5 DEF Announced
<1>7. /\ conn'[c] = "joined"
      /\ IsReport(m) /\ ~Fighting(c) => place'[c] = [map |-> m.map, pos |-> m.pos]
      /\ ~IsReport(m) => place'[c] = place[c]
  BY <1>0, <1>1, <1>2, <1>6, ReportTaken
<1>8. Announced(c)'
  <2>1. \A i \in DOMAIN r : i + 1 \in DOMAIN s /\ i + 1 # 1 /\ r[i] = s[i + 1]
    BY <1>2
  <2>2. \A i \in DOMAIN r : r[i].type # "join_world"
    BY <1>1, <1>5, <2>1 DEF Announced
  <2> QED BY <1>3, <1>6, <1>7, <2>2 DEF Announced, clientVars
<1>9. published' = published
  BY DEF clientVars
<1>10. JoinsFirst'
  <2>1. ASSUME NEW q \in Peer, q # c, conn'[q] # "closed" PROVE Announced(q)'
    BY <1>3, <1>4, <1>9, <2>1, ReportsStay DEF PInv, JoinsFirst
  <2> QED BY <1>8, <2>1 DEF JoinsFirst
<1>11. ASSUME drawn' = 0, NEW q \in Peer, conn'[q] # "closed", published[q] # Nowhere
       PROVE  ReportedLast(q, published[q])'
  <2>1. drawn = 0 /\ conn[q] # "closed"
    <3>1. drawn \in Nat
      BY <1>0 DEF TypeOK
    <3>2. drawn = 0
      BY <1>4, <1>11, <3>1
    <3> QED BY <1>4, <1>11, <3>2
  <2>2. ReportedLast(q, published[q])
    BY <1>11, <2>1 DEF PInv, ReportsArrive
  <2>3. CASE q # c
    <3>1. \A at : ReportedLast(q, at)' <=> ReportedLast(q, at)
      BY <1>3, <1>4, <1>9, <2>3, ReportsStay
    <3>2. PICK at : at = published[q]
      OBVIOUS
    <3>3. ReportedLast(q, at)'
      BY <2>2, <3>1, <3>2
    <3> QED BY <1>9, <3>2, <3>3 DEF ReportedLast
  <2>4. CASE q = c
    <3>1. ~Fighting(c)
      BY <2>1, NoFightYet DEF PInv
    <3>2. PICK at : at = published[c]
      OBVIOUS
    <3>3. ReportedLast(c, at)
      BY <2>2, <2>4, <3>2
    <3>4. ASSUME \A i \in DOMAIN s : ~IsReport(s[i]), place[c] = at
          PROVE  ReportedLast(c, at)'
      <4>1. ~IsReport(m) /\ \A i \in DOMAIN r : ~IsReport(r[i])
        <5>1. 1 \in DOMAIN s /\ \A i \in DOMAIN r : i + 1 \in DOMAIN s /\ r[i] = s[i + 1]
          BY <1>2
        <5> QED BY <1>2, <3>4, <5>1
      <4> QED BY <1>3, <1>7, <3>4, <4>1 DEF ReportedLast
    <3>5. ASSUME NEW i \in DOMAIN s, IsReport(s[i]), \A j \in DOMAIN s : i < j => ~IsReport(s[j]),
                 [map |-> s[i].map, pos |-> s[i].pos] = at
          PROVE  ReportedLast(c, at)'
      <4>1. CASE i = 1
        <5>1. \A j \in DOMAIN r : ~IsReport(r[j])
          <6>1. \A j \in DOMAIN r : j + 1 \in DOMAIN s /\ i < j + 1 /\ r[j] = s[j + 1]
            BY <1>2, <4>1
          <6> QED BY <3>5, <6>1
        <5>2. place'[c] = at
          BY <1>2, <1>7, <3>1, <3>5, <4>1
        <5> QED BY <1>3, <5>1, <5>2 DEF ReportedLast
      <4>2. CASE i # 1
        <5>1. PICK p : p = i - 1
          OBVIOUS
        <5>2. p \in DOMAIN r /\ r[p] = s[i] /\ \A j \in DOMAIN r : p < j => j + 1 \in DOMAIN s /\ i < j + 1 /\ r[j] = s[j + 1]
          BY <1>2, <4>2, <5>1
        <5>3. IsReport(r[p]) /\ (\A j \in DOMAIN r : p < j => ~IsReport(r[j])) /\ [map |-> r[p].map, pos |-> r[p].pos] = at
          BY <3>5, <5>2
        <5> QED BY <1>3, <5>2, <5>3 DEF ReportedLast
      <4> QED BY <4>1, <4>2
    <3>6. \/ (\A i \in DOMAIN s : ~IsReport(s[i])) /\ place[c] = at
          \/ \E i \in DOMAIN s : /\ IsReport(s[i]) /\ \A j \in DOMAIN s : i < j => ~IsReport(s[j])
                                /\ [map |-> s[i].map, pos |-> s[i].pos] = at
      BY <1>1, <3>3 DEF ReportedLast
    <3>7. ReportedLast(c, at)'
      BY <3>4, <3>5, <3>6
    <3> QED BY <1>9, <2>4, <3>2, <3>7 DEF ReportedLast
  <2> QED BY <2>3, <2>4
<1>12. ReportsArrive'
  <2>1. ASSUME drawn' = 0, NEW q \in Peer, conn'[q] # "closed", published'[q] # Nowhere
        PROVE  ReportedLast(q, published[q])'
    BY <1>9, <1>11, <2>1
  <2> QED BY <2>1 DEF ReportsArrive
<1> QED BY <1>10, <1>12

\* A client that finds a change reports it: its join first.
LEMMA WriteReports ==
  ASSUME PInv, NEW c \in Peer, published[c] # here[c],
         Send(c, Report(c)), published' = [published EXCEPT ![c] = here[c]], UNCHANGED state
  PROVE  JoinsFirst' /\ ReportsArrive' /\ up' \in [Peer -> Seq(ClientMessage)]
<1>1. PICK s, m : s = up[c] /\ m = Report(c)
  OBVIOUS
<1>2. /\ s \in Seq(ClientMessage) /\ up \in [Peer -> Seq(ClientMessage)]
      /\ here[c] \in Place /\ published \in [Peer -> Place \cup {Nowhere}]
  BY <1>1 DEF PInv, StreamsOK, PresenceTypeOK
<1>3. /\ m.type = IF published[c] = Nowhere THEN "join_world" ELSE "move"
      /\ IsReport(m) /\ [map |-> m.map, pos |-> m.pos] = here[c] /\ m \in ClientMessage
  BY <1>1, <1>2 DEF Report, IsReport, Place, ClientMessage
<1>4. PICK r : r = Append(s, m)
  OBVIOUS
<1>5. /\ r \in Seq(ClientMessage) /\ Len(s) \in Nat /\ DOMAIN r = 1..Len(s) + 1 /\ DOMAIN s = 1..Len(s)
      /\ r[Len(s) + 1] = m /\ \A i \in 1..Len(s) : r[i] = s[i]
  <2>1. r \in Seq(ClientMessage) /\ Len(r) = Len(s) + 1 /\ Len(s) \in Nat
        /\ r[Len(s) + 1] = m /\ \A i \in 1..Len(s) : r[i] = s[i]
    BY <1>2, <1>3, <1>4, AppendProperties, LenProperties
  <2>2. DOMAIN r = 1..Len(r) /\ DOMAIN s = 1..Len(s)
    BY <1>2, <2>1, LenProperties
  <2> QED BY <2>1, <2>2
<1>6. up' = [up EXCEPT ![c] = r]
  BY <1>1, <1>4 DEF Send
<1>7. /\ up'[c] = r /\ published'[c] = here[c] /\ here[c] # Nowhere
      /\ \A q \in Peer \ {c} : up'[q] = up[q] /\ published'[q] = published[q]
      /\ UNCHANGED <<conn, place, drawn>>
  BY <1>2, <1>6, PlaceAssumption DEF state
<1>8. ASSUME conn[c] # "closed" PROVE Announced(c)'
  <2>1. Announced(c)
    BY <1>8 DEF PInv, JoinsFirst
  <2>2. conn[c] = "connected" => r # <<>> /\ r[1].type = "join_world"
    <3>1. CASE published[c] = Nowhere
      <4>1. s = <<>> /\ Len(s) = 0
        BY <1>1, <2>1, <3>1 DEF Announced
      <4>2. r[1] = m /\ 1 \in DOMAIN r
        BY <1>5, <4>1
      <4> QED BY <1>3, <3>1, <4>2
    <3>2. CASE published[c] # Nowhere /\ conn[c] = "connected"
      <4>1. s # <<>> /\ s[1].type = "join_world"
        BY <1>1, <2>1, <3>2 DEF Announced
      <4>2. Len(s) # 0
        BY <1>2, <4>1, EmptySeq
      <4>3. 1 \in 1..Len(s) /\ 1 \in DOMAIN r
        BY <1>5, <4>2
      <4> QED BY <1>5, <4>1, <4>3
    <3> QED BY <3>1, <3>2
  <2>3. ASSUME NEW i \in DOMAIN r, r[i].type = "join_world" PROVE i = 1 /\ conn[c] = "connected"
    <3>1. CASE i = Len(s) + 1
      <4>1. published[c] = Nowhere
        BY <1>3, <1>5, <2>3, <3>1
      <4>2. s = <<>> /\ Len(s) = 0 /\ conn[c] = "connected"
        BY <1>1, <2>1, <4>1 DEF Announced
      <4> QED BY <3>1, <4>2
    <3>2. CASE i # Len(s) + 1
      <4>1. i \in 1..Len(s)
        BY <1>5, <3>2
      <4> QED BY <1>1, <1>5, <2>1, <2>3, <4>1 DEF Announced
    <3> QED BY <3>1, <3>2
  <2> QED BY <1>7, <2>2, <2>3 DEF Announced
<1>9. ReportedLast(c, published[c])'
  <2>1. /\ Len(s) + 1 \in DOMAIN r /\ \A j \in DOMAIN r : ~(Len(s) + 1 < j)
        /\ IsReport(r[Len(s) + 1])
        /\ [map |-> r[Len(s) + 1].map, pos |-> r[Len(s) + 1].pos] = here[c]
    BY <1>3, <1>5
  <2> QED BY <1>7, <2>1 DEF ReportedLast
<1>10. up' \in [Peer -> Seq(ClientMessage)]
  BY <1>2, <1>5, <1>6
<1>11. ASSUME NEW q \in Peer, q # c, conn'[q] # "closed" PROVE Announced(q)'
  BY <1>7, <1>11, ReportsStay DEF PInv, JoinsFirst
<1>12. ASSUME drawn' = 0, NEW q \in Peer, conn'[q] # "closed", published'[q] # Nowhere
       PROVE  ReportedLast(q, published[q])'
  <2>1. CASE q = c
    BY <1>9, <2>1
  <2>2. CASE q # c
    <3>1. PICK at : at = published[q]
      OBVIOUS
    <3>2. ReportedLast(q, at)
      BY <1>7, <1>12, <2>2, <3>1 DEF PInv, ReportsArrive
    <3>3. ReportedLast(q, at)'
      BY <1>7, <2>2, <3>2, ReportsStay
    <3> QED BY <1>7, <2>2, <3>1, <3>3 DEF ReportedLast
  <2> QED BY <2>1, <2>2
<1> QED BY <1>7, <1>8, <1>10, <1>11, <1>12 DEF JoinsFirst, ReportsArrive

-----------------------------------------------------------------------------
(***************************************************************************)
(* All together.                                                           *)
(***************************************************************************)

\* At first nobody has joined and nothing is on its way.
LEMMA InitPInv == PresenceInit => PInv
<1> SUFFICES ASSUME PresenceInit PROVE PInv
  OBVIOUS
<1>1. IInv
  BY InitIInv DEF PresenceInit
<1>2. TypeOK
  BY <1>1 DEF IInv
<1>3. StreamsOK
  <2>1. <<>> \in Seq(ClientMessage) /\ <<>> \in Seq(ServerMessage) /\ {} \in Views
    BY DEF Views
  <2> QED BY <2>1 DEF StreamsOK, PresenceInit
<1>4. PresenceTypeOK
  BY <1>2 DEF PresenceTypeOK, PresenceInit
<1>5. ViewCatchesUp
  BY DEF ViewCatchesUp, Live, PresenceInit, Init
<1>6. JoinsFirst
  BY DEF JoinsFirst, Announced, PresenceInit, Init
<1>7. ReportsArrive
  BY DEF ReportsArrive, PresenceInit
<1> QED BY <1>1, <1>3, <1>4, <1>5, <1>6, <1>7 DEF PInv

\* After a step the types are those of the streams and the coordinator, and of what the
\* client keeps.
LEMMA TypesTogether ==
  ASSUME IInv', StreamsOK', here' \in [Peer -> Place], published' \in [Peer -> Place \cup {Nowhere}],
         gone' \in [Peer -> BOOLEAN]
  PROVE  PresenceTypeOK'
<1>1. \A c \in Peer : view'[c] \in Views /\ \A i \in DOMAIN up'[c] : up'[c][i] \in ClientMessage
  <2>1. \A c \in Peer : view'[c] \in Views /\ up'[c] \in Seq(ClientMessage)
    BY DEF StreamsOK
  <2> QED BY <2>1, ElementOfSeq, LenProperties
<1> QED BY <1>1 DEF PresenceTypeOK, Views, PublicPlayer, IInv

\* Where only views and gone change, reports are as they were.
LEMMA ReportsKept ==
  ASSUME PInv, UNCHANGED <<up, published, conn, place, drawn>>
  PROVE  JoinsFirst' /\ ReportsArrive'
<1>1. JoinsFirst'
  BY DEF PInv, JoinsFirst, Announced
<1>2. ReportsArrive'
  BY DEF PInv, ReportsArrive, ReportedLast
<1> QED BY <1>1, <1>2

\* Where views, streams to the clients and the coordinator are as they were, so is what
\* they say together.
LEMMA ViewsKept ==
  ASSUME PInv, UNCHANGED <<view, down, conn, place, gone>>
  PROVE  ViewCatchesUp'
  BY DEF PInv, ViewCatchesUp, Live, Truth, OnMap, Joined

\* The client's update.
LEMMA UpdatePInv ==
  ASSUME PInv, NEW c \in Peer, NEW n \in 0..Len(down[c]), ClientUpdate(c, n)
  PROVE  PInv'
<1>1. /\ UNCHANGED state /\ UNCHANGED <<conn, place, drawn>> /\ UNCHANGED <<here, gone, walks>>
      /\ here \in [Peer -> Place] /\ published \in [Peer -> Place \cup {Nowhere}] /\ gone \in [Peer -> BOOLEAN]
      /\ up \in [Peer -> Seq(ClientMessage)]
  BY DEF ClientUpdate, state, PInv, PresenceTypeOK, StreamsOK
<1>2. IInv'
  BY <1>1, StutterIInv DEF PInv
<1>3. view' \in [Peer -> Views] /\ down' \in [Peer -> Seq(ServerMessage)] /\ ViewCatchesUp'
  <2>1. StreamsOK /\ ViewCatchesUp
    BY DEF PInv
  <2> QED BY <1>1, <2>1, UpdateViews DEF ClientUpdate
<1>4. /\ JoinsFirst' /\ ReportsArrive' /\ up' \in [Peer -> Seq(ClientMessage)]
      /\ published' \in [Peer -> Place \cup {Nowhere}]
  <2>1. CASE here[c] # published[c]
    <3>1. Send(c, Report(c)) /\ published' = [published EXCEPT ![c] = here[c]]
      BY <2>1 DEF ClientUpdate
    <3> QED BY <1>1, <2>1, <3>1, WriteReports
  <2>2. CASE here[c] = published[c]
    <3>1. UNCHANGED <<up, published>>
      BY <2>2 DEF ClientUpdate
    <3> QED BY <1>1, <3>1, ReportsKept
  <2> QED BY <2>1, <2>2
<1>5. StreamsOK'
  BY <1>3, <1>4 DEF StreamsOK
<1>6. PresenceTypeOK'
  <2>1. here' \in [Peer -> Place] /\ gone' \in [Peer -> BOOLEAN]
    BY <1>1
  <2> QED BY <1>2, <1>4, <1>5, <2>1, TypesTogether
<1> QED BY <1>2, <1>3, <1>4, <1>5, <1>6 DEF PInv

\* The player walks.
LEMMA WalkPInv ==
  ASSUME PInv, NEW c \in Peer, Walk(c)
  PROVE  PInv'
<1>1. PICK at \in Place : here' = [here EXCEPT ![c] = at]
  BY DEF Walk
<1>2. UNCHANGED state /\ UNCHANGED <<conn, place, drawn>> /\ UNCHANGED <<published, view, gone, up, down>>
  BY DEF Walk, state
<1>3. IInv' /\ JoinsFirst' /\ ReportsArrive' /\ ViewCatchesUp'
  BY <1>2, StutterIInv, ReportsKept, ViewsKept DEF PInv
<1>4. StreamsOK'
  BY <1>2 DEF PInv, StreamsOK
<1>5. PresenceTypeOK'
  <2>1. here' \in [Peer -> Place] /\ published' \in [Peer -> Place \cup {Nowhere}] /\ gone' \in [Peer -> BOOLEAN]
    BY <1>1, <1>2 DEF PInv, PresenceTypeOK
  <2> QED BY <1>3, <1>4, <2>1, TypesTogether
<1> QED BY <1>3, <1>4, <1>5 DEF PInv

\* A message of the layer above goes out.
LEMMA AppPInv ==
  ASSUME PInv, NEW c \in Peer, NEW m \in AppMessages, SendApp(c, m)
  PROVE  PInv'
<1>1. /\ UNCHANGED state /\ UNCHANGED <<conn, place, drawn>> /\ UNCHANGED <<here, published, view, gone, down>>
      /\ published[c] # Nowhere /\ up[c] = <<>> /\ m \in ClientMessage
      /\ m.type # "join_world" /\ ~IsReport(m) /\ up' = [up EXCEPT ![c] = Append(up[c], m)]
  BY AppMessagesAssumption DEF SendApp, Knows, Send, state, clientVars, IsReport
<1>2. up \in [Peer -> Seq(ClientMessage)]
  BY DEF PInv, StreamsOK
<1>3. PICK r : r = <<m>>
  OBVIOUS
<1>4. r \in Seq(ClientMessage) /\ DOMAIN r = {1} /\ r[1] = m /\ up' = [up EXCEPT ![c] = r]
  <2>1. r \in Seq(ClientMessage) /\ r[1] = m /\ Len(r) = 1
    BY <1>1, <1>3
  <2>2. Append(up[c], m) = r
    BY <1>1, <1>3
  <2>3. DOMAIN r = 1..1 /\ 1..1 = {1}
    BY <2>1, LenProperties
  <2> QED BY <1>1, <2>1, <2>2, <2>3
<1>5. up'[c] = r /\ up' \in [Peer -> Seq(ClientMessage)] /\ \A q \in Peer \ {c} : up'[q] = up[q]
  BY <1>2, <1>4
<1>6. IInv' /\ ViewCatchesUp'
  BY <1>1, StutterIInv, ViewsKept DEF PInv
<1>7. StreamsOK'
  BY <1>1, <1>5 DEF PInv, StreamsOK
<1>8. PresenceTypeOK'
  <2>1. here' \in [Peer -> Place] /\ published' \in [Peer -> Place \cup {Nowhere}] /\ gone' \in [Peer -> BOOLEAN]
    BY <1>1 DEF PInv, PresenceTypeOK
  <2> QED BY <1>6, <1>7, <2>1, TypesTogether
<1>9. ASSUME NEW q \in Peer, conn'[q] # "closed" PROVE Announced(q)'
  <2>1. Announced(q)
    BY <1>1, <1>9 DEF PInv, JoinsFirst
  <2>2. CASE q = c
    <3>1. conn[c] # "connected"
      BY <1>1, <2>1, <2>2 DEF Announced
    <3> QED BY <1>1, <1>4, <1>5, <2>2, <3>1 DEF Announced
  <2>3. CASE q # c
    BY <1>1, <1>5, <2>1, <2>3, ReportsStay
  <2> QED BY <2>2, <2>3
<1>10. ASSUME drawn' = 0, NEW q \in Peer, conn'[q] # "closed", published'[q] # Nowhere
       PROVE  ReportedLast(q, published[q])'
  <2>1. ReportedLast(q, published[q])
    BY <1>1, <1>10 DEF PInv, ReportsArrive
  <2>2. CASE q = c
    <3>1. place[c] = published[c]
      <4>1. DOMAIN up[c] = {}
        BY <1>1
      <4> QED BY <2>1, <2>2, <4>1 DEF ReportedLast
    <3>2. \A i \in DOMAIN r : ~IsReport(r[i])
      BY <1>1, <1>4
    <3> QED BY <1>1, <1>5, <2>2, <3>1, <3>2 DEF ReportedLast
  <2>3. CASE q # c
    <3>1. PICK at : at = published[q]
      OBVIOUS
    <3>2. ReportedLast(q, at)'
      BY <1>1, <1>5, <2>1, <2>3, <3>1, ReportsStay
    <3> QED BY <1>1, <3>1, <3>2 DEF ReportedLast
  <2> QED BY <2>2, <2>3
<1> QED BY <1>6, <1>7, <1>8, <1>9, <1>10 DEF PInv, JoinsFirst, ReportsArrive

\* The client finds his connection gone.
LEMMA LostPInv ==
  ASSUME PInv, NEW c \in Peer, ClientLost(c)
  PROVE  PInv'
<1>1. /\ UNCHANGED state /\ UNCHANGED <<conn, place, drawn>> /\ UNCHANGED <<here, published, view, up>>
      /\ gone' = [gone EXCEPT ![c] = TRUE] /\ down' = [down EXCEPT ![c] = <<>>]
  BY DEF ClientLost, state
<1>2. gone \in [Peer -> BOOLEAN] /\ down \in [Peer -> Seq(ServerMessage)]
  BY DEF PInv, PresenceTypeOK, StreamsOK
<1>3. gone' \in [Peer -> BOOLEAN] /\ down' \in [Peer -> Seq(ServerMessage)]
  <2>1. <<>> \in Seq(ServerMessage)
    OBVIOUS
  <2> QED BY <1>1, <1>2, <2>1
<1>4. IInv' /\ JoinsFirst' /\ ReportsArrive'
  BY <1>1, StutterIInv, ReportsKept DEF PInv
<1>5. StreamsOK'
  BY <1>1, <1>3 DEF PInv, StreamsOK
<1>6. PresenceTypeOK'
  <2>1. here' \in [Peer -> Place] /\ published' \in [Peer -> Place \cup {Nowhere}] /\ gone' \in [Peer -> BOOLEAN]
    BY <1>1, <1>3 DEF PInv, PresenceTypeOK
  <2> QED BY <1>4, <1>5, <2>1, TypesTogether
<1>7. ViewCatchesUp'
  <2>1. ASSUME NEW q \in Peer, Live(q)' PROVE Applied(q, view[q], down'[q]) = Truth(q)'
    <3>1. q # c /\ Live(q) /\ down'[q] = down[q]
      BY <1>1, <1>2, <2>1 DEF Live
    <3>2. Truth(q)' = Truth(q)
      BY <1>1 DEF Truth, OnMap, Joined
    <3> QED BY <3>1, <3>2 DEF PInv, ViewCatchesUp
  <2> QED BY <1>1, <2>1 DEF ViewCatchesUp
<1> QED BY <1>4, <1>5, <1>6, <1>7 DEF PInv

\* The server reads a message.
LEMMA ServerPInv ==
  ASSUME PInv, NEW c \in Peer, ServerStep(c)
  PROVE  PInv'
<1>1. /\ IInv /\ StreamsOK /\ ViewCatchesUp /\ gone \in [Peer -> BOOLEAN]
      /\ up \in [Peer -> Seq(ClientMessage)] /\ up[c] \in Seq(ClientMessage) /\ up[c] # <<>>
      /\ Deliver /\ UNCHANGED clientVars /\ up' = [up EXCEPT ![c] = Tail(@)]
  BY DEF PInv, PresenceTypeOK, StreamsOK, ServerStep
<1>2. Head(up[c]) \in ClientMessage /\ Tail(up[c]) \in Seq(ClientMessage) /\ Handle(c, Head(up[c]))
  BY <1>1, HeadTailProperties DEF ServerStep
<1>3. IInv' /\ Informs
  BY <1>1, <1>2, HandleIInv, HandleInforms
<1>4. view' \in [Peer -> Views] /\ down' \in [Peer -> Seq(ServerMessage)] /\ ViewCatchesUp'
  BY <1>1, <1>3, ServerViews
<1>5. JoinsFirst' /\ ReportsArrive'
  BY ReadReports DEF ServerStep
<1>6. up' \in [Peer -> Seq(ClientMessage)]
  BY <1>1, <1>2
<1>7. StreamsOK'
  BY <1>4, <1>6 DEF StreamsOK
<1>8. PresenceTypeOK'
  <2>1. here' \in [Peer -> Place] /\ published' \in [Peer -> Place \cup {Nowhere}] /\ gone' \in [Peer -> BOOLEAN]
    BY <1>1 DEF PInv, PresenceTypeOK, clientVars
  <2> QED BY <1>3, <1>7, <2>1, TypesTogether
<1> QED BY <1>3, <1>4, <1>5, <1>7, <1>8 DEF PInv

\* The server finds a connection gone.
LEMMA ServerLostPInv ==
  ASSUME PInv, NEW c \in Peer, ServerLost(c)
  PROVE  PInv'
<1>1. /\ IInv /\ TypeOK /\ StreamsOK /\ ViewCatchesUp /\ gone \in [Peer -> BOOLEAN]
      /\ up \in [Peer -> Seq(ClientMessage)] /\ Disconnect(c)
      /\ Deliver /\ UNCHANGED clientVars /\ up' = [up EXCEPT ![c] = <<>>]
  BY DEF PInv, IInv, PresenceTypeOK, StreamsOK, ServerLost
<1>2. IInv' /\ Informs
  BY <1>1, DisconnectIInv, DisconnectInforms
<1>3. view' \in [Peer -> Views] /\ down' \in [Peer -> Seq(ServerMessage)] /\ ViewCatchesUp'
  BY <1>1, <1>2, ServerViews
<1>4. up' \in [Peer -> Seq(ClientMessage)] /\ \A q \in Peer \ {c} : up'[q] = up[q]
  <2>1. <<>> \in Seq(ClientMessage)
    OBVIOUS
  <2> QED BY <1>1, <2>1
<1>5. StreamsOK'
  BY <1>3, <1>4 DEF StreamsOK
<1>6. PresenceTypeOK'
  <2>1. here' \in [Peer -> Place] /\ published' \in [Peer -> Place \cup {Nowhere}] /\ gone' \in [Peer -> BOOLEAN]
    BY <1>1 DEF PInv, PresenceTypeOK, clientVars
  <2> QED BY <1>2, <1>5, <2>1, TypesTogether
<1>7. /\ conn'[c] = "closed" /\ published' = published
      /\ \A q \in Peer \ {c} : conn'[q] = conn[q] /\ place'[q] = place[q]
      /\ drawn' = drawn
  <2>1. conn'[c] = "closed" /\ drawn' = drawn
    BY <1>1 DEF Disconnect, TypeOK, matches
  <2> QED BY <1>1, <2>1, HandlerMoves DEF clientVars
<1>8. ASSUME NEW q \in Peer, conn'[q] # "closed" PROVE Announced(q)'
  BY <1>4, <1>7, <1>8, ReportsStay DEF PInv, JoinsFirst
<1>9. ASSUME drawn' = 0, NEW q \in Peer, conn'[q] # "closed", published'[q] # Nowhere
      PROVE  ReportedLast(q, published[q])'
  <2>1. PICK at : at = published[q]
    OBVIOUS
  <2>2. q # c /\ ReportedLast(q, at)
    BY <1>7, <1>9, <2>1 DEF PInv, ReportsArrive
  <2>3. ReportedLast(q, at)'
    BY <1>4, <1>7, <2>2, ReportsStay
  <2> QED BY <1>7, <2>1, <2>3 DEF ReportedLast
<1> QED BY <1>2, <1>3, <1>5, <1>6, <1>8, <1>9 DEF PInv, JoinsFirst, ReportsArrive

\* Every step keeps the invariant.
LEMMA StepPInv == PInv /\ [PresenceNext]_allVars => PInv'
<1> SUFFICES ASSUME PInv, [PresenceNext]_allVars PROVE PInv'
  OBVIOUS
<1>1. CASE UNCHANGED allVars
  <2>1. UNCHANGED state /\ UNCHANGED <<view, down, conn, place, gone, up, published, drawn, here>>
    BY <1>1 DEF allVars, vars, clientVars, state
  <2>2. IInv' /\ JoinsFirst' /\ ReportsArrive' /\ ViewCatchesUp'
    BY <2>1, StutterIInv, ReportsKept, ViewsKept DEF PInv
  <2>3. StreamsOK'
    BY <2>1 DEF PInv, StreamsOK
  <2>4. PresenceTypeOK'
    <3>1. here' \in [Peer -> Place] /\ published' \in [Peer -> Place \cup {Nowhere}] /\ gone' \in [Peer -> BOOLEAN]
      BY <2>1 DEF PInv, PresenceTypeOK
    <3> QED BY <2>2, <2>3, <3>1, TypesTogether
  <2> QED BY <2>2, <2>3, <2>4 DEF PInv
<1>2. CASE \E c \in Peer : \E n \in 0..Len(down[c]) : ClientUpdate(c, n)
  BY <1>2, UpdatePInv
<1>3. CASE \E c \in Peer : Walk(c)
  BY <1>3, WalkPInv
<1>4. CASE \E c \in Peer : \E m \in AppMessages : SendApp(c, m)
  BY <1>4, AppPInv
<1>5. CASE \E c \in Peer : ClientLost(c)
  BY <1>5, LostPInv
<1>6. CASE \E c \in Peer : ServerStep(c)
  BY <1>6, ServerPInv
<1>7. CASE \E c \in Peer : ServerLost(c)
  BY <1>7, ServerLostPInv
<1> QED BY <1>1, <1>2, <1>3, <1>4, <1>5, <1>6, <1>7 DEF PresenceNext

\* Server, streams and clients keep the invariant together, for ever.
THEOREM PresenceSafety == PresenceSpec => []PInv
  BY InitPInv, StepPInv, PTL DEF PresenceSpec

\* Streams and clients hold values of their kind (WorldClient.lua:46-55).
THEOREM PresenceTyped == PresenceSpec => []PresenceTypeOK
<1>1. PInv => PresenceTypeOK
  BY DEF PInv
<1> QED BY <1>1, PresenceSafety, PTL

\* What is on its way to a client brings his view exactly to what the coordinator has
\* (WorldClient.lua:107-157 against mmo-coordinator.ts:65-110).
THEOREM ViewsCatchUp == PresenceSpec => []ViewCatchesUp
<1>1. PInv => ViewCatchesUp
  BY DEF PInv
<1> QED BY <1>1, PresenceSafety, PTL

\* No report of a client's is forgotten while nobody fights (WorldClient.lua:175-196).
THEOREM ReportsReach == PresenceSpec => []ReportsArrive
<1>1. PInv => ReportsArrive
  BY DEF PInv
<1> QED BY <1>1, PresenceSafety, PTL
=============================================================================
