---------------------------- MODULE LinkTradeProofs ----------------------------
(***************************************************************************)
(* What the link promises two players who trade holds whatever they bring, *)
(* however many messages a frame brings, and wherever the link breaks.     *)
(*                                                                         *)
(* A game sees its peer only through messages, which may be late.  So the  *)
(* invariant says what they mean: each says something that was so when it  *)
(* was sent and stays so (Says, Later), and what a session keeps of its    *)
(* peer's is what it was told (Knows).  That nobody is robbed needs more:  *)
(* while nothing breaks, a confirmation is on its way until it is read     *)
(* (Delivered), one who is done has still to be told to the other by the   *)
(* other's own end (Pending, Alone), and a link is closed by a game that   *)
(* has ended (Closing).                                                    *)
(***************************************************************************)
EXTENDS LinkTrade, ListInduction

Stages == Over \cup {"modeSelect", "battleOptions", "waitHello", "waitMode", "notice", "trade", "battleWait"}
Trades == {"none", "waitRecords", "waitParty", "picking", "waitPick", "confirming", "done", "cancelled"}
Verdicts == {"none", "refused", "vanilla_peer", "engine_skew", "subset", "full"}

Slot == Nat \ {0}

\* What games say, and with what a stream ends.
Speech ==
       [type : {"records", "confirm", "bye"}]
  \cup [type : {"hello"}, mode : Mode]
  \cup [type : {"party"}, mons : Seq(Slot)]
  \cup [type : {"pick"}, index : Nat]
Message == Speech \cup {Gone, Failed}

LinkGame ==
  [stage : Stages, mode : Mode, heard : BOOLEAN, verdict : Verdicts,
   inbox : Seq(Speech), out : Seq(Speech), closed : BOOLEAN,
   trade : Trades, limited : BOOLEAN, sends : Seq(Slot), theirs : Seq(Slot),
   myPick : Nat, theirPick : Nat, mine : BOOLEAN, their : BOOLEAN, got : Nat]

TradeTyped ==
  /\ pairing \in Pairing /\ modified \in BOOLEAN /\ relay \in BOOLEAN
  /\ party \in [Player -> Seq(Fate)]
  /\ game \in [Player -> LinkGame]
  /\ wire \in [Player -> Seq(Message)]
  /\ trouble \in {"none", "broken", "killed"}
  /\ pairing = "same" => \A s \in Player : \A i \in DOMAIN party[s] : party[s][i] = "shared"

\* No session yet.
Blank(g) ==
  /\ g.trade = "none" /\ ~g.limited /\ g.sends = <<>> /\ g.theirs = <<>>
  /\ g.myPick = 0 /\ g.theirPick = 0 /\ ~g.mine /\ ~g.their /\ g.got = 0

Undecided == {"modeSelect", "waitHello", "waitMode"}
Trading   == {"picking", "waitPick", "confirming", "done"}

\* Where the handshake is, and what it has decided.
Shaken(s, g) ==
  /\ g.stage \in {"modeSelect", "waitHello", "battleOptions"} => s = "host"
  /\ g.stage = "waitMode" => s = "guest"
  /\ g.stage \in Undecided => g.verdict = "none"
  /\ g.verdict = "none" => Blank(g)
  /\ g.verdict = "full" => pairing = "same"
  /\ g.verdict = "vanilla_peer" => s = "host"
  /\ g.stage \in {"battleOptions", "battleWait", "battleRunning"} =>
       Blank(g) /\ g.mode = "battle" /\ g.verdict \in {"full", "vanilla_peer"}
  /\ g.stage = "battleRunning" => pairing = "same"
  /\ g.stage = "notice" => Blank(g) /\ g.verdict \notin {"none", "full", "vanilla_peer"}
  /\ g.stage = "trade" => g.mode = "trade" /\ g.verdict \notin {"none", "refused"} /\ g.trade # "none"
  /\ g.stage = "crashed" => g.verdict = "vanilla_peer"

\* The trade session: what each of its stages has behind it.
Session(s, g) ==
  /\ g.trade = "none" => Blank(g)
  /\ g.trade = "waitRecords" => g.verdict = "subset" /\ ~g.limited /\ g.sends = <<>>
  /\ g.trade \in {"waitRecords", "waitParty", "picking"} => g.myPick = 0
  /\ g.trade = "waitPick" => g.myPick # 0 /\ g.theirPick = 0
  /\ g.trade \in {"confirming", "done"} => g.myPick # 0 /\ g.theirPick # 0
  /\ g.mine => g.trade \in {"confirming", "done", "cancelled"} /\ g.myPick # 0 /\ g.theirPick # 0
  /\ g.trade = "confirming" => ~(g.mine /\ g.their)
  /\ g.trade = "done" => g.mine /\ g.their
  /\ g.trade \in {"waitParty"} \cup Trading => (g.limited <=> g.verdict = "subset")
  /\ \A k \in DOMAIN g.sends : g.sends[k] \in DOMAIN party[s] /\ (g.limited => party[s][g.sends[k]] = "shared")
  /\ g.trade \in {"waitParty"} \cup Trading /\ ~g.limited => \A i \in DOMAIN party[s] : Holds(g.sends, i)
  /\ g.got # 0 => /\ g.stage = "left" /\ g.trade = "done"
                  /\ g.theirPick \in DOMAIN g.theirs /\ g.got = g.theirs[g.theirPick]

\* m is true of o, who says it.
Says(p, o, m) ==
  /\ m.type = "hello" /\ p = "host" => o.stage # "modeSelect" /\ m.mode = o.mode
  /\ m.type = "records" => o.verdict = "subset"
  /\ m.type = "party" => /\ o.verdict \notin {"none", "refused"}
                         /\ o.mode = "battle" => o.verdict \in {"full", "vanilla_peer"}
                         /\ o.mode = "trade"  => /\ o.trade \notin {"none", "waitRecords"} /\ m.mons = o.sends
                                                 /\ o.verdict = "subset" => o.limited
  /\ m.type = "pick" => o.myPick # 0 /\ m.index \in DOMAIN o.sends /\ o.sends[m.index] = o.myPick
  /\ m.type = "confirm" => o.mine
  /\ m.type = "bye" => ~o.mine /\ o.stage \in Ended

\* What the object g of s holds of its peer's is true.
Knows(s, g, o) ==
  /\ s = "guest" /\ g.verdict # "none" => g.mode = o.mode /\ o.stage # "modeSelect"
  /\ g.limited => o.verdict = "subset"
  /\ g.theirPick # 0 => o.myPick # 0 /\ g.theirPick \in DOMAIN o.sends /\ o.sends[g.theirPick] = o.myPick
  /\ g.their => o.mine
  /\ g.trade \in Trading /\ Strict(g.verdict) =>
       /\ g.theirs = o.sends
       /\ \A k \in DOMAIN g.theirs :
            g.theirs[k] \in DOMAIN party[Peer(s)] => party[Peer(s)][g.theirs[k]] # "unknown"
       /\ o.trade \notin {"none", "waitRecords"} /\ (o.verdict = "subset" => o.limited)
  /\ g.trade = "cancelled" /\ g.mine => o.stage \in Ended /\ ~o.mine

Said(q, p, o) == \A i \in DOMAIN q : Says(p, o, q[i])

Good(s, g, o) == Shaken(s, g) /\ Session(s, g) /\ Knows(s, g, o) /\ Said(g.out, s, g)

\* Between frames: a cancelled session has been left, and a game that has ended is silent.
Settled(g) ==
  /\ g.stage = "trade" => g.trade # "cancelled"
  /\ g.stage \in Ended => g.inbox = <<>> /\ g.out = <<>>

Confirm == Msg("confirm")

\* A link without trouble.
Closing(g, o, w) ==
  /\ g.closed => o.stage \in Ended /\ w = <<>>
  /\ \A i \in DOMAIN w : w[i] \in {Gone, Failed} => w[i] = Gone /\ i = Len(w) /\ o.stage \in Ended
Delivered(g, o, w) ==
  g.stage \notin Ended /\ o.mine => g.their \/ Holds(g.inbox, Confirm) \/ Holds(w, Confirm) \/ Holds(o.out, Confirm)
Pending(g, o, back) ==
  g.stage = "trade" /\ g.trade = "done" => ~o.their /\ ~Holds(o.inbox, Confirm) /\ ~Holds(back, Confirm)
Alone(g, o) ==
  g.stage = "left" /\ g.got = 0 /\ g.mine => o.stage \in Ended /\ (~o.mine \/ o.stage = "crashed")
Calm(g, o, w, back) == g.stage # "killed" /\ Closing(g, o, w) /\ Delivered(g, o, w) /\ Pending(g, o, back) /\ Alone(g, o)

Sound(s, g, o, w) == Good(s, g, o) /\ Settled(g) /\ Said(g.inbox, Peer(s), o) /\ Said(w, Peer(s), o)

TradeInv ==
  /\ TradeTyped
  /\ \A s \in Player : /\ Sound(s, game[s], game[Peer(s)], wire[s])
                       /\ trouble = "none" => Calm(game[s], game[Peer(s)], wire[s], wire[Peer(s)])

-----------------------------------------------------------------------------
LEMMA Players ==
  ASSUME NEW s \in Player
  PROVE  Peer(s) \in Player /\ Peer(s) # s /\ Peer(Peer(s)) = s /\ Player = {s, Peer(s)}
<1>1. Peer("host") = "guest" /\ Peer("guest") = "host"
  BY DEF Peer, Player
<1> QED BY <1>1 DEF Player

\* f may become h, and what was true of f and told, is true of h.
Later(p, f, h) ==
  /\ f.verdict # "none" => h.verdict = f.verdict /\ h.mode = f.mode
  /\ p = "host" /\ f.stage # "modeSelect" => h.stage # "modeSelect" /\ h.mode = f.mode
  /\ f.trade \notin {"none", "waitRecords"} =>
       h.trade \notin {"none", "waitRecords"} /\ h.sends = f.sends /\ h.limited = f.limited
  /\ f.myPick # 0 => h.myPick = f.myPick
  /\ f.mine => h.mine
  /\ f.stage \in Ended => h.stage \in Ended /\ h.mine = f.mine

LEMMA LaterSays ==
  ASSUME NEW p, NEW f, NEW h, NEW m, Session(p, f), Later(p, f, h), Says(p, f, m)
  PROVE  Says(p, h, m)
  BY DEF Session, Blank, Later, Says, Trading

LEMMA LaterSaid ==
  ASSUME NEW p, NEW f, NEW h, NEW q, Session(p, f), Later(p, f, h), Said(q, p, f)
  PROVE  Said(q, p, h)
  BY LaterSays DEF Said

LEMMA LaterKnows ==
  ASSUME NEW s \in Player, NEW g, NEW f, NEW h, Session(Peer(s), f), Later(Peer(s), f, h), Knows(s, g, f),
         f.verdict = "none" => f.trade = "none"
  PROVE  Knows(s, g, h)
<1>1. s = "guest" => Peer(s) = "host"
  BY Players DEF Player
<1> QED BY <1>1 DEF Session, Blank, Later, Knows, Trading, Strict

-----------------------------------------------------------------------------
(* Lists.                                                                  *)

\* g is what is left of q, item after item.
Drops(g, q, out) ==
  /\ g[0] = <<>> /\ Dropping(q, out) = g[Len(q)]
  /\ \A n \in 1..Len(q) : g[n] = IF q[n] \in out THEN g[n - 1] ELSE Append(g[n - 1], q[n])

LEMMA DroppingCourse ==
  ASSUME NEW X, NEW q \in Seq(X), NEW out
  PROVE  \E g \in [0..Len(q) -> Seq(X)] : Drops(g, q, out)
<1> DEFINE E(g) == [n \in 0..Len(q) |-> IF n = 0 THEN <<>>
                                       ELSE IF q[n] \in out THEN g[n - 1] ELSE Append(g[n - 1], q[n])]
           kept == CHOOSE g : g = E(g)
<1>1. Dropping(q, out) = kept[Len(q)]
  BY DEF Dropping
<1>2. PICK F \in [Seq(X) \X X -> Seq(X)] :
        F = [rx \in Seq(X) \X X |-> IF rx[2] \in out THEN rx[1] ELSE Append(rx[1], rx[2])]
  <2>1. \A r \in Seq(X), x \in X : Append(r, x) \in Seq(X)
    BY AppendProperties
  <2> QED BY <2>1
<1>3. PICK g \in [0..Len(q) -> Seq(X)] : Course(g, F, <<>>, q)
  <2>1. <<>> \in Seq(X)
    OBVIOUS
  <2> QED BY <2>1, CourseExists
<1>4. Len(q) \in Nat /\ \A n \in 1..Len(q) : q[n] \in X
  BY LenProperties, ElementOfSeq
<1>5. \A n \in 1..Len(q) : g[n] = IF q[n] \in out THEN g[n - 1] ELSE Append(g[n - 1], q[n])
  <2> SUFFICES ASSUME NEW n \in 1..Len(q)
               PROVE  g[n] = IF q[n] \in out THEN g[n - 1] ELSE Append(g[n - 1], q[n])
    OBVIOUS
  <2>1. n - 1 \in 0..Len(q) /\ q[n] \in X
    BY <1>4
  <2>2. g[n - 1] \in Seq(X) /\ g[n] = F[<<g[n - 1], q[n]>>]
    BY <1>3, <2>1 DEF Course
  <2> QED BY <1>2, <2>1, <2>2
<1>6. g[0] = <<>>
  BY <1>3 DEF Course
<1>7. g = E(g)
  <2>1. ASSUME NEW n \in 0..Len(q)
        PROVE  g[n] = IF n = 0 THEN <<>> ELSE IF q[n] \in out THEN g[n - 1] ELSE Append(g[n - 1], q[n])
    <3>1. CASE n = 0
      BY <1>6, <3>1
    <3>2. CASE n # 0
      <4>1. n \in 1..Len(q)
        BY <1>4, <3>2
      <4> QED BY <1>5, <3>2, <4>1
    <3> QED BY <3>1, <3>2
  <2> QED BY <2>1
<1> HIDE DEF E
<1>8. kept = E(kept)
  BY <1>7
<1> HIDE DEF kept
<1>9. \A n \in 0..Len(q) : kept[n] = IF n = 0 THEN <<>>
                                    ELSE IF q[n] \in out THEN kept[n - 1] ELSE Append(kept[n - 1], q[n])
  BY <1>8 DEF E
<1> DEFINE T == {n \in 0..Len(q) : kept[n] = g[n]}
<1>10. 0 \in T
  BY <1>4, <1>6, <1>9
<1>11. ASSUME NEW n \in 0..Len(q), n \in T, n < Len(q) PROVE n + 1 \in T
  <2>1. n + 1 \in 1..Len(q) /\ n + 1 \in 0..Len(q) /\ n + 1 # 0 /\ (n + 1) - 1 = n /\ kept[n] = g[n]
    BY <1>4, <1>11
  <2>2. kept[n + 1] = IF q[n + 1] \in out THEN kept[n] ELSE Append(kept[n], q[n + 1])
    BY <1>9, <2>1
  <2>3. g[n + 1] = IF q[n + 1] \in out THEN g[n] ELSE Append(g[n], q[n + 1])
    BY <1>5, <2>1
  <2> QED BY <2>1, <2>2, <2>3
<1> HIDE DEF T
<1>12. 0..Len(q) \subseteq T
  BY <1>4, <1>10, <1>11, Inductive
<1>13. kept[Len(q)] = g[Len(q)]
  BY <1>4, <1>12 DEF T
<1> QED BY <1>1, <1>3, <1>5, <1>6, <1>13 DEF Drops

\* What is dropped is gone, everything else stays, and nothing is added.
LEMMA DroppingPicks ==
  ASSUME NEW X, NEW q \in Seq(X), NEW out
  PROVE  /\ Dropping(q, out) \in Seq(X \ out)
         /\ \A k \in DOMAIN Dropping(q, out) : Holds(q, Dropping(q, out)[k])
         /\ \A m : Holds(q, m) /\ m \notin out => Holds(Dropping(q, out), m)
<1>0. PICK g \in [0..Len(q) -> Seq(X)] : Drops(g, q, out)
  BY DroppingCourse
<1>1. /\ g[0] = <<>> /\ Dropping(q, out) = g[Len(q)]
      /\ \A n \in 1..Len(q) : g[n] = IF q[n] \in out THEN g[n - 1] ELSE Append(g[n - 1], q[n])
  BY <1>0 DEF Drops
<1>2. Len(q) \in Nat /\ DOMAIN q = 1..Len(q) /\ \A n \in 1..Len(q) : q[n] \in X
  BY LenProperties, ElementOfSeq
<1> DEFINE Upto(n) == /\ g[n] \in Seq(X \ out)
                      /\ \A k \in DOMAIN g[n] : Holds(q, g[n][k])
                      /\ \A i \in 1..n : q[i] \notin out => Holds(g[n], q[i])
           T == {n \in 0..Len(q) : Upto(n)}
<1>3. 0 \in T
  <2>1. <<>> \in Seq(X \ out) /\ DOMAIN <<>> = {}
    OBVIOUS
  <2>2. Upto(0)
    BY <1>1, <2>1
  <2> QED BY <1>2, <2>2
<1>4. ASSUME NEW n \in 0..Len(q), n \in T, n < Len(q) PROVE n + 1 \in T
  <2>1. n + 1 \in 1..Len(q) /\ n + 1 \in 0..Len(q) /\ (n + 1) - 1 = n /\ q[n + 1] \in X /\ Upto(n)
    BY <1>2, <1>4
  <2>2. CASE q[n + 1] \in out
    <3>1. g[n + 1] = g[n]
      BY <1>1, <2>1, <2>2
    <3> QED BY <2>1, <2>2, <3>1
  <2>3. CASE q[n + 1] \notin out
    <3>1. g[n + 1] = Append(g[n], q[n + 1])
      BY <1>1, <2>1, <2>3
    <3>2. /\ g[n + 1] \in Seq(X \ out) /\ Len(g[n]) \in Nat /\ Len(g[n + 1]) = Len(g[n]) + 1
          /\ DOMAIN g[n] = 1..Len(g[n]) /\ DOMAIN g[n + 1] = 1..Len(g[n + 1])
          /\ g[n + 1][Len(g[n]) + 1] = q[n + 1]
          /\ \A k \in 1..Len(g[n]) : g[n + 1][k] = g[n][k]
      BY <2>1, <2>3, <3>1, AppendProperties, LenProperties
    <3>3. ASSUME NEW k \in DOMAIN g[n + 1] PROVE Holds(q, g[n + 1][k])
      <4>1. CASE k = Len(g[n]) + 1
        BY <1>2, <2>1, <3>2, <4>1 DEF Holds
      <4>2. CASE k # Len(g[n]) + 1
        <5>1. k \in DOMAIN g[n] /\ g[n + 1][k] = g[n][k]
          BY <3>2, <4>2
        <5> QED BY <2>1, <5>1
      <4> QED BY <4>1, <4>2
    <3>4. ASSUME NEW i \in 1..(n + 1), q[i] \notin out PROVE Holds(g[n + 1], q[i])
      <4>1. CASE i = n + 1
        BY <3>2, <4>1 DEF Holds
      <4>2. CASE i # n + 1
        <5>1. i \in 1..n
          BY <2>1, <4>2
        <5>2. PICK k \in DOMAIN g[n] : g[n][k] = q[i]
          BY <2>1, <3>4, <5>1 DEF Holds
        <5> QED BY <3>2, <5>2 DEF Holds
      <4> QED BY <4>1, <4>2
    <3>5. Upto(n + 1)
      BY <3>2, <3>3, <3>4
    <3> QED BY <2>1, <3>5
  <2> QED BY <2>2, <2>3
<1> HIDE DEF T
<1>5. 0..Len(q) \subseteq T
  BY <1>2, <1>3, <1>4, Inductive
<1>6. Upto(Len(q))
  BY <1>2, <1>5 DEF T
<1> QED BY <1>1, <1>2, <1>6 DEF Holds

\* A list with nothing to drop stays as it is.
LEMMA DroppingNothing ==
  ASSUME NEW X, NEW q \in Seq(X), NEW out, \A i \in DOMAIN q : q[i] \notin out
  PROVE  Dropping(q, out) = q
<1>0. PICK g \in [0..Len(q) -> Seq(X)] : Drops(g, q, out)
  BY DroppingCourse
<1>1. /\ g[0] = <<>> /\ Dropping(q, out) = g[Len(q)]
      /\ \A n \in 1..Len(q) : g[n] = IF q[n] \in out THEN g[n - 1] ELSE Append(g[n - 1], q[n])
  BY <1>0 DEF Drops
<1>2. Len(q) \in Nat /\ DOMAIN q = 1..Len(q) /\ \A n \in 1..Len(q) : q[n] \in X
  BY LenProperties, ElementOfSeq
<1> DEFINE T == {n \in 0..Len(q) : Len(g[n]) = n /\ \A i \in 1..n : g[n][i] = q[i]}
<1>3. 0 \in T
  BY <1>1, <1>2
<1>4. ASSUME NEW n \in 0..Len(q), n \in T, n < Len(q) PROVE n + 1 \in T
  <2>1. n + 1 \in 1..Len(q) /\ n + 1 \in 0..Len(q) /\ (n + 1) - 1 = n /\ q[n + 1] \in X /\ g[n] \in Seq(X)
    BY <1>2, <1>4
  <2>2. g[n + 1] = Append(g[n], q[n + 1])
    BY <1>1, <1>2, <2>1
  <2>3. Len(g[n + 1]) = n + 1 /\ g[n + 1][n + 1] = q[n + 1] /\ \A i \in 1..n : g[n + 1][i] = g[n][i]
    BY <1>4, <2>1, <2>2, AppendProperties
  <2>4. ASSUME NEW i \in 1..(n + 1) PROVE g[n + 1][i] = q[i]
    <3>1. CASE i = n + 1
      BY <2>3, <3>1
    <3>2. CASE i # n + 1
      <4>1. i \in 1..n
        BY <2>1, <3>2
      <4> QED BY <1>4, <2>3, <4>1
    <3> QED BY <3>1, <3>2
  <2> QED BY <2>1, <2>3, <2>4
<1> HIDE DEF T
<1>5. 0..Len(q) \subseteq T
  BY <1>2, <1>3, <1>4, Inductive
<1>6. Len(g[Len(q)]) = Len(q) /\ \A i \in 1..Len(q) : g[Len(q)][i] = q[i]
  BY <1>2, <1>5 DEF T
<1> QED BY <1>1, <1>2, <1>6, LenProperties

\* A list without some values has none of them.
LEMMA InSmaller ==
  ASSUME NEW X, NEW out, NEW q \in Seq(X \ out)
  PROVE  q \in Seq(X) /\ \A k \in DOMAIN q : q[k] \notin out
<1>1. Len(q) \in Nat /\ DOMAIN q = 1..Len(q) /\ \A k \in 1..Len(q) : q[k] \in X \ out
  BY ElementOfSeq, LenProperties
<1>2. X \ out \subseteq X
  OBVIOUS
<1>3. q \in Seq(X)
  BY <1>2, SeqMonotonic
<1> QED BY <1>1, <1>3

LEMMA SaidConcat ==
  ASSUME NEW X, NEW q \in Seq(X), NEW r \in Seq(X), NEW p, NEW o, Said(q, p, o), Said(r, p, o)
  PROVE  Said(q \o r, p, o)
<1>1. /\ Len(q) \in Nat /\ Len(r) \in Nat /\ DOMAIN q = 1..Len(q) /\ DOMAIN r = 1..Len(r)
      /\ DOMAIN (q \o r) = 1..Len(q) + Len(r)
      /\ \A i \in 1..Len(q) + Len(r) : (q \o r)[i] = IF i <= Len(q) THEN q[i] ELSE r[i - Len(q)]
  BY LenProperties, ConcatProperties
<1>2. ASSUME NEW i \in 1..Len(q) + Len(r) PROVE Says(p, o, (q \o r)[i])
  <2>1. CASE i <= Len(q)
    <3>1. i \in 1..Len(q)
      BY <2>1
    <3> QED BY <1>1, <2>1, <3>1 DEF Said
  <2>2. CASE ~(i <= Len(q))
    <3>1. i - Len(q) \in 1..Len(r)
      BY <1>1, <2>2
    <3> QED BY <1>1, <2>2, <3>1 DEF Said
  <2> QED BY <2>1, <2>2
<1> QED BY <1>1, <1>2 DEF Said

LEMMA SaidAppend ==
  ASSUME NEW X, NEW q \in Seq(X), NEW m \in X, NEW p, NEW o, Said(q, p, o), Says(p, o, m)
  PROVE  Said(Append(q, m), p, o)
<1>1. /\ Len(q) \in Nat /\ DOMAIN q = 1..Len(q) /\ DOMAIN Append(q, m) = 1..(Len(q) + 1)
      /\ Append(q, m)[Len(q) + 1] = m /\ \A i \in 1..Len(q) : Append(q, m)[i] = q[i]
  BY LenProperties, AppendProperties
<1>2. ASSUME NEW i \in 1..(Len(q) + 1) PROVE Says(p, o, Append(q, m)[i])
  <2>1. CASE i = Len(q) + 1
    BY <1>1, <2>1
  <2>2. CASE i # Len(q) + 1
    <3>1. i \in 1..Len(q)
      BY <1>1, <2>2
    <3> QED BY <1>1, <3>1 DEF Said
  <2> QED BY <2>1, <2>2
<1> QED BY <1>1, <1>2 DEF Said

\* Part of a list, as long as each item is one of it.
LEMMA SaidPart ==
  ASSUME NEW q, NEW r, NEW p, NEW o, Said(q, p, o), \A i \in DOMAIN r : Holds(q, r[i])
  PROVE  Said(r, p, o)
<1>1. ASSUME NEW i \in DOMAIN r PROVE Says(p, o, r[i])
  BY DEF Said, Holds
<1> QED BY <1>1 DEF Said

LEMMA SubSeqPart ==
  ASSUME NEW X, NEW q \in Seq(X), NEW a \in 1..(Len(q) + 1), NEW b \in 0..Len(q)
  PROVE  /\ SubSeq(q, a, b) \in Seq(X)
         /\ \A i \in DOMAIN SubSeq(q, a, b) : Holds(q, SubSeq(q, a, b)[i])
<1>1. Len(q) \in Nat /\ DOMAIN q = 1..Len(q)
  BY LenProperties
<1>2. CASE a <= b
  <2>1. /\ SubSeq(q, a, b) \in Seq(X) /\ DOMAIN SubSeq(q, a, b) = 1..(b - a + 1)
        /\ \A i \in 1..(b - a + 1) : SubSeq(q, a, b)[i] = q[a + i - 1]
    BY <1>1, <1>2, SubSeqProperties, LenProperties
  <2>2. \A i \in 1..(b - a + 1) : a + i - 1 \in DOMAIN q
    BY <1>1, <1>2
  <2> QED BY <2>1, <2>2 DEF Holds
<1>3. CASE ~(a <= b)
  <2>1. SubSeq(q, a, b) = <<>>
    BY <1>1, <1>3
  <2> QED BY <2>1
<1> QED BY <1>2, <1>3

-----------------------------------------------------------------------------
(* What a message of the peer's makes of a session.                        *)

Kept(h, t) ==
  /\ t.stage = h.stage /\ t.mode = h.mode /\ t.verdict = h.verdict /\ t.inbox = h.inbox
  /\ t.closed = h.closed /\ t.got = h.got /\ t.mine = h.mine /\ t.myPick = h.myPick
  /\ t.trade # "none" /\ (h.their => t.their)
  /\ h.trade # "waitRecords" => t.trade # "waitRecords" /\ t.sends = h.sends /\ t.limited = h.limited

\* A game in a session, whose peer is o.
InSession(s, h, o) ==
  /\ h \in LinkGame /\ h.stage = "trade" /\ h.got = 0 /\ Good(s, h, o)

LEMMA KeptIsLater ==
  ASSUME NEW s \in Player, NEW h, NEW o, NEW t, InSession(s, h, o), Kept(h, t)
  PROVE  Later(s, h, t)
  BY DEF InSession, Kept, Later, Good, Shaken, Ended, Over

LEMMA KeptSays ==
  ASSUME NEW s \in Player, NEW h, NEW o, NEW t, InSession(s, h, o), Kept(h, t)
  PROVE  Said(h.out, s, t)
  BY KeptIsLater, LaterSaid DEF InSession, Good

\* The slots of a party, as a list.
LEMMA Slots ==
  ASSUME NEW p \in Seq(Fate)
  PROVE  /\ [i \in DOMAIN p |-> i] \in Seq(DOMAIN p) /\ DOMAIN [i \in DOMAIN p |-> i] = DOMAIN p
         /\ [i \in DOMAIN p |-> i] \in Seq(Slot) /\ DOMAIN p \subseteq Slot
<1>1. Len(p) \in Nat /\ DOMAIN p = 1..Len(p)
  BY LenProperties
<1> QED BY <1>1 DEF Slot

LEMMA NegotiateKeeps ==
  ASSUME party \in [Player -> Seq(Fate)], NEW s \in Player, NEW h, NEW o, InSession(s, h, o),
         h.trade = "waitRecords", o.verdict = "subset"
  PROVE  InSession(s, Negotiate(s, h), o) /\ Kept(h, Negotiate(s, h)) /\ Negotiate(s, h).their = h.their
<1> DEFINE all == [i \in DOMAIN party[s] |-> i]
           eligible == Dropping(all, {i \in DOMAIN party[s] : party[s][i] # "shared"})
           t == [h EXCEPT !.trade = "waitParty", !.limited = TRUE, !.sends = eligible,
                          !.out = Append(h.out, Mons(eligible))]
<1>1. Negotiate(s, h) = t
  BY DEF Negotiate, Send, InSession, LinkGame
<1>2. all \in Seq(Slot) /\ DOMAIN all = DOMAIN party[s] /\ party[s] \in Seq(Fate)
  BY Slots
<1>3. eligible \in Seq(Slot) /\ \A k \in DOMAIN eligible : eligible[k] \in DOMAIN party[s] /\ party[s][eligible[k]] = "shared"
  <2>1. /\ eligible \in Seq(Slot \ {i \in DOMAIN party[s] : party[s][i] # "shared"})
        /\ \A k \in DOMAIN eligible : Holds(all, eligible[k])
    BY <1>2, DroppingPicks
  <2>2. \A k \in DOMAIN eligible : eligible[k] \in Slot \ {i \in DOMAIN party[s] : party[s][i] # "shared"}
    BY <2>1, ElementOfSeq, LenProperties
  <2>3. \A k \in DOMAIN eligible : eligible[k] \in DOMAIN party[s]
    BY <1>2, <2>1 DEF Holds
  <2>4. eligible \in Seq(Slot)
    BY <2>1, SeqMonotonic
  <2> QED BY <2>2, <2>3, <2>4
<1> HIDE DEF eligible
<1>4. Mons(eligible) \in Speech /\ Mons(eligible).type = "party" /\ Mons(eligible).mons = eligible
  BY <1>3 DEF Mons, Speech
<1>5. h.out \in Seq(Speech) /\ h.sends = <<>> /\ h.verdict = "subset" /\ h.mode = "trade" /\ h.myPick = 0 /\ ~h.mine
  BY DEF InSession, LinkGame, Good, Session, Shaken
<1>6. t \in LinkGame
  <2>1. Append(h.out, Mons(eligible)) \in Seq(Speech)
    BY <1>4, <1>5, AppendProperties
  <2> QED BY <1>3, <2>1 DEF InSession, LinkGame, Trades
<1>7. Kept(h, t) /\ t.their = h.their
  BY DEF InSession, LinkGame, Kept
<1>8. Shaken(s, t)
  BY <1>5 DEF InSession, LinkGame, Good, Shaken, Blank, Undecided, Over
<1>9. Session(s, t)
  BY <1>3, <1>5 DEF InSession, LinkGame, Good, Session, Trading
<1>10. Knows(s, t, o)
  BY <1>5 DEF InSession, LinkGame, Good, Knows, Trading
<1>11. Said(t.out, s, t)
  <2>1. Said(h.out, s, t)
    BY <1>7, KeptSays
  <2>2. Says(s, t, Mons(eligible))
    BY <1>4, <1>5 DEF InSession, LinkGame, Says
  <2>3. t.out = Append(h.out, Mons(eligible))
    BY DEF InSession, LinkGame
  <2> QED BY <1>4, <1>5, <2>1, <2>2, <2>3, SaidAppend
<1>12. t.stage = "trade" /\ t.got = 0
  BY DEF InSession, LinkGame
<1> QED BY <1>1, <1>6, <1>7, <1>8, <1>9, <1>10, <1>11, <1>12 DEF InSession, Good

\* What has come of the peer's session.
Tell(s, o, m) == m \in Speech /\ Says(Peer(s), o, m) /\ (o.verdict # "none" => o.mode = "trade")

LEMMA TakePartyKeeps ==
  ASSUME party \in [Player -> Seq(Fate)], NEW s \in Player, NEW h, NEW o, InSession(s, h, o),
         NEW m, m.type = "party", Tell(s, o, m)
  PROVE  InSession(s, TakeParty(s, h, m.mons), o) /\ Kept(h, TakeParty(s, h, m.mons))
         /\ TakeParty(s, h, m.mons).their = h.their
<1> DEFINE unknown == {i \in DOMAIN party[Peer(s)] : party[Peer(s)][i] = "unknown"}
           known == Dropping(m.mons, unknown)
           t == [h EXCEPT !.theirs = known, !.trade = IF h.trade = "waitParty" THEN "picking" ELSE h.trade]
           c == [h EXCEPT !.trade = "cancelled"]
<1>1. /\ m.mons \in Seq(Slot) /\ m.mons = o.sends /\ o.trade \notin {"none", "waitRecords"}
      /\ o.verdict = "subset" => o.limited
  BY DEF Tell, Speech, Says, Mode
<1>2. known \in Seq(Slot) /\ \A k \in DOMAIN known : known[k] \notin unknown
  <2>1. known \in Seq(Slot \ unknown)
    BY <1>1, DroppingPicks
  <2> HIDE DEF known, unknown
  <2> QED BY <2>1, InSmaller
<1>4. h.trade \in Trading /\ Strict(h.verdict) => known = m.mons
  <2> SUFFICES ASSUME h.trade \in Trading, Strict(h.verdict) PROVE known = m.mons
    OBVIOUS
  <2>1. \A k \in DOMAIN m.mons : m.mons[k] \notin unknown
    BY <1>1 DEF InSession, Good, Knows
  <2> QED BY <1>1, <2>1, DroppingNothing
<1>5. TakeParty(s, h, m.mons) = IF Strict(h.verdict) /\ known # m.mons THEN c ELSE t
  BY DEF TakeParty, InSession, LinkGame
<1> HIDE DEF known
<1>6. CASE Strict(h.verdict) /\ known # m.mons
  <2>1. c \in LinkGame /\ Kept(h, c) /\ c.their = h.their /\ c.stage = "trade" /\ c.got = 0 /\ c.out = h.out
    BY DEF InSession, LinkGame, Trades, Kept
  <2>2. Shaken(s, c)
    BY DEF InSession, LinkGame, Good, Shaken, Blank, Undecided, Over, Ended
  <2>3. ~h.mine \/ h.trade = "cancelled"
    BY <1>4, <1>6 DEF InSession, Good, Session, Trading
  <2>4. Session(s, c)
    BY <2>3 DEF InSession, LinkGame, Good, Session, Trading
  <2>5. Knows(s, c, o)
    BY <2>3 DEF InSession, LinkGame, Good, Knows, Trading
  <2>6. Said(c.out, s, c)
    BY <2>1, KeptSays
  <2> QED BY <1>5, <1>6, <2>1, <2>2, <2>4, <2>5, <2>6 DEF InSession, Good
<1>7. CASE ~(Strict(h.verdict) /\ known # m.mons)
  <2>1. t \in LinkGame /\ Kept(h, t) /\ t.their = h.their /\ t.stage = "trade" /\ t.got = 0 /\ t.out = h.out
    BY <1>2 DEF InSession, LinkGame, Trades, Kept, Good, Shaken
  <2>2. Shaken(s, t)
    BY DEF InSession, LinkGame, Good, Shaken, Blank, Undecided, Over, Ended
  <2>4. Session(s, t)
    BY DEF InSession, LinkGame, Good, Session, Trading, Shaken
  <2>5. Knows(s, t, o)
    <3>1. t.theirs = known /\ t.verdict = h.verdict
      BY DEF InSession, LinkGame
    <3>2. Strict(t.verdict) => /\ t.theirs = o.sends
                               /\ \A k \in DOMAIN t.theirs : t.theirs[k] \notin unknown
      BY <1>1, <1>2, <1>7, <3>1
    <3>3. Strict(t.verdict) =>
            \A k \in DOMAIN t.theirs : t.theirs[k] \in DOMAIN party[Peer(s)] => party[Peer(s)][t.theirs[k]] # "unknown"
      BY <3>2
    <3> QED BY <1>1, <3>1, <3>2, <3>3 DEF InSession, LinkGame, Good, Knows, Trading
  <2>6. Said(t.out, s, t)
    BY <2>1, KeptSays
  <2> QED BY <1>5, <1>7, <2>1, <2>2, <2>4, <2>5, <2>6 DEF InSession, Good
<1> QED BY <1>6, <1>7

LEMMA PickKeeps ==
  ASSUME party \in [Player -> Seq(Fate)], NEW s \in Player, NEW h, NEW o \in LinkGame, InSession(s, h, o),
         NEW m, m.type = "pick", Tell(s, o, m)
  PROVE  /\ InSession(s, Advance([h EXCEPT !.theirPick = m.index]), o)
         /\ Kept(h, Advance([h EXCEPT !.theirPick = m.index]))
         /\ Advance([h EXCEPT !.theirPick = m.index]).their = h.their
<1> DEFINE trade == IF h.trade \in {"picking", "waitPick"} /\ h.myPick # 0 THEN "confirming" ELSE h.trade
           t == [h EXCEPT !.theirPick = m.index, !.trade = trade]
<1>1. /\ m.index \in Nat /\ o.myPick # 0 /\ m.index \in DOMAIN o.sends /\ o.sends[m.index] = o.myPick
      /\ o.sends \in Seq(Slot)
  BY DEF Tell, Speech, Says, LinkGame, Mode
<1>2. m.index # 0
  BY <1>1, LenProperties
<1>3. h.trade \in Trades /\ (trade = "confirming" => ~(h.mine /\ h.their))
  BY DEF InSession, LinkGame, Good, Session
<1>4. Advance([h EXCEPT !.theirPick = m.index]) = t
  BY <1>2, <1>3 DEF Advance, InSession, LinkGame
<1>5. t \in LinkGame /\ Kept(h, t) /\ t.their = h.their /\ t.stage = "trade" /\ t.got = 0 /\ t.out = h.out
  BY <1>1 DEF InSession, LinkGame, Trades, Kept, Good, Shaken
<1>6. Shaken(s, t)
  BY DEF InSession, LinkGame, Good, Shaken, Blank, Undecided, Over, Ended
<1>7. Session(s, t)
  BY <1>2 DEF InSession, LinkGame, Good, Session, Trading, Shaken
<1>8. Knows(s, t, o)
  BY <1>1 DEF InSession, LinkGame, Good, Knows, Trading
<1>9. Said(t.out, s, t)
  BY <1>5, KeptSays
<1> QED BY <1>4, <1>5, <1>6, <1>7, <1>8, <1>9 DEF InSession, Good

LEMMA ConfirmKeeps ==
  ASSUME party \in [Player -> Seq(Fate)], NEW s \in Player, NEW h, NEW o \in LinkGame, InSession(s, h, o),
         NEW m, m.type = "confirm", Tell(s, o, m)
  PROVE  /\ InSession(s, Advance([h EXCEPT !.their = TRUE]), o)
         /\ Kept(h, Advance([h EXCEPT !.their = TRUE]))
         /\ Advance([h EXCEPT !.their = TRUE]).their = TRUE
<1> DEFINE trade == IF h.trade = "confirming" /\ h.mine THEN "done" ELSE h.trade
           t == [h EXCEPT !.their = TRUE, !.trade = trade]
<1>1. o.mine
  BY DEF Tell, Speech, Says, Mode
<1>2. h.trade \in Trades /\ (h.trade = "picking" => h.myPick = 0) /\ (h.trade = "waitPick" => h.theirPick = 0)
  BY DEF InSession, LinkGame, Good, Session
<1>4. Advance([h EXCEPT !.their = TRUE]) = t
  BY <1>2 DEF Advance, InSession, LinkGame
<1>5. t \in LinkGame /\ Kept(h, t) /\ t.their = TRUE /\ t.stage = "trade" /\ t.got = 0 /\ t.out = h.out
  BY <1>1 DEF InSession, LinkGame, Trades, Kept, Good, Shaken
<1>6. Shaken(s, t)
  BY DEF InSession, LinkGame, Good, Shaken, Blank, Undecided, Over, Ended
<1>7. Session(s, t)
  BY <1>2 DEF InSession, LinkGame, Good, Session, Trading, Shaken
<1>8. Knows(s, t, o)
  BY <1>1 DEF InSession, LinkGame, Good, Knows, Trading
<1>9. Said(t.out, s, t)
  BY <1>5, KeptSays
<1> QED BY <1>1, <1>4, <1>5, <1>6, <1>7, <1>8, <1>9 DEF InSession, Good

LEMMA ByeKeeps ==
  ASSUME party \in [Player -> Seq(Fate)], NEW s \in Player, NEW h, NEW o \in LinkGame, InSession(s, h, o),
         NEW m, m.type = "bye", Tell(s, o, m)
  PROVE  /\ InSession(s, [h EXCEPT !.trade = "cancelled"], o)
         /\ Kept(h, [h EXCEPT !.trade = "cancelled"])
         /\ [h EXCEPT !.trade = "cancelled"].their = h.their
<1> DEFINE t == [h EXCEPT !.trade = "cancelled"]
<1>1. ~o.mine /\ o.stage \in Ended
  BY DEF Tell, Speech, Says, Mode
<1>5. t \in LinkGame /\ Kept(h, t) /\ t.their = h.their /\ t.stage = "trade" /\ t.got = 0 /\ t.out = h.out
  BY DEF InSession, LinkGame, Trades, Kept, Good, Shaken
<1>6. Shaken(s, t)
  BY DEF InSession, LinkGame, Good, Shaken, Blank, Undecided, Over, Ended
<1>7. Session(s, t)
  BY DEF InSession, LinkGame, Good, Session, Trading, Shaken
<1>8. Knows(s, t, o)
  BY <1>1 DEF InSession, LinkGame, Good, Knows, Trading
<1>9. Said(t.out, s, t)
  BY <1>5, KeptSays
<1> QED BY <1>5, <1>6, <1>7, <1>8, <1>9 DEF InSession, Good

\* One message of a peer's, whatever it is.
LEMMA HandleKeeps ==
  ASSUME party \in [Player -> Seq(Fate)], NEW s \in Player, NEW h, NEW o \in LinkGame, InSession(s, h, o),
         NEW m, Tell(s, o, m)
  PROVE  /\ InSession(s, Handle(s, h, m), o) /\ Kept(h, Handle(s, h, m))
         /\ m = Confirm => Handle(s, h, m).their
         /\ Handle(s, h, m).their => h.their \/ m = Confirm
<1>1. Kept(h, h)
  BY DEF Kept, InSession, Good, Shaken
<1>2. CASE m.type = "records"
  <2>1. o.verdict = "subset" /\ m # Confirm
    BY <1>2 DEF Tell, Says, Confirm, Msg
  <2>2. Handle(s, h, m) = IF h.trade = "waitRecords" THEN Negotiate(s, h) ELSE h
    BY <1>2 DEF Handle
  <2>3. CASE h.trade = "waitRecords"
    BY <2>1, <2>2, <2>3, NegotiateKeeps
  <2>4. CASE h.trade # "waitRecords"
    BY <1>1, <2>1, <2>2, <2>4
  <2> QED BY <2>3, <2>4
<1>3. CASE m.type = "party"
  <2>1. Handle(s, h, m) = TakeParty(s, h, m.mons) /\ m # Confirm
    BY <1>3 DEF Handle, Confirm, Msg
  <2> QED BY <1>3, <2>1, TakePartyKeeps
<1>4. CASE m.type = "pick"
  <2>1. Handle(s, h, m) = Advance([h EXCEPT !.theirPick = m.index]) /\ m # Confirm
    BY <1>4 DEF Handle, Confirm, Msg
  <2> QED BY <1>4, <2>1, PickKeeps
<1>5. CASE m.type = "confirm"
  <2>1. Handle(s, h, m) = Advance([h EXCEPT !.their = TRUE])
    BY <1>5 DEF Handle
  <2>2. /\ InSession(s, Advance([h EXCEPT !.their = TRUE]), o) /\ Kept(h, Advance([h EXCEPT !.their = TRUE]))
        /\ Advance([h EXCEPT !.their = TRUE]).their = TRUE
    BY <1>5, ConfirmKeeps
  <2>3. m = Confirm
    BY <1>5 DEF Tell, Speech, Mode, Confirm, Msg
  <2> QED BY <2>1, <2>2, <2>3
<1>6. CASE m.type = "bye"
  <2>1. Handle(s, h, m) = [h EXCEPT !.trade = "cancelled"] /\ m # Confirm
    BY <1>6 DEF Handle, Confirm, Msg
  <2> QED BY <1>6, <2>1, ByeKeeps
<1>7. CASE m.type = "hello"
  <2>1. Handle(s, h, m) = h /\ m # Confirm
    BY <1>7 DEF Handle, Confirm, Msg
  <2> QED BY <1>1, <2>1
<1>8. m.type \in {"records", "party", "pick", "confirm", "bye", "hello"}
  BY DEF Tell, Speech
<1> QED BY <1>2, <1>3, <1>4, <1>5, <1>6, <1>7, <1>8

\* Everything that has arrived, message after message.
LEMMA HandledKeeps ==
  ASSUME party \in [Player -> Seq(Fate)], NEW s \in Player, NEW h, NEW o \in LinkGame, InSession(s, h, o),
         NEW ms \in Seq(Speech), Said(ms, Peer(s), o), o.verdict # "none" => o.mode = "trade"
  PROVE  /\ InSession(s, Handled(s, h, ms), o) /\ Kept(h, Handled(s, h, ms))
         /\ Holds(ms, Confirm) => Handled(s, h, ms).their
         /\ Handled(s, h, ms).their => h.their \/ Holds(ms, Confirm)
<1> DEFINE S == {t \in LinkGame : InSession(s, t, o)}
           X == {m \in Speech : Tell(s, o, m)}
           E(g) == [n \in 0..Len(ms) |-> IF n = 0 THEN h ELSE Handle(s, g[n - 1], ms[n])]
           after == CHOOSE g : g = E(g)
<1>1. Handled(s, h, ms) = after[Len(ms)]
  BY DEF Handled
<1>2. Len(ms) \in Nat /\ DOMAIN ms = 1..Len(ms) /\ \A n \in 1..Len(ms) : ms[n] \in X
  BY LenProperties, ElementOfSeq DEF Said, Tell
<1>3. ms \in Seq(X)
  <2>1. ms = [n \in 1..Len(ms) |-> ms[n]]
    BY <1>2, LenProperties
  <2> HIDE DEF X
  <2> QED BY <1>2, <2>1
<1>4. PICK F \in [S \X X -> S] : F = [rx \in S \X X |-> Handle(s, rx[1], rx[2])]
  <2>1. \A r \in S, m \in X : Handle(s, r, m) \in S
    BY HandleKeeps DEF InSession
  <2> HIDE DEF S, X
  <2> QED BY <2>1
<1>5. h \in S
  BY DEF InSession
<1> HIDE DEF S, X
<1>6. PICK g \in [0..Len(ms) -> S] : Course(g, F, h, ms)
  BY <1>3, <1>5, CourseExists
<1>7. g[0] = h
  BY <1>6 DEF Course
<1>8. ASSUME NEW n \in 1..Len(ms)
      PROVE  n - 1 \in 0..Len(ms) /\ g[n - 1] \in S /\ ms[n] \in X /\ g[n] = Handle(s, g[n - 1], ms[n])
  <2>1. n - 1 \in 0..Len(ms) /\ ms[n] \in X
    BY <1>2
  <2>2. g[n - 1] \in S /\ g[n] = F[<<g[n - 1], ms[n]>>]
    BY <1>6, <2>1 DEF Course
  <2> QED BY <1>4, <2>1, <2>2
<1>9. g = E(g)
  <2>1. ASSUME NEW n \in 0..Len(ms)
        PROVE  g[n] = IF n = 0 THEN h ELSE Handle(s, g[n - 1], ms[n])
    <3>1. CASE n = 0
      BY <1>7, <3>1
    <3>2. CASE n # 0
      <4>1. n \in 1..Len(ms)
        BY <1>2, <3>2
      <4> QED BY <1>8, <3>2, <4>1
    <3> QED BY <3>1, <3>2
  <2> QED BY <2>1
<1> HIDE DEF E
<1>10. after = E(after)
  BY <1>9
<1> HIDE DEF after
<1>11. \A n \in 0..Len(ms) : after[n] = IF n = 0 THEN h ELSE Handle(s, after[n - 1], ms[n])
  BY <1>10 DEF E
<1> DEFINE Upto(n) == /\ after[n] \in LinkGame /\ InSession(s, after[n], o) /\ (n > 0 => Kept(h, after[n]))
                      /\ \A i \in 1..n : ms[i] = Confirm => after[n].their
                      /\ after[n].their => h.their \/ Holds(ms, Confirm)
           T == {n \in 0..Len(ms) : Upto(n)}
<1>12. 0 \in T
  <2>1. after[0] = h
    BY <1>2, <1>11
  <2> QED BY <1>2, <2>1 DEF InSession
<1>13. ASSUME NEW n \in 0..Len(ms), n \in T, n < Len(ms) PROVE n + 1 \in T
  <2>1. n + 1 \in 1..Len(ms) /\ n + 1 \in 0..Len(ms) /\ n + 1 # 0 /\ (n + 1) - 1 = n /\ Upto(n)
    BY <1>2, <1>13
  <2>2. after[n + 1] = Handle(s, after[n], ms[n + 1])
    BY <1>11, <2>1
  <2>3. ms[n + 1] \in X /\ Tell(s, o, ms[n + 1])
    BY <1>2, <2>1 DEF X
  <2>4. /\ InSession(s, after[n + 1], o) /\ Kept(after[n], after[n + 1])
        /\ ms[n + 1] = Confirm => after[n + 1].their
        /\ after[n + 1].their => after[n].their \/ ms[n + 1] = Confirm
    BY <2>1, <2>2, <2>3, HandleKeeps
  <2>5. Kept(h, after[n + 1])
    <3>1. CASE n = 0
      BY <1>11, <2>1, <2>4, <3>1
    <3>2. CASE n # 0
      BY <2>1, <2>4, <3>2 DEF Kept
    <3> QED BY <3>1, <3>2
  <2>6. ASSUME NEW i \in 1..(n + 1), ms[i] = Confirm PROVE after[n + 1].their
    <3>1. CASE i = n + 1
      BY <2>4, <2>6, <3>1
    <3>2. CASE i # n + 1
      <4>1. i \in 1..n
        BY <2>1, <3>2
      <4> QED BY <2>1, <2>4, <2>6, <4>1 DEF Kept
    <3> QED BY <3>1, <3>2
  <2>7. after[n + 1].their => h.their \/ Holds(ms, Confirm)
    BY <1>2, <2>1, <2>4 DEF Holds
  <2>8. Upto(n + 1)
    BY <2>1, <2>4, <2>5, <2>6, <2>7 DEF InSession
  <2> QED BY <2>1, <2>8
<1> HIDE DEF T
<1>14. 0..Len(ms) \subseteq T
  BY <1>2, <1>12, <1>13, Inductive
<1>15. Upto(Len(ms))
  BY <1>2, <1>14 DEF T
<1>16. Kept(h, h) /\ (Len(ms) = 0 => after[Len(ms)] = h)
  BY <1>2, <1>11 DEF Kept, InSession, Good, Shaken
<1> HIDE DEF after
<1> QED BY <1>1, <1>2, <1>15, <1>16 DEF Holds

-----------------------------------------------------------------------------
(* One frame of a game.                                                    *)

Known == pairing \in Pairing /\ party \in [Player -> Seq(Fate)]

\* s is about to handle its stage, with what has come in g; o is its peer.
Ready(s, g, o) ==
  /\ Known /\ g \in LinkGame /\ o \in LinkGame /\ g.stage \notin Over /\ g.out = <<>>
  /\ Good(s, g, o) /\ (g.stage = "trade" => g.trade # "cancelled")
  /\ Said(g.inbox, Peer(s), o)
  /\ Good(Peer(s), o, g)

\* h is what may come of it, even when the link breaks ...
Goes(s, g, o, h) ==
  /\ h \in LinkGame /\ Good(s, h, o) /\ (h.stage = "trade" => h.trade # "cancelled")
  /\ Later(s, g, h) /\ h.closed = g.closed /\ h.stage # "killed"
  /\ \A i \in DOMAIN h.inbox : Holds(g.inbox, h.inbox[i])

\* ... and when it holds.
Follows(s, g, o, h) ==
  /\ Goes(s, g, o, h)
  /\ g.their => h.their
  /\ h.their => g.their \/ Holds(g.inbox, Confirm)
  /\ Holds(g.inbox, Confirm) /\ h.stage \notin Ended => h.their
  /\ h.mine /\ ~g.mine => h.stage = "trade" /\ Holds(h.out, Confirm)
  /\ h.stage = "trade" /\ h.trade = "done" => ~g.mine
  /\ h.stage = "left" /\ h.got = 0 /\ h.mine =>
       (g.closed /\ g.inbox = <<>>) \/ (o.stage \in Ended /\ ~o.mine)

\* A player who has begun a session has one with a peer who trades.
LEMMA BothTrade ==
  ASSUME NEW s \in Player, NEW g, NEW o, Ready(s, g, o), g.stage = "trade"
  PROVE  o.verdict # "none" => o.mode = "trade"
<1>1. CASE s = "guest"
  <2>1. g.mode = "trade" /\ g.verdict # "none"
    BY DEF Ready, Good, Shaken
  <2> QED BY <1>1, <2>1 DEF Ready, Good, Knows
<1>2. CASE s = "host"
  <2>1. Peer(s) = "guest"
    BY <1>2, Players DEF Player
  <2>2. g.mode = "trade"
    BY DEF Ready, Good, Shaken
  <2> QED BY <2>1, <2>2 DEF Ready, Good, Knows
<1> QED BY <1>1, <1>2 DEF Player

\* Until the session, the peer has not confirmed, and nothing has come of it.
LEMMA BeforeTrade ==
  ASSUME NEW s \in Player, NEW g, NEW o, Ready(s, g, o), g.stage # "trade"
  PROVE  Blank(g) /\ ~o.mine /\ ~Holds(g.inbox, Confirm)
<1>1. g.stage \in Undecided \cup {"battleOptions", "notice", "battleWait"}
  BY DEF Ready, LinkGame, Stages, Undecided
<1>2. Blank(g)
  BY <1>1 DEF Ready, Good, Shaken
<1>3. o.mine => o.theirPick # 0
  BY DEF Ready, Good, Session
<1>4. ~o.mine
  BY <1>2, <1>3 DEF Ready, Good, Knows, Blank
<1>5. Confirm.type = "confirm"
  BY DEF Confirm, Msg
<1>6. ~Holds(g.inbox, Confirm)
  BY <1>4, <1>5 DEF Ready, Said, Says, Holds
<1> QED BY <1>2, <1>4, <1>6

\* A game that leaves, in whatever way, without a trade.
LEMMA LeaveGoes ==
  ASSUME NEW s \in Player, NEW g, NEW o, Ready(s, g, o)
  PROVE  /\ Goes(s, g, o, Leave(g)) /\ Leave(g).stage = "left" /\ Leave(g).their = g.their /\ Leave(g).mine = g.mine
<1> DEFINE h == [g EXCEPT !.stage = "left"]
<1>1. Leave(g) = h
  BY DEF Leave
<1>2. g.got = 0
  BY DEF Ready, Good, Session, Over
<1>3. /\ h \in LinkGame /\ h.stage = "left" /\ h.got = 0 /\ h.out = <<>> /\ h.inbox = g.inbox /\ h.closed = g.closed
      /\ h.mine = g.mine /\ h.their = g.their
  BY <1>2 DEF Ready, LinkGame, Stages, Over
<1>4. Shaken(s, h)
  BY DEF Ready, LinkGame, Good, Shaken, Undecided, Blank
<1>5. Session(s, h)
  BY <1>2 DEF Ready, LinkGame, Good, Session, Trading, Blank
<1>6. Knows(s, h, o)
  BY DEF Ready, LinkGame, Good, Knows, Trading, Strict
<1>7. Said(h.out, s, h)
  BY <1>3 DEF Said
<1>8. Later(s, g, h)
  BY DEF Ready, LinkGame, Later, Ended, Over
<1>9. \A i \in DOMAIN h.inbox : Holds(g.inbox, h.inbox[i])
  BY <1>3 DEF Holds
<1> HIDE DEF h
<1> QED BY <1>1, <1>3, <1>4, <1>5, <1>6, <1>7, <1>8, <1>9 DEF Goes, Good

LEMMA LeaveFollows ==
  ASSUME NEW s \in Player, NEW g, NEW o, Ready(s, g, o),
         g.stage = "trade" /\ g.mine => g.closed /\ g.inbox = <<>>
  PROVE  Follows(s, g, o, Leave(g))
<1>1. /\ Goes(s, g, o, Leave(g)) /\ Leave(g).stage = "left" /\ Leave(g).their = g.their /\ Leave(g).mine = g.mine
  BY LeaveGoes
<1>2. g.mine => g.closed /\ g.inbox = <<>>
  <2>1. CASE g.stage = "trade"
    BY <2>1
  <2>2. CASE g.stage # "trade"
    BY <2>2, BeforeTrade DEF Blank
  <2> QED BY <2>1, <2>2
<1>3. Leave(g).stage \in Ended
  BY <1>1 DEF Ended, Over
<1> QED BY <1>1, <1>2, <1>3 DEF Follows

\* Before the session nothing depends on what comes, except where the handshake goes.
LEMMA HandshakeFollows ==
  ASSUME NEW s \in Player, NEW g, NEW o, NEW h, Ready(s, g, o), g.stage # "trade",
         h \in LinkGame, Good(s, h, o), Later(s, g, h), h.closed = g.closed, h.stage # "killed",
         \A i \in DOMAIN h.inbox : Holds(g.inbox, h.inbox[i]),
         ~h.mine, ~h.their, h.trade \notin {"done", "cancelled"}
  PROVE  Follows(s, g, o, h)
<1>1. Blank(g) /\ ~Holds(g.inbox, Confirm)
  BY BeforeTrade
<1> QED BY <1>1 DEF Follows, Goes, Blank

LEMMA StayFollows ==
  ASSUME NEW s \in Player, NEW g, NEW o, Ready(s, g, o), g.stage # "trade"
  PROVE  Follows(s, g, o, g)
<1>1. Blank(g)
  BY BeforeTrade
<1>2. Later(s, g, g) /\ g.stage # "killed"
  BY DEF Later, Ready, Over
<1>3. \A i \in DOMAIN g.inbox : Holds(g.inbox, g.inbox[i])
  BY DEF Holds
<1>4. g \in LinkGame /\ Good(s, g, o)
  BY DEF Ready
<1> QED BY <1>1, <1>2, <1>3, <1>4, HandshakeFollows DEF Blank

LEMMA SayByeFollows ==
  ASSUME NEW s \in Player, NEW g, NEW o, Ready(s, g, o), g.stage # "trade"
  PROVE  Follows(s, g, o, SayBye(g))
<1> DEFINE h == [g EXCEPT !.stage = "left", !.out = Append(g.out, Msg("bye"))]
<1>1. SayBye(g) = h
  BY DEF SayBye, Leave, Send, Ready, LinkGame
<1>2. Blank(g)
  BY BeforeTrade
<1>3. Msg("bye") \in Speech /\ g.out = <<>> /\ g.out \in Seq(Speech)
  BY DEF Msg, Speech, Ready
<1>4. /\ h \in LinkGame /\ h.stage = "left" /\ h.out = Append(g.out, Msg("bye")) /\ h.inbox = g.inbox /\ h.closed = g.closed
      /\ Blank(h)
  <2>1. Append(g.out, Msg("bye")) \in Seq(Speech)
    BY <1>3, AppendProperties
  <2> QED BY <1>2, <2>1 DEF Ready, LinkGame, Stages, Over, Blank
<1>5. Shaken(s, h)
  BY DEF Ready, LinkGame, Good, Shaken, Undecided, Blank
<1>6. Session(s, h)
  BY <1>4, <1>2 DEF Ready, LinkGame, Good, Session, Trading, Blank
<1>7. Knows(s, h, o)
  BY DEF Ready, LinkGame, Good, Knows, Trading, Strict
<1>8. Said(h.out, s, h)
  <2>1. Says(s, h, Msg("bye"))
    BY <1>4 DEF Says, Msg, Blank, Ended, Over
  <2>2. Said(g.out, s, h)
    BY <1>3 DEF Said
  <2> QED BY <1>3, <1>4, <2>1, <2>2, SaidAppend
<1>9. Later(s, g, h)
  BY DEF Ready, LinkGame, Later, Ended, Over
<1>10. \A i \in DOMAIN h.inbox : Holds(g.inbox, h.inbox[i])
  BY <1>4 DEF Holds
<1> HIDE DEF h
<1> QED BY <1>1, <1>4, <1>5, <1>6, <1>7, <1>8, <1>9, <1>10, HandshakeFollows DEF Good, Blank

\* Some of what g has heard, x has put behind it.
Reads(g, x) ==
  /\ x \in LinkGame
  /\ x.stage = g.stage /\ x.mode = g.mode /\ x.verdict = g.verdict /\ x.out = g.out /\ x.closed = g.closed
  /\ x.trade = g.trade /\ x.limited = g.limited /\ x.sends = g.sends /\ x.theirs = g.theirs
  /\ x.myPick = g.myPick /\ x.theirPick = g.theirPick /\ x.mine = g.mine /\ x.their = g.their /\ x.got = g.got
  /\ \A i \in DOMAIN x.inbox : Holds(g.inbox, x.inbox[i])

LEMMA ReadsReady ==
  ASSUME NEW s \in Player, NEW g, NEW o, NEW x, Ready(s, g, o), Reads(g, x)
  PROVE  Ready(s, x, o)
<1>1. Shaken(s, x)
  BY DEF Ready, Reads, Good, Shaken, Blank
<1>2. Session(s, x)
  BY DEF Ready, Reads, Good, Session, Blank
<1>3. Knows(s, x, o)
  BY DEF Ready, Reads, Good, Knows
<1>4. Said(x.out, s, x)
  BY DEF Ready, Reads, Said
<1>5. Said(x.inbox, Peer(s), o)
  BY SaidPart DEF Ready, Reads
<1>6. Knows(Peer(s), o, x)
  BY DEF Ready, Reads, Good, Knows
<1> QED BY <1>1, <1>2, <1>3, <1>4, <1>5, <1>6 DEF Ready, Reads, Good

LEMMA ReadsFollows ==
  ASSUME NEW s \in Player, NEW g, NEW o, NEW x, NEW h, Ready(s, g, o), g.stage # "trade", Reads(g, x),
         Follows(s, x, o, h)
  PROVE  Follows(s, g, o, h)
<1>1. \A i \in DOMAIN h.inbox : Holds(g.inbox, h.inbox[i])
  BY DEF Reads, Follows, Goes, Holds
<1>2. Later(s, g, h)
  BY DEF Reads, Follows, Goes, Later
<1>3. Blank(g) /\ ~Holds(g.inbox, Confirm)
  BY BeforeTrade
<1>4. ~Holds(x.inbox, Confirm)
  BY <1>3 DEF Reads, Holds
<1> QED BY <1>1, <1>2, <1>3, <1>4 DEF Reads, Follows, Goes, Blank

LEMMA FirstOfIs ==
  ASSUME NEW X, NEW msgs \in Seq(X), NEW type
  PROVE  FirstOf(type, msgs) \in 0..Len(msgs) /\ (FirstOf(type, msgs) # 0 => msgs[FirstOf(type, msgs)].type = type)
<1> DEFINE at == {i \in DOMAIN msgs : msgs[i].type = type}
<1>1. Len(msgs) \in Nat /\ DOMAIN msgs = 1..Len(msgs)
  BY LenProperties
<1>2. at \in SUBSET Nat
  BY <1>1
<1>3. CASE at = {}
  BY <1>1, <1>3 DEF FirstOf
<1>4. CASE at # {}
  <2>1. \E i \in at : \A j \in at : i <= j
    BY <1>2, <1>4, LeastNumber
  <2>2. FirstOf(type, msgs) = CHOOSE i \in at : \A j \in at : i <= j
    BY <1>4 DEF FirstOf
  <2>3. FirstOf(type, msgs) \in at
    BY <2>1, <2>2
  <2> QED BY <1>1, <2>3
<1> QED BY <1>3, <1>4

LEMMA RestReads ==
  ASSUME NEW g \in LinkGame, NEW at \in 0..Len(g.inbox)
  PROVE  Reads(g, Rest(g, at)) /\ Rest(g, at).heard = g.heard
<1>1. g.inbox \in Seq(Speech) /\ Len(g.inbox) \in Nat
  BY LenProperties DEF LinkGame
<1> DEFINE q == IF at = 0 THEN <<>> ELSE SubSeq(g.inbox, at + 1, Len(g.inbox))
<1>2. q \in Seq(Speech) /\ \A i \in DOMAIN q : Holds(g.inbox, q[i])
  <2>1. CASE at = 0
    BY <2>1
  <2>2. CASE at # 0
    <3>1. at + 1 \in 1..(Len(g.inbox) + 1) /\ Len(g.inbox) \in 0..Len(g.inbox)
      BY <1>1
    <3> QED BY <1>1, <2>2, <3>1, SubSeqPart
  <2> QED BY <2>1, <2>2
<1>3. Rest(g, at) = [g EXCEPT !.inbox = q]
  BY DEF Rest
<1> HIDE DEF q
<1> QED BY <1>2, <1>3 DEF LinkGame, Reads

LEMMA PollHelloReads ==
  ASSUME NEW g \in LinkGame
  PROVE  Reads(g, PollHello(g)) /\ (g.heard => PollHello(g).heard)
<1>1. g.inbox \in Seq(Speech) /\ Len(g.inbox) \in Nat
  BY LenProperties DEF LinkGame
<1> DEFINE at == FirstOf("hello", g.inbox)
           q == SubSeq(g.inbox, 1, at - 1)
           r == SubSeq(g.inbox, at + 1, Len(g.inbox))
<1>2. at \in 0..Len(g.inbox)
  BY <1>1, FirstOfIs
<1>3. CASE g.heard \/ at = 0
  <2>1. PollHello(g) = g
    BY <1>3 DEF PollHello
  <2> QED BY <2>1 DEF Reads, Holds
<1>4. CASE ~(g.heard \/ at = 0)
  <2>1. PollHello(g) = [g EXCEPT !.heard = TRUE, !.inbox = q \o r]
    BY <1>4 DEF PollHello, LinkGame
  <2>2. 1 \in 1..(Len(g.inbox) + 1) /\ at - 1 \in 0..Len(g.inbox) /\ at + 1 \in 1..(Len(g.inbox) + 1) /\ Len(g.inbox) \in 0..Len(g.inbox)
    BY <1>1, <1>2, <1>4
  <2> HIDE DEF at
  <2>3. q \in Seq(Speech) /\ \A i \in DOMAIN q : Holds(g.inbox, q[i])
    BY <1>1, <2>2, SubSeqPart
  <2>4. r \in Seq(Speech) /\ \A i \in DOMAIN r : Holds(g.inbox, r[i])
    BY <1>1, <2>2, SubSeqPart
  <2> HIDE DEF q, r
  <2>5. q \o r \in Seq(Speech) /\ \A i \in DOMAIN (q \o r) : Holds(g.inbox, (q \o r)[i])
    <3>1. /\ Len(q) \in Nat /\ Len(r) \in Nat /\ DOMAIN q = 1..Len(q) /\ DOMAIN r = 1..Len(r)
          /\ q \o r \in Seq(Speech) /\ DOMAIN (q \o r) = 1..Len(q) + Len(r)
          /\ \A i \in 1..Len(q) + Len(r) : (q \o r)[i] = IF i <= Len(q) THEN q[i] ELSE r[i - Len(q)]
      BY <2>3, <2>4, LenProperties, ConcatProperties
    <3>2. ASSUME NEW i \in 1..Len(q) + Len(r) PROVE Holds(g.inbox, (q \o r)[i])
      <4>1. CASE i <= Len(q)
        <5>1. i \in DOMAIN q /\ (q \o r)[i] = q[i]
          BY <3>1, <4>1
        <5> QED BY <2>3, <5>1
      <4>2. CASE ~(i <= Len(q))
        <5>1. i - Len(q) \in DOMAIN r /\ (q \o r)[i] = r[i - Len(q)]
          BY <3>1, <4>2
        <5> QED BY <2>4, <5>1
      <4> QED BY <4>1, <4>2
    <3> QED BY <3>1, <3>2
  <2> QED BY <2>1, <2>5 DEF LinkGame, Reads
<1> QED BY <1>3, <1>4

\* What g is when the handshake goes on: it may have heard a hello and may have said one.
Prepared(s, g, o, x) ==
  /\ x \in LinkGame /\ Blank(x) /\ x.closed = g.closed
  /\ \A i \in DOMAIN x.inbox : Holds(g.inbox, x.inbox[i])
  /\ \A i \in DOMAIN x.out : x.out[i] = Hello(x.mode)
  /\ g.verdict # "none" => x.verdict = g.verdict /\ x.mode = g.mode
  /\ s = "host" /\ g.stage # "modeSelect" => x.mode = g.mode
  /\ s = "guest" => x.mode = o.mode /\ o.stage # "modeSelect"

\* A verdict that admits a battle or a trade, and fits the games.
Admits(s, x) ==
  /\ x.verdict \notin {"none", "refused"} /\ (x.mode = "battle" => x.verdict \in {"full", "vanilla_peer"})
  /\ x.verdict = "full" => pairing = "same"
  /\ x.verdict = "vanilla_peer" => s = "host"

LEMMA PreparedSays ==
  ASSUME NEW s, NEW g, NEW o, NEW x, NEW h, Prepared(s, g, o, x), h.stage # "modeSelect", h.mode = x.mode
  PROVE  Said(x.out, s, h)
<1>1. Says(s, h, Hello(x.mode))
  BY DEF Says, Hello
<1> QED BY <1>1 DEF Prepared, Said

LEMMA StartModeFollows ==
  ASSUME NEW s \in Player, NEW g, NEW o, Ready(s, g, o), g.stage # "trade",
         NEW x, Prepared(s, g, o, x), Admits(s, x)
  PROVE  Follows(s, g, o, StartMode(s, x))
<1> DEFINE all == [i \in DOMAIN party[s] |-> i]
<1>1. all \in Seq(Slot) /\ (\A k \in DOMAIN all : all[k] \in DOMAIN party[s]) /\ \A i \in DOMAIN party[s] : Holds(all, i)
  <2>1. party[s] \in Seq(Fate)
    BY DEF Ready, Known
  <2> QED BY <2>1, Slots DEF Holds
<1>2. Blank(g)
  BY BeforeTrade
<1>3. Mons(all) \in Speech /\ Mons(all).type = "party" /\ Mons(all).mons = all
  BY <1>1 DEF Mons, Speech
<1>4. Msg("records") \in Speech /\ Msg("records").type = "records"
  BY DEF Msg, Speech
<1>5. x \in LinkGame /\ Blank(x) /\ x.out \in Seq(Speech) /\ x.mode \in Mode /\ x.verdict \in Verdicts
  BY DEF Prepared, LinkGame
<1> HIDE DEF all
<1>6. ASSUME NEW h, NEW m \in Speech, h \in LinkGame, h.out = Append(x.out, m), h.inbox = x.inbox, h.closed = x.closed,
             h.mode = x.mode, h.verdict = x.verdict, h.stage \in {"battleWait", "trade"},
             ~h.mine, ~h.their, h.trade \notin {"done", "cancelled"},
             Shaken(s, h), Session(s, h), Knows(s, h, o), Says(s, h, m)
      PROVE  Follows(s, g, o, h)
  <2>1. Said(h.out, s, h)
    <3>1. Said(x.out, s, h)
      BY <1>6, PreparedSays
    <3> QED BY <1>5, <1>6, <3>1, SaidAppend
  <2>2. Later(s, g, h)
    BY <1>2, <1>6 DEF Later, Prepared, Blank, Ready, Ended
  <2>3. h.closed = g.closed /\ h.stage # "killed" /\ \A i \in DOMAIN h.inbox : Holds(g.inbox, h.inbox[i])
    BY <1>6 DEF Prepared
  <2> QED BY <1>6, <2>1, <2>2, <2>3, HandshakeFollows DEF Good
<1>7. s = "guest" => x.mode = o.mode /\ o.stage # "modeSelect"
  BY DEF Prepared
<1>8. CASE x.mode = "battle"
  <2> DEFINE h == [x EXCEPT !.stage = "battleWait", !.out = Append(x.out, Mons(all))]
  <2>1. StartMode(s, x) = h
    BY <1>5, <1>8 DEF StartMode, Send, all, LinkGame
  <2>2. h \in LinkGame
    <3>1. Append(x.out, Mons(all)) \in Seq(Speech)
      BY <1>3, <1>5, AppendProperties
    <3> QED BY <1>5, <3>1 DEF LinkGame, Stages
  <2>3. /\ h.out = Append(x.out, Mons(all)) /\ h.inbox = x.inbox /\ h.closed = x.closed /\ h.mode = "battle"
        /\ h.verdict = x.verdict /\ h.stage = "battleWait" /\ Blank(h)
    BY <1>5, <1>8 DEF LinkGame, Blank
  <2> HIDE DEF h
  <2>4. Shaken(s, h)
    BY <1>8, <2>3 DEF Shaken, Admits, Undecided
  <2>5. Session(s, h)
    BY <2>2, <2>3 DEF Session, Blank, Trading, LinkGame
  <2>6. Knows(s, h, o)
    BY <1>7, <1>8, <2>3 DEF Knows, Blank, Trading
  <2>7. Says(s, h, Mons(all))
    BY <1>3, <1>8, <2>3 DEF Says, Admits
  <2> QED BY <1>3, <1>6, <1>8, <2>1, <2>2, <2>3, <2>4, <2>5, <2>6, <2>7 DEF Blank
<1>9. CASE x.mode = "trade" /\ x.verdict = "subset"
  <2> DEFINE h == [x EXCEPT !.stage = "trade", !.trade = "waitRecords", !.out = Append(x.out, Msg("records"))]
  <2>1. StartMode(s, x) = h
    BY <1>5, <1>9 DEF StartMode, Send, LinkGame
  <2>2. h \in LinkGame
    <3>1. Append(x.out, Msg("records")) \in Seq(Speech)
      BY <1>4, <1>5, AppendProperties
    <3> QED BY <1>5, <3>1 DEF LinkGame, Stages, Trades
  <2>3. /\ h.out = Append(x.out, Msg("records")) /\ h.inbox = x.inbox /\ h.closed = x.closed /\ h.mode = "trade"
        /\ h.verdict = "subset" /\ h.stage = "trade" /\ h.trade = "waitRecords" /\ ~h.limited /\ h.sends = <<>>
        /\ h.myPick = 0 /\ h.theirPick = 0 /\ ~h.mine /\ ~h.their /\ h.got = 0
    BY <1>5, <1>9 DEF LinkGame, Blank
  <2> HIDE DEF h
  <2>4. Shaken(s, h)
    BY <2>3 DEF Shaken, Undecided
  <2>5. Session(s, h)
    BY <2>2, <2>3 DEF Session, Trading, LinkGame
  <2>6. Knows(s, h, o)
    BY <1>7, <1>9, <2>3 DEF Knows, Trading
  <2>7. Says(s, h, Msg("records"))
    BY <1>4, <2>3 DEF Says
  <2> QED BY <1>4, <1>6, <1>9, <2>1, <2>2, <2>3, <2>4, <2>5, <2>6, <2>7
<1>10. CASE x.mode = "trade" /\ x.verdict # "subset"
  <2> DEFINE h == [x EXCEPT !.stage = "trade", !.trade = "waitParty", !.sends = all, !.out = Append(x.out, Mons(all))]
  <2>1. StartMode(s, x) = h
    BY <1>5, <1>10 DEF StartMode, Send, all, LinkGame
  <2>2. h \in LinkGame
    <3>1. Append(x.out, Mons(all)) \in Seq(Speech)
      BY <1>3, <1>5, AppendProperties
    <3> QED BY <1>1, <1>5, <3>1 DEF LinkGame, Stages, Trades
  <2>3. /\ h.out = Append(x.out, Mons(all)) /\ h.inbox = x.inbox /\ h.closed = x.closed /\ h.mode = "trade"
        /\ h.verdict = x.verdict /\ h.stage = "trade" /\ h.trade = "waitParty" /\ ~h.limited /\ h.sends = all
        /\ h.myPick = 0 /\ h.theirPick = 0 /\ ~h.mine /\ ~h.their /\ h.got = 0
    BY <1>5, <1>10 DEF LinkGame, Blank
  <2> HIDE DEF h
  <2>4. Shaken(s, h)
    BY <2>3 DEF Shaken, Undecided, Admits
  <2>5. Session(s, h)
    BY <1>1, <1>10, <2>2, <2>3 DEF Session, Trading, LinkGame
  <2>6. Knows(s, h, o)
    BY <1>7, <1>10, <2>3 DEF Knows, Trading
  <2>7. Says(s, h, Mons(all))
    BY <1>3, <1>10, <2>3 DEF Says, Admits
  <2> QED BY <1>3, <1>6, <1>10, <2>1, <2>2, <2>3, <2>4, <2>5, <2>6, <2>7
<1> QED BY <1>5, <1>8, <1>9, <1>10 DEF Mode

LEMMA DecideCompatFollows ==
  ASSUME NEW s \in Player, NEW g, NEW o, Ready(s, g, o), g.stage \in Undecided,
         NEW x, Prepared(s, g, o, x), x.verdict = "none", s = "guest" => x.heard
  PROVE  Follows(s, g, o, DecideCompat(s, x))
<1> DEFINE v == CheckCompat(s, x)
           d == [x EXCEPT !.verdict = v]
<1>1. v \in Verdicts \ {"none"} /\ (v = "full" => pairing = "same") /\ (v = "vanilla_peer" => s = "host")
  BY DEF CheckCompat, Verdicts, Ready, Known, Pairing, Player
<1>2. g.verdict = "none" /\ g.stage # "trade" /\ Blank(g)
  <2>1. g.stage # "trade"
    BY DEF Undecided
  <2> QED BY <2>1, BeforeTrade DEF Ready, Good, Shaken
<1>3. x \in LinkGame /\ Blank(x) /\ x.closed = g.closed /\ x.mode \in Mode
  BY DEF Prepared, LinkGame
<1> HIDE DEF v
<1>4. d \in LinkGame /\ Blank(d) /\ d.verdict = v /\ d.mode = x.mode /\ d.inbox = x.inbox /\ d.out = x.out /\ d.closed = g.closed
  BY <1>1, <1>3 DEF LinkGame, Blank
<1>5. Prepared(s, g, o, d)
  BY <1>2, <1>4 DEF Prepared
<1>6. ASSUME NEW stage \in {"notice", "battleOptions"},
             stage = "notice" => v \notin {"full", "vanilla_peer"},
             stage = "battleOptions" => s = "host" /\ x.mode = "battle" /\ v \in {"full", "vanilla_peer"}
      PROVE  Follows(s, g, o, [d EXCEPT !.stage = stage])
  <2> DEFINE h == [d EXCEPT !.stage = stage]
  <2>1. /\ h \in LinkGame /\ h.stage = stage /\ h.verdict = v /\ h.mode = x.mode /\ h.inbox = x.inbox /\ h.out = x.out
        /\ h.closed = g.closed /\ Blank(h)
    BY <1>4 DEF LinkGame, Stages, Blank
  <2> HIDE DEF h
  <2>2. Shaken(s, h)
    BY <1>1, <1>6, <2>1 DEF Shaken, Undecided
  <2>3. Session(s, h)
    BY <2>1 DEF Session, Blank, Trading, LinkGame
  <2>4. Knows(s, h, o)
    BY <2>1 DEF Knows, Blank, Trading, Prepared
  <2>5. Said(h.out, s, h)
    BY <2>1, PreparedSays
  <2>6. Later(s, g, h)
    BY <1>2, <2>1 DEF Later, Prepared, Blank, Ready, Ended
  <2>7. \A i \in DOMAIN h.inbox : Holds(g.inbox, h.inbox[i])
    BY <2>1 DEF Prepared
  <2>8. Follows(s, g, o, h)
    BY <1>2, <2>1, <2>2, <2>3, <2>4, <2>5, <2>6, <2>7, HandshakeFollows DEF Good, Blank
  <2> QED BY <2>8 DEF h
<1>7. DecideCompat(s, x) = IF v \notin {"full", "vanilla_peer"} THEN [d EXCEPT !.stage = "notice"]
                           ELSE IF s = "host" /\ x.mode = "battle" THEN [d EXCEPT !.stage = "battleOptions"]
                           ELSE StartMode(s, d)
  BY <1>4 DEF DecideCompat, v
<1> HIDE DEF d
<1>8. CASE v \notin {"full", "vanilla_peer"}
  BY <1>6, <1>7, <1>8
<1>9. CASE v \in {"full", "vanilla_peer"} /\ s = "host" /\ x.mode = "battle"
  BY <1>6, <1>7, <1>9
<1>10. CASE v \in {"full", "vanilla_peer"} /\ ~(s = "host" /\ x.mode = "battle")
  <2>1. Admits(s, d)
    BY <1>1, <1>4, <1>10 DEF Admits
  <2> QED BY <1>2, <1>5, <1>7, <1>10, <2>1, StartModeFollows
<1> QED BY <1>8, <1>9, <1>10

LEMMA ModeSelectFollows ==
  ASSUME NEW s \in Player, NEW g, NEW o, Ready(s, g, o), g.stage = "modeSelect", NEW h \in ModeSelect(s, g)
  PROVE  Follows(s, g, o, h)
<1>1. s = "host" /\ g.verdict = "none" /\ g.out = <<>> /\ g \in LinkGame /\ g.stage # "trade" /\ g.stage \in Undecided
  BY DEF Ready, Good, Shaken, Undecided
<1>2. CASE h = g
  BY <1>1, <1>2, StayFollows
<1>3. CASE h = Leave(g)
  BY <1>1, <1>3, LeaveFollows
<1>4. ASSUME NEW mode \in Mode,
             h = LET asked == Send([g EXCEPT !.mode = mode], Hello(mode))
                 IN  IF g.heard THEN DecideCompat(s, asked) ELSE [asked EXCEPT !.stage = "waitHello"]
      PROVE  Follows(s, g, o, h)
  <2> DEFINE asked == [g EXCEPT !.mode = mode, !.out = Append(<<>>, Hello(mode))]
             waits == [g EXCEPT !.mode = mode, !.out = Append(<<>>, Hello(mode)), !.stage = "waitHello"]
  <2>1. Blank(g)
    BY <1>1, BeforeTrade
  <2>2. Hello(mode) \in Speech /\ <<>> \in Seq(Speech)
    BY DEF Hello, Speech
  <2>3. /\ Append(<<>>, Hello(mode)) \in Seq(Speech)
        /\ \A i \in DOMAIN Append(<<>>, Hello(mode)) : Append(<<>>, Hello(mode))[i] = Hello(mode)
    BY <2>2, AppendProperties, LenProperties
  <2>4. h = IF g.heard THEN DecideCompat(s, asked) ELSE waits
    BY <1>1, <1>4 DEF Send, LinkGame
  <2>5. /\ asked \in LinkGame /\ Blank(asked) /\ asked.closed = g.closed /\ asked.inbox = g.inbox /\ asked.mode = mode
        /\ asked.out = Append(<<>>, Hello(mode)) /\ asked.verdict = "none"
    BY <1>1, <2>1, <2>3 DEF LinkGame, Blank
  <2>6. /\ waits \in LinkGame /\ Blank(waits) /\ waits.closed = g.closed /\ waits.inbox = g.inbox /\ waits.mode = mode
        /\ waits.out = Append(<<>>, Hello(mode)) /\ waits.verdict = "none" /\ waits.stage = "waitHello"
    BY <1>1, <2>1, <2>3 DEF LinkGame, Blank, Stages
  <2> HIDE DEF asked, waits
  <2>7. Prepared(s, g, o, asked)
    BY <1>1, <2>3, <2>5 DEF Prepared, Holds
  <2>8. CASE g.heard
    BY <1>1, <2>4, <2>5, <2>7, <2>8, DecideCompatFollows
  <2>9. CASE ~g.heard
    <3>1. Shaken(s, waits)
      BY <1>1, <2>6 DEF Shaken, Undecided
    <3>2. Session(s, waits)
      BY <2>6 DEF Session, Blank, Trading, LinkGame
    <3>3. Knows(s, waits, o)
      BY <1>1, <2>6 DEF Knows, Blank, Trading
    <3>4. Said(waits.out, s, waits)
      BY <2>3, <2>6 DEF Said, Says, Hello
    <3>5. Later(s, g, waits)
      BY <1>1, <2>1, <2>6 DEF Later, Blank, Ready, Ended
    <3>6. \A i \in DOMAIN waits.inbox : Holds(g.inbox, waits.inbox[i])
      BY <2>6 DEF Holds
    <3> QED BY <1>1, <2>4, <2>6, <2>9, <3>1, <3>2, <3>3, <3>4, <3>5, <3>6, HandshakeFollows DEF Good, Blank
  <2> QED BY <2>8, <2>9
<1>5. h = g \/ h = Leave(g) \/ \E mode \in Mode :
        h = LET asked == Send([g EXCEPT !.mode = mode], Hello(mode))
            IN  IF g.heard THEN DecideCompat(s, asked) ELSE [asked EXCEPT !.stage = "waitHello"]
  BY DEF ModeSelect
<1> QED BY <1>2, <1>3, <1>4, <1>5

LEMMA WaitHelloFollows ==
  ASSUME NEW s \in Player, NEW g, NEW o, Ready(s, g, o), g.stage = "waitHello", NEW h \in WaitHello(s, g, PollHello(g))
  PROVE  Follows(s, g, o, h)
<1> DEFINE x == PollHello(g)
<1>1. s = "host" /\ g.stage # "trade"
  BY DEF Ready, Good, Shaken
<1>2. Reads(g, x)
  BY PollHelloReads DEF Ready
<1> HIDE DEF x
<1>3. Ready(s, x, o) /\ x.stage = "waitHello" /\ x.stage \in Undecided /\ x.verdict = "none" /\ x.out = <<>> /\ Blank(x) /\ x \in LinkGame
  <2>1. Ready(s, x, o) /\ x.stage = "waitHello"
    BY <1>2, ReadsReady DEF Reads
  <2> QED BY <2>1, BeforeTrade DEF Ready, Good, Shaken, Undecided
<1>4. CASE h = Leave(g)
  BY <1>1, <1>4, LeaveFollows
<1>5. CASE h = DecideCompat(s, x)
  <2>1. Prepared(s, x, o, x)
    BY <1>1, <1>3 DEF Prepared, Holds
  <2>2. Follows(s, x, o, h)
    BY <1>1, <1>3, <1>5, <2>1, DecideCompatFollows
  <2> QED BY <1>1, <1>2, <2>2, ReadsFollows
<1>6. CASE h = x
  <2>1. Follows(s, x, o, h)
    BY <1>3, <1>6, StayFollows
  <2> QED BY <1>1, <1>2, <2>1, ReadsFollows
<1> QED BY <1>4, <1>5, <1>6 DEF WaitHello, x

LEMMA WaitModeFollows ==
  ASSUME NEW s \in Player, NEW g, NEW o, Ready(s, g, o), g.stage = "waitMode", NEW h \in WaitMode(s, g)
  PROVE  Follows(s, g, o, h)
<1> DEFINE at == FirstOf("hello", g.inbox)
           x == Rest(g, at)
           m == g.inbox[at]
           y == [x EXCEPT !.heard = TRUE, !.mode = m.mode]
<1>1. s = "guest" /\ g.stage # "trade" /\ g.stage \in Undecided /\ g.verdict = "none" /\ g \in LinkGame /\ g.out = <<>>
  BY DEF Ready, Good, Shaken, Undecided
<1>2. g.inbox \in Seq(Speech) /\ Len(g.inbox) \in Nat
  BY <1>1, LenProperties DEF LinkGame
<1>3. at \in 0..Len(g.inbox) /\ (at # 0 => m.type = "hello")
  BY <1>2, FirstOfIs
<1>4. Peer(s) = "host"
  BY <1>1, Players DEF Player
<1> HIDE DEF at
<1>5. Reads(g, x)
  BY <1>1, <1>3, RestReads
<1>6. CASE h = Leave(g)
  BY <1>1, <1>6, LeaveFollows
<1>7. CASE at = 0 /\ h = x
  <2>1. Ready(s, x, o) /\ x.stage # "trade"
    BY <1>1, <1>5, ReadsReady DEF Reads
  <2>2. Follows(s, x, o, h)
    BY <1>7, <2>1, StayFollows
  <2> QED BY <1>1, <1>5, <2>2, ReadsFollows
<1>8. CASE at # 0 /\ h = DecideCompat(s, y)
  <2>1. at \in DOMAIN g.inbox /\ m \in Speech
    BY <1>2, <1>3, <1>8, ElementOfSeq, LenProperties
  <2>2. m.mode \in Mode
    BY <1>3, <1>8, <2>1 DEF Speech
  <2>3. m.mode = o.mode /\ o.stage # "modeSelect"
    BY <1>3, <1>4, <1>8, <2>1 DEF Ready, Said, Says
  <2> HIDE DEF x, m
  <2>4. Blank(g)
    BY <1>1, BeforeTrade
  <2>5. y \in LinkGame /\ Blank(y) /\ y.closed = g.closed /\ y.inbox = x.inbox /\ y.out = <<>> /\ y.mode = m.mode /\ y.verdict = "none" /\ y.heard
    BY <1>1, <1>5, <2>2, <2>4 DEF Reads, LinkGame, Blank
  <2> HIDE DEF y
  <2>6. Prepared(s, g, o, y)
    BY <1>1, <1>5, <2>3, <2>5 DEF Prepared, Reads
  <2> QED BY <1>1, <1>8, <2>5, <2>6, DecideCompatFollows
<1> QED BY <1>6, <1>7, <1>8 DEF WaitMode, at

LEMMA BattleWaitFollows ==
  ASSUME NEW s \in Player, NEW g, NEW o, Ready(s, g, o), g.stage = "battleWait", NEW h \in BattleWait(g)
  PROVE  Follows(s, g, o, h)
<1> DEFINE at == FirstOf("party", g.inbox)
           x == Rest(g, at)
           y == [x EXCEPT !.stage = "battleRunning"]
<1>1. g.stage # "trade" /\ g \in LinkGame /\ g.out = <<>> /\ g.mode = "battle" /\ g.verdict \in {"full", "vanilla_peer"}
  BY DEF Ready, Good, Shaken
<1>2. g.inbox \in Seq(Speech) /\ Len(g.inbox) \in Nat
  BY <1>1, LenProperties DEF LinkGame
<1>3. at \in 0..Len(g.inbox) /\ (at # 0 => g.inbox[at].type = "party")
  BY <1>2, FirstOfIs
<1> HIDE DEF at
<1>4. Reads(g, x)
  BY <1>1, <1>3, RestReads
<1>5. Ready(s, x, o) /\ x.stage # "trade"
  BY <1>1, <1>4, ReadsReady DEF Reads
<1>6. CASE h = Leave(g)
  BY <1>1, <1>6, LeaveFollows
<1>7. CASE at = 0 /\ h = x
  <2>1. Follows(s, x, o, h)
    BY <1>5, <1>7, StayFollows
  <2> QED BY <1>1, <1>4, <2>1, ReadsFollows
<1>8. CASE at # 0 /\ h = y
  <2>1. at \in DOMAIN g.inbox
    BY <1>2, <1>3, <1>8, LenProperties
  <2>2. o.verdict \notin {"none", "refused"} /\ (o.mode = "battle" => o.verdict \in {"full", "vanilla_peer"})
    BY <1>3, <1>8, <2>1 DEF Ready, Said, Says
  <2>3. pairing = "same"
    <3>1. CASE g.verdict = "full"
      BY <3>1 DEF Ready, Good, Shaken
    <3>2. CASE g.verdict = "vanilla_peer"
      <4>1. s = "host" /\ Peer(s) = "guest"
        BY <3>2, Players DEF Ready, Good, Shaken, Player
      <4>2. o.mode = "battle"
        BY <1>1, <2>2, <4>1 DEF Ready, Good, Knows
      <4> QED BY <2>2, <4>1, <4>2 DEF Ready, Good, Shaken
    <3> QED BY <1>1, <3>1, <3>2
  <2>4. Blank(g) /\ Blank(x) /\ x \in LinkGame /\ x.out = <<>> /\ x.mode = g.mode /\ x.verdict = g.verdict /\ x.closed = g.closed
    BY <1>1, <1>4, BeforeTrade DEF Reads, Blank
  <2> HIDE DEF x
  <2>5. /\ y \in LinkGame /\ Blank(y) /\ y.closed = g.closed /\ y.inbox = x.inbox /\ y.out = <<>> /\ y.mode = g.mode
        /\ y.verdict = g.verdict /\ y.stage = "battleRunning"
    BY <1>1, <2>4 DEF LinkGame, Blank, Stages, Over
  <2> HIDE DEF y
  <2>6. Shaken(s, y)
    BY <1>1, <2>3, <2>5 DEF Shaken, Undecided, Ready, Good
  <2>7. Session(s, y)
    BY <2>5 DEF Session, Blank, Trading, LinkGame
  <2>8. Knows(s, y, o)
    BY <1>1, <2>5 DEF Knows, Blank, Trading, Ready, Good
  <2>9. Said(y.out, s, y)
    BY <2>5 DEF Said
  <2>10. Later(s, g, y)
    BY <1>1, <2>4, <2>5 DEF Later, Blank, Ready, Ended, Over
  <2>11. \A i \in DOMAIN y.inbox : Holds(g.inbox, y.inbox[i])
    BY <1>4, <2>5 DEF Reads
  <2> QED BY <1>1, <1>8, <2>5, <2>6, <2>7, <2>8, <2>9, <2>10, <2>11, HandshakeFollows DEF Good, Blank
<1> QED BY <1>6, <1>7, <1>8 DEF BattleWait, at

\* A player at the notice, or with the options of a battle, may go on.
LEMMA GoOnFollows ==
  ASSUME NEW s \in Player, NEW g, NEW o, Ready(s, g, o),
         g.stage = "battleOptions" \/ (g.stage = "notice" /\ ~Exits(g))
  PROVE  Follows(s, g, o, StartMode(s, g))
<1>1. Blank(g) /\ g.stage # "trade" /\ g.verdict # "none"
  BY BeforeTrade DEF Ready, Good, Shaken
<1>2. Admits(s, g)
  BY DEF Ready, Good, Shaken, Exits, Admits
<1>3. Prepared(s, g, o, g)
  BY <1>1 DEF Ready, Good, Knows, Prepared, Holds
<1> QED BY <1>1, <1>2, <1>3, StartModeFollows

-----------------------------------------------------------------------------
(* One frame of a session.                                                 *)

\* t is the session once everything that had come for g has been handled.
Heard(s, g, o, t) ==
  /\ InSession(s, t, o) /\ t.inbox = <<>> /\ t.closed = g.closed /\ t.mine = g.mine
  /\ Later(s, g, t)
  /\ g.their => t.their
  /\ t.their => g.their \/ Holds(g.inbox, Confirm)
  /\ Holds(g.inbox, Confirm) => t.their

LEMMA HandledIsHeard ==
  ASSUME NEW s \in Player, NEW g, NEW o, Ready(s, g, o), g.stage = "trade"
  PROVE  Heard(s, g, o, Handled(s, [g EXCEPT !.inbox = <<>>], g.inbox))
<1> DEFINE b == [g EXCEPT !.inbox = <<>>]
           t == Handled(s, b, g.inbox)
<1>1. /\ b \in LinkGame /\ b.stage = "trade" /\ b.inbox = <<>> /\ b.closed = g.closed /\ b.mine = g.mine /\ b.their = g.their
      /\ Reads(g, b) /\ g.inbox \in Seq(Speech)
  <2>1. g \in LinkGame /\ <<>> \in Seq(Speech)
    BY DEF Ready
  <2>2. b \in LinkGame /\ b.inbox = <<>>
    BY <2>1 DEF LinkGame
  <2>3. \A i \in DOMAIN b.inbox : Holds(g.inbox, b.inbox[i])
    BY <2>2
  <2> QED BY <2>1, <2>2, <2>3 DEF Ready, LinkGame, Reads
<1>2. g.got = 0 /\ b.got = 0
  BY DEF Ready, Good, Session, Over, Reads, LinkGame
<1> HIDE DEF b
<1>3. InSession(s, b, o)
  BY <1>1, <1>2, ReadsReady DEF Ready, InSession
<1>4. o.verdict # "none" => o.mode = "trade"
  BY BothTrade
<1>5. /\ InSession(s, t, o) /\ Kept(b, t)
      /\ Holds(g.inbox, Confirm) => t.their
      /\ t.their => b.their \/ Holds(g.inbox, Confirm)
  BY <1>1, <1>3, <1>4, HandledKeeps DEF Ready, Known
<1> HIDE DEF t
<1>6. Later(s, b, t)
  BY <1>3, <1>5, KeptIsLater
<1>7. Later(s, g, t)
  BY <1>1, <1>6 DEF Later, Reads
<1>8. Heard(s, g, o, t)
  BY <1>1, <1>5, <1>7 DEF Heard, Kept
<1> QED BY <1>8 DEF t, b

\* What a frame may make of a session that it does not end.
LEMMA SessionFollows ==
  ASSUME NEW s \in Player, NEW g, NEW o, Ready(s, g, o), g.stage = "trade", NEW t, Heard(s, g, o, t),
         NEW h \in LinkGame, Shaken(s, h), Session(s, h), Knows(s, h, o), Said(h.out, s, h), Later(s, t, h),
         h.stage \in {"trade", "left", "crashed"}, h.stage = "trade" => h.trade # "cancelled",
         h.inbox = t.inbox, h.closed = t.closed, h.their = t.their,
         h.mine /\ ~t.mine => h.stage = "trade" /\ Holds(h.out, Confirm),
         h.stage = "trade" /\ h.trade = "done" => ~t.mine,
         h.stage = "left" /\ h.got = 0 /\ h.mine => o.stage \in Ended /\ ~o.mine
  PROVE  Follows(s, g, o, h)
<1>1. Later(s, g, h)
  BY DEF Heard, Later
<1>2. \A i \in DOMAIN h.inbox : Holds(g.inbox, h.inbox[i])
  BY DEF Heard
<1> QED BY <1>1, <1>2 DEF Heard, Follows, Goes, Good

LEMMA SessionLeaves ==
  ASSUME NEW s \in Player, NEW g, NEW o, Ready(s, g, o), g.stage = "trade", NEW t, Heard(s, g, o, t),
         t.mine => t.trade = "cancelled"
  PROVE  Follows(s, g, o, Leave(t)) /\ (~t.mine => Follows(s, g, o, SayBye(t)))
<1>1. /\ t \in LinkGame /\ t.stage = "trade" /\ t.got = 0 /\ Shaken(s, t) /\ Session(s, t) /\ Knows(s, t, o) /\ Said(t.out, s, t)
      /\ t.out \in Seq(Speech)
  BY DEF Heard, InSession, Good, LinkGame
<1>2. t.mine => o.stage \in Ended /\ ~o.mine
  BY <1>1 DEF Knows
<1>3. Msg("bye") \in Speech /\ Msg("bye").type = "bye" /\ Append(t.out, Msg("bye")) \in Seq(Speech)
  <2>1. Msg("bye") \in Speech /\ Msg("bye").type = "bye"
    BY DEF Msg, Speech
  <2> QED BY <1>1, <2>1, AppendProperties
<1>4. ASSUME NEW h, h = [t EXCEPT !.stage = "left"] \/ h = [t EXCEPT !.stage = "left", !.out = Append(t.out, Msg("bye"))],
             Said(t.out, s, h) => Said(h.out, s, h)
      PROVE  Follows(s, g, o, h)
  <2>1. h \in LinkGame
    <3>1. "left" \in Stages
      BY DEF Stages, Over
    <3>2. CASE h = [t EXCEPT !.stage = "left"]
      BY <1>1, <3>1, <3>2 DEF LinkGame
    <3>3. CASE h = [t EXCEPT !.stage = "left", !.out = Append(t.out, Msg("bye"))]
      <4>1. PICK out \in Seq(Speech) : h = [t EXCEPT !.stage = "left", !.out = out]
        BY <1>3, <3>3
      <4> QED BY <1>1, <3>1, <4>1 DEF LinkGame
    <3> QED BY <1>4, <3>2, <3>3
  <2>2. /\ h.stage = "left" /\ h.inbox = t.inbox /\ h.closed = t.closed /\ h.their = t.their /\ h.mine = t.mine /\ h.got = 0
        /\ h.mode = t.mode /\ h.verdict = t.verdict /\ h.trade = t.trade /\ h.limited = t.limited /\ h.sends = t.sends
        /\ h.theirs = t.theirs /\ h.myPick = t.myPick /\ h.theirPick = t.theirPick
    BY <1>1, <1>4 DEF LinkGame
  <2>3. Shaken(s, h)
    BY <1>1, <2>2 DEF Shaken, Undecided, Blank
  <2>4. Session(s, h)
    BY <1>1, <2>2 DEF Session, Blank
  <2>5. Knows(s, h, o)
    BY <1>1, <2>2 DEF Knows
  <2>6. Later(s, t, h)
    BY <1>1, <2>2 DEF Later, Ended, Over
  <2>7. Said(h.out, s, h)
    BY <1>1, <1>4, <2>6, LaterSaid
  <2> QED BY <1>2, <2>1, <2>2, <2>3, <2>4, <2>5, <2>6, <2>7, SessionFollows
<1>5. Follows(s, g, o, Leave(t))
  <2>1. Leave(t) = [t EXCEPT !.stage = "left"] /\ Leave(t).out = t.out
    BY <1>1 DEF Leave, LinkGame
  <2> QED BY <1>4, <2>1
<1>6. ASSUME ~t.mine PROVE Follows(s, g, o, SayBye(t))
  <2> DEFINE h == [t EXCEPT !.stage = "left", !.out = Append(t.out, Msg("bye"))]
  <2>1. SayBye(t) = h /\ h.out = Append(t.out, Msg("bye")) /\ h.mine = t.mine /\ h.stage = "left"
    BY <1>1 DEF SayBye, Leave, Send, LinkGame
  <2>2. Says(s, h, Msg("bye"))
    BY <1>3, <1>6, <2>1 DEF Says, Ended, Over
  <2>3. Said(t.out, s, h) => Said(h.out, s, h)
    BY <1>1, <1>3, <2>1, <2>2, SaidAppend
  <2> QED BY <1>4, <2>1, <2>3
<1> QED BY <1>5, <1>6

LEMMA ApplyTradeFollows ==
  ASSUME NEW s \in Player, NEW g, NEW o, Ready(s, g, o), g.stage = "trade", NEW t, Heard(s, g, o, t), t.trade = "done"
  PROVE  Follows(s, g, o, ApplyTrade(t))
<1>1. /\ t \in LinkGame /\ t.stage = "trade" /\ t.got = 0 /\ Shaken(s, t) /\ Session(s, t) /\ Knows(s, t, o) /\ Said(t.out, s, t)
      /\ t.out \in Seq(Speech) /\ t.theirs \in Seq(Slot)
  BY DEF Heard, InSession, Good, LinkGame
<1>2. CASE t.theirPick \in DOMAIN t.theirs
  <2> DEFINE h == [t EXCEPT !.got = t.theirs[t.theirPick], !.stage = "left"]
  <2>1. ApplyTrade(t) = h
    BY <1>1, <1>2 DEF ApplyTrade, Leave, LinkGame
  <2>2. t.theirs[t.theirPick] \in Slot
    BY <1>1, <1>2, ElementOfSeq, LenProperties
  <2>3. h \in LinkGame
    BY <1>1, <2>2 DEF LinkGame, Stages, Over, Slot
  <2>4. /\ h.stage = "left" /\ h.inbox = t.inbox /\ h.closed = t.closed /\ h.their = t.their /\ h.mine = t.mine
        /\ h.got = t.theirs[t.theirPick] /\ h.got # 0 /\ h.out = t.out
        /\ h.mode = t.mode /\ h.verdict = t.verdict /\ h.trade = t.trade /\ h.limited = t.limited /\ h.sends = t.sends
        /\ h.theirs = t.theirs /\ h.myPick = t.myPick /\ h.theirPick = t.theirPick
    BY <1>1, <2>2 DEF LinkGame, Slot
  <2> HIDE DEF h
  <2>5. Shaken(s, h)
    BY <1>1, <2>4 DEF Shaken, Undecided, Blank, Session
  <2>6. Session(s, h)
    BY <1>1, <1>2, <2>4 DEF Session, Blank
  <2>7. Knows(s, h, o)
    BY <1>1, <2>4 DEF Knows
  <2>8. Later(s, t, h)
    BY <1>1, <2>4 DEF Later, Ended, Over
  <2>9. Said(h.out, s, h)
    BY <1>1, <2>4, <2>8, LaterSaid
  <2> QED BY <2>1, <2>3, <2>4, <2>5, <2>6, <2>7, <2>8, <2>9, SessionFollows
<1>3. CASE t.theirPick \notin DOMAIN t.theirs
  <2> DEFINE h == [t EXCEPT !.stage = "crashed"]
  <2>1. ApplyTrade(t) = h
    BY <1>1, <1>3 DEF ApplyTrade, LinkGame
  <2>2. t.verdict = "vanilla_peer"
    <3>1. ~Strict(t.verdict)
      BY <1>1, <1>3 DEF Knows, Session, Trading
    <3>2. t.verdict \in Verdicts \ {"none", "refused"}
      BY <1>1 DEF Shaken, LinkGame
    <3> QED BY <3>1, <3>2 DEF Strict, Verdicts
  <2>3. h \in LinkGame
    BY <1>1 DEF LinkGame, Stages, Over
  <2>4. /\ h.stage = "crashed" /\ h.inbox = t.inbox /\ h.closed = t.closed /\ h.their = t.their /\ h.mine = t.mine
        /\ h.got = 0 /\ h.out = t.out
        /\ h.mode = t.mode /\ h.verdict = t.verdict /\ h.trade = t.trade /\ h.limited = t.limited /\ h.sends = t.sends
        /\ h.theirs = t.theirs /\ h.myPick = t.myPick /\ h.theirPick = t.theirPick
    BY <1>1 DEF LinkGame
  <2> HIDE DEF h
  <2>5. Shaken(s, h)
    BY <1>1, <2>2, <2>4 DEF Shaken, Undecided, Blank
  <2>6. Session(s, h)
    BY <1>1, <2>4 DEF Session, Blank
  <2>7. Knows(s, h, o)
    BY <1>1, <2>4 DEF Knows
  <2>8. Later(s, t, h)
    BY <1>1, <2>4 DEF Later, Ended, Over
  <2>9. Said(h.out, s, h)
    BY <1>1, <2>4, <2>8, LaterSaid
  <2> QED BY <2>1, <2>3, <2>4, <2>5, <2>6, <2>7, <2>8, <2>9, SessionFollows
<1> QED BY <1>2, <1>3

LEMMA PickFollows ==
  ASSUME NEW s \in Player, NEW g, NEW o, Ready(s, g, o), g.stage = "trade", NEW t, Heard(s, g, o, t),
         t.trade = "picking", NEW i \in DOMAIN party[s], CanPick(t, i)
  PROVE  Follows(s, g, o, Pick(t, i))
<1>1. /\ t \in LinkGame /\ t.stage = "trade" /\ t.got = 0 /\ Shaken(s, t) /\ Session(s, t) /\ Knows(s, t, o) /\ Said(t.out, s, t)
      /\ t.out \in Seq(Speech) /\ t.sends \in Seq(Slot)
  BY DEF Heard, InSession, Good, LinkGame
<1>2. t.myPick = 0 /\ ~t.mine
  BY <1>1 DEF Session
<1>3. i \in Nat /\ i # 0
  BY LenProperties DEF Ready, Known
<1>4. Holds(t.sends, i)
  BY <1>1 DEF CanPick, Session, Trading
<1> DEFINE at == {k \in DOMAIN t.sends : t.sends[k] = i}
           k == CHOOSE k \in at : TRUE
           m == [type |-> "pick", index |-> k]
           h == [t EXCEPT !.myPick = i, !.trade = IF t.theirPick # 0 THEN "confirming" ELSE "waitPick", !.out = Append(t.out, m)]
<1>5. k \in DOMAIN t.sends /\ t.sends[k] = i /\ at # {}
  BY <1>4 DEF Holds
<1>6. Pick(t, i) = h
  <2>1. Advance([t EXCEPT !.myPick = i]) = [t EXCEPT !.myPick = i, !.trade = IF t.theirPick # 0 THEN "confirming" ELSE "waitPick"]
    BY <1>1, <1>2, <1>3 DEF Advance, LinkGame
  <2>2. Pick(t, i) = Send(Advance([t EXCEPT !.myPick = i]), m)
    BY <1>5 DEF Pick
  <2> HIDE DEF m
  <2> QED BY <1>1, <2>1, <2>2 DEF Send, LinkGame
<1> HIDE DEF k
<1>7. m \in Speech /\ m.type = "pick" /\ m.index = k /\ Append(t.out, m) \in Seq(Speech)
  <2>1. k \in Nat
    BY <1>1, <1>5, LenProperties
  <2>2. m \in Speech
    BY <2>1 DEF Speech
  <2> QED BY <1>1, <2>2, AppendProperties
<1> HIDE DEF m
<1>8. h \in LinkGame
  BY <1>1, <1>3, <1>7 DEF LinkGame, Trades
<1>9. /\ h.stage = "trade" /\ h.inbox = t.inbox /\ h.closed = t.closed /\ h.their = t.their /\ h.mine = t.mine
      /\ h.got = 0 /\ h.out = Append(t.out, m) /\ h.trade = (IF t.theirPick # 0 THEN "confirming" ELSE "waitPick")
      /\ h.mode = t.mode /\ h.verdict = t.verdict /\ h.limited = t.limited /\ h.sends = t.sends
      /\ h.theirs = t.theirs /\ h.myPick = i /\ h.theirPick = t.theirPick
  BY <1>1, <1>3 DEF LinkGame
<1> HIDE DEF h
<1>10. Shaken(s, h)
  BY <1>1, <1>9 DEF Shaken, Undecided, Blank
<1>11. Session(s, h)
  BY <1>1, <1>2, <1>3, <1>9 DEF Session, Trading
<1>12. Knows(s, h, o)
  BY <1>1, <1>2, <1>9 DEF Knows, Trading
<1>13. Later(s, t, h)
  BY <1>1, <1>2, <1>9 DEF Later, Ended, Over
<1>14. Said(h.out, s, h)
  <2>1. Said(t.out, s, h)
    BY <1>1, <1>13, LaterSaid
  <2>2. Says(s, h, m)
    BY <1>3, <1>5, <1>7, <1>9 DEF Says
  <2> QED BY <1>1, <1>7, <1>9, <2>1, <2>2, SaidAppend
<1> QED BY <1>2, <1>6, <1>8, <1>9, <1>10, <1>11, <1>12, <1>13, <1>14, SessionFollows

LEMMA ConfirmFollows ==
  ASSUME NEW s \in Player, NEW g, NEW o, Ready(s, g, o), g.stage = "trade", NEW t, Heard(s, g, o, t),
         t.trade = "confirming", ~t.mine
  PROVE  Follows(s, g, o, Send(Advance([t EXCEPT !.mine = TRUE]), Msg("confirm")))
<1>1. /\ t \in LinkGame /\ t.stage = "trade" /\ t.got = 0 /\ Shaken(s, t) /\ Session(s, t) /\ Knows(s, t, o) /\ Said(t.out, s, t)
      /\ t.out \in Seq(Speech)
  BY DEF Heard, InSession, Good, LinkGame
<1> DEFINE h == [t EXCEPT !.mine = TRUE, !.trade = IF t.their THEN "done" ELSE "confirming", !.out = Append(t.out, Confirm)]
<1>2. Send(Advance([t EXCEPT !.mine = TRUE]), Msg("confirm")) = h
  <2>1. Advance([t EXCEPT !.mine = TRUE]) = [t EXCEPT !.mine = TRUE, !.trade = IF t.their THEN "done" ELSE "confirming"]
    BY <1>1 DEF Advance, LinkGame
  <2> QED BY <1>1, <2>1 DEF Send, LinkGame, Confirm
<1>3. Confirm \in Speech /\ Confirm.type = "confirm" /\ Append(t.out, Confirm) \in Seq(Speech)
  <2>1. Confirm \in Speech /\ Confirm.type = "confirm"
    BY DEF Confirm, Msg, Speech
  <2> QED BY <1>1, <2>1, AppendProperties
<1>4. h \in LinkGame
  BY <1>1, <1>3 DEF LinkGame, Trades
<1>5. /\ h.stage = "trade" /\ h.inbox = t.inbox /\ h.closed = t.closed /\ h.their = t.their /\ h.mine = TRUE
      /\ h.got = 0 /\ h.out = Append(t.out, Confirm) /\ h.trade = (IF t.their THEN "done" ELSE "confirming")
      /\ h.mode = t.mode /\ h.verdict = t.verdict /\ h.limited = t.limited /\ h.sends = t.sends
      /\ h.theirs = t.theirs /\ h.myPick = t.myPick /\ h.theirPick = t.theirPick
  BY <1>1 DEF LinkGame
<1> HIDE DEF h
<1>6. Shaken(s, h)
  BY <1>1, <1>5 DEF Shaken, Undecided, Blank
<1>7. Session(s, h)
  BY <1>1, <1>5 DEF Session, Trading
<1>8. Knows(s, h, o)
  BY <1>1, <1>5 DEF Knows, Trading
<1>9. Later(s, t, h)
  BY <1>1, <1>5 DEF Later, Ended, Over
<1>10. Said(h.out, s, h)
  <2>1. Said(t.out, s, h)
    BY <1>1, <1>9, LaterSaid
  <2>2. Says(s, h, Confirm)
    BY <1>3, <1>5 DEF Says
  <2> QED BY <1>1, <1>3, <1>5, <2>1, <2>2, SaidAppend
<1>11. Holds(h.out, Confirm)
  <2>1. Len(t.out) \in Nat /\ DOMAIN h.out = 1..(Len(t.out) + 1) /\ h.out[Len(t.out) + 1] = Confirm
    BY <1>1, <1>3, <1>5, AppendProperties, LenProperties
  <2> QED BY <2>1 DEF Holds
<1> QED BY <1>2, <1>4, <1>5, <1>6, <1>7, <1>8, <1>9, <1>10, <1>11, SessionFollows

LEMMA UpdateTradeFollows ==
  ASSUME NEW s \in Player, NEW g, NEW o, Ready(s, g, o), g.stage = "trade", NEW h \in UpdateTrade(s, g)
  PROVE  Follows(s, g, o, h)
<1> DEFINE t == Handled(s, [g EXCEPT !.inbox = <<>>], g.inbox)
<1>1. Heard(s, g, o, t)
  BY HandledIsHeard
<1>2. \/ t.trade = "cancelled" /\ h = Leave(t)
      \/ t.trade = "done" /\ h = ApplyTrade(t)
      \/ t.trade \notin {"cancelled", "done"} /\ h = t
      \/ t.trade \notin {"cancelled", "done"} /\ MayCancel(t) /\ h = SayBye(t)
      \/ t.trade = "picking" /\ \E i \in DOMAIN party[s] : CanPick(t, i) /\ h = Pick(t, i)
      \/ t.trade = "confirming" /\ ~t.mine /\ h = Send(Advance([t EXCEPT !.mine = TRUE]), Msg("confirm"))
  <2> HIDE DEF t
  <2>1. UpdateTrade(s, g) = CASE t.trade = "cancelled" -> {Leave(t)}
        [] t.trade = "done"      -> {ApplyTrade(t)}
        [] OTHER ->
             {t} \cup (IF MayCancel(t) THEN {SayBye(t)} ELSE {})
               \cup (IF t.trade # "picking" THEN {}
                     ELSE {Pick(t, i) : i \in {j \in DOMAIN party[s] : CanPick(t, j)}})
               \cup (IF t.trade # "confirming" \/ t.mine THEN {}
                     ELSE {Send(Advance([t EXCEPT !.mine = TRUE]), Msg("confirm"))})
    BY DEF UpdateTrade, t
  <2>2. CASE t.trade = "cancelled"
    BY <2>1, <2>2
  <2>3. CASE t.trade = "done"
    BY <2>1, <2>3
  <2>4. CASE t.trade \notin {"cancelled", "done"}
    <3>1. h \in {t} \cup (IF MayCancel(t) THEN {SayBye(t)} ELSE {})
               \cup (IF t.trade # "picking" THEN {}
                     ELSE {Pick(t, i) : i \in {j \in DOMAIN party[s] : CanPick(t, j)}})
               \cup (IF t.trade # "confirming" \/ t.mine THEN {}
                     ELSE {Send(Advance([t EXCEPT !.mine = TRUE]), Msg("confirm"))})
      BY <2>1, <2>4
    <3> QED BY <2>4, <3>1
  <2> QED BY <2>2, <2>3, <2>4
<1> HIDE DEF t
<1>3. CASE t.trade = "cancelled" /\ h = Leave(t)
  BY <1>1, <1>3, SessionLeaves
<1>4. CASE t.trade = "done" /\ h = ApplyTrade(t)
  BY <1>1, <1>4, ApplyTradeFollows
<1>5. CASE t.trade \notin {"cancelled", "done"} /\ h = t
  <2>1. Later(s, t, t)
    BY DEF Later
  <2>2. t \in LinkGame /\ t.stage = "trade" /\ Shaken(s, t) /\ Session(s, t) /\ Knows(s, t, o) /\ Said(t.out, s, t)
    BY <1>1 DEF Heard, InSession, Good
  <2> QED BY <1>1, <1>5, <2>1, <2>2, SessionFollows
<1>6. CASE t.trade \notin {"cancelled", "done"} /\ MayCancel(t) /\ h = SayBye(t)
  BY <1>1, <1>6, SessionLeaves DEF MayCancel
<1>7. CASE t.trade = "picking" /\ \E i \in DOMAIN party[s] : CanPick(t, i) /\ h = Pick(t, i)
  BY <1>1, <1>7, PickFollows
<1>8. CASE t.trade = "confirming" /\ ~t.mine /\ h = Send(Advance([t EXCEPT !.mine = TRUE]), Msg("confirm"))
  BY <1>1, <1>8, ConfirmFollows
<1> QED BY <1>2, <1>3, <1>4, <1>5, <1>6, <1>7, <1>8

\* Whatever LinkState:update does with a stage, a key and what has come.
LEMMA UpdateFollows ==
  ASSUME NEW s \in Player, NEW g, NEW o, Ready(s, g, o), NEW h \in Update(s, g)
  PROVE  Follows(s, g, o, h)
<1>1. g.stage \in {"modeSelect", "battleOptions", "waitHello", "waitMode", "notice", "trade", "battleWait"}
  BY DEF Ready, LinkGame, Stages
<1>2. CASE g.closed /\ g.inbox = <<>> /\ g.stage \notin Stays
  <2>1. h = Leave(g)
    BY <1>2 DEF Update
  <2> QED BY <1>2, <2>1, LeaveFollows
<1>3. CASE ~(g.closed /\ g.inbox = <<>> /\ g.stage \notin Stays)
  <2>1. CASE g.stage = "modeSelect"
    <3>1. h \in ModeSelect(s, PollHello(g))
      BY <1>3, <2>1 DEF Update
    <3>2. Reads(g, PollHello(g))
      BY PollHelloReads DEF Ready
    <3>3. Ready(s, PollHello(g), o) /\ PollHello(g).stage = "modeSelect"
      BY <2>1, <3>2, ReadsReady DEF Reads
    <3>4. Follows(s, PollHello(g), o, h)
      BY <3>1, <3>3, ModeSelectFollows
    <3> QED BY <2>1, <3>2, <3>4, ReadsFollows
  <2>2. CASE g.stage = "battleOptions"
    <3>1. h \in {g, Leave(g), StartMode(s, g)}
      BY <1>3, <2>2 DEF Update
    <3> QED BY <2>2, <3>1, StayFollows, LeaveFollows, GoOnFollows
  <2>3. CASE g.stage = "waitHello"
    <3>1. h \in WaitHello(s, g, PollHello(g))
      BY <1>3, <2>3 DEF Update
    <3> QED BY <2>3, <3>1, WaitHelloFollows
  <2>4. CASE g.stage = "waitMode"
    <3>1. h \in WaitMode(s, g)
      BY <1>3, <2>4 DEF Update
    <3> QED BY <2>4, <3>1, WaitModeFollows
  <2>5. CASE g.stage = "notice"
    <3>1. h \in Notice(s, g)
      BY <1>3, <2>5 DEF Update
    <3>2. h = g \/ h = SayBye(g) \/ (~Exits(g) /\ h = StartMode(s, g))
      BY <3>1 DEF Notice
    <3> QED BY <2>5, <3>2, StayFollows, SayByeFollows, GoOnFollows
  <2>6. CASE g.stage = "trade"
    <3>1. h \in UpdateTrade(s, g)
      BY <1>3, <2>6 DEF Update
    <3> QED BY <2>6, <3>1, UpdateTradeFollows
  <2>7. CASE g.stage = "battleWait"
    <3>1. h \in BattleWait(g)
      BY <1>3, <2>7 DEF Update
    <3> QED BY <2>7, <3>1, BattleWaitFollows
  <2> QED BY <1>1, <2>1, <2>2, <2>3, <2>4, <2>5, <2>6, <2>7
<1> QED BY <1>2, <1>3

-----------------------------------------------------------------------------
(* The link.                                                               *)

LEMMA HoldsConcat ==
  ASSUME NEW X, NEW q \in Seq(X), NEW r \in Seq(X), NEW m
  PROVE  Holds(q \o r, m) <=> Holds(q, m) \/ Holds(r, m)
<1>1. /\ Len(q) \in Nat /\ Len(r) \in Nat /\ DOMAIN q = 1..Len(q) /\ DOMAIN r = 1..Len(r)
      /\ DOMAIN (q \o r) = 1..Len(q) + Len(r)
      /\ \A i \in 1..Len(q) + Len(r) : (q \o r)[i] = IF i <= Len(q) THEN q[i] ELSE r[i - Len(q)]
  BY LenProperties, ConcatProperties
<1>2. ASSUME NEW i \in 1..Len(q), q[i] = m PROVE Holds(q \o r, m)
  <2>1. i \in 1..Len(q) + Len(r) /\ i <= Len(q)
    BY <1>1
  <2> QED BY <1>1, <1>2, <2>1 DEF Holds
<1>3. ASSUME NEW i \in 1..Len(r), r[i] = m PROVE Holds(q \o r, m)
  <2>1. Len(q) + i \in 1..Len(q) + Len(r) /\ ~(Len(q) + i <= Len(q)) /\ Len(q) + i - Len(q) = i
    BY <1>1
  <2> QED BY <1>1, <1>3, <2>1 DEF Holds
<1>4. ASSUME NEW i \in 1..Len(q) + Len(r), (q \o r)[i] = m PROVE Holds(q, m) \/ Holds(r, m)
  <2>1. CASE i <= Len(q)
    <3>1. i \in DOMAIN q /\ q[i] = m
      BY <1>1, <1>4, <2>1
    <3> QED BY <3>1 DEF Holds
  <2>2. CASE ~(i <= Len(q))
    <3>1. i - Len(q) \in DOMAIN r /\ r[i - Len(q)] = m
      BY <1>1, <1>4, <2>2
    <3> QED BY <3>1 DEF Holds
  <2> QED BY <2>1, <2>2
<1> QED BY <1>1, <1>2, <1>3, <1>4 DEF Holds

\* A stream, cut in two.
LEMMA Parted ==
  ASSUME NEW X, NEW q \in Seq(X), NEW n \in 0..Len(q)
  PROVE  /\ SubSeq(q, 1, n) \in Seq(X) /\ SubSeq(q, n + 1, Len(q)) \in Seq(X)
         /\ \A m : Holds(q, m) <=> Holds(SubSeq(q, 1, n), m) \/ Holds(SubSeq(q, n + 1, Len(q)), m)
         /\ Len(SubSeq(q, n + 1, Len(q))) = Len(q) - n
         /\ \A i \in DOMAIN SubSeq(q, n + 1, Len(q)) : SubSeq(q, n + 1, Len(q))[i] = q[n + i] /\ n + i \in DOMAIN q
         /\ DOMAIN SubSeq(q, 1, n) = 1..n /\ \A i \in 1..n : SubSeq(q, 1, n)[i] = q[i]
<1>1. Len(q) \in Nat /\ DOMAIN q = 1..Len(q)
  BY LenProperties
<1>2. 1 \in 1..(Len(q) + 1) /\ n + 1 \in 1..(Len(q) + 1) /\ Len(q) \in 0..Len(q) /\ n \in Nat /\ n <= Len(q)
  BY <1>1
<1> DEFINE a == SubSeq(q, 1, n)
           b == SubSeq(q, n + 1, Len(q))
<1>3. a \in Seq(X) /\ b \in Seq(X) /\ (\A i \in DOMAIN a : Holds(q, a[i])) /\ \A i \in DOMAIN b : Holds(q, b[i])
  BY <1>1, <1>2, SubSeqPart
<1>4. DOMAIN a = 1..n /\ \A i \in 1..n : a[i] = q[i]
  <2>1. CASE n = 0
    BY <2>1
  <2>2. CASE n # 0
    BY <1>1, <1>2, <2>2, SubSeqProperties, LenProperties
  <2> QED BY <2>1, <2>2
<1>5. Len(b) = Len(q) - n /\ DOMAIN b = 1..(Len(q) - n) /\ \A i \in 1..(Len(q) - n) : b[i] = q[n + i]
  <2>1. CASE n = Len(q)
    <3>1. b = <<>>
      BY <1>1, <2>1
    <3> QED BY <1>1, <2>1, <3>1
  <2>2. CASE n # Len(q)
    <3>1. n + 1 \in 1..Len(q) /\ n + 1 <= Len(q)
      <4>1. \A k, l \in Nat : k <= l /\ k # l => k + 1 \in 1..l /\ k + 1 <= l
        OBVIOUS
      <4> QED BY <1>1, <1>2, <2>2, <4>1
    <3>2. /\ Len(b) = Len(q) - (n + 1) + 1
          /\ \A i \in 1..(Len(q) - (n + 1) + 1) : b[i] = q[(n + 1) + i - 1]
      BY <1>1, <3>1, SubSeqProperties
    <3>3. DOMAIN b = 1..Len(b)
      BY <1>3, LenProperties
    <3>4. Len(q) - (n + 1) + 1 = Len(q) - n /\ \A i \in 1..(Len(q) - n) : (n + 1) + i - 1 = n + i
      BY <1>1
    <3> QED BY <3>2, <3>3, <3>4
  <2> QED BY <2>1, <2>2
<1>6. ASSUME NEW i \in DOMAIN q PROVE Holds(a, q[i]) \/ Holds(b, q[i])
  <2>1. CASE i <= n
    <3>1. i \in 1..n
      BY <1>1, <2>1
    <3> QED BY <1>4, <3>1 DEF Holds
  <2>2. CASE ~(i <= n)
    <3>1. i - n \in 1..(Len(q) - n) /\ n + (i - n) = i
      BY <1>1, <2>2
    <3> QED BY <1>5, <3>1 DEF Holds
  <2> QED BY <2>1, <2>2
<1>7. \A i \in DOMAIN b : n + i \in DOMAIN q
  <2>1. \A i \in 1..(Len(q) - n) : n + i \in 1..Len(q)
    BY <1>1, <1>2
  <2> QED BY <1>1, <1>5, <2>1
<1> HIDE DEF a, b
<1>8. \A m : Holds(q, m) <=> Holds(a, m) \/ Holds(b, m)
  BY <1>3, <1>6 DEF Holds
<1> QED BY <1>3, <1>4, <1>5, <1>7, <1>8 DEF a, b

\* g is old with what has come, and has handed over what it had to say.
Arrived(old, came, g) ==
  /\ g \in LinkGame
  /\ g.stage = old.stage /\ g.mode = old.mode /\ g.verdict = old.verdict /\ g.out = <<>>
  /\ g.trade = old.trade /\ g.limited = old.limited /\ g.sends = old.sends /\ g.theirs = old.theirs
  /\ g.myPick = old.myPick /\ g.theirPick = old.theirPick /\ g.mine = old.mine /\ g.their = old.their /\ g.got = old.got
  /\ g.closed <=> old.closed \/ Holds(came, Gone) \/ Holds(came, Failed)
  /\ \A m : Holds(g.inbox, m) <=> Holds(old.inbox, m) \/ (Holds(came, m) /\ m \notin {Gone, Failed})

LEMMA StreamsAssociate ==
  ASSUME NEW a \in Seq(Message), NEW b \in Seq(Message), NEW c \in Seq(Message)
  PROVE  (a \o b) \o c = a \o (b \o c)
  BY ConcatAssociative

LEMMA SpeechIsNoEnd == Speech \cap {Gone, Failed} = {} /\ Message \ {Gone, Failed} = Speech
<1>1. Gone.type = "closed" /\ Failed.type = "error" /\ \A m \in Speech : m.type \notin {"closed", "error"}
  BY DEF Gone, Failed, Msg, Speech
<1> QED BY <1>1 DEF Message

LEMMA Arrives ==
  ASSUME NEW old \in LinkGame, NEW came \in Seq(Message)
  PROVE  Arrived(old, came, [old EXCEPT !.inbox = old.inbox \o Dropping(came, {Gone, Failed}), !.out = <<>>,
                                       !.closed = old.closed \/ Holds(came, Gone) \/ Holds(came, Failed)])
<1> DEFINE said == Dropping(came, {Gone, Failed})
           g == [old EXCEPT !.inbox = old.inbox \o said, !.out = <<>>,
                            !.closed = old.closed \/ Holds(came, Gone) \/ Holds(came, Failed)]
<1>1. /\ said \in Seq(Speech)
      /\ \A k \in DOMAIN said : Holds(came, said[k])
      /\ \A m : Holds(came, m) /\ m \notin {Gone, Failed} => Holds(said, m)
  BY DroppingPicks, SpeechIsNoEnd
<1> HIDE DEF said
<1>2. \A k \in DOMAIN said : said[k] \in Speech
  BY <1>1, ElementOfSeq, LenProperties
<1>3. \A m : Holds(said, m) <=> Holds(came, m) /\ m \notin {Gone, Failed}
  BY <1>1, <1>2, SpeechIsNoEnd DEF Holds
<1>4. old.inbox \in Seq(Speech) /\ old.closed \in BOOLEAN
  BY DEF LinkGame
<1>5. old.inbox \o said \in Seq(Speech) /\ <<>> \in Seq(Speech)
  BY <1>1, <1>4, ConcatProperties
<1>6. \A m : Holds(old.inbox \o said, m) <=> Holds(old.inbox, m) \/ (Holds(came, m) /\ m \notin {Gone, Failed})
  BY <1>1, <1>3, <1>4, HoldsConcat
<1>7. (old.closed \/ Holds(came, Gone) \/ Holds(came, Failed)) \in BOOLEAN
  BY <1>4 DEF Holds
<1>8. g \in LinkGame
  BY <1>5, <1>7 DEF LinkGame
<1>9. g.inbox = old.inbox \o said /\ g.closed = (old.closed \/ Holds(came, Gone) \/ Holds(came, Failed)) /\ g.out = <<>>
  BY DEF LinkGame
<1> QED BY <1>6, <1>8, <1>9 DEF LinkGame, Arrived, said

\* What has come is true, and the stage may be handled.
LEMMA ArrivedIsReady ==
  ASSUME Known, NEW s \in Player, NEW old \in LinkGame, NEW o \in LinkGame, NEW w \in Seq(Message),
         Sound(s, old, o, w), Good(Peer(s), o, old), old.stage \notin Over,
         NEW came, NEW g, Arrived(old, came, g), \A m : Holds(came, m) => Holds(w, m)
  PROVE  Ready(s, g, o) /\ Later(s, old, g)
<1>1. Shaken(s, g)
  BY DEF Sound, Arrived, Good, Shaken, Blank
<1>2. Session(s, g)
  BY DEF Sound, Arrived, Good, Session, Blank
<1>3. Knows(s, g, o)
  BY DEF Sound, Arrived, Good, Knows
<1>4. Said(g.out, s, g)
  BY DEF Arrived, Said
<1>5. Said(g.inbox, Peer(s), o)
  <2>1. ASSUME NEW i \in DOMAIN g.inbox PROVE Says(Peer(s), o, g.inbox[i])
    <3>1. Holds(g.inbox, g.inbox[i])
      BY DEF Holds
    <3>2. Holds(old.inbox, g.inbox[i]) \/ Holds(w, g.inbox[i])
      BY <3>1 DEF Arrived
    <3> QED BY <3>2 DEF Sound, Said, Holds
  <2> QED BY <2>1 DEF Said
<1>6. Knows(Peer(s), o, g)
  BY DEF Arrived, Good, Knows
<1>7. Later(s, old, g)
  BY DEF Arrived, Later
<1> QED BY <1>1, <1>2, <1>3, <1>4, <1>5, <1>6, <1>7 DEF Ready, Arrived, Good, Sound, Settled

\* What is kept of h once the frame is over: a game that has ended keeps no list.
Hushed(h, f) ==
  /\ f \in LinkGame
  /\ f.stage = h.stage /\ f.mode = h.mode /\ f.verdict = h.verdict /\ f.closed = h.closed
  /\ f.trade = h.trade /\ f.limited = h.limited /\ f.sends = h.sends /\ f.theirs = h.theirs
  /\ f.myPick = h.myPick /\ f.theirPick = h.theirPick /\ f.mine = h.mine /\ f.their = h.their /\ f.got = h.got
  /\ IF h.stage \in Ended THEN f.inbox = <<>> /\ f.out = <<>>
     ELSE f.inbox = h.inbox /\ f.out = IF h.closed THEN <<>> ELSE h.out

\* A frame leaves both games true to each other, and so is all that they have said.
LEMMA FrameSound ==
  ASSUME NEW s \in Player, NEW old, NEW o, NEW back, Session(s, old), Settled(o), Said(o.inbox, s, old), Said(back, s, old),
         Said(old.out, s, old), Good(Peer(s), o, old),
         NEW g, Ready(s, g, o), Later(s, old, g), NEW h, Goes(s, g, o, h), NEW f, Hushed(h, f)
  PROVE  /\ Good(s, f, o) /\ Settled(f) /\ Said(f.inbox, Peer(s), o)
         /\ Good(Peer(s), o, f) /\ Said(o.inbox, s, f)
         /\ Said(back, s, f) /\ Said(old.out, s, f) /\ Said(h.out, s, f)
<1>1. Shaken(s, f)
  BY DEF Goes, Hushed, Good, Shaken, Blank
<1>2. Session(s, f)
  BY DEF Goes, Hushed, Good, Session, Blank
<1>3. Knows(s, f, o)
  BY DEF Goes, Hushed, Good, Knows
<1>4. Said(h.out, s, f)
  BY DEF Goes, Hushed, Good, Said, Says
<1>5. Said(f.out, s, f)
  <2>1. f.out = <<>> \/ f.out = h.out
    BY DEF Hushed
  <2> QED BY <1>4, <2>1 DEF Said
<1>6. Settled(f)
  BY DEF Goes, Hushed, Settled
<1>7. Said(f.inbox, Peer(s), o)
  <2>1. Said(h.inbox, Peer(s), o)
    BY SaidPart DEF Goes, Ready
  <2>2. f.inbox = <<>> \/ f.inbox = h.inbox
    BY DEF Hushed
  <2> QED BY <2>1, <2>2 DEF Said
<1>8. Later(s, old, f)
  BY DEF Goes, Hushed, Later
<1>9. Peer(s) \in Player /\ Peer(Peer(s)) = s
  BY Players
<1>10. Later(s, g, f)
  BY DEF Goes, Hushed, Later
<1>11. Knows(Peer(s), o, f)
  <2>1. g.verdict = "none" => g.trade = "none"
    BY DEF Ready, Good, Shaken, Blank
  <2>2. Session(s, g) /\ Knows(Peer(s), o, g)
    BY DEF Ready, Good
  <2> QED BY <1>9, <1>10, <2>1, <2>2, LaterKnows
<1>12. Good(Peer(s), o, f)
  BY <1>11 DEF Good
<1>13. Said(o.inbox, s, f) /\ Said(back, s, f) /\ Said(old.out, s, f)
  BY <1>8, LaterSaid
<1> QED BY <1>1, <1>2, <1>3, <1>4, <1>5, <1>6, <1>7, <1>12, <1>13 DEF Good

\* On a link that holds, the streams after a frame of s: v is on its way to s, u to its peer.
Streams(s, old, o, w, back, n, f, v, u) ==
  /\ w \in Seq(Message) /\ back \in Seq(Message) /\ n \in 0..Len(w) /\ (old.closed => n = 0)
  /\ v = IF f.stage \in Ended THEN <<>> ELSE SubSeq(w, n + 1, Len(w))
  /\ IF o.stage \in Ended THEN u = back
     ELSE \E words \in Seq(Speech) :
            /\ ~old.closed => \A m : Holds(old.out, m) => Holds(words, m)
            /\ f.stage \notin Ended => \A m : Holds(words, m) => Holds(old.out, m)
            /\ u = back \o words \o (IF f.stage \in Ended THEN <<Gone>> ELSE <<>>)

\* An end, if there is one, comes last.
LEMMA EndsLast ==
  ASSUME NEW q \in Seq(Message), \A i \in DOMAIN q : q[i] \notin {Gone, Failed}, NEW words \in Seq(Speech),
         NEW end \in {<<>>, <<Gone>>}
  PROVE  /\ q \o words \o end \in Seq(Message)
         /\ \A i \in DOMAIN (q \o words \o end) :
              (q \o words \o end)[i] \in {Gone, Failed} =>
                (q \o words \o end)[i] = Gone /\ i = Len(q \o words \o end) /\ end = <<Gone>>
         /\ \A m : Holds(q \o words \o end, m) <=> Holds(q, m) \/ Holds(words, m) \/ (end = <<Gone>> /\ m = Gone)
<1>1. words \in Seq(Message) /\ <<>> \in Seq(Message) /\ <<Gone>> \in Seq(Message) /\ Gone \in Message
  <2>1. Speech \subseteq Message /\ Gone \in Message
    BY DEF Message
  <2> QED BY <2>1, SeqMonotonic
<1>2. \A k \in DOMAIN words : words[k] \notin {Gone, Failed}
  BY SpeechIsNoEnd, ElementOfSeq, LenProperties
<1> DEFINE a == q \o words
<1>3. /\ a \in Seq(Message) /\ \A m : Holds(a, m) <=> Holds(q, m) \/ Holds(words, m)
  BY <1>1, HoldsConcat, ConcatProperties
<1> HIDE DEF a
<1>4. \A i \in DOMAIN a : a[i] \notin {Gone, Failed}
  <2>1. ~Holds(q, Gone) /\ ~Holds(q, Failed) /\ ~Holds(words, Gone) /\ ~Holds(words, Failed)
    BY <1>2 DEF Holds
  <2>2. ~Holds(a, Gone) /\ ~Holds(a, Failed)
    BY <1>3, <2>1
  <2> QED BY <2>2 DEF Holds
<1>5. CASE end = <<>>
  <2>1. a \o end = a /\ end # <<Gone>>
    BY <1>3, <1>5, ConcatEmptySeq
  <2> QED BY <1>3, <1>4, <2>1 DEF a
<1>6. CASE end = <<Gone>>
  <2>1. a \o end = Append(a, Gone)
    BY <1>1, <1>3, <1>6, AppendIsConcat
  <2>2. /\ Append(a, Gone) \in Seq(Message) /\ Len(a) \in Nat /\ Len(Append(a, Gone)) = Len(a) + 1
        /\ DOMAIN a = 1..Len(a) /\ DOMAIN Append(a, Gone) = 1..(Len(a) + 1)
        /\ Append(a, Gone)[Len(a) + 1] = Gone /\ \A i \in 1..Len(a) : Append(a, Gone)[i] = a[i]
    BY <1>1, <1>3, AppendProperties, LenProperties
  <2>3. ASSUME NEW i \in 1..(Len(a) + 1) PROVE i = Len(a) + 1 \/ (i \in 1..Len(a) /\ i # Len(a) + 1)
    BY <2>2
  <2>4. \A i \in 1..(Len(a) + 1) : Append(a, Gone)[i] \in {Gone, Failed} => Append(a, Gone)[i] = Gone /\ i = Len(a) + 1
    BY <1>4, <2>2, <2>3
  <2>5. Len(a) + 1 \in 1..(Len(a) + 1) /\ \A i \in 1..Len(a) : i \in 1..(Len(a) + 1)
    BY <2>2
  <2>6. \A m : Holds(Append(a, Gone), m) <=> Holds(a, m) \/ m = Gone
    BY <2>2, <2>3, <2>5 DEF Holds
  <2> QED BY <1>3, <1>6, <2>1, <2>2, <2>4, <2>6 DEF a
<1> QED BY <1>5, <1>6

\* What the peers of a game that goes on have done: nothing that ends the link.
LEMMA FrameCalm ==
  ASSUME NEW s \in Player, NEW old, NEW o, NEW w, NEW back, NEW n,
         old \in LinkGame, Session(s, old), Said(o.inbox, s, old), Said(back, s, old), Said(old.out, s, old), Settled(o),
         Session(Peer(s), o), Knows(Peer(s), o, old), o \in LinkGame, old.stage \notin Over,
         Calm(old, o, w, back), Calm(o, old, back, w),
         NEW g, Arrived(old, SubSeq(w, 1, n), g), Ready(s, g, o),
         NEW h, Follows(s, g, o, h), NEW f, Hushed(h, f), NEW v, NEW u, Streams(s, old, o, w, back, n, f, v, u)
  PROVE  Calm(f, o, v, u) /\ Calm(o, f, u, v)
<1> DEFINE came == SubSeq(w, 1, n)
           rest == SubSeq(w, n + 1, Len(w))
<1>1. /\ w \in Seq(Message) /\ back \in Seq(Message) /\ n \in 0..Len(w) /\ (old.closed => n = 0)
      /\ v = IF f.stage \in Ended THEN <<>> ELSE rest
  BY DEF Streams
<1>2. /\ \A m : Holds(w, m) <=> Holds(came, m) \/ Holds(rest, m)
      /\ Len(rest) = Len(w) - n /\ rest \in Seq(Message)
      /\ \A i \in DOMAIN rest : rest[i] = w[n + i] /\ n + i \in DOMAIN w
      /\ DOMAIN came = 1..n /\ \A i \in 1..n : came[i] = w[i]
  BY <1>1, Parted
<1>3. Len(w) \in Nat /\ DOMAIN w = 1..Len(w) /\ n \in Nat /\ DOMAIN rest = 1..Len(rest)
  BY <1>1, <1>2, LenProperties
<1>4. \A m : Holds(g.inbox, m) <=> Holds(old.inbox, m) \/ (Holds(came, m) /\ m \notin {Gone, Failed})
  BY DEF Arrived
<1>5. ~Holds(came, Failed) /\ (g.closed => o.stage \in Ended /\ rest = <<>>)
  <2>1. ~Holds(w, Failed)
    <3>1. Gone # Failed
      BY DEF Gone, Failed, Msg
    <3> QED BY <3>1 DEF Calm, Closing, Holds
  <2>2. ~Holds(came, Failed)
    BY <1>2, <2>1
  <2>3. CASE old.closed
    <3>1. o.stage \in Ended /\ w = <<>>
      BY <2>3 DEF Calm, Closing
    <3>2. Len(w) = 0 /\ n = 0 /\ Len(rest) = 0
      BY <1>1, <1>2, <2>3, <3>1
    <3> QED BY <1>2, <2>2, <3>1, <3>2, EmptySeq
  <2>4. CASE ~old.closed /\ g.closed
    <3>1. Holds(came, Gone)
      BY <2>2, <2>4 DEF Arrived
    <3>2. PICK i \in DOMAIN w : w[i] = Gone
      BY <1>2, <3>1 DEF Holds
    <3>3. o.stage \in Ended
      BY <3>2 DEF Calm, Closing
    <3>4. PICK k \in DOMAIN came : came[k] = Gone
      BY <3>1 DEF Holds
    <3>5. k \in 1..n /\ k \in DOMAIN w /\ w[k] = Gone
      <4>1. \A m, l \in Nat : \A j \in 1..m : m \in 0..l => j \in 1..l
        OBVIOUS
      <4> QED BY <1>1, <1>2, <1>3, <3>4, <4>1
    <3>6. k = Len(w)
      BY <3>5 DEF Calm, Closing
    <3>7. n = Len(w)
      <4>1. \A m, l \in Nat : m \in 0..l /\ l \in 1..m => m = l
        OBVIOUS
      <4> QED BY <1>1, <1>3, <3>5, <3>6, <4>1
    <3>8. Len(rest) = 0
      BY <1>2, <1>3, <3>7
    <3> QED BY <1>2, <2>2, <3>3, <3>8, EmptySeq
  <2> QED BY <2>2, <2>3, <2>4
<1> HIDE DEF came, rest
<1>6. /\ ~o.closed /\ \A i \in DOMAIN back : back[i] \notin {Gone, Failed}
      /\ old.stage \notin Ended
  BY DEF Calm, Closing, Ended
<1>7. /\ g.mine = old.mine /\ g.their = old.their /\ g.stage = old.stage /\ g.trade = old.trade /\ g.out = <<>>
  BY DEF Arrived
<1>8. old.mine => old.stage = "trade"
  <2>1. g.stage # "trade" => ~g.mine
    BY BeforeTrade DEF Blank
  <2> QED BY <1>7, <2>1
<1>9. /\ f.stage = h.stage /\ f.trade = h.trade /\ f.mine = h.mine /\ f.their = h.their /\ f.got = h.got /\ f.closed = g.closed
      /\ h.stage # "killed" /\ (g.mine => h.mine)
      /\ IF h.stage \in Ended THEN f.inbox = <<>> /\ f.out = <<>>
         ELSE f.inbox = h.inbox /\ f.out = IF g.closed THEN <<>> ELSE h.out
  BY DEF Hushed, Follows, Goes, Later
<1>10. /\ \A i \in DOMAIN h.inbox : Holds(g.inbox, h.inbox[i])
       /\ g.their => h.their
       /\ h.their => g.their \/ Holds(g.inbox, Confirm)
       /\ Holds(g.inbox, Confirm) /\ h.stage \notin Ended => h.their
       /\ h.mine /\ ~g.mine => h.stage = "trade" /\ Holds(h.out, Confirm)
       /\ h.stage = "trade" /\ h.trade = "done" => ~g.mine
       /\ h.stage = "left" /\ h.got = 0 /\ h.mine =>
            (g.closed /\ g.inbox = <<>>) \/ (o.stage \in Ended /\ ~o.mine)
  BY DEF Follows, Goes
<1>11. Confirm \notin {Gone, Failed} /\ Confirm.type = "confirm" /\ "trade" \notin Ended /\ "left" \in Ended
  BY DEF Confirm, Gone, Failed, Msg, Ended, Over
\* What the peer's confirmation has become.
<1>12. o.mine => old.their \/ Holds(g.inbox, Confirm) \/ Holds(rest, Confirm) \/ Holds(o.out, Confirm)
  BY <1>2, <1>4, <1>6, <1>11 DEF Calm, Delivered
\* A peer that has ended without a word of his own about it has not been heard out.
<1>13. ASSUME g.closed, g.inbox = <<>>, old.mine, o.mine PROVE o.stage = "crashed"
  <2>1. o.stage \in Ended /\ o.stage # "killed" /\ o.out = <<>>
    BY <1>5, <1>13 DEF Calm, Settled
  <2>2. SUFFICES ASSUME o.stage = "left" PROVE FALSE
    BY <2>1 DEF Ended, Over
  <2>3. o.got # 0
    BY <1>6, <1>13, <2>2 DEF Calm, Alone
  <2>4. o.their
    BY <2>3 DEF Session
  <2>5. ~Holds(g.inbox, Confirm) /\ ~Holds(o.out, Confirm) /\ ~Holds(rest, Confirm)
    BY <1>5, <1>13, <2>1 DEF Holds
  <2>6. old.their
    BY <1>12, <1>13, <2>5
  <2>7. old.stage = "trade" /\ old.trade # "cancelled"
    BY <1>7, <1>8, <1>13 DEF Ready
  <2>8. old.trade = "done"
    BY <1>13, <2>6, <2>7 DEF Session
  <2> QED BY <2>4, <2>7, <2>8 DEF Calm, Pending
<1>14. Closing(f, o, v)
  <2>1. f.closed => o.stage \in Ended /\ v = <<>>
    BY <1>1, <1>5, <1>9
  <2>2. ASSUME NEW i \in DOMAIN v, v[i] \in {Gone, Failed} PROVE v[i] = Gone /\ i = Len(v) /\ o.stage \in Ended
    <3>1. CASE f.stage \in Ended
      BY <1>1, <2>2, <3>1
    <3>2. CASE f.stage \notin Ended
      <4>1. v = rest /\ v[i] = w[n + i] /\ n + i \in DOMAIN w
        BY <1>1, <1>2, <2>2, <3>2
      <4>2. w[n + i] = Gone /\ n + i = Len(w) /\ o.stage \in Ended
        BY <2>2, <4>1 DEF Calm, Closing
      <4> QED BY <1>2, <1>3, <2>2, <4>1, <4>2
    <3> QED BY <3>1, <3>2
  <2> QED BY <2>1, <2>2 DEF Closing
<1>15. Delivered(f, o, v)
  <2> SUFFICES ASSUME f.stage \notin Ended, o.mine
               PROVE  f.their \/ Holds(v, Confirm) \/ Holds(o.out, Confirm)
    BY DEF Delivered
  <2> QED BY <1>1, <1>7, <1>9, <1>10, <1>12
<1>16. Alone(f, o)
  <2> SUFFICES ASSUME f.stage = "left", f.got = 0, f.mine
               PROVE  o.stage \in Ended /\ (~o.mine \/ o.stage = "crashed")
    BY DEF Alone
  <2>1. old.mine
    BY <1>7, <1>9, <1>10, <1>11
  <2> QED BY <1>5, <1>9, <1>10, <1>13, <2>1
<1>17. CASE o.stage \in Ended
  <2>1. u = back
    BY <1>17 DEF Streams
  <2>2. Pending(f, o, u)
    <3> SUFFICES ASSUME f.stage = "trade", f.trade = "done"
                 PROVE  ~o.their /\ ~Holds(o.inbox, Confirm) /\ ~Holds(u, Confirm)
      BY DEF Pending
    <3>1. ~old.mine
      BY <1>7, <1>9, <1>10
    <3> QED BY <1>11, <2>1, <3>1 DEF Knows, Said, Says, Holds
  <2>3. Closing(o, f, u)
    BY <1>6, <2>1 DEF Closing
  <2>4. Delivered(o, f, u)
    BY <1>17 DEF Delivered
  <2>5. Pending(o, f, v)
    BY <1>11, <1>17 DEF Pending
  <2>6. Alone(o, f)
    BY <1>6 DEF Calm, Alone
  <2> QED BY <1>9, <1>14, <1>15, <1>16, <2>2, <2>3, <2>4, <2>5, <2>6 DEF Calm
<1>18. CASE o.stage \notin Ended
  <2>1. ~g.closed /\ ~old.closed
    BY <1>5, <1>18 DEF Arrived
  <2>2. PICK words \in Seq(Speech) :
          /\ \A m : Holds(old.out, m) => Holds(words, m)
          /\ f.stage \notin Ended => \A m : Holds(words, m) => Holds(old.out, m)
          /\ u = back \o words \o (IF f.stage \in Ended THEN <<Gone>> ELSE <<>>)
    BY <1>18, <2>1 DEF Streams
  <2>3. PICK end \in {<<>>, <<Gone>>} : end = IF f.stage \in Ended THEN <<Gone>> ELSE <<>>
    OBVIOUS
  <2>4. end = <<Gone>> => f.stage \in Ended
    <3>1. <<Gone>> # <<>>
      OBVIOUS
    <3> QED BY <2>3, <3>1
  <2>5. /\ \A i \in DOMAIN u : u[i] \in {Gone, Failed} => u[i] = Gone /\ i = Len(u) /\ end = <<Gone>>
        /\ \A m : Holds(u, m) <=> Holds(back, m) \/ Holds(words, m) \/ (end = <<Gone>> /\ m = Gone)
    <3>1. u = back \o words \o end
      BY <2>2, <2>3
    <3>2. back \in Seq(Message) /\ \A i \in DOMAIN back : back[i] \notin {Gone, Failed}
      BY <1>1, <1>6
    <3> QED BY <3>1, <3>2, EndsLast, Zenon
  <2>6. Closing(o, f, u)
    BY <1>6, <2>4, <2>5 DEF Closing
  <2>7. Pending(f, o, u)
    <3> SUFFICES ASSUME f.stage = "trade", f.trade = "done"
                 PROVE  ~o.their /\ ~Holds(o.inbox, Confirm) /\ ~Holds(u, Confirm)
      BY DEF Pending
    <3>1. ~old.mine /\ f.stage \notin Ended
      BY <1>7, <1>9, <1>10, <1>11
    <3>2. ~Holds(old.out, Confirm) /\ ~Holds(back, Confirm) /\ ~Holds(o.inbox, Confirm)
      BY <1>11, <3>1 DEF Said, Says, Holds
    <3> QED BY <1>11, <2>2, <2>5, <3>1, <3>2 DEF Knows
  <2>8. Delivered(o, f, u)
    <3> SUFFICES ASSUME f.mine PROVE o.their \/ Holds(o.inbox, Confirm) \/ Holds(u, Confirm) \/ Holds(f.out, Confirm)
      BY DEF Delivered
    <3>1. CASE old.mine
      BY <1>18, <2>2, <2>5, <3>1 DEF Calm, Delivered
    <3>2. CASE ~old.mine
      BY <1>7, <1>9, <1>10, <1>11, <2>1, <3>2
    <3> QED BY <3>1, <3>2
  <2>9. Pending(o, f, v)
    <3> SUFFICES ASSUME o.stage = "trade", o.trade = "done"
                 PROVE  ~f.their /\ ~Holds(f.inbox, Confirm) /\ ~Holds(v, Confirm)
      BY DEF Pending
    <3>1. ~old.their /\ ~Holds(old.inbox, Confirm) /\ ~Holds(w, Confirm)
      BY DEF Calm, Pending
    <3>2. ~Holds(g.inbox, Confirm) /\ ~Holds(rest, Confirm)
      BY <1>2, <1>4, <3>1
    <3>3. ~Holds(v, Confirm)
      BY <1>1, <3>2 DEF Holds
    <3>4. ~Holds(f.inbox, Confirm)
      BY <1>9, <1>10, <3>2 DEF Holds
    <3> QED BY <1>7, <1>9, <1>10, <3>1, <3>2, <3>3, <3>4
  <2>10. Alone(o, f)
    BY <1>6 DEF Calm, Alone
  <2> QED BY <1>9, <1>14, <1>15, <1>16, <2>6, <2>7, <2>8, <2>9, <2>10 DEF Calm
<1> QED BY <1>17, <1>18

-----------------------------------------------------------------------------
(* Every step keeps the invariant.                                         *)

\* What is sound of games and wires stays so where they become those of the next state.
LEMMA SoundNext ==
  ASSUME UNCHANGED <<pairing, modified, relay, party>>,
         NEW s \in Player, NEW f, NEW o, NEW v, Sound(s, f, o, v),
         game'[s] = f, game'[Peer(s)] = o, wire'[s] = v
  PROVE  Sound(s, game[s], game[Peer(s)], wire[s])'
<1>1. Shaken(s, f) /\ Session(s, f) /\ Knows(s, f, o) /\ Settled(f)
  BY DEF Sound, Good
<1>2. Said(f.out, s, f) /\ Said(f.inbox, Peer(s), o) /\ Said(v, Peer(s), o)
  BY DEF Sound, Good
<1>3. Shaken(s, game[s])'
  BY <1>1 DEF Shaken, Blank
<1>4. Session(s, game[s])'
  BY <1>1 DEF Session, Blank
<1>5. Knows(s, game[s], game[Peer(s)])'
  BY <1>1 DEF Knows
<1>6. Said(game[s].out, s, game[s])'
  BY <1>2 DEF Said, Says
<1>7. Said(game[s].inbox, Peer(s), game[Peer(s)])'
  BY <1>2 DEF Said, Says
<1>8. Said(wire[s], Peer(s), game[Peer(s)])'
  BY <1>2 DEF Said, Says
<1>9. Settled(game[s])'
  BY <1>1 DEF Settled
<1> QED BY <1>3, <1>4, <1>5, <1>6, <1>7, <1>8, <1>9 DEF Sound, Good

LEMMA CalmNext ==
  ASSUME NEW s, NEW q, NEW f, NEW o, NEW v, NEW u, Calm(f, o, v, u),
         game'[s] = f, game'[q] = o, wire'[s] = v, wire'[q] = u
  PROVE  Calm(game[s], game[q], wire[s], wire[q])'
<1>1. Closing(f, o, v) /\ Delivered(f, o, v) /\ Pending(f, o, u) /\ Alone(f, o) /\ f.stage # "killed"
  BY DEF Calm
<1>2. Closing(game[s], game[q], wire[s])'
  BY <1>1 DEF Closing
<1>3. Delivered(game[s], game[q], wire[s])'
  BY <1>1 DEF Delivered, Holds
<1>4. Pending(game[s], game[q], wire[q])'
  BY <1>1 DEF Pending, Holds
<1>5. Alone(game[s], game[q])'
  BY <1>1 DEF Alone
<1> QED BY <1>1, <1>2, <1>3, <1>4, <1>5 DEF Calm

\* The state after a step of s: f is what has become of it, v what is on its way to it.
LEMMA Steps ==
  ASSUME TradeTyped, UNCHANGED <<pairing, modified, relay, party>>, trouble' \in {"none", "broken", "killed"},
         NEW s \in Player, NEW f \in LinkGame, NEW v \in Seq(Message), NEW u \in Seq(Message),
         game' = [game EXCEPT ![s] = f], wire' = [wire EXCEPT ![s] = v, ![Peer(s)] = u],
         NEW o, o = game[Peer(s)], Sound(s, f, o, v), Sound(Peer(s), o, f, u),
         trouble' = "none" => Calm(f, o, v, u) /\ Calm(o, f, u, v)
  PROVE  TradeInv'
<1>1. Peer(s) \in Player /\ Peer(s) # s /\ Peer(Peer(s)) = s /\ Player = {s, Peer(s)}
  BY Players
<1>2. game'[s] = f /\ game'[Peer(s)] = o /\ wire'[s] = v /\ wire'[Peer(s)] = u
  BY <1>1 DEF TradeTyped
<1>3. TradeTyped'
  BY <1>1 DEF TradeTyped
<1>4. Sound(s, game[s], game[Peer(s)], wire[s])'
  BY <1>1, <1>2, SoundNext
<1>5. Sound(Peer(s), game[Peer(s)], game[s], wire[Peer(s)])'
  <2>1. Sound(Peer(s), game[Peer(s)], game[Peer(Peer(s))], wire[Peer(s)])'
    <3>1. game'[Peer(Peer(s))] = f
      BY <1>1, <1>2
    <3>2. Peer(s) \in Player /\ game'[Peer(s)] = o /\ wire'[Peer(s)] = u
      BY <1>1, <1>2
    <3> QED BY <3>1, <3>2, SoundNext
  <2> QED BY <1>1, <2>1
<1>6. trouble' = "none" => /\ Calm(game[s], game[Peer(s)], wire[s], wire[Peer(s)])'
                           /\ Calm(game[Peer(s)], game[s], wire[Peer(s)], wire[s])'
  <2> SUFFICES ASSUME trouble' = "none"
               PROVE  /\ Calm(game[s], game[Peer(s)], wire[s], wire[Peer(s)])'
                      /\ Calm(game[Peer(s)], game[s], wire[Peer(s)], wire[s])'
    OBVIOUS
  <2>1. Calm(game[s], game[Peer(s)], wire[s], wire[Peer(s)])'
    BY <1>2, CalmNext
  <2>2. Calm(game[Peer(s)], game[s], wire[Peer(s)], wire[s])'
    BY <1>2, CalmNext
  <2> QED BY <2>1, <2>2
<1>7. ASSUME NEW q \in Player
      PROVE  /\ Sound(q, game[q], game[Peer(q)], wire[q])'
             /\ trouble' = "none" => Calm(game[q], game[Peer(q)], wire[q], wire[Peer(q)])'
  <2>1. CASE q = s
    BY <1>4, <1>6, <2>1
  <2>2. CASE q = Peer(s)
    BY <1>1, <1>5, <1>6, <2>2
  <2> QED BY <1>1, <2>1, <2>2
<1> QED BY <1>3, <1>7 DEF TradeInv

\* What a player and his peer are, between steps.
LEMMA Between ==
  ASSUME TradeInv, NEW s \in Player
  PROVE  /\ Known /\ game[s] \in LinkGame /\ game[Peer(s)] \in LinkGame
         /\ wire[s] \in Seq(Message) /\ wire[Peer(s)] \in Seq(Message)
         /\ Sound(s, game[s], game[Peer(s)], wire[s]) /\ Sound(Peer(s), game[Peer(s)], game[s], wire[Peer(s)])
         /\ trouble = "none" => /\ Calm(game[s], game[Peer(s)], wire[s], wire[Peer(s)])
                                /\ Calm(game[Peer(s)], game[s], wire[Peer(s)], wire[s])
<1>1. Peer(s) \in Player /\ Peer(Peer(s)) = s
  BY Players
<1>2. Known /\ game[s] \in LinkGame /\ game[Peer(s)] \in LinkGame /\ wire[s] \in Seq(Message) /\ wire[Peer(s)] \in Seq(Message)
  BY <1>1 DEF TradeInv, TradeTyped, Known
<1>3. /\ Sound(s, game[s], game[Peer(s)], wire[s])
      /\ trouble = "none" => Calm(game[s], game[Peer(s)], wire[s], wire[Peer(s)])
  BY DEF TradeInv
<1>4. /\ Sound(Peer(s), game[Peer(s)], game[Peer(Peer(s))], wire[Peer(s)])
      /\ trouble = "none" => Calm(game[Peer(s)], game[Peer(Peer(s))], wire[Peer(s)], wire[Peer(Peer(s))])
  BY <1>1 DEF TradeInv
<1> QED BY <1>1, <1>2, <1>3, <1>4

LEMMA FrameKeeps ==
  ASSUME TradeInv, NEW s \in Player, Frame(s)
  PROVE  TradeInv'
<1> DEFINE old == game[s]
           o == game[Peer(s)]
           w == wire[s]
           back == wire[Peer(s)]
           came(n) == SubSeq(w, 1, n)
           gets(n) == [old EXCEPT !.inbox = old.inbox \o Dropping(came(n), {Gone, Failed}), !.out = <<>>,
                                  !.closed = old.closed \/ Holds(came(n), Gone) \/ Holds(came(n), Failed)]
           left == IF old.closed THEN <<>> ELSE old.out
           says(n, h) == [h EXCEPT !.out = IF gets(n).closed THEN <<>> ELSE h.out]
           keeps(x) == IF x.stage \in Ended THEN [x EXCEPT !.out = <<>>, !.inbox = <<>>] ELSE x
<1>1. /\ Peer(s) \in Player /\ Peer(s) # s /\ Peer(Peer(s)) = s
      /\ Known /\ old \in LinkGame /\ o \in LinkGame /\ w \in Seq(Message) /\ back \in Seq(Message)
      /\ Sound(s, old, o, w) /\ Sound(Peer(s), o, old, back)
      /\ trouble = "none" => Calm(old, o, w, back) /\ Calm(o, old, back, w)
      /\ TradeTyped
  BY Players, Between DEF TradeInv
<1>2. old.stage \notin Over /\ UNCHANGED <<pairing, modified, relay, party, trouble>>
  BY DEF Frame
<1>3. \E n \in IF old.closed THEN {0} ELSE 0..Len(w) :
        \E h \in IF Holds(came(n), Failed) THEN {Leave(gets(n))} ELSE Update(s, gets(n)) :
          /\ game' = [game EXCEPT ![s] = keeps(says(n, h))]
          /\ wire' = [wire EXCEPT
               ![s] = IF says(n, h).stage \in Ended THEN <<>> ELSE SubSeq(w, n + 1, Len(w)),
               ![Peer(s)] = IF Reaches(Peer(s)) THEN back \o left \o LastWords(says(n, h)) ELSE back]
  BY <1>1 DEF Frame, TradeTyped
<1>4. PICK n \in IF old.closed THEN {0} ELSE 0..Len(w) :
        \E h \in IF Holds(came(n), Failed) THEN {Leave(gets(n))} ELSE Update(s, gets(n)) :
          /\ game' = [game EXCEPT ![s] = keeps(says(n, h))]
          /\ wire' = [wire EXCEPT
               ![s] = IF says(n, h).stage \in Ended THEN <<>> ELSE SubSeq(w, n + 1, Len(w)),
               ![Peer(s)] = IF Reaches(Peer(s)) THEN back \o left \o LastWords(says(n, h)) ELSE back]
  BY <1>3
<1>5. PICK h \in IF Holds(came(n), Failed) THEN {Leave(gets(n))} ELSE Update(s, gets(n)) :
          /\ game' = [game EXCEPT ![s] = keeps(says(n, h))]
          /\ wire' = [wire EXCEPT
               ![s] = IF says(n, h).stage \in Ended THEN <<>> ELSE SubSeq(w, n + 1, Len(w)),
               ![Peer(s)] = IF Reaches(Peer(s)) THEN back \o left \o LastWords(says(n, h)) ELSE back]
  BY <1>4
<1>6. n \in 0..Len(w) /\ (old.closed => n = 0)
  BY <1>1, LenProperties
<1>7. PICK g : g = gets(n)
  OBVIOUS
<1>8. PICK x : x = says(n, h)
  OBVIOUS
<1>9. PICK f : f = keeps(x)
  OBVIOUS
<1>10. PICK v : v = IF x.stage \in Ended THEN <<>> ELSE SubSeq(w, n + 1, Len(w))
  OBVIOUS
<1>11. PICK last : last = LastWords(x)
  OBVIOUS
<1>12. PICK u : u = IF Reaches(Peer(s)) THEN back \o left \o last ELSE back
  OBVIOUS
<1>13. game' = [game EXCEPT ![s] = f] /\ wire' = [wire EXCEPT ![s] = v, ![Peer(s)] = u]
  BY <1>5, <1>8, <1>9, <1>10, <1>11, <1>12
<1>14. /\ came(n) \in Seq(Message) /\ SubSeq(w, n + 1, Len(w)) \in Seq(Message)
       /\ \A m : Holds(w, m) <=> Holds(came(n), m) \/ Holds(SubSeq(w, n + 1, Len(w)), m)
  BY <1>1, <1>6, Parted
<1>15. Arrived(old, came(n), g)
  BY <1>1, <1>7, <1>14, Arrives
<1>16. Ready(s, g, o) /\ Later(s, old, g)
  <2>1. Good(Peer(s), o, old)
    BY <1>1 DEF Sound
  <2> HIDE DEF old, o, w, back, came
  <2> QED BY <1>1, <1>2, <1>14, <1>15, <2>1, ArrivedIsReady
<1>17. h \in IF Holds(came(n), Failed) THEN {Leave(g)} ELSE Update(s, g)
  BY <1>5, <1>7
<1>18. x = [h EXCEPT !.out = IF g.closed THEN <<>> ELSE h.out]
  BY <1>7, <1>8
<1> HIDE DEF gets, says
<1>19. /\ Goes(s, g, o, h)
       /\ ~Holds(came(n), Failed) => Follows(s, g, o, h)
  <2>1. CASE Holds(came(n), Failed)
    BY <1>16, <1>17, <2>1, LeaveGoes
  <2>2. CASE ~Holds(came(n), Failed)
    BY <1>16, <1>17, <2>2, UpdateFollows DEF Follows
  <2> QED BY <2>1, <2>2
<1>20. /\ h \in LinkGame /\ h.closed = g.closed /\ h.out \in Seq(Speech) /\ <<>> \in Seq(Speech)
  BY <1>19 DEF Goes, LinkGame
<1>21. /\ x \in LinkGame /\ x.stage = h.stage /\ x.out \in {<<>>, h.out} /\ x.out \in Seq(Speech)
  BY <1>18, <1>20 DEF LinkGame
<1>22. Hushed(h, f)
  <2>1. CASE x.stage \in Ended
    <3>1. f = [x EXCEPT !.out = <<>>, !.inbox = <<>>]
      BY <1>9, <2>1
    <3>2. f \in LinkGame
      BY <1>20, <1>21, <3>1 DEF LinkGame
    <3> QED BY <1>18, <1>20, <1>21, <2>1, <3>1, <3>2 DEF LinkGame, Hushed
  <2>2. CASE x.stage \notin Ended
    <3>1. f = x
      BY <1>9, <2>2
    <3> QED BY <1>18, <1>20, <1>21, <2>2, <3>1 DEF LinkGame, Hushed
  <2> QED BY <2>1, <2>2
<1> HIDE DEF keeps
<1>23. f \in LinkGame /\ f.stage = x.stage
  BY <1>21, <1>22 DEF Hushed
<1>24. /\ Good(s, f, o) /\ Settled(f) /\ Said(f.inbox, Peer(s), o)
       /\ Good(Peer(s), o, f) /\ Said(o.inbox, s, f)
       /\ Said(back, s, f) /\ Said(old.out, s, f) /\ Said(h.out, s, f)
  <2>1. /\ Session(s, old) /\ Settled(o) /\ Said(o.inbox, s, old) /\ Said(back, s, old)
        /\ Said(old.out, s, old) /\ Good(Peer(s), o, old)
    BY <1>1 DEF Sound, Good
  <2> HIDE DEF old, o, back
  <2> QED BY <1>16, <1>19, <1>22, <2>1, FrameSound
<1>25. v \in Seq(Message) /\ Said(v, Peer(s), o)
  <2>1. CASE x.stage \in Ended
    BY <1>10, <2>1 DEF Said
  <2>2. CASE x.stage \notin Ended
    <3>1. v = SubSeq(w, n + 1, Len(w))
      BY <1>10, <2>2
    <3>2. Said(w, Peer(s), o)
      BY <1>1 DEF Sound
    <3>3. \A i \in DOMAIN v : Holds(w, v[i])
      BY <1>14, <3>1 DEF Holds
    <3> QED BY <1>14, <3>1, <3>2, <3>3, SaidPart
  <2> QED BY <2>1, <2>2
\* What the frame puts on the wire: what was to be said, the last words of a game that ends, and its end.
<1>26. PICK end \in {<<>>, <<Gone>>} : end = IF f.stage \in Ended THEN <<Gone>> ELSE <<>>
  OBVIOUS
<1>27. PICK parting \in Seq(Speech) : /\ last = parting \o end
                                     /\ parting \in {<<>>, h.out} /\ (f.stage \notin Ended => parting = <<>>)
  <2>1. CASE f.stage \in Ended
    <3>1. last = (IF relay \/ x.stage = "crashed" THEN <<>> ELSE x.out) \o <<Gone>>
      BY <1>11, <1>23, <2>1 DEF LastWords
    <3>2. PICK parting : parting = IF relay \/ x.stage = "crashed" THEN <<>> ELSE x.out
      OBVIOUS
    <3>3. parting \in Seq(Speech) /\ parting \in {<<>>, h.out} /\ last = parting \o end
      BY <1>20, <1>21, <1>26, <2>1, <3>1, <3>2
    <3> QED BY <2>1, <3>3
  <2>2. CASE f.stage \notin Ended
    <3>1. last = <<>> /\ end = <<>>
      BY <1>11, <1>23, <1>26, <2>2 DEF LastWords
    <3>2. <<>> \o <<>> = <<>> /\ <<>> \in Seq(Speech)
      OBVIOUS
    <3> QED BY <2>2, <3>1, <3>2
  <2> QED BY <2>1, <2>2
<1>28. left \in Seq(Speech) /\ Said(left, s, f) /\ Said(parting, s, f)
  <2>1. left \in {<<>>, old.out} /\ old.out \in Seq(Speech)
    BY <1>1 DEF LinkGame
  <2>2. left \in Seq(Speech)
    BY <2>1, <1>20
  <2> QED BY <1>24, <1>27, <2>1, <2>2 DEF Said
<1>29. PICK words \in Seq(Speech) : words = left \o parting
  BY <1>28, ConcatProperties
<1>30. left \in Seq(Message) /\ parting \in Seq(Message) /\ words \in Seq(Message) /\ end \in Seq(Message)
  <2>1. Speech \subseteq Message /\ Gone \in Message
    BY DEF Message
  <2> HIDE DEF left
  <2>2. <<>> \in Seq(Message) /\ <<Gone>> \in Seq(Message)
    BY <2>1
  <2> QED BY <1>28, <1>29, <2>1, <2>2, SeqMonotonic
<1>31. back \o left \o last = back \o words \o end
  <2> HIDE DEF back, left
  <2>1. back \o left \in Seq(Message) /\ parting \o end \in Seq(Message)
    BY <1>1, <1>30, ConcatProperties
  <2>2. \A a, b, c \in Seq(Message) : (a \o b) \o c = a \o (b \o c)
    BY StreamsAssociate
  <2>3. (back \o left) \o (parting \o end) = ((back \o left) \o parting) \o end
    <3>1. PICK said \in Seq(Message) : said = back \o left
      BY <2>1
    <3>2. said \o (parting \o end) = (said \o parting) \o end
      BY <1>30, <2>2
    <3> QED BY <3>1, <3>2
  <2>4. (back \o left) \o parting = back \o (left \o parting)
    BY <1>1, <1>30, <2>2
  <2> QED BY <1>27, <1>29, <2>3, <2>4
<1>32. u \in Seq(Message) /\ Said(u, s, f)
  <2>1. CASE Reaches(Peer(s))
    <3>1. u = back \o words \o end
      BY <1>12, <1>31, <2>1
    <3>2. Said(words, s, f)
      BY <1>28, <1>29, SaidConcat
    <3>3. Said(end, s, f)
      BY DEF Said, Says, Gone, Msg
    <3> HIDE DEF back
    <3>4. back \o words \in Seq(Message) /\ Said(back \o words, s, f)
      BY <1>1, <1>24, <1>30, <3>2, SaidConcat, ConcatProperties
    <3>5. (back \o words) \o end \in Seq(Message) /\ Said((back \o words) \o end, s, f)
      BY <1>30, <3>3, <3>4, SaidConcat, ConcatProperties
    <3> QED BY <3>1, <3>5
  <2>2. CASE ~Reaches(Peer(s))
    BY <1>1, <1>12, <1>24, <2>2
  <2> QED BY <2>1, <2>2
<1>33. trouble = "none" => Calm(f, o, v, u) /\ Calm(o, f, u, v)
  <2> SUFFICES ASSUME trouble = "none" PROVE Calm(f, o, v, u) /\ Calm(o, f, u, v)
    OBVIOUS
  <2>1. ~Holds(came(n), Failed)
    <3>1. Gone # Failed
      BY DEF Gone, Failed, Msg
    <3>2. ~Holds(w, Failed)
      BY <1>1, <3>1 DEF Calm, Closing, Holds
    <3> QED BY <1>14, <3>2
  <2>2. Streams(s, old, o, w, back, n, f, v, u)
    <3>1. CASE o.stage \in Ended
      <4>1. u = back
        BY <1>12, <3>1 DEF Reaches
      <4> QED BY <1>1, <1>6, <1>10, <1>23, <3>1, <4>1 DEF Streams
    <3>2. CASE o.stage \notin Ended
      <4>1. u = back \o words \o (IF f.stage \in Ended THEN <<Gone>> ELSE <<>>)
        BY <1>12, <1>26, <1>31, <3>2 DEF Reaches
      <4>2. ~old.closed => left = old.out
        OBVIOUS
      <4>3. \A m : Holds(left, m) => Holds(old.out, m)
        BY DEF Holds
      <4>4. f.stage \notin Ended => \A m : ~Holds(parting, m)
        BY <1>27 DEF Holds
      <4> HIDE DEF left
      <4>5. \A m : Holds(words, m) <=> Holds(left, m) \/ Holds(parting, m)
        BY <1>28, <1>29, HoldsConcat, Zenon
      <4>6. /\ ~old.closed => \A m : Holds(old.out, m) => Holds(words, m)
            /\ f.stage \notin Ended => \A m : Holds(words, m) => Holds(old.out, m)
        BY <4>2, <4>3, <4>4, <4>5
      <4> QED BY <1>1, <1>6, <1>10, <1>23, <3>2, <4>1, <4>6 DEF Streams
    <3> QED BY <3>1, <3>2
  <2>3. /\ Session(s, old) /\ Said(o.inbox, s, old) /\ Said(back, s, old) /\ Said(old.out, s, old) /\ Settled(o)
        /\ Session(Peer(s), o) /\ Knows(Peer(s), o, old)
    BY <1>1 DEF Sound, Good
  <2>4. Calm(old, o, w, back) /\ Calm(o, old, back, w) /\ Follows(s, g, o, h) /\ Arrived(old, SubSeq(w, 1, n), g)
    BY <1>1, <1>15, <1>19, <2>1
  <2> HIDE DEF old, o, w, back
  <2> QED BY <1>1, <1>2, <1>16, <1>22, <2>2, <2>3, <2>4, FrameCalm
<1>34. Sound(s, f, o, v) /\ Sound(Peer(s), o, f, u)
  BY <1>1, <1>24, <1>25, <1>32 DEF Sound
<1>35. trouble' \in {"none", "broken", "killed"} /\ (trouble' = "none" => Calm(f, o, v, u) /\ Calm(o, f, u, v))
  BY <1>1, <1>2, <1>33 DEF TradeTyped
<1> QED BY <1>1, <1>2, <1>13, <1>23, <1>25, <1>32, <1>34, <1>35, Steps

\* Breaking the link changes no game, and loses the end of what was on its way.
LEMMA BreakKeeps ==
  ASSUME TradeInv, Break
  PROVE  TradeInv'
<1>1. PICK kept \in [Player -> 0..4], end \in [Player -> {Gone, Failed}] :
        /\ \A s \in Player : kept[s] <= Len(wire[s])
        /\ wire' = [s \in Player |-> IF game[s].stage \in Over THEN wire[s]
                                  ELSE Append(SubSeq(wire[s], 1, kept[s]), end[s])]
  BY DEF Break
<1>2. ASSUME NEW s \in Player
      PROVE  wire'[s] \in Seq(Message) /\ Said(wire'[s], Peer(s), game[Peer(s)])
  <2>1. wire[s] \in Seq(Message) /\ Said(wire[s], Peer(s), game[Peer(s)])
    BY <1>2, Between DEF Sound
  <2>2. CASE game[s].stage \in Over
    BY <1>1, <2>1, <2>2
  <2>3. CASE game[s].stage \notin Over
    <3> DEFINE q == SubSeq(wire[s], 1, kept[s])
    <3>1. wire'[s] = Append(q, end[s]) /\ end[s] \in {Gone, Failed}
      BY <1>1, <2>3
    <3>2. kept[s] \in 0..Len(wire[s])
      <4>1. kept[s] \in 0..4 /\ kept[s] <= Len(wire[s]) /\ Len(wire[s]) \in Nat
        BY <1>1, <2>1, LenProperties
      <4> QED BY <4>1
    <3>3. q \in Seq(Message) /\ \A i \in DOMAIN q : Holds(wire[s], q[i])
      <4>1. 1 \in 1..(Len(wire[s]) + 1)
        BY <2>1, LenProperties
      <4> QED BY <2>1, <3>2, <4>1, SubSeqPart
    <3> HIDE DEF q
    <3>4. Said(q, Peer(s), game[Peer(s)])
      BY <2>1, <3>3, SaidPart
    <3>5. end[s] \in Message /\ Says(Peer(s), game[Peer(s)], end[s])
      BY <3>1 DEF Message, Says, Gone, Failed, Msg
    <3> QED BY <3>1, <3>3, <3>4, <3>5, SaidAppend, AppendProperties
  <2> QED BY <2>2, <2>3
<1>3. "host" \in Player /\ Peer("host") \in Player /\ Peer("host") # "host" /\ Peer(Peer("host")) = "host" /\ Player = {"host", Peer("host")}
  BY Players DEF Player
<1>4. UNCHANGED <<pairing, modified, relay, party, game>> /\ trouble' = "broken"
  BY DEF Break
<1>5. TradeTyped /\ game[("host")] \in LinkGame
  BY <1>3 DEF TradeInv, TradeTyped
<1>6. game' = [game EXCEPT !["host"] = game["host"]]
  BY <1>4, <1>5 DEF TradeTyped
<1>7. wire' = [wire EXCEPT !["host"] = wire'["host"], ![Peer("host")] = wire'[Peer("host")]]
  BY <1>1, <1>3, <1>5 DEF TradeTyped
<1>8. PICK v \in Seq(Message) : v = wire'["host"]
  BY <1>2, <1>3
<1>9. PICK u \in Seq(Message) : u = wire'[Peer("host")]
  BY <1>2, <1>3
<1>10. Sound("host", game["host"], game[Peer("host")], v) /\ Sound(Peer("host"), game[Peer("host")], game["host"], u)
  BY <1>2, <1>3, <1>8, <1>9, Between DEF Sound
<1>11. wire' = [wire EXCEPT !["host"] = v, ![Peer("host")] = u]
  BY <1>7, <1>8, <1>9
<1> QED BY <1>3, <1>4, <1>5, <1>6, <1>10, <1>11, Steps

\* A process that is killed says nothing more, and its system ends the link.
LEMMA KillGameKeeps ==
  ASSUME TradeInv, NEW s \in Player, KillGame(s)
  PROVE  TradeInv'
<1> DEFINE old == game[s]
           o == game[Peer(s)]
           back == wire[Peer(s)]
<1>1. /\ Peer(s) \in Player /\ Peer(s) # s /\ Peer(Peer(s)) = s
      /\ Known /\ old \in LinkGame /\ o \in LinkGame /\ back \in Seq(Message)
      /\ Sound(s, old, o, wire[s]) /\ Sound(Peer(s), o, old, back)
      /\ TradeTyped
  BY Players, Between DEF TradeInv
<1>2. /\ old.stage \notin Over /\ UNCHANGED <<pairing, modified, relay, party>> /\ trouble' = "killed"
      /\ game' = [game EXCEPT ![s].stage = "killed", ![s].inbox = <<>>, ![s].out = <<>>]
      /\ wire' = [wire EXCEPT ![s] = <<>>, ![Peer(s)] = IF Reaches(Peer(s)) THEN Append(@, Gone) ELSE @]
  BY DEF KillGame
<1>3. PICK f : f = [old EXCEPT !.stage = "killed", !.inbox = <<>>, !.out = <<>>]
  OBVIOUS
<1>4. PICK u : u = IF Reaches(Peer(s)) THEN Append(back, Gone) ELSE back
  OBVIOUS
<1>5. game' = [game EXCEPT ![s] = f]
  BY <1>1, <1>2, <1>3 DEF TradeTyped, LinkGame
<1>6. wire' = [wire EXCEPT ![s] = <<>>, ![Peer(s)] = u]
  BY <1>1, <1>2, <1>4 DEF TradeTyped
<1>7. /\ f \in LinkGame /\ f.stage = "killed" /\ f.inbox = <<>> /\ f.out = <<>>
      /\ f.mode = old.mode /\ f.verdict = old.verdict
      /\ f.trade = old.trade /\ f.limited = old.limited /\ f.sends = old.sends /\ f.theirs = old.theirs
      /\ f.myPick = old.myPick /\ f.theirPick = old.theirPick /\ f.mine = old.mine /\ f.their = old.their /\ f.got = old.got
  <2>1. <<>> \in Seq(Speech) /\ "killed" \in Stages
    BY DEF Stages, Over
  <2> QED BY <1>1, <1>3, <2>1 DEF LinkGame
<1>8. Shaken(s, f)
  BY <1>1, <1>7 DEF Sound, Good, Shaken, Undecided, Blank
<1>9. Session(s, f)
  BY <1>1, <1>2, <1>7 DEF Sound, Good, Session, Blank, Over
<1>10. Knows(s, f, o)
  BY <1>1, <1>7 DEF Sound, Good, Knows
<1>11. Later(s, old, f)
  BY <1>2, <1>7 DEF Later, Ended, Over
<1>12. Knows(Peer(s), o, f)
  <2>1. old.verdict = "none" => old.trade = "none"
    BY <1>1 DEF Sound, Good, Shaken, Blank
  <2>2. Session(s, old) /\ Knows(Peer(s), o, old)
    BY <1>1 DEF Sound, Good
  <2> HIDE DEF old, o
  <2> QED BY <1>1, <1>11, <2>1, <2>2, LaterKnows
<1>13. Said(o.inbox, s, f) /\ Said(back, s, f)
  <2>1. Session(s, old) /\ Said(o.inbox, s, old) /\ Said(back, s, old)
    BY <1>1 DEF Sound, Good
  <2> QED BY <1>11, <2>1, LaterSaid
<1>14. u \in Seq(Message) /\ Said(u, s, f)
  <2>1. Gone \in Message /\ Says(s, f, Gone)
    BY DEF Message, Says, Gone, Msg
  <2>2. Append(back, Gone) \in Seq(Message) /\ Said(Append(back, Gone), s, f)
    BY <1>1, <1>13, <2>1, SaidAppend, AppendProperties
  <2> QED BY <1>1, <1>4, <1>13, <2>2
<1>15. Sound(s, f, o, <<>>)
  BY <1>7, <1>8, <1>9, <1>10 DEF Sound, Good, Settled, Said
<1>16. Sound(Peer(s), o, f, u)
  BY <1>1, <1>12, <1>13, <1>14 DEF Sound, Good
<1>17. <<>> \in Seq(Message)
  OBVIOUS
<1> QED BY <1>1, <1>2, <1>5, <1>6, <1>7, <1>14, <1>15, <1>16, <1>17, Steps

\* Two games that have just paired, whatever their players bring.
LEMMA TradeInitHolds ==
  ASSUME TradeInit
  PROVE  TradeInv
<1>1. /\ pairing \in Pairing /\ modified \in BOOLEAN /\ relay \in BOOLEAN /\ trouble = "none"
      /\ game = [host |-> Paired("modeSelect", <<>>), guest |-> Paired("waitMode", <<Hello("trade")>>)]
      /\ wire = [s \in Player |-> <<>>]
  BY DEF TradeInit, JustPaired
<1>2. /\ party \in [Player -> Seq(Fate)]
      /\ pairing = "same" => \A s \in Player : \A i \in DOMAIN party[s] : party[s][i] = "shared"
  <2> DEFINE Alike == {[i \in DOMAIN p |-> "shared"] : p \in Parties}
  <2>1. party \in [Player -> IF pairing \in {"same", "major"} THEN Alike ELSE Parties]
    BY DEF TradeInit
  <2>2. \A p \in Alike : p \in Seq(Fate) /\ \A i \in DOMAIN p : p[i] = "shared"
    <3>1. ASSUME NEW p \in Parties
          PROVE  [i \in DOMAIN p |-> "shared"] \in Seq(Fate) /\ \A i \in DOMAIN p : [j \in DOMAIN p |-> "shared"][i] = "shared"
      <4>1. p \in Seq(Fate) /\ "shared" \in Fate
        BY PartiesAssumption DEF Fate
      <4>2. Len(p) \in Nat /\ DOMAIN p = 1..Len(p)
        BY <4>1, LenProperties
      <4> QED BY <4>1, <4>2
    <3> QED BY <3>1
  <2> HIDE DEF Alike
  <2> QED BY <2>1, <2>2, PartiesAssumption
<1>3. Hello("trade") \in Speech /\ <<Hello("trade")>> \in Seq(Speech) /\ <<>> \in Seq(Speech) /\ <<>> \in Seq(Slot) /\ <<>> \in Seq(Message)
  <2>1. Hello("trade") \in Speech
    BY DEF Hello, Speech, Mode
  <2> QED BY <2>1
<1>4. ASSUME NEW stage \in {"modeSelect", "waitMode"}, NEW out \in Seq(Speech)
      PROVE  /\ Paired(stage, out) \in LinkGame /\ Blank(Paired(stage, out))
             /\ Paired(stage, out).stage = stage /\ Paired(stage, out).verdict = "none" /\ Paired(stage, out).out = out
             /\ Paired(stage, out).inbox = <<>> /\ ~Paired(stage, out).closed
  BY <1>3 DEF Paired, LinkGame, Stages, Mode, Verdicts, Trades, Blank
<1>5. Peer("host") = "guest" /\ Peer("guest") = "host"
  BY Players DEF Player
<1>6. ASSUME NEW s \in Player
      PROVE  /\ game[s] \in LinkGame /\ Blank(game[s]) /\ game[s].verdict = "none" /\ game[s].inbox = <<>> /\ ~game[s].closed
             /\ game[s].stage = (IF s = "host" THEN "modeSelect" ELSE "waitMode")
             /\ game[s].out = (IF s = "host" THEN <<>> ELSE <<Hello("trade")>>)
  <2>1. CASE s = "host"
    <3>1. game[s] = Paired("modeSelect", <<>>)
      BY <1>1, <2>1
    <3>2. <<>> \in Seq(Speech) /\ "modeSelect" \in {"modeSelect", "waitMode"}
      BY <1>3
    <3>3. LET p == Paired("modeSelect", <<>>)
          IN  /\ p \in LinkGame /\ Blank(p)
              /\ p.stage = "modeSelect" /\ p.verdict = "none" /\ p.out = <<>>
              /\ p.inbox = <<>> /\ ~p.closed
      BY <1>4, <3>2, ZenonT(30)
    <3> QED BY <2>1, <3>1, <3>3
  <2>2. CASE s = "guest"
    <3>1. game[s] = Paired("waitMode", <<Hello("trade")>>)
      BY <1>1, <2>2
    <3>2. <<Hello("trade")>> \in Seq(Speech) /\ "waitMode" \in {"modeSelect", "waitMode"}
      BY <1>3
    <3>3. LET p == Paired("waitMode", <<Hello("trade")>>)
          IN  /\ p \in LinkGame /\ Blank(p)
              /\ p.stage = "waitMode" /\ p.verdict = "none" /\ p.out = <<Hello("trade")>>
              /\ p.inbox = <<>> /\ ~p.closed
      BY <1>4, <3>2, ZenonT(30)
    <3> QED BY <2>2, <3>1, <3>3
  <2> QED BY <2>1, <2>2 DEF Player
<1>7. TradeTyped
  BY <1>1, <1>2, <1>3, <1>6 DEF TradeTyped, Player
<1>8. ASSUME NEW s \in Player
      PROVE  Sound(s, game[s], game[Peer(s)], wire[s]) /\ Calm(game[s], game[Peer(s)], wire[s], wire[Peer(s)])
  <2>1. Shaken(s, game[s])
    BY <1>6 DEF Shaken, Undecided, Player
  <2>2. Session(s, game[s])
    <3>1. game[s].sends = <<>>
      BY <1>6 DEF Blank
    <3> QED BY <1>6, <3>1 DEF Session, Blank, Trading
  <2>3. Knows(s, game[s], game[Peer(s)])
    BY <1>6 DEF Knows, Blank, Trading
  <2>4. Said(game[s].out, s, game[s])
    BY <1>6 DEF Said, Says, Hello, Player
  <2>5. Settled(game[s]) /\ Said(game[s].inbox, Peer(s), game[Peer(s)]) /\ Said(wire[s], Peer(s), game[Peer(s)])
    BY <1>1, <1>6 DEF Settled, Said, Ended, Over
  <2>6. Calm(game[s], game[Peer(s)], wire[s], wire[Peer(s)])
    <3>1. Peer(s) \in Player
      BY Players
    <3>2. ~game[Peer(s)].mine /\ ~game[s].mine /\ game[s].stage \notin {"trade", "left", "killed"}
      BY <1>6, <3>1 DEF Blank
    <3> QED BY <1>1, <1>6, <3>2 DEF Calm, Closing, Delivered, Pending, Alone
  <2> QED BY <2>1, <2>2, <2>3, <2>4, <2>5, <2>6 DEF Sound, Good
<1> QED BY <1>7, <1>8 DEF TradeInv

LEMMA TradeStepKeeps ==
  ASSUME TradeInv, [TradeNext]_tradeVars
  PROVE  TradeInv'
<1>1. CASE Break
  BY <1>1, BreakKeeps
<1>2. ASSUME NEW s \in Player, Frame(s) PROVE TradeInv'
  BY <1>2, FrameKeeps
<1>3. ASSUME NEW s \in Player, KillGame(s) PROVE TradeInv'
  BY <1>3, KillGameKeeps
<1>4. CASE UNCHANGED tradeVars
  <2>1. UNCHANGED <<pairing, modified, relay, party>> /\ game' = game /\ wire' = wire /\ trouble' = trouble
    BY <1>4 DEF tradeVars
  <2>2. TradeTyped'
    BY <2>1 DEF TradeInv, TradeTyped
  <2>3. ASSUME NEW s \in Player
        PROVE  /\ Sound(s, game[s], game[Peer(s)], wire[s])'
               /\ trouble' = "none" => Calm(game[s], game[Peer(s)], wire[s], wire[Peer(s)])'
    <3>1. /\ Sound(s, game[s], game[Peer(s)], wire[s])
          /\ trouble = "none" => Calm(game[s], game[Peer(s)], wire[s], wire[Peer(s)])
      BY DEF TradeInv
    <3>2. game'[s] = game[s] /\ game'[Peer(s)] = game[Peer(s)] /\ wire'[s] = wire[s] /\ wire'[Peer(s)] = wire[Peer(s)]
      BY <2>1
    <3>3. Sound(s, game[s], game[Peer(s)], wire[s])'
      BY <2>1, <3>1, <3>2, SoundNext
    <3>4. ASSUME trouble' = "none" PROVE Calm(game[s], game[Peer(s)], wire[s], wire[Peer(s)])'
      BY <2>1, <3>1, <3>2, <3>4, CalmNext
    <3> QED BY <3>3, <3>4
  <2> QED BY <2>2, <2>3 DEF TradeInv
<1> QED BY <1>1, <1>2, <1>3, <1>4 DEF TradeNext

\* What every state that the invariant admits promises.
LEMMA InvIsFair ==
  ASSUME TradeInv
  PROVE  LinkIsFair
<1>1. ASSUME NEW s \in Player, Swapped(s)
      PROVE  /\ game[Peer(s)].mine /\ game[s].mine
             /\ Strict(game[s].verdict) => game[s].got = game[Peer(s)].myPick
             /\ game[s].verdict \in {"full", "subset"} => party[Peer(s)][game[s].got] = "shared"
  <2> DEFINE g == game[s]
             o == game[Peer(s)]
  <2>1. /\ Peer(s) \in Player /\ Peer(Peer(s)) = s
        /\ Shaken(s, g) /\ Session(s, g) /\ Knows(s, g, o) /\ Session(Peer(s), o)
    BY Players, Between DEF Sound, Good
  <2>2. g.got # 0 /\ g.trade = "done" /\ g.theirPick \in DOMAIN g.theirs /\ g.got = g.theirs[g.theirPick]
    BY <1>1, <2>1 DEF Swapped, Session
  <2>3. g.mine /\ g.their /\ o.mine
    BY <2>1, <2>2 DEF Session, Knows
  <2>4. Strict(g.verdict) => /\ g.got = o.myPick /\ g.theirs = o.sends /\ (o.verdict = "subset" => o.limited)
                             /\ g.theirPick \in DOMAIN o.sends
    BY <2>1, <2>2 DEF Session, Knows, Trading
  <2>5. CASE g.verdict = "full"
    <3>1. Strict(g.verdict) /\ pairing = "same"
      BY <2>1, <2>5 DEF Strict, Shaken
    <3>2. g.got \in DOMAIN party[Peer(s)]
      BY <2>1, <2>2, <2>4, <3>1 DEF Session
    <3> QED BY <2>1, <2>3, <2>4, <3>1, <3>2 DEF TradeInv, TradeTyped
  <2>6. CASE g.verdict = "subset"
    <3>1. Strict(g.verdict) /\ g.limited
      BY <2>1, <2>2, <2>6 DEF Strict, Session, Trading
    <3>2. o.limited
      BY <2>1, <2>4, <3>1 DEF Knows
    <3>3. party[Peer(s)][g.got] = "shared"
      BY <2>1, <2>2, <2>4, <3>1, <3>2 DEF Session
    <3> QED BY <2>3, <2>4, <3>1, <3>3
  <2> QED BY <2>3, <2>4, <2>5, <2>6
<1>2. SwapsAreAgreed
  BY <1>1 DEF SwapsAreAgreed
<1>3. ASSUME trouble = "none", \A s \in Player : game[s].stage = "left", NEW s \in Player, Swapped(s)
      PROVE  Swapped(Peer(s))
  <2>1. Peer(s) \in Player /\ Calm(game[Peer(s)], game[s], wire[Peer(s)], wire[s])
    BY <1>3, Players, Between
  <2>2. game[Peer(s)].mine /\ game[s].mine
    BY <1>1, <1>3
  <2> QED BY <1>3, <2>1, <2>2 DEF Calm, Alone, Swapped
<1>4. NobodyIsRobbed
  <2>1. Peer("host") = "guest" /\ Peer("guest") = "host" /\ "host" \in Player /\ "guest" \in Player
    BY Players DEF Player
  <2> QED BY <1>3, <2>1 DEF NobodyIsRobbed
<1>5. BattlesNeedTheSameGame
  BY Between DEF BattlesNeedTheSameGame, Sound, Good, Shaken
<1> QED BY <1>2, <1>4, <1>5 DEF LinkIsFair

\* In every behaviour of two paired games, what each holds of the other is true, whatever is
\* lost, broken or killed on the way.
THEOREM TradeIsSound == TradeSpec => []TradeInv
<1> QED BY TradeInitHolds, TradeStepKeeps, PTL DEF TradeSpec

\* For whatever parties players bring: who swaps gets what a peer who has confirmed has picked,
\* a link that holds robs nobody, and a battle only begins between equal games.
THEOREM TradeIsFair == TradeSpec => []LinkIsFair
<1> QED BY TradeIsSound, InvIsFair, PTL
================================================================================
