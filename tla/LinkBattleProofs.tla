--------------------------- MODULE LinkBattleProofs ---------------------------
(***************************************************************************)
(* Lockstep: the two games of a link battle resolve the same turns, for    *)
(* every list of moves, length of battle and break of the link.            *)
(*                                                                         *)
(* The argument is one of counting.  Each side chooses once for a turn and *)
(* resolves it when it has both actions.  So what is on its way to a side  *)
(* are at most two actions, the next its opponent chose for the turns the  *)
(* side has no action for yet, in their order.  That is Way, an invariant  *)
(* of a few numbers; InOrder ties the actions themselves to it, Sound says *)
(* what holds of each machine alone, and LinkInv puts them together.       *)
(*                                                                         *)
(* How it ends is a second invariant on top of the first, EndInv.  Course  *)
(* says why a machine has the result it has: the last turn it played was   *)
(* decisive, and the queue tells it, or its player or the opponent ran out *)
(* of time.  Told says what the messages on their way tell of a battle     *)
(* that has a result, so that who hears one ends his own for a reason.     *)
(* Parted is the one way off that course: a player who sends somebody out  *)
(* of a menu he asked for before the end reached him, the link being cut.  *)
(***************************************************************************)
EXTENDS LinkBattle, SequenceTheorems, TLAPS

Pairs   == [Side -> Action]
Hash    == Action \X Action \X BOOLEAN
Message == [type : {"action"}, action : Action] \cup [type : {"hash"}, value : Hash]
             \cup [type : {"bye", "forfeit"}]
Item    == {"moves", "endOfTurn", "hash"} \cup Side
Result  == {"none", "win", "lose", "draw"}
Object  ==
  [phase : {"menu", "waitRemote", "messages", "over"}, after : {"menu", "linkNext", "finish"},
   queue : Seq(Item), mine : Action \cup {None}, theirs : Action \cup {None}, result : Result,
   timedOut : BOOLEAN, played : Seq(Pairs), party : {"shut", "asked", "open"}, ran : BOOLEAN,
   local : Seq(Hash), remote : Seq(Hash), checked : Nat]

\* Nobody reorders his list of moves with SELECT.
ListsStay == \A order \in Orders : \A k \in Slot : order[k] = k

-----------------------------------------------------------------------------
(* Counting.  A side has taken T actions of its opponent, who has chosen C; *)
(* A is the places at which there are actions on the way between them.      *)

Second(A, i) == \E j \in A : j < i

\* The turn for which the action at place i was chosen.
Due(T, A, i) == IF Second(A, i) THEN T + 2 ELSE T + 1

Way(T, C, A) ==
  /\ T <= C /\ C <= T + 2
  /\ \A i \in A : Due(T, A, i) <= C
  /\ \A i, j, k \in A : ~(k < j /\ j < i)

\* None of them is missing.
Whole(T, C, A) == /\ C >= T + 1 => A # {}
                  /\ C >= T + 2 => \E i \in A : Second(A, i)

(* What has passed between two machines.  f is the object of s, g that of  *)
(* its opponent o, w what is on its way to s; x is 1 when f has ended with *)
(* a turn on which somebody ran, which is not among those it played, and y *)
(* is the same of g.                                                       *)
One(a)       == IF a = None THEN 0 ELSE 1
Turns(f, x)  == Len(f.played) + x
Chosen(f, x) == Turns(f, x) + One(f.mine)
Taken(f, x)  == Turns(f, x) + One(f.theirs)
Places(t, w) == {i \in 1..Len(w) : w[i].type = t}
Actions(w)   == Places("action", w)

\* a is what o chose for turn n, as far as its machine can still tell.
Chose(o, g, n, a) ==
  ListsStay => /\ n <= Len(g.played) => a = g.played[n][o]
               /\ n = Len(g.played) + 1 /\ g.mine # None => a = g.mine

\* What s has taken is what o chose.
TakenIsTrue(s, f, g, x) ==
  /\ f.theirs # None => Chose(Other(s), g, Turns(f, x) + 1, f.theirs)
  /\ \A n \in 1..Len(f.played) : Chose(Other(s), g, n, f.played[n][Other(s)])

\* So is what is on its way to s.
ComingIsTrue(s, f, g, w, x) ==
  \A i \in Actions(w) : Chose(Other(s), g, Due(Taken(f, x), Actions(w), i), w[i].action)

InOrder(s, f, g, w, broken, x, y) ==
  /\ Way(Taken(f, x), Chosen(g, y), Actions(w))
  /\ ~broken => Whole(Taken(f, x), Chosen(g, y), Actions(w))
  /\ TakenIsTrue(s, f, g, x) /\ ComingIsTrue(s, f, g, w, x)

-----------------------------------------------------------------------------
(* A machine alone.                                                        *)

\* It is waiting for the opponent, or was when the battle ended; a player whose time is up
\* was at the menu, and so was one who asks for his party.
Waits(f) ==
  /\ f.phase = "menu" => f.mine = None /\ f.queue = <<>>
  /\ f.phase = "waitRemote" => f.mine # None
  /\ f.mine # None => /\ f.queue = <<>> /\ f.theirs = None
                      /\ f.phase # "messages" \/ f.after = "finish"
  /\ f.timedOut => /\ f.mine = None /\ f.queue = <<>>
                   /\ f.after = "finish" /\ f.phase \in {"messages", "over"}
  /\ f.party # "shut" => /\ f.mine = None /\ f.queue = <<>> /\ ~f.timedOut
                         /\ f.phase = "messages"

Bounded(f) ==
  /\ Len(f.played) <= MaxTurns
  /\ f.mine # None /\ f.mine.kind # "run" => Len(f.played) < MaxTurns
  /\ f.checked <= Len(f.local) /\ f.checked <= Len(f.remote)

\* The queue up to its place p is what is left of a turn; behind it faints are told.
Agenda(q, p) ==
  /\ p <= Len(q)
  /\ \A i \in 1..Len(q) : /\ i + 2 = p => q[i] = "moves"
                          /\ i + 1 = p => q[i] = "endOfTurn"
                          /\ i = p => q[i] = "hash"
                          /\ i > p => q[i] \in Side

\* Each turn that is over has its signature, and a turn was executed unless the battle
\* had a result.
Signed(f, p) ==
  /\ Len(f.played) = Len(f.local) + (IF p = 0 THEN 0 ELSE 1)
  /\ p < 3 /\ Len(f.played) > 0 /\ ~f.ran => f.result # "none"
  /\ \A n \in 1..Len(f.local) :
       /\ f.local[n][1] = f.played[n]["host"] /\ f.local[n][2] = f.played[n]["guest"]
       /\ ~f.local[n][3] => f.result # "none"

Sound(f) == Waits(f) /\ Bounded(f) /\ \E p \in 0..3 : Agenda(f.queue, p) /\ Signed(f, p)

\* Nothing is resolved and chosen any more, and not because time was up.
Gone(f) ==
  /\ f.mine = None /\ ~f.timedOut /\ f.party = "shut"
  /\ f.phase = "over" \/ (f.phase = "messages" /\ f.after = "finish")

-----------------------------------------------------------------------------
(* The invariant.                                                          *)

Typed ==
  /\ side \in [Side -> Object] /\ wire \in [Side -> Seq(Message)] /\ cut \in BOOLEAN
  /\ fate \in [1..MaxTurns -> Fate]

Counted(fled) ==
  \A s \in Side :
    /\ fled[s] = 1 => Gone(side[s])
    /\ InOrder(s, side[s], side[Other(s)], wire[s], cut, fled[s], fled[Other(s)])

LinkInv ==
  /\ Typed
  /\ \A s \in Side : Sound(side[s])
  /\ \E fled \in [Side -> {0, 1}] : Counted(fled)

LEMMA Sides ==
  ASSUME NEW s \in Side
  PROVE  Other(s) \in Side /\ Other(s) # s /\ Other(Other(s)) = s /\ Side = {s, Other(s)}
  BY DEF Side, Other

-----------------------------------------------------------------------------
(* Lemmas about Way: the numbers alone.                                    *)

\* B is A up to the place m, A with the place m behind it, and A without the first
\* place of all.
UpTo(A, m, B)  == B \subseteq A /\ \A i \in A : i \in B <=> i <= m
Grows(A, m, B) == B = A \cup {m} /\ \A i \in A : i < m
Follows(A, B)  == \A i \in Nat \ {0} : i \in B <=> i + 1 \in A

\* Each of the places in B is for the turn it was for in A.
SameDue(T, A, B) == \A i \in B : Due(T, B, i) = Due(T, A, i)

\* The opponent chooses, and tells it.
LEMMA WayGrows ==
  ASSUME NEW T \in Nat, NEW C \in Nat, NEW A \in SUBSET (Nat \ {0}), NEW B, NEW m \in Nat,
         Way(T, C, A), Whole(T, C, A), C <= T + 1, Grows(A, m, B)
  PROVE  /\ Way(T, C + 1, B) /\ Whole(T, C + 1, B) /\ Due(T, B, m) = C + 1
         /\ \A i \in A : Due(T, B, i) = Due(T, A, i)
<1>1. B = A \cup {m} /\ \A i \in A : i \in Nat /\ i < m
  BY DEF Grows
<1>2. \A i \in A : Second(B, i) <=> Second(A, i)
  BY <1>1 DEF Second
<1>3. Second(B, m) <=> A # {}
  <2>1. ASSUME NEW j \in A PROVE j \in B /\ j < m
    BY <1>1
  <2>2. ASSUME NEW j \in B, j < m PROVE j \in A
    BY <1>1, <2>2
  <2> QED BY <2>1, <2>2 DEF Second
<1>4. \A i \in A : Due(T, B, i) = Due(T, A, i)
  BY <1>2 DEF Due
<1>5. ASSUME NEW i \in A PROVE C >= T + 1
  BY DEF Way, Due
<1>6. Due(T, B, m) = C + 1
  <2>1. CASE A = {}
    BY <1>3, <2>1 DEF Way, Whole, Due
  <2>2. CASE A # {}
    <3>1. C >= T + 1
      BY <1>5, <2>2
    <3>2. C = T + 1
      BY <3>1
    <3> QED BY <1>3, <2>2, <3>2 DEF Due
  <2> QED BY <2>1, <2>2
<1>7. \A i \in B : Due(T, B, i) <= C + 1
  BY <1>1, <1>4, <1>6 DEF Way, Due
<1>8. C = T + 1 => \A i \in A : ~Second(A, i)
  BY DEF Way, Due
<1>9. \A i, j, k \in B : ~(k < j /\ j < i)
  <2> SUFFICES ASSUME NEW i \in B, NEW j \in B, NEW k \in B, k < j, j < i
               PROVE  FALSE
    OBVIOUS
  <2>1. j \in A /\ k \in A
    BY <1>1
  <2>2. CASE i \in A
    BY <2>1, <2>2 DEF Way
  <2>3. CASE i = m
    <3>1. Second(A, j)
      BY <2>1 DEF Second
    <3>2. C >= T + 2
      BY <2>1, <3>1 DEF Way, Due
    <3> QED BY <1>8, <2>1, <3>1, <3>2
  <2> QED BY <1>1, <2>2, <2>3
<1>10. C + 1 >= T + 2 => \E i \in B : Second(B, i)
  BY <1>1, <1>3 DEF Whole
<1> QED BY <1>1, <1>4, <1>6, <1>7, <1>9, <1>10 DEF Way, Whole

\* The opponent chooses, and it does not arrive.
LEMMA WayBreaksOff ==
  ASSUME NEW T \in Nat, NEW C \in Nat, NEW A \in SUBSET Nat, Way(T, C, A), C <= T + 1
  PROVE  Way(T, C + 1, A)
<1>1. \A i \in A : Due(T, A, i) \in Nat
  BY DEF Due
<1> QED BY <1>1 DEF Way

\* The side takes the first of the actions.
LEMMA WayMovesOn ==
  ASSUME NEW T \in Nat, NEW C \in Nat, NEW A \in SUBSET (Nat \ {0}), NEW B \in SUBSET (Nat \ {0}),
         Way(T, C, A), 1 \in A, Follows(A, B)
  PROVE  /\ Way(T + 1, C, B) /\ (Whole(T, C, A) => Whole(T + 1, C, B))
         /\ \A i \in B : Due(T + 1, B, i) = Due(T, A, i + 1)
         /\ Due(T, A, 1) = T + 1
<1>0. \A i \in Nat \ {0} : i \in B <=> i + 1 \in A
  BY DEF Follows
<1>1. \A i \in A : i = 1 \/ i - 1 \in B
  BY <1>0
<1>2. ~Second(A, 1)
  BY DEF Second
<1>3. \A i \in B : i + 1 \in A /\ Second(A, i + 1)
  BY <1>0 DEF Second
<1>4. \A i \in B : ~Second(B, i)
  <2> SUFFICES ASSUME NEW i \in B, NEW j \in B, j < i PROVE FALSE
    BY DEF Second
  <2>1. i + 1 \in A /\ j + 1 \in A /\ 1 < j + 1 /\ j + 1 < i + 1
    BY <1>0
  <2> QED BY <2>1 DEF Way
<1>5. \A i \in B : Due(T + 1, B, i) = T + 2 /\ Due(T, A, i + 1) = T + 2
  BY <1>3, <1>4 DEF Due
<1>6. Due(T, A, 1) = T + 1 /\ T + 1 <= C /\ C <= T + 2
  BY <1>2 DEF Due, Way
<1>7. \A i \in B : T + 2 <= C
  BY <1>3, <1>5 DEF Way
<1>8. \A i, j, k \in B : ~(k < j /\ j < i)
  BY <1>4 DEF Second
<1>9. Whole(T, C, A) /\ C >= T + 2 => B # {}
  <2> SUFFICES ASSUME Whole(T, C, A), C >= T + 2 PROVE B # {}
    OBVIOUS
  <2>1. PICK i \in A : Second(A, i)
    BY DEF Whole
  <2>2. i # 1
    BY <1>2, <2>1
  <2> QED BY <1>1, <2>2
<1>10. Way(T + 1, C, B)
  BY <1>5, <1>6, <1>7, <1>8 DEF Way
<1>11. Whole(T, C, A) => Whole(T + 1, C, B)
  BY <1>6, <1>9 DEF Whole
<1> QED BY <1>5, <1>6, <1>10, <1>11

\* Something else arrives first, or was sent last: the places shift together.
LEMMA WayShifts ==
  ASSUME NEW T \in Nat, NEW C \in Nat, NEW A \in SUBSET (Nat \ {0}), NEW B \in SUBSET (Nat \ {0}),
         Way(T, C, A), 1 \notin A, Follows(A, B)
  PROVE  /\ Way(T, C, B) /\ (Whole(T, C, A) => Whole(T, C, B))
         /\ \A i \in B : Due(T, B, i) = Due(T, A, i + 1)
<1>0. \A i \in Nat \ {0} : i \in B <=> i + 1 \in A
  BY DEF Follows
<1>1. \A i \in A : i - 1 \in B
  BY <1>0
<1>2. \A i \in B : Second(B, i) <=> Second(A, i + 1)
  BY <1>0, <1>1 DEF Second
<1>3. \A i \in B : Due(T, B, i) = Due(T, A, i + 1)
  BY <1>2 DEF Due
<1>4. \A i, j, k \in B : ~(k < j /\ j < i)
  BY <1>0 DEF Way
<1>5. A # {} => B # {}
  BY <1>1
<1>6. (\E i \in A : Second(A, i)) => \E i \in B : Second(B, i)
  <2> SUFFICES ASSUME NEW i \in A, NEW j \in A, j < i PROVE \E k \in B : Second(B, k)
    BY DEF Second
  <2>1. i - 1 \in B /\ j - 1 \in B /\ j - 1 < i - 1
    BY <1>1
  <2> QED BY <2>1 DEF Second
<1>7. \A i \in B : Due(T, B, i) <= C
  BY <1>0, <1>3 DEF Way
<1>8. Way(T, C, B)
  BY <1>4, <1>7 DEF Way
<1>9. Whole(T, C, A) => Whole(T, C, B)
  BY <1>5, <1>6 DEF Whole
<1> QED BY <1>3, <1>8, <1>9

\* The link breaks, and only the beginning of what was on its way arrives.
LEMMA WayIsCut ==
  ASSUME NEW T \in Nat, NEW C \in Nat, NEW A \in SUBSET Nat, NEW m \in Nat, Way(T, C, A),
         NEW B, UpTo(A, m, B)
  PROVE  Way(T, C, B) /\ SameDue(T, A, B)
<1>0. B \subseteq A /\ \A i \in A : i \in B <=> i <= m
  BY DEF UpTo
<1>1. \A i \in B : Second(B, i) <=> Second(A, i)
  BY <1>0 DEF Second
<1>2. \A i \in B : Due(T, B, i) = Due(T, A, i)
  BY <1>1 DEF Due
<1> QED BY <1>0, <1>2 DEF Way, SameDue

-----------------------------------------------------------------------------
(* Lemmas about what passes between two machines.                          *)

LEMMA Numbers ==
  ASSUME NEW f \in Object, NEW x \in {0, 1}
  PROVE  /\ Len(f.played) \in Nat /\ Turns(f, x) \in Nat /\ Turns(f, x) = Len(f.played) + x
         /\ One(f.mine) \in {0, 1} /\ One(f.theirs) \in {0, 1}
         /\ Chosen(f, x) \in Nat /\ Taken(f, x) \in Nat
         /\ Chosen(f, x) = Turns(f, x) + One(f.mine) /\ Taken(f, x) = Turns(f, x) + One(f.theirs)
<1>1. f.played \in Seq(Pairs)
  BY DEF Object
<1>2. Len(f.played) \in Nat
  BY <1>1, LenProperties
<1>3. One(f.mine) \in {0, 1} /\ One(f.theirs) \in {0, 1}
  BY DEF One
<1>4. Turns(f, x) \in Nat /\ Turns(f, x) = Len(f.played) + x
  BY <1>2 DEF Turns
<1> QED BY <1>2, <1>3, <1>4 DEF Chosen, Taken

LEMMA PlacesAre ==
  ASSUME NEW t, NEW w \in Seq(Message)
  PROVE  Len(w) \in Nat /\ Places(t, w) \in SUBSET (Nat \ {0}) /\ \A i \in Places(t, w) : i <= Len(w)
<1>1. Len(w) \in Nat
  BY LenProperties
<1> QED BY <1>1 DEF Places

LEMMA PlacesAppend ==
  ASSUME NEW t, NEW w \in Seq(Message), NEW m \in Message
  PROVE  /\ Append(w, m) \in Seq(Message)
         /\ \A i \in Places(t, w) : Append(w, m)[i] = w[i]
         /\ Append(w, m)[Len(w) + 1] = m
         /\ \A i : i \in Places(t, Append(w, m)) <=>
                    i \in Places(t, w) \/ (i = Len(w) + 1 /\ m.type = t)
<1>1. /\ Append(w, m) \in Seq(Message) /\ Len(Append(w, m)) = Len(w) + 1 /\ Len(w) \in Nat
      /\ \A i \in 1..Len(w) : Append(w, m)[i] = w[i]
      /\ Append(w, m)[Len(w) + 1] = m
  BY AppendProperties, LenProperties
<1>2. \A i : i \in 1..(Len(w) + 1) <=> i \in 1..Len(w) \/ i = Len(w) + 1
  BY <1>1
<1>3. ASSUME NEW i
      PROVE  i \in Places(t, Append(w, m)) <=>
               i \in Places(t, w) \/ (i = Len(w) + 1 /\ m.type = t)
  <2>1. CASE i \in 1..Len(w)
    BY <1>1, <1>2, <2>1 DEF Places
  <2>2. CASE i \notin 1..Len(w)
    BY <1>1, <1>2, <2>2 DEF Places
  <2> QED BY <2>1, <2>2
<1> QED BY <1>1, <1>3 DEF Places

LEMMA PlacesTail ==
  ASSUME NEW t, NEW w \in Seq(Message), w # <<>>
  PROVE  /\ Tail(w) \in Seq(Message) /\ Head(w) = w[1] /\ Head(w) \in Message
         /\ 1 \in Places(t, w) <=> Head(w).type = t
         /\ \A i \in Nat \ {0} : i \in Places(t, Tail(w)) <=> i + 1 \in Places(t, w)
         /\ \A i \in Places(t, Tail(w)) : Tail(w)[i] = w[i + 1]
<1>1. /\ Tail(w) \in Seq(Message) /\ Len(Tail(w)) = Len(w) - 1 /\ Len(w) \in Nat /\ Len(w) >= 1
      /\ \A i \in 1..Len(Tail(w)) : Tail(w)[i] = w[i + 1]
      /\ Head(w) = w[1] /\ Head(w) \in Message
  BY HeadTailProperties, LenProperties, EmptySeq
<1>2. ASSUME NEW i \in Nat \ {0}
      PROVE  i \in Places(t, Tail(w)) <=> i + 1 \in Places(t, w)
  <2>1. i \in 1..Len(Tail(w)) <=> i + 1 \in 1..Len(w)
    BY <1>1
  <2> QED BY <1>1, <2>1 DEF Places
<1>3. 1 \in 1..Len(w)
  BY <1>1
<1> QED BY <1>1, <1>2, <1>3 DEF Places

\* v is the first k messages of w, as far as those of type t go.
Begins(t, v, w, k) ==
  /\ v \in Seq(Message)
  /\ Places(t, v) = {i \in Places(t, w) : i <= k}
  /\ \A i \in Places(t, v) : v[i] = w[i]

LEMMA PlacesSubSeq ==
  ASSUME NEW t, NEW w \in Seq(Message), NEW k \in 0..Len(w)
  PROVE  Begins(t, SubSeq(w, 1, k), w, k)
<1>1. Len(w) \in Nat
  BY LenProperties
<1>2. /\ SubSeq(w, 1, k) \in Seq(Message) /\ Len(SubSeq(w, 1, k)) = k
      /\ \A i \in 1..k : SubSeq(w, 1, k)[i] = w[i]
  BY <1>1, SubSeqProperties
<1>3. \A i : i \in 1..k <=> i \in 1..Len(w) /\ i <= k
  BY <1>1
<1> QED BY <1>2, <1>3 DEF Places, Begins

\* So it is with actions.
LEMMA ActionsArePlaces ==
  ASSUME NEW w \in Seq(Message)
  PROVE  Len(w) \in Nat /\ Actions(w) \in SUBSET (Nat \ {0}) /\ \A i \in Actions(w) : i <= Len(w)
  BY PlacesAre DEF Actions

LEMMA ActionsAppend ==
  ASSUME NEW w \in Seq(Message), NEW m \in Message
  PROVE  /\ Append(w, m) \in Seq(Message)
         /\ \A i \in Actions(w) : Append(w, m)[i] = w[i]
         /\ Append(w, m)[Len(w) + 1] = m
         /\ Actions(Append(w, m)) = Actions(w) \cup (IF m.type = "action" THEN {Len(w) + 1} ELSE {})
<1>1. PICK t : t = "action"
  OBVIOUS
<1>2. /\ Append(w, m) \in Seq(Message)
      /\ \A i \in Places(t, w) : Append(w, m)[i] = w[i]
      /\ Append(w, m)[Len(w) + 1] = m
      /\ \A i : i \in Places(t, Append(w, m)) <=>
                 i \in Places(t, w) \/ (i = Len(w) + 1 /\ m.type = t)
  BY PlacesAppend
<1>3. /\ Append(w, m) \in Seq(Message)
      /\ \A i \in Actions(w) : Append(w, m)[i] = w[i]
      /\ Append(w, m)[Len(w) + 1] = m
  BY <1>1, <1>2 DEF Actions
<1>4. \A i : i \in Actions(Append(w, m)) <=>
               i \in Actions(w) \/ (i = Len(w) + 1 /\ m.type = "action")
  BY <1>1, <1>2 DEF Actions
<1>5. Actions(Append(w, m)) = Actions(w) \cup (IF m.type = "action" THEN {Len(w) + 1} ELSE {})
  BY <1>4
<1> QED BY <1>3, <1>5

LEMMA ActionsTail ==
  ASSUME NEW w \in Seq(Message), w # <<>>
  PROVE  /\ Tail(w) \in Seq(Message) /\ Head(w) = w[1] /\ Head(w) \in Message
         /\ 1 \in Actions(w) <=> Head(w).type = "action"
         /\ \A i \in Nat \ {0} : i \in Actions(Tail(w)) <=> i + 1 \in Actions(w)
         /\ \A i \in Actions(Tail(w)) : Tail(w)[i] = w[i + 1]
<1>1. PICK t : t = "action"
  OBVIOUS
<1>2. /\ Tail(w) \in Seq(Message) /\ Head(w) = w[1] /\ Head(w) \in Message
      /\ 1 \in Places(t, w) <=> Head(w).type = t
      /\ \A i \in Nat \ {0} : i \in Places(t, Tail(w)) <=> i + 1 \in Places(t, w)
      /\ \A i \in Places(t, Tail(w)) : Tail(w)[i] = w[i + 1]
  BY PlacesTail
<1> QED BY <1>1, <1>2 DEF Actions

LEMMA ActionsSubSeq ==
  ASSUME NEW w \in Seq(Message), NEW k \in 0..Len(w)
  PROVE  /\ SubSeq(w, 1, k) \in Seq(Message)
         /\ Actions(SubSeq(w, 1, k)) = {i \in Actions(w) : i <= k}
         /\ \A i \in Actions(SubSeq(w, 1, k)) : SubSeq(w, 1, k)[i] = w[i]
<1>1. Begins("action", SubSeq(w, 1, k), w, k)
  BY PlacesSubSeq
<1> QED BY <1>1 DEF Actions, Begins

\* Nothing that the counting is about has changed, or what changed keeps the counts.
LEMMA OrderKept ==
  ASSUME NEW s \in Side, NEW f \in Object, NEW g \in Object, NEW f2 \in Object, NEW g2 \in Object,
         NEW w \in Seq(Message), NEW broken \in BOOLEAN,
         NEW x \in {0, 1}, NEW y \in {0, 1}, NEW x2 \in {0, 1}, NEW y2 \in {0, 1},
         InOrder(s, f, g, w, broken, x, y),
         Taken(f2, x2) = Taken(f, x), Chosen(g2, y2) = Chosen(g, y),
         \A n, a : Chose(Other(s), g, n, a) => Chose(Other(s), g2, n, a),
         TakenIsTrue(s, f2, g2, x2)
  PROVE  InOrder(s, f2, g2, w, broken, x2, y2)
BY DEF InOrder, ComingIsTrue

LEMMA OrderSame ==
  ASSUME NEW s \in Side, NEW f \in Object, NEW g \in Object, NEW f2 \in Object, NEW g2 \in Object,
         NEW w \in Seq(Message), NEW broken \in BOOLEAN, NEW x \in {0, 1}, NEW y \in {0, 1},
         InOrder(s, f, g, w, broken, x, y),
         f2.played = f.played, f2.theirs = f.theirs, g2.played = g.played, g2.mine = g.mine
  PROVE  InOrder(s, f2, g2, w, broken, x, y)
<1>1. Taken(f2, x) = Taken(f, x) /\ Turns(f2, x) = Turns(f, x) /\ Chosen(g2, y) = Chosen(g, y)
  BY DEF Taken, Chosen, Turns
<1>2. \A n, a : Chose(Other(s), g, n, a) <=> Chose(Other(s), g2, n, a)
  BY DEF Chose
<1>3. TakenIsTrue(s, f2, g2, x)
  BY <1>1, <1>2 DEF InOrder, TakenIsTrue
<1> QED BY <1>1, <1>2, <1>3, OrderKept

\* Both actions are there and s resolves the turn: as the taker, and as the chooser.
LEMMA TakerResolves ==
  ASSUME NEW s \in Side, NEW f \in Object, NEW g \in Object, NEW f2 \in Object,
         NEW w \in Seq(Message), NEW broken \in BOOLEAN, NEW x \in {0, 1}, NEW y \in {0, 1},
         InOrder(s, f, g, w, broken, x, y), x = 0,
         f.theirs # None, f2.theirs = None,
         NEW p \in Pairs, p[Other(s)] = f.theirs, f2.played = Append(f.played, p)
  PROVE  InOrder(s, f2, g, w, broken, x, y)
<1>1. /\ Len(f2.played) = Len(f.played) + 1 /\ Len(f.played) \in Nat
      /\ \A n \in 1..Len(f.played) : f2.played[n] = f.played[n]
      /\ f2.played[Len(f.played) + 1] = p
  <2>1. f.played \in Seq(Pairs)
    BY DEF Object
  <2> QED BY <2>1, AppendProperties, LenProperties
<1>2. Turns(f, x) = Len(f.played)
  BY <1>1 DEF Turns
<1>3. Taken(f2, x) = Taken(f, x)
  BY <1>1 DEF Taken, Turns, One
<1>4. TakenIsTrue(s, f2, g, x)
  <2> SUFFICES ASSUME NEW n \in 1..(Len(f.played) + 1)
               PROVE  Chose(Other(s), g, n, f2.played[n][Other(s)])
    BY <1>1 DEF TakenIsTrue
  <2>1. CASE n \in 1..Len(f.played)
    BY <1>1, <2>1 DEF InOrder, TakenIsTrue
  <2>2. CASE n = Len(f.played) + 1
    BY <1>1, <1>2, <2>2 DEF InOrder, TakenIsTrue
  <2> QED BY <1>1, <2>1, <2>2
<1> QED BY <1>3, <1>4, OrderKept

LEMMA ChooserResolves ==
  ASSUME NEW s \in Side, NEW f \in Object, NEW g \in Object, NEW g2 \in Object,
         NEW w \in Seq(Message), NEW broken \in BOOLEAN, NEW x \in {0, 1}, NEW y \in {0, 1},
         InOrder(s, f, g, w, broken, x, y),
         g.mine # None, g2.mine = None,
         NEW p \in Pairs, p[Other(s)] = g.mine, g2.played = Append(g.played, p)
  PROVE  InOrder(s, f, g2, w, broken, x, y)
<1>1. /\ Len(g2.played) = Len(g.played) + 1 /\ Len(g.played) \in Nat
      /\ \A n \in 1..Len(g.played) : g2.played[n] = g.played[n]
      /\ g2.played[Len(g.played) + 1] = p
  <2>1. g.played \in Seq(Pairs)
    BY DEF Object
  <2> QED BY <2>1, AppendProperties, LenProperties
<1>2. Chosen(g2, y) = Chosen(g, y)
  BY <1>1 DEF Chosen, Turns, One
<1>3. ASSUME NEW n \in Nat \ {0}, NEW a, Chose(Other(s), g, n, a) PROVE Chose(Other(s), g2, n, a)
  <2>1. CASE n \in 1..Len(g.played)
    BY <1>1, <1>3, <2>1 DEF Chose
  <2>2. CASE n = Len(g.played) + 1
    BY <1>1, <1>3, <2>2 DEF Chose
  <2>3. CASE n > Len(g.played) + 1
    BY <1>1, <2>3 DEF Chose
  <2> QED BY <1>1, <2>1, <2>2, <2>3
<1>4. TakenIsTrue(s, f, g2, x)
  <2>1. Turns(f, x) \in Nat /\ Len(f.played) \in Nat
    BY Numbers
  <2>2. Turns(f, x) + 1 \in Nat \ {0} /\ \A n \in 1..Len(f.played) : n \in Nat \ {0}
    BY <2>1
  <2> QED BY <1>3, <2>2 DEF InOrder, TakenIsTrue
<1>5. ComingIsTrue(s, f, g2, w, x)
  <2>1. Taken(f, x) \in Nat
    BY Numbers
  <2>2. \A i \in Actions(w) : Due(Taken(f, x), Actions(w), i) \in Nat \ {0}
    BY <2>1 DEF Due
  <2> QED BY <1>3, <2>2 DEF InOrder, ComingIsTrue
<1> QED BY <1>2, <1>4, <1>5 DEF InOrder

\* One of the two ran, and s ends the battle.
LEMMA TakerEnds ==
  ASSUME NEW s \in Side, NEW f \in Object, NEW g \in Object, NEW f2 \in Object,
         NEW w \in Seq(Message), NEW broken \in BOOLEAN, NEW x \in {0, 1}, NEW y \in {0, 1},
         InOrder(s, f, g, w, broken, x, y), x = 0,
         f.theirs # None, f2.theirs = None, f2.played = f.played
  PROVE  InOrder(s, f2, g, w, broken, 1, y)
<1>1. Taken(f2, 1) = Taken(f, x)
  BY Numbers DEF Taken, Turns, One
<1>2. TakenIsTrue(s, f2, g, 1)
  BY DEF InOrder, TakenIsTrue
<1> QED BY <1>1, <1>2, OrderKept

LEMMA ChooserEnds ==
  ASSUME NEW s \in Side, NEW f \in Object, NEW g \in Object, NEW g2 \in Object,
         NEW w \in Seq(Message), NEW broken \in BOOLEAN, NEW x \in {0, 1}, NEW y \in {0, 1},
         InOrder(s, f, g, w, broken, x, y), y = 0,
         g.mine # None, g2.mine = None, g2.played = g.played
  PROVE  InOrder(s, f, g2, w, broken, x, 1)
<1>1. Chosen(g2, 1) = Chosen(g, y)
  BY Numbers DEF Chosen, Turns, One
<1>2. \A n, a : Chose(Other(s), g, n, a) => Chose(Other(s), g2, n, a)
  BY DEF Chose
<1>3. TakenIsTrue(s, f, g2, x)
  BY <1>2 DEF InOrder, TakenIsTrue
<1> QED BY <1>1, <1>2, <1>3, OrderKept

\* The opponent chooses, and tells s if the link holds.
LEMMA ChoiceInOrder ==
  ASSUME NEW s \in Side, NEW f \in Object, NEW g \in Object, NEW g2 \in Object,
         NEW w \in Seq(Message), NEW broken \in BOOLEAN, NEW x \in {0, 1}, NEW y \in {0, 1},
         InOrder(s, f, g, w, broken, x, y),
         y = 0, g.mine = None, g2.mine # None, g2.played = g.played,
         Turns(g, y) <= Taken(f, x) + 1,
         NEW m \in Message, m.type = "action", ListsStay => g2.mine = m.action
  PROVE  InOrder(s, f, g2, IF broken THEN w ELSE Append(w, m), broken, x, y)
<1> PICK T \in Nat : T = Taken(f, x)
  BY Numbers
<1> PICK C \in Nat : C = Chosen(g, y)
  BY Numbers
<1>1. /\ C = Len(g.played) /\ Turns(g, y) = C /\ C <= T + 1 /\ Chosen(g2, y) = C + 1
  BY Numbers DEF Chosen, Turns, One
<1>2. Way(T, C, Actions(w)) /\ (~broken => Whole(T, C, Actions(w))) /\ T <= C
  BY DEF InOrder, Way
<1>3. ASSUME NEW n \in Nat, n <= C, NEW a, Chose(Other(s), g, n, a) PROVE Chose(Other(s), g2, n, a)
  BY <1>1, <1>3 DEF Chose
<1>4. TakenIsTrue(s, f, g2, x)
  <2>1. Turns(f, x) \in Nat /\ Turns(f, x) = Len(f.played) + x /\ Len(f.played) \in Nat
        /\ T = Turns(f, x) + One(f.theirs) /\ One(f.theirs) \in {0, 1}
    BY Numbers
  <2>2. f.theirs # None => Turns(f, x) + 1 <= C
    BY <2>1, <1>2 DEF One
  <2>3. Len(f.played) <= C
    BY <2>1, <1>2
  <2>4. Turns(f, x) + 1 \in Nat /\ \A n \in 1..Len(f.played) : n \in Nat /\ n <= C
    BY <2>1, <2>3
  <2> QED BY <1>3, <2>2, <2>4 DEF InOrder, TakenIsTrue
<1>5. Actions(w) \in SUBSET (Nat \ {0}) /\ Len(w) \in Nat /\ \A i \in Actions(w) : i < Len(w) + 1
  BY ActionsArePlaces
<1>6. ASSUME NEW i \in Actions(w) PROVE Due(T, Actions(w), i) \in Nat /\ Due(T, Actions(w), i) <= C
  BY <1>2 DEF Way, Due
<1>7. ASSUME NEW i \in Actions(w) PROVE Chose(Other(s), g2, Due(T, Actions(w), i), w[i].action)
  BY <1>3, <1>6 DEF InOrder, ComingIsTrue
<1>8. CASE broken
  <2>1. Way(T, C + 1, Actions(w))
    BY <1>1, <1>2, <1>5, WayBreaksOff
  <2> QED BY <1>1, <1>4, <1>7, <1>8, <2>1 DEF InOrder, ComingIsTrue
<1>9. CASE ~broken
  <2>0. Len(w) + 1 \in Nat /\ Actions(w) \cup {Len(w) + 1} \in SUBSET Nat
    BY <1>5
  <2>5. PICK B \in SUBSET Nat : B = Actions(w) \cup {Len(w) + 1}
    BY <2>0
  <2>1. /\ Actions(Append(w, m)) = B /\ Append(w, m)[Len(w) + 1] = m
        /\ \A i \in Actions(w) : Append(w, m)[i] = w[i]
    BY <2>5, ActionsAppend
  <2>2. /\ Way(T, C + 1, B) /\ Whole(T, C + 1, B) /\ Due(T, B, Len(w) + 1) = C + 1
        /\ \A i \in Actions(w) : Due(T, B, i) = Due(T, Actions(w), i)
    <3>6. PICK M \in Nat : M = Len(w) + 1
      BY <2>0
    <3>1. Grows(Actions(w), M, B)
      BY <1>5, <2>5, <3>6 DEF Grows
    <3>2. Whole(T, C, Actions(w))
      BY <1>2, <1>9
    <3>3. Way(T, C, Actions(w))
      BY <1>2
    <3>4. C <= T + 1
      BY <1>1
    <3>5. Actions(w) \in SUBSET (Nat \ {0})
      BY <1>5
    <3>7. /\ Way(T, C + 1, B) /\ Whole(T, C + 1, B) /\ Due(T, B, M) = C + 1
          /\ \A i \in Actions(w) : Due(T, B, i) = Due(T, Actions(w), i)
      BY <3>1, <3>2, <3>3, <3>4, <3>5, WayGrows
    <3> QED BY <3>6, <3>7
  <2>3. Chose(Other(s), g2, C + 1, m.action)
    BY <1>1 DEF Chose
  <2>4. ASSUME NEW i \in B PROVE Chose(Other(s), g2, Due(T, B, i), Append(w, m)[i].action)
    BY <1>7, <2>1, <2>2, <2>3, <2>5
  <2> QED BY <1>1, <1>4, <1>9, <2>1, <2>2, <2>4 DEF InOrder, ComingIsTrue
<1> QED BY <1>8, <1>9

\* s takes the first action on its way.
LEMMA HearingInOrder ==
  ASSUME NEW s \in Side, NEW f \in Object, NEW g \in Object, NEW f2 \in Object,
         NEW w \in Seq(Message), NEW broken \in BOOLEAN, NEW x \in {0, 1}, NEW y \in {0, 1},
         InOrder(s, f, g, w, broken, x, y),
         w # <<>>, Head(w).type = "action", f.theirs = None,
         f2.theirs = Head(w).action, f2.theirs # None, f2.played = f.played
  PROVE  InOrder(s, f2, g, Tail(w), broken, x, y)
<1> PICK T \in Nat : T = Taken(f, x)
  BY Numbers
<1> PICK C \in Nat : C = Chosen(g, y)
  BY Numbers
<1> PICK A \in SUBSET (Nat \ {0}) : A = Actions(w)
  BY ActionsArePlaces
<1>1. Tail(w) \in Seq(Message)
  BY ActionsTail
<1> PICK B \in SUBSET (Nat \ {0}) : B = Actions(Tail(w))
  BY <1>1, ActionsArePlaces
<1>2. /\ 1 \in A /\ \A i \in Nat \ {0} : i \in B <=> i + 1 \in A
      /\ Head(w) = w[1] /\ \A i \in B : Tail(w)[i] = w[i + 1]
  BY ActionsTail
<1>3. Way(T, C, A) /\ (~broken => Whole(T, C, A)) /\ \A i \in A : Chose(Other(s), g, Due(T, A, i), w[i].action)
  BY DEF InOrder, ComingIsTrue
<1>4. /\ Way(T + 1, C, B) /\ (Whole(T, C, A) => Whole(T + 1, C, B)) /\ Due(T, A, 1) = T + 1
      /\ \A i \in B : Due(T + 1, B, i) = Due(T, A, i + 1)
  <2>1. 1 \in A
    BY <1>2
  <2>2. Follows(A, B)
    BY <1>2 DEF Follows
  <2>3. Way(T, C, A)
    BY <1>3
  <2> QED BY <2>1, <2>2, <2>3, WayMovesOn
<1>5. Turns(f2, x) = T /\ Turns(f, x) = T /\ Taken(f2, x) = T + 1
  BY Numbers DEF Turns, Taken, One
<1>6. TakenIsTrue(s, f2, g, x)
  <2>1. Chose(Other(s), g, T + 1, f2.theirs)
    BY <1>2, <1>3, <1>4
  <2> QED BY <1>5, <2>1 DEF InOrder, TakenIsTrue
<1>7. ComingIsTrue(s, f2, g, Tail(w), x)
  <2>1. \A i \in B : Chose(Other(s), g, Due(T + 1, B, i), Tail(w)[i].action)
    BY <1>2, <1>3, <1>4
  <2> QED BY <1>5, <2>1 DEF ComingIsTrue
<1> QED BY <1>3, <1>4, <1>5, <1>6, <1>7 DEF InOrder

\* Messages of another kind: the first is taken, or one more is sent.
LEMMA OtherIsTaken ==
  ASSUME NEW s \in Side, NEW f \in Object, NEW g \in Object,
         NEW w \in Seq(Message), NEW broken \in BOOLEAN, NEW x \in {0, 1}, NEW y \in {0, 1},
         InOrder(s, f, g, w, broken, x, y),
         w # <<>>, Head(w).type # "action"
  PROVE  InOrder(s, f, g, Tail(w), broken, x, y)
<1> PICK T \in Nat : T = Taken(f, x)
  BY Numbers
<1> PICK C \in Nat : C = Chosen(g, y)
  BY Numbers
<1> PICK A \in SUBSET (Nat \ {0}) : A = Actions(w)
  BY ActionsArePlaces
<1>1. Tail(w) \in Seq(Message)
  BY ActionsTail
<1> PICK B \in SUBSET (Nat \ {0}) : B = Actions(Tail(w))
  BY <1>1, ActionsArePlaces
<1>2. /\ 1 \notin A /\ \A i \in Nat \ {0} : i \in B <=> i + 1 \in A
      /\ \A i \in B : Tail(w)[i] = w[i + 1]
  BY ActionsTail
<1>3. Follows(A, B)
  BY <1>2 DEF Follows
<1>5. Way(T, C, A) /\ (~broken => Whole(T, C, A)) /\ \A i \in A : Chose(Other(s), g, Due(T, A, i), w[i].action)
  BY DEF InOrder, ComingIsTrue
<1>6. /\ Way(T, C, B) /\ (Whole(T, C, A) => Whole(T, C, B))
      /\ \A i \in B : Due(T, B, i) = Due(T, A, i + 1)
  <2>1. 1 \notin A
    BY <1>2
  <2>2. Way(T, C, A)
    BY <1>5
  <2> QED BY <1>3, <2>1, <2>2, WayShifts
<1>7. \A i \in B : Chose(Other(s), g, Due(T, B, i), Tail(w)[i].action)
  BY <1>2, <1>5, <1>6
<1> QED BY <1>5, <1>6, <1>7 DEF InOrder, ComingIsTrue

LEMMA OtherIsSent ==
  ASSUME NEW s \in Side, NEW f \in Object, NEW g \in Object,
         NEW w \in Seq(Message), NEW broken \in BOOLEAN, NEW x \in {0, 1}, NEW y \in {0, 1},
         InOrder(s, f, g, w, broken, x, y),
         NEW m \in Message, m.type # "action"
  PROVE  InOrder(s, f, g, Append(w, m), broken, x, y)
<1>1. \A i \in Actions(w) : Append(w, m)[i] = w[i]
  BY ActionsAppend
<1>2. Actions(Append(w, m)) = Actions(w) \cup {}
  BY ActionsAppend
<1> QED BY <1>1, <1>2 DEF InOrder, ComingIsTrue

\* The link breaks.
LEMMA CutInOrder ==
  ASSUME NEW s \in Side, NEW f \in Object, NEW g \in Object,
         NEW w \in Seq(Message), NEW broken \in BOOLEAN, NEW x \in {0, 1}, NEW y \in {0, 1},
         InOrder(s, f, g, w, broken, x, y), NEW k \in 0..Len(w)
  PROVE  InOrder(s, f, g, SubSeq(w, 1, k), TRUE, x, y)
<1>1. PICK T \in Nat : T = Taken(f, x)
  BY Numbers
<1>2. PICK C \in Nat : C = Chosen(g, y)
  BY Numbers
<1>3. PICK A \in SUBSET Nat : A = Actions(w)
  BY ActionsArePlaces
<1>4. PICK B \in SUBSET Nat : B = {i \in A : i <= k}
  OBVIOUS
<1>5. k \in Nat
  BY ActionsArePlaces
<1>6. Actions(SubSeq(w, 1, k)) = B /\ \A i \in B : SubSeq(w, 1, k)[i] = w[i]
  BY <1>3, <1>4, ActionsSubSeq
<1>7. Way(T, C, A)
  BY <1>1, <1>2, <1>3 DEF InOrder
<1>8. \A i \in A : Chose(Other(s), g, Due(T, A, i), w[i].action)
  BY <1>1, <1>3 DEF InOrder, ComingIsTrue
<1>9. Way(T, C, B) /\ \A i \in B : Due(T, B, i) = Due(T, A, i)
  <2>1. UpTo(A, k, B)
    BY <1>4 DEF UpTo
  <2>2. A \in SUBSET Nat /\ T \in Nat /\ C \in Nat
    OBVIOUS
  <2>3. Way(T, C, B) /\ SameDue(T, A, B)
    BY <1>5, <1>7, <2>1, <2>2, WayIsCut
  <2> QED BY <2>3 DEF SameDue
<1>10. \A i \in B : Chose(Other(s), g, Due(T, B, i), SubSeq(w, 1, k)[i].action)
  <2> SUFFICES ASSUME NEW i \in B
               PROVE  Chose(Other(s), g, Due(T, B, i), SubSeq(w, 1, k)[i].action)
    OBVIOUS
  <2>1. i \in A /\ Due(T, B, i) = Due(T, A, i) /\ SubSeq(w, 1, k)[i] = w[i]
    BY <1>4, <1>6, <1>9
  <2> QED BY <1>8, <2>1
<1>11. TakenIsTrue(s, f, g, x)
  BY DEF InOrder
<1> QED BY <1>1, <1>2, <1>6, <1>9, <1>10, <1>11 DEF InOrder, ComingIsTrue

-----------------------------------------------------------------------------
(* Lemmas about a machine alone.                                           *)

\* What the counting is about is the same; so are the clock and the party menu.
Alike(f, e) == e.played = f.played /\ e.mine = f.mine /\ e.theirs = f.theirs
Same(f, e)  == Alike(f, e) /\ e.timedOut = f.timedOut /\ e.party = f.party

LEMMA ObjectFields ==
  ASSUME NEW f \in Object
  PROVE  /\ f.phase \in {"menu", "waitRemote", "messages", "over"}
         /\ f.after \in {"menu", "linkNext", "finish"}
         /\ f.queue \in Seq(Item) /\ f.played \in Seq(Pairs)
         /\ f.mine \in Action \cup {None} /\ f.theirs \in Action \cup {None}
         /\ f.result \in Result /\ f.ran \in BOOLEAN /\ f.timedOut \in BOOLEAN
         /\ f.party \in {"shut", "asked", "open"}
         /\ f.local \in Seq(Hash) /\ f.remote \in Seq(Hash) /\ f.checked \in Nat
  BY DEF Object

LEMMA EndWithFields ==
  ASSUME NEW f \in Object, NEW r \in Result
  PROVE  LET e == EndWith(f, r)
         IN  /\ e \in Object /\ Same(f, e)
             /\ e.result = r /\ e.after = "finish" /\ e.phase = "messages"
             /\ e.queue = f.queue /\ e.ran = f.ran /\ e.local = f.local /\ e.remote = f.remote
             /\ e.checked = f.checked
  BY DEF EndWith, Object, Same, Alike

\* The battle gets a result.
LEMMA EndWithIsSound ==
  ASSUME NEW f \in Object, Sound(f), NEW r \in Result \ {"none"}
  PROVE  LET e == EndWith(f, r)
         IN  /\ e \in Object /\ Same(f, e) /\ Sound(e) /\ e.after = "finish"
             /\ f.mine = None /\ ~f.timedOut /\ f.party = "shut" => Gone(e)
<1> PICK e \in Object : e = EndWith(f, r)
  BY EndWithFields
<1>1. /\ Same(f, e) /\ e.result = r /\ e.after = "finish" /\ e.phase = "messages"
      /\ e.queue = f.queue /\ e.ran = f.ran /\ e.local = f.local /\ e.remote = f.remote
      /\ e.checked = f.checked
  BY EndWithFields
<1>2. Waits(e)
  BY <1>1 DEF Waits, Sound, Same, Alike
<1>3. Bounded(e)
  BY <1>1 DEF Bounded, Sound, Same, Alike
<1>4. ASSUME NEW p \in 0..3, Signed(f, p) PROVE Signed(e, p)
  BY <1>1, <1>4 DEF Signed, Same, Alike
<1> QED BY <1>1, <1>2, <1>3, <1>4 DEF Sound, Gone, Same, Alike

LEMMA CheckIsSound ==
  ASSUME NEW f \in Object, Sound(f)
  PROVE  LET e == Check(f)
         IN  e \in Object /\ Same(f, e) /\ Sound(e) /\ e.local = f.local /\ (Gone(f) => Gone(e))
<1>0. PICK n \in Nat : n = f.checked + 1
  BY ObjectFields
<1>5. PICK g \in Object : g = [f EXCEPT !.checked = n]
  BY DEF Object
<1>1. /\ Same(f, g) /\ g.result = f.result /\ g.after = f.after /\ g.phase = f.phase
      /\ g.queue = f.queue /\ g.ran = f.ran /\ g.local = f.local /\ g.remote = f.remote
      /\ g.checked = n
  BY <1>5 DEF Object, Same, Alike
<1>2. Len(f.local) \in Nat /\ Len(f.remote) \in Nat
  BY ObjectFields, LenProperties
<1>3. CASE n > Len(f.local) \/ n > Len(f.remote)
  <2>1. Check(f) = f
    BY <1>0, <1>3 DEF Check
  <2> QED BY <2>1 DEF Same, Alike
<1>4. CASE ~(n > Len(f.local) \/ n > Len(f.remote))
  <2>1. Bounded(g)
    BY <1>1, <1>2, <1>4 DEF Bounded, Sound, Same, Alike
  <2>2. Waits(g)
    BY <1>1 DEF Waits, Sound, Same, Alike
  <2>3. ASSUME NEW p \in 0..3, Signed(f, p) PROVE Signed(g, p)
    BY <1>1, <2>3 DEF Signed, Same, Alike
  <2>4. Sound(g) /\ (Gone(f) => Gone(g))
    BY <1>1, <2>1, <2>2, <2>3 DEF Sound, Gone, Same, Alike
  <2>5. CASE f.local[n] = f.remote[n]
    <3>1. Check(f) = g
      BY <1>0, <1>4, <1>5, <2>5 DEF Check
    <3> QED BY <1>1, <2>4, <3>1
  <2>6. CASE f.local[n] # f.remote[n]
    <3>0. PICK r \in Result \ {"none"} : r = "draw"
      BY DEF Result
    <3>1. Check(f) = EndWith(g, r)
      BY <1>0, <1>4, <1>5, <2>6, <3>0 DEF Check
    <3>2. PICK e \in Object : e = EndWith(g, r)
      BY EndWithFields
    <3>3. Same(g, e) /\ Sound(e) /\ (g.mine = None /\ ~g.timedOut /\ g.party = "shut" => Gone(e))
      BY <2>4, <3>2, EndWithIsSound
    <3>4. e.queue = g.queue /\ e.ran = g.ran /\ e.local = g.local /\ e.remote = g.remote
      <4>1. r \in Result
        OBVIOUS
      <4> QED BY <3>2, <4>1, EndWithFields
    <3> QED BY <1>1, <3>1, <3>2, <3>3, <3>4 DEF Same, Alike, Gone
  <2> QED BY <2>5, <2>6
<1> QED BY <1>3, <1>4

LEMMA ActionsAreSome ==
  ASSUME NEW a \in Action
  PROVE  a # None /\ a.kind \in {"move", "switch", "run"}
  BY DEF Action, None

LEMMA PairOfActions ==
  ASSUME NEW s \in Side, NEW f \in Object, f.mine \in Action, f.theirs \in Action
  PROVE  Pair(s, f) \in Pairs /\ Pair(s, f)[s] = f.mine /\ Pair(s, f)[Other(s)] = f.theirs
  BY Sides DEF Pair, Pairs

\* Both actions are there: the turn is played, or the battle ends because somebody ran.
LEMMA ResolveIsSound ==
  ASSUME NEW s \in Side, NEW f \in Object, f.mine \in Action, f.theirs \in Action,
         f.queue = <<>>, ~f.timedOut, f.party = "shut", Bounded(f), Signed(f, 0)
  PROVE  LET e == TryResolve(s, f)
         IN  /\ e \in Object /\ Sound(e) /\ e.mine = None /\ e.theirs = None
             /\ \/ e.played = f.played /\ Gone(e)
                \/ e.played = Append(f.played, Pair(s, f))
<1>0. PICK g \in Object : g = [f EXCEPT !.mine = None, !.theirs = None]
  BY DEF Object
<1>1. /\ g.mine = None /\ g.theirs = None /\ g.played = f.played /\ g.result = f.result
      /\ g.queue = f.queue /\ g.ran = f.ran /\ g.local = f.local /\ g.remote = f.remote
      /\ g.checked = f.checked /\ ~g.timedOut /\ g.party = "shut"
  BY <1>0 DEF Object
<1>2. None \notin {f.mine, f.theirs}
  BY ActionsAreSome
<1>3. CASE "run" \in {f.mine.kind, f.theirs.kind}
  <2>0. PICK r \in Result : r = "draw"
    BY DEF Result
  <2>1. PICK e \in Object : e = EndWith(g, r)
    BY EndWithFields
  <2>2. TryResolve(s, f) = e
    BY <1>0, <1>2, <1>3, <2>0, <2>1 DEF TryResolve
  <2>3. /\ Same(g, e) /\ e.result = r /\ e.after = "finish" /\ e.phase = "messages"
        /\ e.queue = g.queue /\ e.ran = g.ran /\ e.local = g.local /\ e.remote = g.remote
        /\ e.checked = g.checked
    BY <2>1, EndWithFields
  <2>4. e.mine = None /\ e.theirs = None /\ e.played = f.played /\ e.queue = <<>> /\ ~e.timedOut
        /\ e.party = "shut"
    BY <1>1, <2>3 DEF Same, Alike
  <2>5. Waits(e) /\ Gone(e)
    BY <2>3, <2>4 DEF Waits, Gone
  <2>6. Bounded(e)
    BY <1>1, <2>3, <2>4 DEF Bounded
  <2>7. Signed(e, 0)
    BY <1>1, <2>0, <2>3, <2>4 DEF Signed
  <2>8. Agenda(e.queue, 0)
    BY <2>4 DEF Agenda
  <2> QED BY <2>2, <2>4, <2>5, <2>6, <2>7, <2>8 DEF Sound
<1>4. CASE "run" \notin {f.mine.kind, f.theirs.kind}
  <2>15. "moves" \in Item /\ "endOfTurn" \in Item /\ "hash" \in Item
    BY DEF Item
  <2>16. <<"moves", "endOfTurn", "hash">> \in Seq(Item)
    BY <2>15
  <2>1. PICK q \in Seq(Item) : q = <<"moves", "endOfTurn", "hash">>
    BY <2>16, Zenon
  <2>2. Len(q) = 3 /\ q[1] = "moves" /\ q[2] = "endOfTurn" /\ q[3] = "hash"
    BY <2>1
  <2>13. g.queue \o q = q
    BY <1>1, ConcatEmptySeq
  <2>14. PICK p \in Seq(Pairs) : p = Append(f.played, Pair(s, f))
    BY ObjectFields, PairOfActions, AppendProperties
  <2>3. /\ Len(p) = Len(f.played) + 1 /\ Len(f.played) \in Nat
        /\ \A n \in 1..Len(f.played) : p[n] = f.played[n]
    BY <2>14, ObjectFields, PairOfActions, AppendProperties, LenProperties
  <2> DEFINE e == [g EXCEPT !.phase = "messages", !.after = "linkNext", !.played = p, !.queue = q]
  <2>4. TryResolve(s, f) = e
    BY <1>1, <1>2, <1>4, <1>0, <2>1, <2>13, <2>14 DEF TryResolve
  <2>5. e \in Object
    BY DEF Object
  <2>6. /\ e.mine = None /\ e.theirs = None /\ e.played = p /\ e.queue = q /\ e.phase = "messages"
        /\ e.after = "linkNext" /\ e.result = f.result /\ e.local = f.local /\ e.remote = f.remote
        /\ e.checked = f.checked /\ ~e.timedOut /\ e.party = "shut"
    BY <1>1 DEF Object
  <2> HIDE DEF e
  <2>7. Waits(e)
    BY <2>6 DEF Waits
  <2>8. Len(f.played) < MaxTurns
    BY <1>4, ActionsAreSome DEF Bounded
  <2>9. Bounded(e)
    BY <2>3, <2>6, <2>8, BattleAssumption DEF Bounded
  <2>10. Agenda(e.queue, 3)
    <3>1. \A i \in 1..3 : i = 1 \/ i = 2 \/ i = 3
      OBVIOUS
    <3>2. Len(e.queue) = 3 /\ e.queue[1] = "moves" /\ e.queue[2] = "endOfTurn" /\ e.queue[3] = "hash"
      BY <2>2, <2>6
    <3> QED BY <3>1, <3>2 DEF Agenda
  <2>11. Len(f.played) = Len(f.local)
    BY <2>3, ObjectFields, LenProperties DEF Signed
  <2>12. Signed(e, 3)
    BY <2>3, <2>6, <2>11 DEF Signed
  <2> QED BY <2>4, <2>5, <2>6, <2>7, <2>9, <2>10, <2>12, <2>14 DEF Sound
<1> QED BY <1>3, <1>4

LEMMA AgendaTail ==
  ASSUME NEW q \in Seq(Item), q # <<>>, NEW p \in 0..3, Agenda(q, p)
  PROVE  /\ Tail(q) \in Seq(Item) /\ Agenda(Tail(q), IF p = 0 THEN 0 ELSE p - 1)
         /\ p = 0 => Head(q) \in Side
         /\ p = 1 => Head(q) = "hash"
         /\ p = 2 => Head(q) = "endOfTurn"
         /\ p = 3 => Head(q) = "moves"
<1>1. /\ Tail(q) \in Seq(Item) /\ Len(Tail(q)) = Len(q) - 1 /\ Len(q) \in Nat /\ Len(q) >= 1
      /\ \A i \in 1..Len(Tail(q)) : Tail(q)[i] = q[i + 1]
      /\ Head(q) = q[1]
  BY HeadTailProperties, LenProperties, EmptySeq
<1>2. /\ p = 0 => Head(q) \in Side
      /\ p = 1 => Head(q) = "hash"
      /\ p = 2 => Head(q) = "endOfTurn"
      /\ p = 3 => Head(q) = "moves"
  <2>1. 1 \in 1..Len(q)
    BY <1>1
  <2> QED BY <1>1, <2>1 DEF Agenda
<1>3. ASSUME NEW r \in 0..3, r = (IF p = 0 THEN 0 ELSE p - 1) PROVE Agenda(Tail(q), r)
  <2>1. r <= Len(Tail(q))
    BY <1>1, <1>3 DEF Agenda
  <2>2. ASSUME NEW i \in 1..Len(Tail(q))
        PROVE  /\ i + 2 = r => Tail(q)[i] = "moves"
               /\ i + 1 = r => Tail(q)[i] = "endOfTurn"
               /\ i = r => Tail(q)[i] = "hash"
               /\ i > r => Tail(q)[i] \in Side
    <3>1. i + 1 \in 1..Len(q) /\ Tail(q)[i] = q[i + 1]
      BY <1>1
    <3>2. /\ i + 1 + 2 = p => Tail(q)[i] = "moves"
          /\ i + 1 + 1 = p => Tail(q)[i] = "endOfTurn"
          /\ i + 1 = p => Tail(q)[i] = "hash"
          /\ i + 1 > p => Tail(q)[i] \in Side
      BY <3>1 DEF Agenda
    <3> QED BY <1>3, <3>2
  <2> QED BY <2>1, <2>2 DEF Agenda
<1> QED BY <1>1, <1>2, <1>3

LEMMA AgendaConcat ==
  ASSUME NEW q \in Seq(Item), NEW r \in Seq(Side), NEW p \in 0..3, Agenda(q, p)
  PROVE  q \o r \in Seq(Item) /\ Agenda(q \o r, p)
<1>1. r \in Seq(Item)
  <2>1. Side \subseteq Item
    BY DEF Item
  <2> QED BY <2>1
<1>2. /\ q \o r \in Seq(Item) /\ Len(q \o r) = Len(q) + Len(r) /\ Len(q) \in Nat /\ Len(r) \in Nat
      /\ \A i \in 1..Len(q) + Len(r) : (q \o r)[i] = IF i <= Len(q) THEN q[i] ELSE r[i - Len(q)]
  BY <1>1, ConcatProperties, LenProperties
<1>3. \A i \in 1..Len(r) : r[i] \in Side
  BY ElementOfSeq
<1>4. p <= Len(q)
  BY DEF Agenda
<1>5. ASSUME NEW i \in 1..Len(q \o r)
      PROVE  /\ i + 2 = p => (q \o r)[i] = "moves"
             /\ i + 1 = p => (q \o r)[i] = "endOfTurn"
             /\ i = p => (q \o r)[i] = "hash"
             /\ i > p => (q \o r)[i] \in Side
  <2>1. CASE i <= Len(q)
    <3>1. i \in 1..Len(q) /\ (q \o r)[i] = q[i]
      BY <1>2, <2>1
    <3> QED BY <3>1 DEF Agenda
  <2>2. CASE i > Len(q)
    <3>1. i - Len(q) \in 1..Len(r) /\ (q \o r)[i] = r[i - Len(q)]
      BY <1>2, <2>2
    <3> QED BY <1>2, <1>3, <1>4, <2>2, <3>1
  <2> QED BY <1>2, <2>1, <2>2
<1>6. p <= Len(q \o r)
  BY <1>2, <1>4
<1> QED BY <1>2, <1>5, <1>6 DEF Agenda

LEMMA FaintsAreSides ==
  ASSUME NEW s \in Side, NEW d \in Fate
  PROVE  MoveFaints(s, d) \in Seq(Side) /\ ResidualFaints(s, d) \in Seq(Side)
<1>1. \A p \in Side : Other(p) \in Side
  BY Sides
<1>2. d.outs \in Seq(Side)
  <2>1. d.outs \in {<<>>} \cup {<<p>> : p \in Side} \cup {<<p, Other(p)>> : p \in Side}
    BY DEF Fate
  <2>2. CASE d.outs = <<>>
    BY <2>2
  <2>3. CASE d.outs \in {<<p>> : p \in Side}
    <3>1. PICK p \in Side : d.outs = <<p>>
      BY <2>3
    <3>2. <<p>> \in Seq(Side)
      OBVIOUS
    <3> QED BY <3>1, <3>2
  <2>4. CASE d.outs \in {<<p, Other(p)>> : p \in Side}
    <3>1. PICK p \in Side : d.outs = <<p, Other(p)>>
      BY <2>4
    <3>2. <<p, Other(p)>> \in Seq(Side)
      BY <1>1
    <3> QED BY <3>1, <3>2
  <2> QED BY <2>1, <2>2, <2>3, <2>4
<1>3. ASSUME NEW p \in Side, NEW outs PROVE Out(p, outs) \in Seq(Side)
  BY DEF Out
<1>4. OwnFirst(s, d.outs) \in Seq(Side)
  BY <1>1, <1>3, ConcatProperties DEF OwnFirst
<1>5. <<>> \in Seq(Side)
  OBVIOUS
<1> QED BY <1>2, <1>4, <1>5 DEF MoveFaints, ResidualFaints

\* The next item of the queue runs.
LEMMA StepIsSound ==
  ASSUME NEW s \in Side, NEW f \in Object, Sound(f), f.phase = "messages", f.queue # <<>>,
         NEW h, h = Head(f.queue),
         NEW t \in Object, t.queue = Tail(f.queue), Same(f, t), t.phase = f.phase,
         t.after = f.after, t.result = f.result, t.ran = f.ran, t.local = f.local,
         t.remote = f.remote, t.checked = f.checked,
         NEW d, Len(f.played) \in 1..MaxTurns => d \in Fate
  PROVE  LET e == RunItem(s, h, t, d)
         IN  /\ e \in Object /\ Same(f, e) /\ Sound(e) /\ (Gone(f) => Gone(e))
             /\ h = "hash" => e.local[Len(e.local)] \in Hash
<1>1. PICK p \in 0..3 : Agenda(f.queue, p) /\ Signed(f, p)
  BY DEF Sound
<1>2. PICK r \in 0..3 : r = IF p = 0 THEN 0 ELSE p - 1
  OBVIOUS
<1>3. /\ Tail(f.queue) \in Seq(Item) /\ Agenda(Tail(f.queue), r)
      /\ p = 0 => h \in Side
      /\ p = 1 => h = "hash"
      /\ p = 2 => h = "endOfTurn"
      /\ p = 3 => h = "moves"
  BY <1>1, <1>2, ObjectFields, AgendaTail
<1>4. /\ t \in Object /\ t.queue = Tail(f.queue) /\ Same(f, t) /\ t.phase = "messages"
      /\ t.after = f.after /\ t.result = f.result /\ t.ran = f.ran /\ t.local = f.local
      /\ t.remote = f.remote /\ t.checked = f.checked
  OBVIOUS
<1>5. f.mine = None /\ ~f.timedOut /\ f.party = "shut" /\ Bounded(f)
  BY DEF Sound, Waits
<1>6. /\ Len(f.played) \in Nat /\ Len(f.local) \in Nat /\ Len(f.remote) \in Nat /\ f.checked \in Nat
      /\ Len(f.played) = Len(f.local) + (IF p = 0 THEN 0 ELSE 1) /\ Len(f.played) <= MaxTurns
  BY <1>1, <1>5, ObjectFields, LenProperties DEF Signed, Bounded
<1>7. p # 0 => d \in Fate
  BY <1>6, BattleAssumption

\* Whatever comes of it is sound if it differs from f like this.
<1>8. ASSUME NEW e \in Object, Same(f, e), e.phase = "messages",
             e.local = f.local, e.remote = f.remote, e.checked = f.checked,
             Agenda(e.queue, r), Signed(e, r)
      PROVE  Sound(e)
  <2>1. Waits(e)
    BY <1>5, <1>8 DEF Waits, Same, Alike
  <2>2. Bounded(e)
    BY <1>5, <1>8 DEF Bounded, Same, Alike
  <2> QED BY <1>8, <2>1, <2>2 DEF Sound
<1>9. CASE p = 3
  <2>1. h = "moves" /\ r = 2 /\ d \in Fate
    BY <1>2, <1>3, <1>7, <1>9
  <2>2. CASE f.result # "none"
    <3> DEFINE e == [t EXCEPT !.ran = FALSE]
    <3>1. RunItem(s, h, t, d) = e
      BY <1>4, <2>1, <2>2 DEF RunItem, Side
    <3>2. /\ e \in Object /\ e.queue = t.queue /\ Same(t, e) /\ e.phase = t.phase
          /\ e.after = t.after /\ e.result = t.result /\ e.local = t.local
          /\ e.remote = t.remote /\ e.checked = t.checked
      BY <1>4 DEF Object, Same, Alike
    <3> HIDE DEF e
    <3>3. Signed(e, r)
      BY <1>1, <1>4, <1>9, <2>1, <2>2, <3>2 DEF Signed, Same, Alike
    <3>4. Sound(e)
      BY <1>3, <1>4, <1>8, <3>2, <3>3 DEF Same, Alike
    <3> QED BY <1>4, <2>1, <3>1, <3>2, <3>4 DEF Same, Alike, Gone
  <2>3. CASE f.result = "none"
    <3>1. PICK q \in Seq(Item) : q = t.queue \o MoveFaints(s, d) /\ Agenda(q, r)
      BY <1>3, <1>4, <2>1, FaintsAreSides, AgendaConcat
    <3> DEFINE e == [t EXCEPT !.ran = TRUE, !.queue = q]
    <3>2. RunItem(s, h, t, d) = e
      BY <1>4, <2>1, <2>3, <3>1 DEF RunItem, Side
    <3>3. /\ e \in Object /\ e.queue = q /\ Same(t, e) /\ e.phase = t.phase
          /\ e.after = t.after /\ e.result = t.result /\ e.local = t.local /\ e.ran = TRUE
          /\ e.remote = t.remote /\ e.checked = t.checked
      BY <1>4 DEF Object, Same, Alike
    <3> HIDE DEF e
    <3>4. Signed(e, r)
      BY <1>1, <1>4, <1>9, <2>1, <3>3 DEF Signed, Same, Alike
    <3>5. Sound(e)
      BY <1>3, <1>4, <1>8, <3>1, <3>3, <3>4 DEF Same, Alike
    <3> QED BY <1>4, <2>1, <3>2, <3>3, <3>5 DEF Same, Alike, Gone
  <2> QED BY <2>2, <2>3
<1>10. CASE p = 2
  <2>1. h = "endOfTurn" /\ r = 1 /\ d \in Fate
    BY <1>2, <1>3, <1>7, <1>10
  <2>2. ASSUME NEW e \in Object, e.queue = t.queue \/ Agenda(e.queue, r), Same(t, e),
               e.phase = t.phase, e.after = t.after, e.result = t.result, e.local = t.local,
               e.ran = t.ran, e.remote = t.remote, e.checked = t.checked
        PROVE  Same(f, e) /\ Sound(e) /\ (Gone(f) => Gone(e))
    <3>1. Same(f, e)
      BY <1>4, <2>2 DEF Same, Alike
    <3>2. Signed(e, r)
      BY <1>1, <1>4, <1>10, <2>1, <2>2 DEF Signed, Same, Alike
    <3>3. Sound(e)
      BY <1>3, <1>4, <1>8, <2>2, <3>1, <3>2
    <3> QED BY <1>4, <2>2, <3>1, <3>3 DEF Same, Alike, Gone
  <2>3. CASE f.result # "none"
    <3>1. RunItem(s, h, t, d) = t
      BY <1>4, <2>1, <2>3 DEF RunItem, Side
    <3> QED BY <1>4, <2>1, <2>2, <3>1 DEF Same, Alike
  <2>4. CASE f.result = "none"
    <3>1. PICK q \in Seq(Item) : q = t.queue \o ResidualFaints(s, d) /\ Agenda(q, r)
      BY <1>3, <1>4, <2>1, FaintsAreSides, AgendaConcat
    <3> DEFINE e == [t EXCEPT !.queue = q]
    <3>2. RunItem(s, h, t, d) = e
      BY <1>4, <2>1, <2>4, <3>1 DEF RunItem, Side
    <3>3. /\ e \in Object /\ e.queue = q /\ Same(t, e) /\ e.phase = t.phase
          /\ e.after = t.after /\ e.result = t.result /\ e.local = t.local /\ e.ran = t.ran
          /\ e.remote = t.remote /\ e.checked = t.checked
      BY <1>4 DEF Object, Same, Alike
    <3> HIDE DEF e
    <3> QED BY <2>1, <2>2, <3>1, <3>2, <3>3
  <2> QED BY <2>3, <2>4
<1>11. CASE p = 1
  <2>1. h = "hash" /\ r = 0 /\ Len(f.played) = Len(f.local) + 1
    BY <1>2, <1>3, <1>6, <1>11
  <2>17. Len(f.played) \in 1..Len(f.played)
    <3>1. Len(f.played) \in Nat /\ Len(f.local) \in Nat /\ Len(f.played) = Len(f.local) + 1
      BY <1>6, <2>1
    <3> QED BY <3>1
  <2>2. PICK m \in 1..Len(f.played) : m = Len(f.played)
    BY <2>17
  <2>3. f.played[m] \in Pairs
    BY <2>2, ObjectFields, ElementOfSeq
  <2>4. PICK c : c = Signature(s, t)
    OBVIOUS
  <2>5. c = <<f.played[m]["host"], f.played[m]["guest"], f.ran>>
    BY <1>4, <2>2, <2>4 DEF Signature, Same, Alike
  <2>6. c \in Hash
    BY <2>3, <2>5, ObjectFields DEF Pairs, Side, Hash
  <2>7. PICK l \in Seq(Hash) : l = Append(f.local, c)
    BY <2>6, ObjectFields, AppendProperties
  <2>8. /\ Len(l) = m /\ l[m] = c
        /\ \A n \in 1..Len(f.local) : l[n] = f.local[n]
    BY <2>1, <2>2, <2>6, <2>7, ObjectFields, AppendProperties
  <2> DEFINE e == [t EXCEPT !.local = l]
  <2>9. RunItem(s, h, t, d) = Check(e)
    BY <1>4, <2>1, <2>4, <2>7 DEF RunItem, Side
  <2>10. /\ e \in Object /\ e.queue = t.queue /\ Same(t, e) /\ e.phase = t.phase
         /\ e.after = t.after /\ e.result = t.result /\ e.local = l /\ e.ran = t.ran
         /\ e.remote = t.remote /\ e.checked = t.checked
    BY <1>4 DEF Object, Same, Alike
  <2> HIDE DEF e
  <2>11. Same(f, e)
    BY <1>4, <2>10 DEF Same, Alike
  <2>12. Waits(e)
    BY <1>4, <1>5, <2>10, <2>11 DEF Waits, Same, Alike
  <2>13. Bounded(e)
    <3>1. e.mine = None /\ e.played = f.played /\ e.checked = f.checked /\ e.remote = f.remote
      BY <1>4, <1>5, <2>10, <2>11 DEF Same, Alike
    <3>2. f.checked <= Len(l)
      BY <1>5, <1>6, <2>1, <2>2, <2>8 DEF Bounded
    <3> QED BY <1>5, <2>10, <3>1, <3>2 DEF Bounded
  <2>14. Signed(e, r)
    <3>1. f.ran \/ f.result # "none"
      BY <1>1, <1>6, <1>11, <2>1 DEF Signed
    <3>2. ASSUME NEW n \in 1..m
          PROVE  /\ l[n][1] = f.played[n]["host"] /\ l[n][2] = f.played[n]["guest"]
                 /\ ~l[n][3] => f.result # "none"
      <4>1. CASE n = m
        BY <2>5, <2>8, <3>1, <4>1
      <4>2. CASE n # m
        <5>1. n \in 1..Len(f.local)
          BY <1>6, <2>1, <2>2, <4>2
        <5> QED BY <1>1, <2>8, <5>1 DEF Signed
      <4> QED BY <4>1, <4>2
    <3>3. e.played = f.played /\ e.result = f.result /\ e.ran = f.ran /\ e.local = l
      BY <1>4, <2>10, <2>11 DEF Same, Alike
    <3> QED BY <2>1, <2>2, <2>8, <3>1, <3>2, <3>3 DEF Signed
  <2>15. Sound(e)
    BY <1>3, <1>4, <2>10, <2>12, <2>13, <2>14 DEF Sound
  <2>16. PICK g \in Object : /\ g = Check(e) /\ Same(e, g) /\ Sound(g) /\ g.local = l
                             /\ (Gone(e) => Gone(g))
    BY <2>10, <2>15, CheckIsSound
  <2> QED BY <1>4, <2>6, <2>8, <2>9, <2>10, <2>11, <2>16 DEF Same, Alike, Gone
<1>12. CASE p = 0
  <2>1. h \in Side /\ r = 0 /\ h \notin {"moves", "endOfTurn", "hash"}
    BY <1>2, <1>3, <1>12 DEF Side
  <2>2. PICK w \in Result \ {"none"} : w = IF h = s THEN "lose" ELSE "win"
    BY DEF Result
  <2> DEFINE e == [t EXCEPT !.result = w, !.after = "finish"]
  <2>3. RunItem(s, h, t, d) = e
    BY <1>4, <2>1, <2>2 DEF RunItem, Side
  <2>4. /\ e \in Object /\ e.queue = t.queue /\ Same(t, e) /\ e.phase = t.phase
        /\ e.after = "finish" /\ e.result = w /\ e.local = t.local /\ e.ran = t.ran
        /\ e.remote = t.remote /\ e.checked = t.checked
    BY <1>4 DEF Object, Same, Alike
  <2> HIDE DEF e
  <2>5. Signed(e, r)
    BY <1>1, <1>4, <1>12, <2>1, <2>4 DEF Signed, Same, Alike
  <2>6. Same(f, e)
    BY <1>4, <2>4 DEF Same, Alike
  <2>7. Sound(e)
    BY <1>3, <1>4, <1>8, <2>4, <2>5, <2>6
  <2> QED BY <1>4, <2>1, <2>3, <2>4, <2>6, <2>7 DEF Same, Alike, Gone
<1> QED BY <1>9, <1>10, <1>11, <1>12

-----------------------------------------------------------------------------
(* Lemmas about two machines: f is the object of s, g that of its opponent *)
(* o; w is on its way to s and v to o.                                     *)

Level(s, f, g, w, v, broken, x, y) ==
  InOrder(s, f, g, w, broken, x, y) /\ InOrder(Other(s), g, f, v, broken, y, x)

\* Nobody is more than one choice ahead.
LEMMA LevelNumbers ==
  ASSUME NEW s \in Side, NEW f \in Object, NEW g \in Object,
         NEW w \in Seq(Message), NEW v \in Seq(Message), NEW broken \in BOOLEAN,
         NEW x \in {0, 1}, NEW y \in {0, 1}, Level(s, f, g, w, v, broken, x, y)
  PROVE  Turns(f, x) <= Taken(g, y) + 1 /\ Turns(f, x) <= Chosen(g, y)
<1>1. Taken(f, x) <= Chosen(g, y)
  BY DEF Level, InOrder, Way
<1>2. /\ Turns(f, x) \in Nat /\ One(f.theirs) \in {0, 1} /\ Taken(f, x) = Turns(f, x) + One(f.theirs)
      /\ Turns(g, y) \in Nat /\ One(g.theirs) \in {0, 1} /\ One(g.mine) \in {0, 1}
      /\ Taken(g, y) = Turns(g, y) + One(g.theirs) /\ Chosen(g, y) = Turns(g, y) + One(g.mine)
  BY Numbers
<1> QED BY <1>1, <1>2

\* While an action of the opponent waits to be played, no other is on its way.
LEMMA NothingComing ==
  ASSUME NEW s \in Side, NEW f \in Object, NEW g \in Object,
         NEW w \in Seq(Message), NEW v \in Seq(Message), NEW broken \in BOOLEAN,
         NEW x \in {0, 1}, NEW y \in {0, 1}, Level(s, f, g, w, v, broken, x, y),
         f.mine = None, f.theirs # None
  PROVE  Actions(w) = {}
<1>1. Taken(g, y) <= Chosen(f, x)
  BY DEF Level, InOrder, Way
<1>2. Taken(f, x) = Turns(f, x) + 1 /\ Chosen(f, x) = Turns(f, x)
  <2>1. One(f.mine) = 0 /\ One(f.theirs) = 1
    BY DEF One
  <2>2. /\ Turns(f, x) \in Nat /\ Taken(f, x) = Turns(f, x) + One(f.theirs)
        /\ Chosen(f, x) = Turns(f, x) + One(f.mine)
    BY Numbers
  <2> QED BY <2>1, <2>2
<1>5. /\ Turns(f, x) \in Nat /\ Turns(g, y) \in Nat
      /\ One(g.theirs) \in {0, 1} /\ One(g.mine) \in {0, 1}
      /\ Taken(g, y) = Turns(g, y) + One(g.theirs) /\ Chosen(g, y) = Turns(g, y) + One(g.mine)
  BY Numbers
<1>3. Chosen(g, y) <= Taken(f, x)
  BY <1>1, <1>2, <1>5
<1>4. ASSUME NEW i \in Actions(w) PROVE FALSE
  <2>1. Due(Taken(f, x), Actions(w), i) <= Chosen(g, y)
    BY DEF Level, InOrder, Way
  <2>2. Taken(f, x) \in Nat /\ Chosen(g, y) \in Nat
    BY Numbers
  <2>3. Taken(f, x) + 1 <= Due(Taken(f, x), Actions(w), i)
    BY <2>2 DEF Due
  <2>4. Due(Taken(f, x), Actions(w), i) \in Nat
    BY <2>2 DEF Due
  <2> QED BY <1>3, <2>1, <2>2, <2>3, <2>4
<1> QED BY <1>4

\* The object of s changes in what the counting is not about, and s may send a message
\* that is no action.
LEMMA SameLevel ==
  ASSUME NEW s \in Side, NEW f \in Object, NEW g \in Object, NEW e \in Object,
         NEW w \in Seq(Message), NEW v \in Seq(Message), NEW broken \in BOOLEAN,
         NEW x \in {0, 1}, NEW y \in {0, 1}, Level(s, f, g, w, v, broken, x, y),
         Alike(f, e)
  PROVE  /\ Level(s, e, g, w, v, broken, x, y)
         /\ \A m \in Message : m.type # "action" => Level(s, e, g, w, Append(v, m), broken, x, y)
<1>1. Other(s) \in Side
  BY Sides
<1>2. InOrder(s, f, g, w, broken, x, y) /\ InOrder(Other(s), g, f, v, broken, y, x)
  BY DEF Level
<1>3. e.played = f.played /\ e.mine = f.mine /\ e.theirs = f.theirs
  BY DEF Same, Alike
<1>4. InOrder(s, e, g, w, broken, x, y)
  BY <1>2, <1>3, OrderSame
<1>5. InOrder(Other(s), g, e, v, broken, y, x)
  BY <1>1, <1>2, <1>3, OrderSame
<1>6. ASSUME NEW m \in Message, m.type # "action"
      PROVE  InOrder(Other(s), g, e, Append(v, m), broken, y, x)
  BY <1>1, <1>5, <1>6, OtherIsSent
<1> QED BY <1>4, <1>5, <1>6 DEF Level

\* s has both actions and resolves the turn.
LEMMA ResolveLevel ==
  ASSUME NEW s \in Side, NEW f \in Object, NEW g \in Object,
         NEW w \in Seq(Message), NEW v \in Seq(Message), NEW broken \in BOOLEAN,
         NEW x \in {0, 1}, NEW y \in {0, 1}, Level(s, f, g, w, v, broken, x, y), x = 0,
         f.mine \in Action, f.theirs \in Action, f.queue = <<>>, ~f.timedOut, f.party = "shut",
         Bounded(f), Signed(f, 0)
  PROVE  LET e == TryResolve(s, f)
         IN  /\ e \in Object /\ Sound(e)
             /\ \E z \in {0, 1} : (z = 1 => Gone(e)) /\ Level(s, e, g, w, v, broken, z, y)
<1>1. Other(s) \in Side /\ Other(Other(s)) = s
  BY Sides
<1>2. InOrder(s, f, g, w, broken, x, y) /\ InOrder(Other(s), g, f, v, broken, y, x)
  BY DEF Level
<1>3. f.mine # None /\ f.theirs # None
  BY ActionsAreSome
<1>4. PICK e \in Object : e = TryResolve(s, f)
  BY ResolveIsSound
<1>5. /\ Sound(e) /\ e.mine = None /\ e.theirs = None
      /\ \/ e.played = f.played /\ Gone(e)
         \/ e.played = Append(f.played, Pair(s, f))
  BY <1>4, ResolveIsSound
<1>6. CASE e.played = f.played /\ Gone(e)
  <2>1. InOrder(s, e, g, w, broken, 1, y)
    BY <1>2, <1>3, <1>5, <1>6, TakerEnds
  <2>2. InOrder(Other(s), g, e, v, broken, y, 1)
    BY <1>1, <1>2, <1>3, <1>5, <1>6, ChooserEnds
  <2> QED BY <1>4, <1>5, <1>6, <2>1, <2>2 DEF Level
<1>7. CASE e.played = Append(f.played, Pair(s, f))
  <2>1. PICK p \in Pairs : p = Pair(s, f) /\ p[s] = f.mine /\ p[Other(s)] = f.theirs
    BY PairOfActions
  <2>2. e.played = Append(f.played, p)
    BY <1>7, <2>1
  <2>3. InOrder(s, e, g, w, broken, x, y)
    BY <1>2, <1>3, <1>5, <2>1, <2>2, TakerResolves
  <2>4. p[Other(Other(s))] = f.mine
    BY <1>1, <2>1
  <2>5. InOrder(Other(s), g, e, v, broken, y, x)
    BY <1>1, <1>2, <1>3, <1>5, <2>2, <2>4, ChooserResolves
  <2> QED BY <1>4, <1>5, <2>3, <2>5 DEF Level
<1> QED BY <1>5, <1>6, <1>7

\* s chooses, and resolves the turn if the opponent's action is there.
LEMMA ChooseLevel ==
  ASSUME NEW s \in Side, NEW f \in Object, NEW g \in Object,
         NEW w \in Seq(Message), NEW v \in Seq(Message), NEW broken \in BOOLEAN,
         NEW x \in {0, 1}, NEW y \in {0, 1}, Level(s, f, g, w, v, broken, x, y), x = 0,
         Sound(f), f.mine = None, f.queue = <<>>, ~f.timedOut,
         NEW a \in Action, NEW b \in Action, ListsStay => b = a,
         b.kind # "run" => Len(f.played) < MaxTurns
  PROVE  LET e == TryResolve(s, Pending(f, b))
             u == IF broken THEN v ELSE Append(v, [type |-> "action", action |-> a])
         IN  /\ e \in Object /\ Sound(e)
             /\ \E z \in {0, 1} : (z = 1 => Gone(e)) /\ Level(s, e, g, w, u, broken, z, y)
<1>1. Other(s) \in Side /\ Other(Other(s)) = s
  BY Sides
<1>2. InOrder(s, f, g, w, broken, x, y) /\ InOrder(Other(s), g, f, v, broken, y, x)
  BY DEF Level
<1>3. PICK m \in Message : m = [type |-> "action", action |-> a]
  BY DEF Message
<1>4. m.type = "action" /\ m.action = a
  BY <1>3
<1>5. PICK h \in Object : h = Pending(f, b)
  BY DEF Pending, Object
<1>6. /\ h.mine = b /\ h.theirs = f.theirs /\ h.played = f.played /\ h.queue = f.queue
      /\ h.phase = "waitRemote" /\ h.result = f.result /\ h.ran = f.ran
      /\ h.local = f.local /\ h.remote = f.remote /\ h.checked = f.checked
      /\ h.timedOut = f.timedOut /\ h.party = "shut"
  BY <1>5 DEF Pending, Object
<1>7. f.mine = None /\ f.queue = <<>> /\ ~f.timedOut /\ b # None
  BY ActionsAreSome
<1>8. PICK u \in Seq(Message) : u = IF broken THEN v ELSE Append(v, m)
  BY ActionsAppend
<1>9. InOrder(s, h, g, w, broken, x, y)
  BY <1>2, <1>6, OrderSame
<1>10. InOrder(Other(s), g, h, u, broken, y, x)
  <2>1. Turns(f, x) <= Taken(g, y) + 1
    BY LevelNumbers
  <2>2. ListsStay => h.mine = m.action
    BY <1>4, <1>6
  <2>3. h.mine # None /\ h.played = f.played
    BY <1>6, <1>7
  <2>4. InOrder(Other(s), g, h, IF broken THEN v ELSE Append(v, m), broken, y, x)
    BY <1>1, <1>2, <1>4, <1>7, <2>1, <2>2, <2>3, ChoiceInOrder
  <2> QED BY <1>8, <2>4
<1>11. Level(s, h, g, w, u, broken, x, y)
  BY <1>9, <1>10 DEF Level
<1>12. Bounded(h)
  BY <1>6 DEF Sound, Bounded
<1>13. Signed(h, 0)
  <2>1. PICK p \in 0..3 : Agenda(f.queue, p) /\ Signed(f, p)
    BY DEF Sound
  <2>2. p = 0
    BY <1>7, <2>1, EmptySeq DEF Agenda
  <2> QED BY <1>6, <2>1, <2>2 DEF Signed
<1>14. CASE f.theirs # None
  <2>1. h.theirs \in Action /\ h.mine \in Action /\ h.queue = <<>> /\ ~h.timedOut
        /\ h.party = "shut"
    BY <1>6, <1>7, <1>14, ObjectFields
  <2>2. PICK e : e = TryResolve(s, h)
    OBVIOUS
  <2>3. /\ e \in Object /\ Sound(e)
        /\ \E z \in {0, 1} : (z = 1 => Gone(e)) /\ Level(s, e, g, w, u, broken, z, y)
    BY <1>11, <1>12, <1>13, <2>1, <2>2, ResolveLevel
  <2> QED BY <1>3, <1>5, <1>8, <2>2, <2>3
<1>15. CASE f.theirs = None
  <2>1. TryResolve(s, h) = h
    BY <1>6, <1>15 DEF TryResolve
  <2>2. Waits(h)
    BY <1>6, <1>7, <1>15 DEF Waits
  <2>3. Agenda(h.queue, 0)
    BY <1>6, <1>7, EmptySeq DEF Agenda
  <2>4. Sound(h)
    BY <1>12, <1>13, <2>2, <2>3 DEF Sound
  <2> QED BY <1>3, <1>5, <1>8, <1>11, <2>1, <2>4
<1> QED BY <1>14, <1>15

\* s gets a result, or was told that the battle is over.
LEMMA EndLevel ==
  ASSUME NEW s \in Side, NEW f \in Object, NEW g \in Object,
         NEW w \in Seq(Message), NEW v \in Seq(Message), NEW broken \in BOOLEAN,
         NEW x \in {0, 1}, NEW y \in {0, 1}, Level(s, f, g, w, v, broken, x, y),
         x = 1 => Gone(f), Sound(f), NEW r \in Result \ {"none"}
  PROVE  LET e == IfOpen(f, r)
         IN  e \in Object /\ Sound(e) /\ (x = 1 => Gone(e)) /\ Level(s, e, g, w, v, broken, x, y)
<1>1. CASE f.result = "none"
  <2>1. PICK e \in Object : e = EndWith(f, r) /\ Same(f, e) /\ Sound(e)
                             /\ (f.mine = None /\ ~f.timedOut /\ f.party = "shut" => Gone(e))
    BY EndWithIsSound
  <2>2. IfOpen(f, r) = e
    BY <1>1, <2>1 DEF IfOpen
  <2>3. Level(s, e, g, w, v, broken, x, y)
    BY <2>1, SameLevel DEF Same
  <2> QED BY <2>1, <2>2, <2>3 DEF Gone
<1>2. CASE f.result # "none"
  <2>1. IfOpen(f, r) = f
    BY <1>2 DEF IfOpen
  <2> QED BY <2>1
<1> QED BY <1>1, <1>2

\* s takes the next message.
LEMMA HearLevel ==
  ASSUME NEW s \in Side, NEW f \in Object, NEW g \in Object,
         NEW w \in Seq(Message), NEW v \in Seq(Message), NEW broken \in BOOLEAN,
         NEW x \in {0, 1}, NEW y \in {0, 1}, Level(s, f, g, w, v, broken, x, y),
         x = 1 => Gone(f), Sound(f), w # <<>>
  PROVE  LET e == Heard(s, f, Head(w))
         IN  /\ e \in Object /\ Sound(e)
             /\ \E z \in {0, 1} : (z = 1 => Gone(e)) /\ Level(s, e, g, Tail(w), v, broken, z, y)
<1>1. Other(s) \in Side /\ Other(Other(s)) = s
  BY Sides
<1>2. InOrder(s, f, g, w, broken, x, y) /\ InOrder(Other(s), g, f, v, broken, y, x)
  BY DEF Level
<1>3. PICK m \in Message : m = Head(w) /\ (1 \in Actions(w) <=> m.type = "action")
  BY ActionsTail
<1>4. PICK u \in Seq(Message) : u = Tail(w)
  BY ActionsTail
<1>5. ASSUME m.type # "action" PROVE Level(s, f, g, u, v, broken, x, y)
  <2>1. InOrder(s, f, g, u, broken, x, y)
    BY <1>2, <1>3, <1>4, <1>5, OtherIsTaken
  <2> QED BY <1>2, <2>1 DEF Level
<1>6. SUFFICES ASSUME NEW e, e = Heard(s, f, m)
               PROVE  /\ e \in Object /\ Sound(e)
                      /\ \E z \in {0, 1} : (z = 1 => Gone(e)) /\ Level(s, e, g, u, v, broken, z, y)
  BY <1>3, <1>4
<1>7. CASE m.type = "bye" \/ m.type = "forfeit"
  <2>1. PICK r \in Result \ {"none"} : e = IfOpen(f, r)
    <3>1. e = IfOpen(f, "draw") \/ e = IfOpen(f, "win")
      BY <1>6, <1>7 DEF Heard
    <3> QED BY <3>1 DEF Result
  <2>2. Level(s, f, g, u, v, broken, x, y)
    BY <1>5, <1>7
  <2> QED BY <2>1, <2>2, EndLevel
<1>8. CASE m.type = "hash"
  <2>1. m.value \in Hash
    BY <1>8 DEF Message
  <2>0. /\ Append(f.remote, m.value) \in Seq(Hash)
        /\ Len(Append(f.remote, m.value)) = Len(f.remote) + 1
    BY <2>1, ObjectFields, AppendProperties
  <2>2. PICK l \in Seq(Hash) : l = Append(f.remote, m.value) /\ Len(l) = Len(f.remote) + 1
    BY <2>0
  <2>3. PICK h : h = [f EXCEPT !.remote = l]
    OBVIOUS
  <2>4. /\ h \in Object /\ Same(f, h) /\ h.remote = l /\ h.phase = f.phase /\ h.after = f.after
        /\ h.queue = f.queue /\ h.result = f.result /\ h.ran = f.ran /\ h.local = f.local
        /\ h.checked = f.checked
    BY <2>3 DEF Object, Same, Alike
  <2>5. Waits(h)
    BY <2>4 DEF Sound, Waits, Same, Alike
  <2>6. Bounded(h)
    <3>1. f.checked <= Len(l)
      BY <2>2, ObjectFields, LenProperties DEF Sound, Bounded
    <3> QED BY <2>4, <3>1 DEF Sound, Bounded, Same, Alike
  <2>7. ASSUME NEW p \in 0..3, Signed(f, p) PROVE Signed(h, p)
    BY <2>4, <2>7 DEF Signed, Same, Alike
  <2>8. Sound(h)
    BY <2>4, <2>5, <2>6, <2>7 DEF Sound
  <2>9. e = Check(h)
    BY <1>6, <1>8, <2>2, <2>3 DEF Heard
  <2>10. e \in Object /\ Same(h, e) /\ Sound(e) /\ (Gone(h) => Gone(e))
    BY <2>4, <2>8, <2>9, CheckIsSound
  <2>11. Same(f, e) /\ (Gone(f) => Gone(e))
    BY <2>4, <2>10 DEF Same, Alike, Gone
  <2>12. Level(s, e, g, u, v, broken, x, y)
    BY <1>5, <1>8, <2>10, <2>11, SameLevel DEF Same
  <2> QED BY <2>10, <2>11, <2>12
<1>9. CASE m.type = "action"
  <2>1. m.action \in Action /\ m.action # None
    <3>1. m.action \in Action
      BY <1>9 DEF Message
    <3> QED BY <3>1, ActionsAreSome
  <2>2. f.theirs = None
    <3>1. CASE f.mine = None
      BY <1>3, <1>9, <3>1, NothingComing
    <3>2. CASE f.mine # None
      BY <3>2 DEF Sound, Waits
    <3> QED BY <3>1, <3>2
  <2>3. PICK h : h = [f EXCEPT !.theirs = m.action]
    OBVIOUS
  <2>4. /\ h \in Object /\ h.theirs = m.action /\ h.mine = f.mine /\ h.played = f.played
        /\ h.remote = f.remote /\ h.phase = f.phase /\ h.after = f.after
        /\ h.queue = f.queue /\ h.result = f.result /\ h.ran = f.ran /\ h.local = f.local
        /\ h.checked = f.checked /\ h.timedOut = f.timedOut /\ h.party = f.party
    BY <2>1, <2>3 DEF Object
  <2>5. e = TryResolve(s, h)
    BY <1>6, <1>9, <2>3 DEF Heard
  <2>6. InOrder(s, h, g, u, broken, x, y)
    BY <1>2, <1>3, <1>4, <1>9, <2>1, <2>2, <2>4, HearingInOrder
  <2>7. InOrder(Other(s), g, h, v, broken, y, x)
    BY <1>1, <1>2, <2>4, OrderSame
  <2>8. Level(s, h, g, u, v, broken, x, y)
    BY <2>6, <2>7 DEF Level
  <2>9. Bounded(h)
    BY <2>4 DEF Sound, Bounded
  <2>10. ASSUME NEW p \in 0..3, Signed(f, p) PROVE Signed(h, p)
    BY <2>4, <2>10 DEF Signed
  <2>11. CASE f.mine = None
    <3>1. e = h
      BY <2>4, <2>5, <2>11 DEF TryResolve
    <3>2. Waits(h)
      BY <2>4, <2>11 DEF Sound, Waits
    <3>3. Sound(h)
      BY <2>4, <2>9, <2>10, <3>2 DEF Sound
    <3>4. x = 1 => Gone(h)
      BY <2>4 DEF Gone
    <3> QED BY <2>4, <2>8, <3>1, <3>3, <3>4
  <2>12. CASE f.mine # None
    <3>1. x = 0
      BY <2>12 DEF Gone
    <3>2. h.queue = <<>> /\ ~h.timedOut /\ h.party = "shut" /\ h.mine \in Action /\ h.theirs \in Action
      BY <2>1, <2>4, <2>12, ObjectFields DEF Sound, Waits
    <3>3. Signed(h, 0)
      <4>1. PICK p \in 0..3 : Agenda(f.queue, p) /\ Signed(f, p)
        BY DEF Sound
      <4>2. p = 0
        BY <2>4, <3>2, <4>1, EmptySeq DEF Agenda
      <4> QED BY <2>10, <4>1, <4>2
    <3> QED BY <2>4, <2>5, <2>8, <2>9, <3>1, <3>2, <3>3, ResolveLevel
  <2> QED BY <2>11, <2>12
<1>10. m.type \in {"action", "hash", "bye", "forfeit"}
  BY DEF Message
<1> QED BY <1>7, <1>8, <1>9, <1>10

-----------------------------------------------------------------------------
(* The steps.                                                              *)

\* s becomes e, and the rest of what it does is in order.
LEMMA StepInv ==
  ASSUME Typed, \A p \in Side : Sound(side[p]),
         NEW fled \in [Side -> {0, 1}], Counted(fled),
         NEW s \in Side, NEW e \in Object, Sound(e), NEW z \in {0, 1}, z = 1 => Gone(e),
         NEW w \in Seq(Message), NEW v \in Seq(Message),
         Level(s, e, side[Other(s)], w, v, cut, z, fled[Other(s)]),
         side' = [side EXCEPT ![s] = e],
         wire' = [p \in Side |-> IF p = s THEN w ELSE v], UNCHANGED <<fate, cut>>
  PROVE  LinkInv'
<1>1. Other(s) \in Side /\ Other(s) # s /\ Other(Other(s)) = s /\ Side = {s, Other(s)}
  BY Sides
<1>2. side' \in [Side -> Object] /\ side'[s] = e /\ side'[Other(s)] = side[Other(s)]
  BY <1>1 DEF Typed
<1>3. wire' \in [Side -> Seq(Message)] /\ wire'[s] = w /\ wire'[Other(s)] = v
  BY <1>1
<1>4. Typed'
  BY <1>2, <1>3 DEF Typed
<1>5. \A p \in Side : Sound(side'[p])
  BY <1>1, <1>2
<1> PICK f2 \in [Side -> {0, 1}] : f2 = [fled EXCEPT ![s] = z]
  OBVIOUS
<1>6. f2[s] = z /\ f2[Other(s)] = fled[Other(s)]
  BY <1>1
<1>7. Gone(side[Other(s)]) \/ fled[Other(s)] # 1
  BY <1>1 DEF Counted
<1>8. /\ InOrder(s, side'[s], side'[Other(s)], wire'[s], cut', f2[s], f2[Other(s)])
      /\ InOrder(Other(s), side'[Other(s)], side'[s], wire'[Other(s)], cut', f2[Other(s)], f2[s])
  BY <1>2, <1>3, <1>6 DEF Level
<1>9. Counted(f2)'
  <2>1. \A p \in Side : f2[p] = 1 => Gone(side'[p])
    BY <1>1, <1>2, <1>6, <1>7
  <2>2. \A p \in Side : InOrder(p, side'[p], side'[Other(p)], wire'[p], cut', f2[p], f2[Other(p)])
    BY <1>1, <1>8
  <2> QED BY <2>1, <2>2 DEF Counted
<1> QED BY <1>4, <1>5, <1>9 DEF LinkInv

\* What the actions find.
LEMMA Now ==
  ASSUME Typed, NEW fled \in [Side -> {0, 1}], Counted(fled), NEW s \in Side
  PROVE  /\ side[s] \in Object /\ side[Other(s)] \in Object /\ Other(s) \in Side
         /\ wire[s] \in Seq(Message) /\ wire[Other(s)] \in Seq(Message) /\ cut \in BOOLEAN
         /\ fled[s] \in {0, 1} /\ fled[Other(s)] \in {0, 1}
         /\ fled[s] = 1 => Gone(side[s])
         /\ Level(s, side[s], side[Other(s)], wire[s], wire[Other(s)], cut, fled[s], fled[Other(s)])
<1>1. Other(s) \in Side /\ Other(Other(s)) = s
  BY Sides
<1> QED BY <1>1 DEF Typed, Counted, Level

\* What Become sends.
LEMMA Sends ==
  ASSUME Typed, NEW s \in Side, NEW e
  PROVE  /\ Become(s, e, <<>>) =>
              wire' = [p \in Side |-> IF p = s THEN wire[s] ELSE wire[Other(s)]]
         /\ \A m \in Message : Become(s, e, <<m>>) =>
              wire' = [p \in Side |-> IF p = s THEN wire[s]
                                      ELSE IF cut THEN wire[Other(s)] ELSE Append(wire[Other(s)], m)]
<1>1. Other(s) \in Side /\ Other(s) # s /\ Side = {s, Other(s)}
  BY Sides
<1>2. wire \in [Side -> Seq(Message)] /\ wire[Other(s)] \in Seq(Message)
  BY <1>1 DEF Typed
<1>3. wire[Other(s)] \o <<>> = wire[Other(s)]
  BY <1>2, ConcatEmptySeq
<1>4. \A m \in Message : wire[Other(s)] \o <<m>> = Append(wire[Other(s)], m)
  BY <1>2, AppendIsConcat
<1>5. wire = [p \in Side |-> IF p = s THEN wire[s] ELSE wire[Other(s)]]
  BY <1>1, <1>2
<1>6. \A u : [wire EXCEPT ![Other(s)] = u] = [p \in Side |-> IF p = s THEN wire[s] ELSE u]
  BY <1>1, <1>2
<1>7. ASSUME Become(s, e, <<>>)
      PROVE  wire' = [p \in Side |-> IF p = s THEN wire[s] ELSE wire[Other(s)]]
  <2>1. wire' = IF cut THEN wire ELSE [wire EXCEPT ![Other(s)] = wire[Other(s)] \o <<>>]
    BY <1>7 DEF Become
  <2> QED BY <1>3, <1>5, <1>6, <2>1
<1>8. ASSUME NEW m \in Message, Become(s, e, <<m>>)
      PROVE  wire' = [p \in Side |-> IF p = s THEN wire[s]
                                     ELSE IF cut THEN wire[Other(s)] ELSE Append(wire[Other(s)], m)]
  <2>1. wire' = IF cut THEN wire ELSE [wire EXCEPT ![Other(s)] = wire[Other(s)] \o <<m>>]
    BY <1>8 DEF Become
  <2>2. CASE cut
    BY <1>5, <2>1, <2>2
  <2>3. CASE ~cut
    BY <1>4, <1>6, <2>1, <2>3
  <2> QED BY <2>2, <2>3
<1> QED BY <1>7, <1>8

\* s changes in what the counting is not about, and says at most that.
LEMMA SameInv ==
  ASSUME LinkInv, NEW s \in Side, NEW e \in Object, Alike(side[s], e), Sound(e),
         Gone(side[s]) => Gone(e), NEW out, Become(s, e, out),
         out = <<>> \/ \E m \in Message : m.type # "action" /\ out = <<m>>
  PROVE  LinkInv'
<1>1. Typed /\ \A p \in Side : Sound(side[p])
  BY DEF LinkInv
<1>2. PICK fled \in [Side -> {0, 1}] : Counted(fled)
  BY DEF LinkInv
<1>3. /\ side[s] \in Object /\ side[Other(s)] \in Object
      /\ wire[s] \in Seq(Message) /\ wire[Other(s)] \in Seq(Message) /\ cut \in BOOLEAN
      /\ fled[s] \in {0, 1} /\ fled[Other(s)] \in {0, 1}
      /\ fled[s] = 1 => Gone(side[s])
      /\ Level(s, side[s], side[Other(s)], wire[s], wire[Other(s)], cut, fled[s], fled[Other(s)])
  BY <1>1, <1>2, Now
<1>4. /\ Level(s, e, side[Other(s)], wire[s], wire[Other(s)], cut, fled[s], fled[Other(s)])
      /\ \A m \in Message : m.type # "action" =>
           Level(s, e, side[Other(s)], wire[s], Append(wire[Other(s)], m), cut, fled[s], fled[Other(s)])
  BY <1>3, SameLevel
<1>5. side' = [side EXCEPT ![s] = e] /\ UNCHANGED <<fate, cut>>
  BY DEF Become
<1>6. PICK v \in Seq(Message) :
        /\ wire' = [p \in Side |-> IF p = s THEN wire[s] ELSE v]
        /\ Level(s, e, side[Other(s)], wire[s], v, cut, fled[s], fled[Other(s)])
  <2>1. CASE out = <<>>
    BY <1>1, <1>3, <1>4, <2>1, Sends
  <2>2. CASE \E m \in Message : m.type # "action" /\ out = <<m>>
    <3>1. PICK m \in Message : m.type # "action" /\ out = <<m>>
      BY <2>2
    <3>2. PICK v : v = IF cut THEN wire[Other(s)] ELSE Append(wire[Other(s)], m)
      OBVIOUS
    <3>3. v \in Seq(Message)
      BY <1>3, <3>2, ActionsAppend
    <3>4. wire' = [p \in Side |-> IF p = s THEN wire[s] ELSE v]
      <4>1. Become(s, e, <<m>>)
        BY <3>1
      <4>2. wire' = [p \in Side |-> IF p = s THEN wire[s]
                                     ELSE IF cut THEN wire[Other(s)] ELSE Append(wire[Other(s)], m)]
        BY <1>1, <4>1, Sends
      <4> QED BY <3>2, <4>2
    <3>5. Level(s, e, side[Other(s)], wire[s], v, cut, fled[s], fled[Other(s)])
      BY <1>4, <3>1, <3>2
    <3> QED BY <3>3, <3>4, <3>5
  <2> QED BY <2>1, <2>2
<1>7. fled[s] = 1 => Gone(e)
  BY <1>3
<1> QED BY <1>1, <1>2, <1>3, <1>5, <1>6, <1>7, StepInv

LEMMA MeantIsAction ==
  ASSUME NEW a \in Action, NEW order \in Orders
  PROVE  /\ Meant(a, order) \in Action /\ Meant(a, order).kind = a.kind
         /\ ListsStay => Meant(a, order) = a
<1>1. CASE a.kind = "move"
  <2>1. a = [kind |-> "move", slot |-> a.slot] /\ a.slot \in Slot
    BY <1>1 DEF Action
  <2>2. Meant(a, order) = [kind |-> "move", slot |-> order[a.slot]]
    BY <1>1, <2>1 DEF Meant
  <2>3. order[a.slot] \in Slot
    BY <2>1, SlotAssumption
  <2>4. [kind |-> "move", slot |-> order[a.slot]] \in Action
    BY <2>3 DEF Action
  <2>5. ListsStay => order[a.slot] = a.slot
    BY <2>1 DEF ListsStay
  <2> QED BY <2>1, <2>2, <2>4, <2>5
<1>2. CASE a.kind # "move"
  BY <1>2 DEF Meant
<1> QED BY <1>1, <1>2

LEMMA ChooseInv ==
  ASSUME LinkInv, NEW s \in Side, NEW a \in Action, NEW order \in Orders, Choose(s, a, order)
  PROVE  LinkInv'
<1>1. Typed /\ \A p \in Side : Sound(side[p])
  BY DEF LinkInv
<1>2. PICK fled \in [Side -> {0, 1}] : Counted(fled)
  BY DEF LinkInv
<1>3. /\ side[s] \in Object /\ side[Other(s)] \in Object
      /\ wire[s] \in Seq(Message) /\ wire[Other(s)] \in Seq(Message) /\ cut \in BOOLEAN
      /\ fled[s] \in {0, 1} /\ fled[Other(s)] \in {0, 1}
      /\ fled[s] = 1 => Gone(side[s])
      /\ Level(s, side[s], side[Other(s)], wire[s], wire[Other(s)], cut, fled[s], fled[Other(s)])
  BY <1>1, <1>2, Now
<1>4. /\ side[s].mine = None /\ side[s].queue = <<>> /\ ~side[s].timedOut
      /\ fled[s] = 0
  BY <1>1, <1>3 DEF Choose, CanChoose, Gone, Sound, Waits
<1>5. PICK b \in Action : b = Meant(a, order) /\ b.kind = a.kind /\ (ListsStay => b = a)
  BY MeantIsAction
<1>6. PICK m \in Message : m = [type |-> "action", action |-> a]
  BY DEF Message
<1>7. Become(s, TryResolve(s, Pending(side[s], b)), <<m>>)
  BY <1>5, <1>6 DEF Choose
<1>8. PICK e : e = TryResolve(s, Pending(side[s], b))
  OBVIOUS
<1>9. PICK v : v = IF cut THEN wire[Other(s)] ELSE Append(wire[Other(s)], m)
  OBVIOUS
<1>10. b.kind # "run" => Len(side[s].played) < MaxTurns
  BY <1>5 DEF Choose
<1>11. /\ e \in Object /\ Sound(e)
       /\ \E z \in {0, 1} : /\ z = 1 => Gone(e)
                            /\ Level(s, e, side[Other(s)], wire[s], v, cut, z, fled[Other(s)])
  BY <1>1, <1>3, <1>4, <1>5, <1>6, <1>8, <1>9, <1>10, ChooseLevel
<1>12. v \in Seq(Message)
  <2>1. CASE cut
    BY <1>3, <1>9, <2>1
  <2>2. CASE ~cut
    <3>1. v = Append(wire[Other(s)], m) /\ wire[Other(s)] \in Seq(Message) /\ m \in Message
      BY <1>3, <1>9, <2>2
    <3> QED BY <3>1, AppendProperties
  <2> QED BY <2>1, <2>2
<1>13. wire' = [p \in Side |-> IF p = s THEN wire[s] ELSE v]
  <2>1. Become(s, e, <<m>>)
    BY <1>7, <1>8
  <2>2. wire' = [p \in Side |-> IF p = s THEN wire[s]
                               ELSE IF cut THEN wire[Other(s)] ELSE Append(wire[Other(s)], m)]
    BY <1>1, <1>6, <2>1, Sends
  <2> QED BY <1>9, <2>2
<1>14. side' = [side EXCEPT ![s] = e] /\ UNCHANGED <<fate, cut>>
  BY <1>7, <1>8 DEF Become
<1>15. PICK z \in {0, 1} : /\ z = 1 => Gone(e)
                           /\ Level(s, e, side[Other(s)], wire[s], v, cut, z, fled[Other(s)])
  BY <1>11
<1> QED BY <1>1, <1>2, <1>3, <1>11, <1>12, <1>13, <1>14, <1>15, StepInv

LEMMA ReceiveInv ==
  ASSUME LinkInv, NEW s \in Side, Receive(s)
  PROVE  LinkInv'
<1>1. Typed /\ \A p \in Side : Sound(side[p])
  BY DEF LinkInv
<1>2. PICK fled \in [Side -> {0, 1}] : Counted(fled)
  BY DEF LinkInv
<1>3. /\ side[s] \in Object /\ side[Other(s)] \in Object
      /\ wire[s] \in Seq(Message) /\ wire[Other(s)] \in Seq(Message) /\ cut \in BOOLEAN
      /\ fled[s] \in {0, 1} /\ fled[Other(s)] \in {0, 1}
      /\ fled[s] = 1 => Gone(side[s])
      /\ Level(s, side[s], side[Other(s)], wire[s], wire[Other(s)], cut, fled[s], fled[Other(s)])
  BY <1>1, <1>2, Now
<1>4. PICK e : e = Heard(s, side[s], Head(wire[s]))
  OBVIOUS
<1>5. wire[s] # <<>>
  BY DEF Receive
<1>6. PICK w \in Seq(Message) : w = Tail(wire[s])
  BY <1>3, <1>5, ActionsTail
<1>7. /\ e \in Object /\ Sound(e)
      /\ \E z \in {0, 1} : /\ z = 1 => Gone(e)
                           /\ Level(s, e, side[Other(s)], w, wire[Other(s)], cut, z, fled[Other(s)])
  BY <1>1, <1>3, <1>4, <1>5, <1>6, HearLevel
<1>8. side' = [side EXCEPT ![s] = e] /\ UNCHANGED <<fate, cut>>
  BY <1>4 DEF Receive
<1>9. wire' = [p \in Side |-> IF p = s THEN w ELSE wire[Other(s)]]
  <2>1. wire' = [wire EXCEPT ![s] = w]
    BY <1>6 DEF Receive
  <2>2. Other(s) \in Side /\ Other(s) # s /\ Side = {s, Other(s)}
    BY Sides
  <2>3. wire \in [Side -> Seq(Message)]
    BY <1>1 DEF Typed
  <2> QED BY <2>1, <2>2, <2>3
<1>10. PICK z \in {0, 1} : /\ z = 1 => Gone(e)
                           /\ Level(s, e, side[Other(s)], w, wire[Other(s)], cut, z, fled[Other(s)])
  BY <1>7
<1> QED BY <1>1, <1>2, <1>3, <1>7, <1>8, <1>9, <1>10, StepInv

LEMMA TimeUpInv ==
  ASSUME LinkInv, NEW s \in Side, TimeUp(s)
  PROVE  LinkInv'
<1>1. Typed /\ Sound(side[s]) /\ side[s].phase = "menu"
  BY DEF LinkInv, TimeUp
<1>2. side[s] \in Object
  BY <1>1 DEF Typed
<1>3. PICK h : h = [side[s] EXCEPT !.timedOut = TRUE]
  OBVIOUS
<1>4. /\ h \in Object /\ Alike(side[s], h) /\ h.timedOut /\ h.queue = side[s].queue
      /\ h.ran = side[s].ran /\ h.local = side[s].local /\ h.remote = side[s].remote
      /\ h.checked = side[s].checked /\ h.party = side[s].party
  BY <1>2, <1>3 DEF Object, Alike
<1>5. PICK r \in Result : r = "lose"
  BY DEF Result
<1>6. PICK e \in Object : e = EndWith(h, r)
  BY <1>4, EndWithFields
<1>7. /\ Same(h, e) /\ e.result = r /\ e.after = "finish" /\ e.phase = "messages"
      /\ e.queue = h.queue /\ e.ran = h.ran /\ e.local = h.local /\ e.remote = h.remote
      /\ e.checked = h.checked
  BY <1>4, <1>6, EndWithFields
<1>8. Alike(side[s], e)
  BY <1>4, <1>7 DEF Same, Alike
<1>9. side[s].mine = None /\ side[s].queue = <<>> /\ side[s].party = "shut"
  BY <1>1, <1>2, ObjectFields DEF Sound, Waits
<1>10. Waits(e) /\ Bounded(e)
  BY <1>1, <1>4, <1>7, <1>8, <1>9 DEF Sound, Waits, Bounded, Same, Alike
<1>11. ASSUME NEW p \in 0..3, Signed(side[s], p) PROVE Signed(e, p)
  BY <1>4, <1>5, <1>7, <1>8, <1>11 DEF Signed, Alike
<1>12. Sound(e)
  BY <1>1, <1>4, <1>7, <1>10, <1>11 DEF Sound
<1>13. PICK m \in Message : m = [type |-> "forfeit"]
  BY DEF Message
<1>14. m.type # "action"
  BY <1>13
<1>15. Become(s, e, <<m>>)
  BY <1>3, <1>5, <1>6, <1>13 DEF TimeUp
<1>16. ~Gone(side[s])
  BY <1>1 DEF Gone
<1> QED BY <1>8, <1>12, <1>14, <1>15, <1>16, SameInv

LEMMA QueueStepInv ==
  ASSUME LinkInv, NEW s \in Side, QueueStep(s)
  PROVE  LinkInv'
<1>1. Typed /\ Sound(side[s])
  BY DEF LinkInv
<1>2. side[s] \in Object /\ fate \in [1..MaxTurns -> Fate]
  BY <1>1 DEF Typed
<1>3. side[s].phase = "messages" /\ side[s].queue # <<>>
  BY DEF QueueStep
<1>4. PICK t : t = [side[s] EXCEPT !.queue = Tail(@)]
  OBVIOUS
<1>5. PICK h : h = Head(side[s].queue)
  OBVIOUS
<1>6. Tail(side[s].queue) \in Seq(Item)
  BY <1>2, <1>3, ObjectFields, HeadTailProperties
<1>7. /\ t \in Object /\ t.queue = Tail(side[s].queue) /\ Same(side[s], t) /\ t.phase = side[s].phase
      /\ t.after = side[s].after /\ t.result = side[s].result /\ t.ran = side[s].ran
      /\ t.local = side[s].local /\ t.remote = side[s].remote /\ t.checked = side[s].checked
  BY <1>2, <1>4, <1>6 DEF Object, Same, Alike
<1>8. PICK d : d = fate[Len(t.played)]
  OBVIOUS
<1>9. Len(side[s].played) \in 1..MaxTurns => d \in Fate
  BY <1>2, <1>7, <1>8 DEF Same, Alike
<1>10. PICK e : e = RunItem(s, h, t, d)
  OBVIOUS
<1>11. /\ e \in Object /\ Same(side[s], e) /\ Sound(e) /\ (Gone(side[s]) => Gone(e))
       /\ h = "hash" => e.local[Len(e.local)] \in Hash
  BY <1>1, <1>2, <1>3, <1>5, <1>7, <1>9, <1>10, StepIsSound
<1>12. Head(side[s].queue) = h /\ RunItem(s, Head(side[s].queue), t, fate[Len(t.played)]) = e
  BY <1>5, <1>8, <1>10
<1>13. CASE h # "hash"
  <2>1. Become(s, e, <<>>)
    BY <1>4, <1>12, <1>13 DEF QueueStep
  <2> QED BY <1>11, <2>1, SameInv DEF Same
<1>14. CASE h = "hash"
  <2>1. PICK m \in Message : m = [type |-> "hash", value |-> e.local[Len(e.local)]]
    BY <1>11, <1>14 DEF Message
  <2>2. m.type # "action"
    BY <2>1
  <2>3. Become(s, e, <<[type |-> "hash", value |-> e.local[Len(e.local)]]>>)
    BY <1>4, <1>12, <1>14 DEF QueueStep
  <2>4. Become(s, e, <<m>>)
    BY <2>1, <2>3
  <2> QED BY <1>11, <2>2, <2>4, SameInv DEF Same
<1> QED BY <1>13, <1>14

\* The other steps only turn the battle's page.
LEMMA PageIsSound ==
  ASSUME NEW f \in Object, Sound(f), QueueIsDone(f),
         NEW e \in Object, Same(f, e), e.queue = f.queue, e.result = f.result, e.ran = f.ran,
         e.local = f.local, e.remote = f.remote, e.checked = f.checked,
         \/ e.phase = "menu" /\ f.after # "finish"
         \/ e.phase = "over" /\ e.after = f.after
  PROVE  Sound(e) /\ (Gone(f) => Gone(e))
<1>1. Waits(e)
  BY DEF Sound, Waits, Same, Alike, QueueIsDone
<1>2. Bounded(e)
  BY DEF Sound, Bounded, Same, Alike
<1>3. ASSUME NEW p \in 0..3, Signed(f, p) PROVE Signed(e, p)
  BY <1>3 DEF Signed, Same, Alike
<1> QED BY <1>1, <1>2, <1>3 DEF Sound, Gone, Same, Alike, QueueIsDone

\* The party menu is asked for, shown or left.
LEMMA PartyIsSound ==
  ASSUME NEW f \in Object, Sound(f), NEW e \in Object, Alike(f, e), e.timedOut = f.timedOut,
         e.queue = f.queue, e.result = f.result, e.ran = f.ran,
         e.local = f.local, e.remote = f.remote, e.checked = f.checked, e.phase = "messages",
         f.phase = "menu" \/ f.party # "shut"
  PROVE  Sound(e) /\ ~Gone(f)
<1>1. Waits(e) /\ ~Gone(f)
  BY DEF Sound, Waits, Alike, Gone
<1>2. Bounded(e)
  BY DEF Sound, Bounded, Alike
<1>3. ASSUME NEW p \in 0..3, Signed(f, p) PROVE Signed(e, p)
  BY <1>3 DEF Signed, Alike
<1> QED BY <1>1, <1>2, <1>3 DEF Sound

LEMMA PartyInv ==
  ASSUME LinkInv, NEW s \in Side, OpenParty(s) \/ ShowParty(s) \/ CloseParty(s)
  PROVE  LinkInv'
<1>1. Typed /\ Sound(side[s])
  BY DEF LinkInv
<1>2. side[s] \in Object
  BY <1>1 DEF Typed
<1>3. CASE OpenParty(s)
  <2>1. PICK e : e = [side[s] EXCEPT !.phase = "messages", !.after = "menu", !.party = "asked"]
    OBVIOUS
  <2>2. /\ e \in Object /\ Alike(side[s], e) /\ e.timedOut = side[s].timedOut
        /\ e.queue = side[s].queue /\ e.result = side[s].result /\ e.ran = side[s].ran
        /\ e.local = side[s].local /\ e.remote = side[s].remote /\ e.checked = side[s].checked
        /\ e.phase = "messages"
    BY <1>2, <2>1 DEF Object, Alike
  <2>3. side[s].phase = "menu" /\ Become(s, e, <<>>)
    BY <1>3, <2>1 DEF OpenParty
  <2>4. Sound(e) /\ ~Gone(side[s])
    BY <1>1, <1>2, <2>2, <2>3, PartyIsSound
  <2> QED BY <2>2, <2>3, <2>4, SameInv
<1>4. CASE ShowParty(s) \/ CloseParty(s)
  <2>1. PICK q \in {"open", "shut"} :
          side[s].party # "shut" /\ Become(s, [side[s] EXCEPT !.party = q], <<>>)
    BY <1>4 DEF ShowParty, CloseParty
  <2>2. PICK e : e = [side[s] EXCEPT !.party = q]
    OBVIOUS
  <2>3. /\ e \in Object /\ Alike(side[s], e) /\ e.timedOut = side[s].timedOut
        /\ e.queue = side[s].queue /\ e.result = side[s].result /\ e.ran = side[s].ran
        /\ e.local = side[s].local /\ e.remote = side[s].remote /\ e.checked = side[s].checked
        /\ e.phase = side[s].phase
    BY <1>2, <2>2 DEF Object, Alike
  <2>4. e.phase = "messages"
    BY <1>1, <2>1, <2>3 DEF Sound, Waits
  <2>5. Sound(e) /\ ~Gone(side[s])
    BY <1>1, <1>2, <2>1, <2>3, <2>4, PartyIsSound
  <2> QED BY <2>1, <2>2, <2>3, <2>5, SameInv
<1> QED BY <1>3, <1>4

LEMMA NextTurnInv ==
  ASSUME LinkInv, NEW s \in Side, NextTurn(s)
  PROVE  LinkInv'
<1>1. Typed /\ Sound(side[s])
  BY DEF LinkInv
<1>2. side[s] \in Object
  BY <1>1 DEF Typed
<1>3. PICK e : e = [side[s] EXCEPT !.phase = "menu", !.after = "menu"]
  OBVIOUS
<1>4. /\ e \in Object /\ Same(side[s], e) /\ e.phase = "menu"
      /\ e.queue = side[s].queue /\ e.result = side[s].result /\ e.ran = side[s].ran
      /\ e.local = side[s].local /\ e.remote = side[s].remote /\ e.checked = side[s].checked
  BY <1>2, <1>3 DEF Object, Same, Alike
<1>5. QueueIsDone(side[s]) /\ side[s].after # "finish"
  BY DEF NextTurn
<1>6. Sound(e) /\ (Gone(side[s]) => Gone(e))
  BY <1>1, <1>2, <1>4, <1>5, PageIsSound
<1>7. Become(s, e, <<>>)
  BY <1>3 DEF NextTurn
<1> QED BY <1>4, <1>6, <1>7, SameInv DEF Same

LEMMA FinishInv ==
  ASSUME LinkInv, NEW s \in Side, Finish(s)
  PROVE  LinkInv'
<1>1. Typed /\ Sound(side[s])
  BY DEF LinkInv
<1>2. side[s] \in Object
  BY <1>1 DEF Typed
<1>3. PICK e : e = [side[s] EXCEPT !.phase = "over"]
  OBVIOUS
<1>4. /\ e \in Object /\ Same(side[s], e) /\ e.phase = "over" /\ e.after = side[s].after
      /\ e.queue = side[s].queue /\ e.result = side[s].result /\ e.ran = side[s].ran
      /\ e.local = side[s].local /\ e.remote = side[s].remote /\ e.checked = side[s].checked
  BY <1>2, <1>3 DEF Object, Same, Alike
<1>5. QueueIsDone(side[s])
  BY DEF Finish
<1>6. Sound(e) /\ (Gone(side[s]) => Gone(e))
  BY <1>1, <1>2, <1>4, <1>5, PageIsSound
<1>7. PICK m \in Message : m = [type |-> "bye"]
  BY DEF Message
<1>8. m.type # "action" /\ Become(s, e, <<m>>)
  BY <1>3, <1>7 DEF Finish
<1> QED BY <1>4, <1>6, <1>8, SameInv DEF Same

LEMMA NoticeClosedInv ==
  ASSUME LinkInv, NEW s \in Side, NoticeClosed(s)
  PROVE  LinkInv'
<1>1. Typed /\ Sound(side[s])
  BY DEF LinkInv
<1>2. side[s] \in Object
  BY <1>1 DEF Typed
<1>3. PICK r \in Result \ {"none"} : r = "draw"
  BY DEF Result
<1>4. PICK e \in Object : /\ e = EndWith(side[s], r) /\ Same(side[s], e) /\ Sound(e)
                          /\ side[s].mine = None /\ ~side[s].timedOut /\ side[s].party = "shut"
                                => Gone(e)
  BY <1>1, <1>2, EndWithIsSound
<1>5. Become(s, e, <<>>)
  BY <1>3, <1>4 DEF NoticeClosed
<1>6. Gone(side[s]) => Gone(e)
  BY <1>4 DEF Gone
<1> QED BY <1>4, <1>5, <1>6, SameInv DEF Same

LEMMA BreakInv ==
  ASSUME LinkInv, Break
  PROVE  LinkInv'
<1>1. Typed /\ \A p \in Side : Sound(side[p])
  BY DEF LinkInv
<1>2. PICK fled \in [Side -> {0, 1}] : Counted(fled)
  BY DEF LinkInv
<1>3. "host" \in Side /\ "guest" \in Side /\ Side = {"host", "guest"}
  BY DEF Side
<1>4. /\ wire["host"] \in Seq(Message) /\ wire["guest"] \in Seq(Message)
      /\ Len(wire["host"]) \in Nat /\ Len(wire["guest"]) \in Nat
  BY <1>1, <1>3, LenProperties DEF Typed
<1>5. PICK k \in 0..Len(wire["host"]), n \in 0..Len(wire["guest"]) :
        wire' = [host |-> SubSeq(wire["host"], 1, k), guest |-> SubSeq(wire["guest"], 1, n)]
  <2>1. PICK k, n \in 0..Len(wire["host"]) + Len(wire["guest"]) :
          /\ k <= Len(wire["host"]) /\ n <= Len(wire["guest"])
          /\ wire' = [host |-> SubSeq(wire["host"], 1, k), guest |-> SubSeq(wire["guest"], 1, n)]
    BY DEF Break
  <2>2. k \in 0..Len(wire["host"]) /\ n \in 0..Len(wire["guest"])
    BY <1>4, <2>1
  <2> QED BY <2>1, <2>2
<1>6. cut' = TRUE /\ side' = side /\ fate' = fate
  BY DEF Break
<1>7. /\ wire' \in [Side -> Seq(Message)]
      /\ wire'["host"] = SubSeq(wire["host"], 1, k) /\ wire'["guest"] = SubSeq(wire["guest"], 1, n)
  <2>1. SubSeq(wire["host"], 1, k) \in Seq(Message) /\ SubSeq(wire["guest"], 1, n) \in Seq(Message)
    BY <1>4, ActionsSubSeq
  <2>2. PICK u \in Seq(Message) : u = SubSeq(wire["host"], 1, k)
    BY <2>1
  <2>3. PICK v \in Seq(Message) : v = SubSeq(wire["guest"], 1, n)
    BY <2>1
  <2>4. wire' = [host |-> u, guest |-> v]
    BY <1>5, <2>2, <2>3
  <2>5. wire' \in [Side -> Seq(Message)] /\ wire'["host"] = u /\ wire'["guest"] = v
    BY <1>3, <2>4
  <2> QED BY <2>2, <2>3, <2>5
<1>8. Typed'
  BY <1>1, <1>6, <1>7 DEF Typed
<1>9. ASSUME NEW s \in Side
      PROVE  InOrder(s, side[s], side[Other(s)], wire'[s], TRUE, fled[s], fled[Other(s)])
  <2>1. /\ side[s] \in Object /\ side[Other(s)] \in Object /\ wire[s] \in Seq(Message) /\ cut \in BOOLEAN
        /\ fled[s] \in {0, 1} /\ fled[Other(s)] \in {0, 1}
    BY <1>1, <1>2, Now
  <2>2. InOrder(s, side[s], side[Other(s)], wire[s], cut, fled[s], fled[Other(s)])
    BY <1>2 DEF Counted
  <2>3. PICK j \in 0..Len(wire[s]) : wire'[s] = SubSeq(wire[s], 1, j)
    BY <1>3, <1>7
  <2>4. InOrder(s, side[s], side[Other(s)], SubSeq(wire[s], 1, j), TRUE, fled[s], fled[Other(s)])
    BY <2>1, <2>2, CutInOrder
  <2> QED BY <2>3, <2>4
<1>10. Counted(fled)'
  BY <1>2, <1>6, <1>9 DEF Counted
<1> QED BY <1>1, <1>6, <1>8, <1>10 DEF LinkInv

LEMMA LinkInitInv == Init => LinkInv
<1> SUFFICES ASSUME Init PROVE LinkInv
  OBVIOUS
<1>1. Fresh \in Object /\ Fresh.mine = None /\ Fresh.theirs = None /\ Fresh.played = <<>>
  BY EmptySeq DEF Fresh, Object, Result
<1>2. \A s \in Side : side[s] = Fresh /\ side[Other(s)] = Fresh /\ wire[s] = <<>>
  BY Sides DEF Init
<1>3. Typed
  <2>1. fate \in [1..MaxTurns -> Fate]
    BY BattleAssumption DEF Init
  <2>2. \A s \in Side : <<>> \in Seq(Message)
    BY EmptySeq
  <2> QED BY <1>1, <2>1, <2>2 DEF Init, Typed
<1>4. Sound(Fresh)
  <2>1. Len(<<>>) = 0
    BY EmptySeq
  <2>2. Waits(Fresh)
    BY DEF Waits, Fresh
  <2>3. Bounded(Fresh)
    BY <2>1, BattleAssumption DEF Bounded, Fresh
  <2>4. Agenda(Fresh.queue, 0)
    BY <2>1 DEF Agenda, Fresh
  <2>5. Signed(Fresh, 0)
    BY <2>1 DEF Signed, Fresh
  <2> QED BY <2>2, <2>3, <2>4, <2>5 DEF Sound
<1>5. PICK fled \in [Side -> {0, 1}] : fled = [s \in Side |-> 0]
  OBVIOUS
<1>6. ASSUME NEW s \in Side
      PROVE  InOrder(s, Fresh, Fresh, <<>>, cut, 0, 0)
  <2>1. Len(<<>>) = 0
    BY EmptySeq
  <2>2. Actions(<<>>) = {}
    BY <2>1 DEF Actions, Places
  <2>3. Taken(Fresh, 0) = 0 /\ Chosen(Fresh, 0) = 0
    BY <1>1, <2>1 DEF Taken, Chosen, Turns, One
  <2>4. Way(0, 0, {}) /\ Whole(0, 0, {})
    BY DEF Way, Whole
  <2>5. TakenIsTrue(s, Fresh, Fresh, 0)
    BY <1>1, <2>1 DEF TakenIsTrue
  <2>6. ComingIsTrue(s, Fresh, Fresh, <<>>, 0)
    BY <2>2 DEF ComingIsTrue
  <2> QED BY <2>2, <2>3, <2>4, <2>5, <2>6 DEF InOrder
<1>7. \A s \in Side : fled[s] = 0 /\ fled[Other(s)] = 0
  BY <1>5, Sides
<1>8. Counted(fled)
  BY <1>2, <1>6, <1>7 DEF Counted
<1>9. \A s \in Side : Sound(side[s])
  BY <1>2, <1>4
<1> QED BY <1>3, <1>8, <1>9 DEF LinkInv

LEMMA LinkStepInv == LinkInv /\ [Next]_vars => LinkInv'
<1> SUFFICES ASSUME LinkInv, [Next]_vars PROVE LinkInv'
  OBVIOUS
<1>1. CASE UNCHANGED vars
  <2>1. side' = side /\ fate' = fate /\ wire' = wire /\ cut' = cut
    BY <1>1 DEF vars
  <2>2. Typed' /\ \A s \in Side : Sound(side'[s])
    BY <2>1 DEF LinkInv, Typed
  <2>3. PICK fled \in [Side -> {0, 1}] : Counted(fled)
    BY DEF LinkInv
  <2>4. Counted(fled)'
    BY <2>1, <2>3 DEF Counted
  <2> QED BY <2>2, <2>4 DEF LinkInv
<1>2. ASSUME NEW s \in Side, NEW a \in Action, NEW order \in Orders, Choose(s, a, order)
      PROVE  LinkInv'
  BY <1>2, ChooseInv
<1>3. ASSUME NEW s \in Side, TimeUp(s) PROVE LinkInv'
  BY <1>3, TimeUpInv
<1>4. ASSUME NEW s \in Side, Receive(s) PROVE LinkInv'
  BY <1>4, ReceiveInv
<1>5. ASSUME NEW s \in Side, QueueStep(s) PROVE LinkInv'
  BY <1>5, QueueStepInv
<1>6. ASSUME NEW s \in Side, NextTurn(s) PROVE LinkInv'
  BY <1>6, NextTurnInv
<1>7. ASSUME NEW s \in Side, Finish(s) PROVE LinkInv'
  BY <1>7, FinishInv
<1>8. ASSUME NEW s \in Side, NoticeClosed(s) PROVE LinkInv'
  BY <1>8, NoticeClosedInv
<1>9. CASE Break
  BY <1>9, BreakInv
<1>10. ASSUME NEW s \in Side, OpenParty(s) \/ ShowParty(s) \/ CloseParty(s) PROVE LinkInv'
  BY <1>10, PartyInv
<1> QED BY <1>1, <1>2, <1>3, <1>4, <1>5, <1>6, <1>7, <1>8, <1>9, <1>10 DEF Next

\* The two machines stay in step, whatever they choose, run out of or lose.
THEOREM LinkSafety == Spec => []LinkInv
  BY LinkInitInv, LinkStepInv, PTL DEF Spec

-----------------------------------------------------------------------------
(* What follows from it.                                                   *)

\* A machine resolves a turn only with an action the opponent has chosen for it, so it
\* is never more than one turn ahead.
NotFarAhead == \A s \in Side : Len(side[s].played) <= Len(side[Other(s)].played) + 1

\* The objects keep their types; who waits has chosen (submit, LinkBattle.lua).
THEOREM LinkTypes == Spec => []LinkTypeOK
<1>1. ASSUME LinkInv, NEW s \in Side
      PROVE  LET f == side[s]
             IN  /\ f.phase \in {"menu", "waitRemote", "messages", "over"}
                 /\ f.after \in {"menu", "linkNext", "finish"}
                 /\ {f.mine, f.theirs} \subseteq Action \cup {None}
                 /\ f.result \in {"none", "win", "lose", "draw"}
                 /\ f.checked <= Len(f.local) /\ f.checked <= Len(f.remote)
                 /\ Len(f.played) <= MaxTurns
                 /\ f.phase = "waitRemote" => f.mine # None
                 /\ f.party \in {"shut", "asked", "open"}
                 /\ f.party # "shut" => f.phase = "messages" /\ f.queue = <<>> /\ f.mine = None
  <2>1. side[s] \in Object
    BY <1>1 DEF LinkInv, Typed
  <2>2. Waits(side[s]) /\ Bounded(side[s])
    BY <1>1 DEF LinkInv, Sound
  <2>3. /\ side[s].phase = "waitRemote" => side[s].mine # None
        /\ side[s].party # "shut" =>
             side[s].phase = "messages" /\ side[s].queue = <<>> /\ side[s].mine = None
    BY <2>2 DEF Waits
  <2> QED BY <2>1, <2>2, <2>3 DEF Object, Result, Bounded
<1>2. LinkInv => LinkTypeOK
  BY <1>1 DEF LinkTypeOK
<1> QED BY <1>2, LinkSafety, PTL

\* remoteAction is one slot and is enough: it is free when the next action arrives.
THEOREM OneSlotIsEnough == Spec => []ActionsInStep
<1>1. ASSUME LinkInv, NEW s \in Side, side[s].theirs # None
      PROVE  Actions(wire[s]) = {}
  <2>1. Typed /\ Waits(side[s])
    BY <1>1 DEF LinkInv, Sound
  <2>2. PICK fled \in [Side -> {0, 1}] : Counted(fled)
    BY <1>1 DEF LinkInv
  <2>3. /\ side[s] \in Object /\ side[Other(s)] \in Object
        /\ wire[s] \in Seq(Message) /\ wire[Other(s)] \in Seq(Message) /\ cut \in BOOLEAN
        /\ fled[s] \in {0, 1} /\ fled[Other(s)] \in {0, 1}
        /\ Level(s, side[s], side[Other(s)], wire[s], wire[Other(s)], cut, fled[s], fled[Other(s)])
    BY <2>1, <2>2, Now
  <2>4. side[s].mine = None
    BY <1>1, <2>1 DEF Waits
  <2> QED BY <1>1, <2>3, <2>4, NothingComing
<1>2. ASSUME LinkInv, NEW s \in Side, side[s].theirs # None, NEW i \in DOMAIN wire[s]
      PROVE  wire[s][i].type # "action"
  <2>1. wire[s] \in Seq(Message)
    BY <1>2 DEF LinkInv, Typed
  <2>2. i \in 1..Len(wire[s])
    BY <1>2, <2>1, LenProperties
  <2>3. i \notin Actions(wire[s])
    BY <1>1, <1>2
  <2> QED BY <2>2, <2>3 DEF Actions, Places
<1>3. LinkInv => ActionsInStep
  BY <1>2 DEF ActionsInStep
<1> QED BY <1>3, LinkSafety, PTL

\* What one machine has played against the other, and how far it is.
LEMMA Abreast ==
  ASSUME LinkInv, NEW s \in Side
  PROVE  /\ Len(side[s].played) <= Len(side[Other(s)].played) + 1
         /\ side[s].played \in Seq(Pairs) /\ Len(side[s].played) \in Nat
         /\ ListsStay => \A n \in 1..Len(side[s].played) :
              n <= Len(side[Other(s)].played) =>
                side[s].played[n][Other(s)] = side[Other(s)].played[n][Other(s)]
<1>1. Typed
  BY DEF LinkInv
<1>2. PICK fled \in [Side -> {0, 1}] : Counted(fled)
  BY DEF LinkInv
<1>3. /\ side[s] \in Object /\ side[Other(s)] \in Object /\ Other(s) \in Side
      /\ fled[s] \in {0, 1} /\ fled[Other(s)] \in {0, 1}
  BY <1>1, <1>2, Now
<1>4. InOrder(s, side[s], side[Other(s)], wire[s], cut, fled[s], fled[Other(s)])
  BY <1>2 DEF Counted
<1>5. fled[Other(s)] = 1 => side[Other(s)].mine = None
  BY <1>2, <1>3 DEF Counted, Gone
<1>6. Taken(side[s], fled[s]) <= Chosen(side[Other(s)], fled[Other(s)])
  BY <1>4 DEF InOrder, Way
<1>7. fled[Other(s)] = 1 => One(side[Other(s)].mine) = 0
  BY <1>5 DEF One
<1>8. /\ Len(side[s].played) \in Nat /\ Turns(side[s], fled[s]) = Len(side[s].played) + fled[s]
      /\ One(side[s].theirs) \in {0, 1}
      /\ Taken(side[s], fled[s]) = Turns(side[s], fled[s]) + One(side[s].theirs)
  BY <1>3, Numbers
<1>9. /\ Len(side[Other(s)].played) \in Nat
      /\ Turns(side[Other(s)], fled[Other(s)]) = Len(side[Other(s)].played) + fled[Other(s)]
      /\ One(side[Other(s)].mine) \in {0, 1}
      /\ Chosen(side[Other(s)], fled[Other(s)]) =
           Turns(side[Other(s)], fled[Other(s)]) + One(side[Other(s)].mine)
  BY <1>3, Numbers
<1>10. Len(side[s].played) <= Len(side[Other(s)].played) + 1
  BY <1>3, <1>6, <1>7, <1>8, <1>9
<1>11. TakenIsTrue(s, side[s], side[Other(s)], fled[s])
  BY <1>4 DEF InOrder
<1>12. ListsStay => \A n \in 1..Len(side[s].played) :
         n <= Len(side[Other(s)].played) =>
           side[s].played[n][Other(s)] = side[Other(s)].played[n][Other(s)]
  BY <1>11 DEF TakenIsTrue, Chose
<1>13. side[s].played \in Seq(Pairs)
  BY <1>3 DEF Object
<1> QED BY <1>8, <1>10, <1>12, <1>13

LEMMA InStep == LinkInv /\ ListsStay => SameTurns
<1> SUFFICES ASSUME LinkInv, ListsStay PROVE SameTurns
  OBVIOUS
<1>1. PICK s \in Side : s = "host"
  BY DEF Side
<1>2. PICK o \in Side : o = "guest"
  BY DEF Side
<1>3. Other(s) = o /\ Other(o) = s /\ Side = {s, o}
  BY <1>1, <1>2 DEF Other, Side
<1>4. PICK h : h = side[s].played
  OBVIOUS
<1>5. PICK g : g = side[o].played
  OBVIOUS
<1>6. /\ Len(h) <= Len(g) + 1 /\ h \in Seq(Pairs) /\ Len(h) \in Nat
      /\ \A n \in 1..Len(h) : n <= Len(g) => h[n][o] = g[n][o]
  BY <1>3, <1>4, <1>5, Abreast
<1>7. /\ Len(g) <= Len(h) + 1 /\ g \in Seq(Pairs) /\ Len(g) \in Nat
      /\ \A n \in 1..Len(g) : n <= Len(h) => g[n][s] = h[n][s]
  BY <1>3, <1>4, <1>5, Abreast
<1>8. DOMAIN h = 1..Len(h) /\ DOMAIN g = 1..Len(g)
  BY <1>6, <1>7, LenProperties
<1>9. ASSUME NEW n \in DOMAIN h \cap DOMAIN g
      PROVE  h[n] = g[n]
  <2>1. n \in 1..Len(h) /\ n \in 1..Len(g) /\ n <= Len(h) /\ n <= Len(g)
    BY <1>6, <1>7, <1>8
  <2>2. h[n] \in Pairs /\ g[n] \in Pairs
    BY <1>6, <1>7, <2>1, ElementOfSeq
  <2>3. h[n][o] = g[n][o] /\ h[n][s] = g[n][s]
    BY <1>6, <1>7, <2>1
  <2> QED BY <1>3, <2>2, <2>3 DEF Pairs
<1>10. h = side["host"].played /\ g = side["guest"].played
  BY <1>1, <1>2, <1>4, <1>5
<1> QED BY <1>6, <1>7, <1>9, <1>10 DEF SameTurns

\* Neither machine is more than a turn ahead, whatever the players do to their lists.
THEOREM NeitherIsAhead == Spec => []NotFarAhead
<1>1. LinkInv => NotFarAhead
  BY Abreast DEF NotFarAhead
<1> QED BY <1>1, LinkSafety, PTL

\* Lockstep: both machines resolve the same turns (resolveLockstep), if nobody reorders
\* his moves.  With SELECT they part, as MCLinkBattleMismatch.cfg shows.
THEOREM Lockstep == ListsStay => (Spec => []SameTurns)
<1> SUFFICES ASSUME ListsStay PROVE Spec => []SameTurns
  OBVIOUS
<1>1. LinkInv => SameTurns
  BY InStep
<1> QED BY <1>1, LinkSafety, PTL

LEMMA SignedTurns ==
  ASSUME LinkInv, NEW s \in Side, NEW n \in DOMAIN side[s].local
  PROVE  /\ n \in DOMAIN side[s].played /\ side[s].local[n] \in Hash
         /\ side[s].local[n][1] = side[s].played[n]["host"]
         /\ side[s].local[n][2] = side[s].played[n]["guest"]
         /\ ~side[s].local[n][3] => side[s].result # "none"
<1>1. side[s] \in Object
  BY DEF LinkInv, Typed
<1>2. side[s].local \in Seq(Hash) /\ side[s].played \in Seq(Pairs)
  BY <1>1 DEF Object
<1>3. /\ DOMAIN side[s].local = 1..Len(side[s].local) /\ Len(side[s].local) \in Nat
      /\ DOMAIN side[s].played = 1..Len(side[s].played) /\ Len(side[s].played) \in Nat
  BY <1>2, LenProperties
<1>4. PICK p \in 0..3 : Signed(side[s], p)
  BY DEF LinkInv, Sound
<1>5. Len(side[s].played) = Len(side[s].local) \/ Len(side[s].played) = Len(side[s].local) + 1
  <2>1. CASE p = 0
    BY <1>3, <1>4, <2>1 DEF Signed
  <2>2. CASE p # 0
    BY <1>4, <2>2 DEF Signed
  <2> QED BY <2>1, <2>2
<1>6. n \in 1..Len(side[s].local) /\ n \in 1..Len(side[s].played)
  <2>1. n \in 1..Len(side[s].local)
    BY <1>3
  <2>2. n \in Nat /\ 1 <= n /\ n <= Len(side[s].local)
    BY <1>3, <2>1
  <2>3. Len(side[s].local) <= Len(side[s].played)
    BY <1>3, <1>5
  <2>4. n <= Len(side[s].played)
    BY <1>3, <2>2, <2>3
  <2> QED BY <1>3, <2>1, <2>2, <2>4
<1>7. side[s].local[n] \in Hash
  BY <1>2, <1>6, ElementOfSeq
<1> QED BY <1>3, <1>4, <1>6, <1>7 DEF Signed

\* Signatures differ only when one of the machines had a result before it played the
\* turn (stateSig): two open simulations of the same actions see no desync.
THEOREM DesyncHasCause == ListsStay => (Spec => []DesyncIsReal)
<1> SUFFICES ASSUME ListsStay PROVE Spec => []DesyncIsReal
  OBVIOUS
<1>1. ASSUME LinkInv,
             NEW n \in DOMAIN side["host"].local \cap DOMAIN side["guest"].local,
             \A s \in Side : side[s].result = "none"
      PROVE  side["host"].local[n] = side["guest"].local[n]
  <2>1. "host" \in Side /\ "guest" \in Side
    BY DEF Side
  <2>2. PICK a \in Hash : /\ a = side["host"].local[n] /\ n \in DOMAIN side["host"].played
                          /\ a[1] = side["host"].played[n]["host"]
                          /\ a[2] = side["host"].played[n]["guest"] /\ a[3]
    BY <1>1, <2>1, SignedTurns
  <2>3. PICK b \in Hash : /\ b = side["guest"].local[n] /\ n \in DOMAIN side["guest"].played
                          /\ b[1] = side["guest"].played[n]["host"]
                          /\ b[2] = side["guest"].played[n]["guest"] /\ b[3]
    BY <1>1, <2>1, SignedTurns
  <2>4. side["host"].played[n] = side["guest"].played[n]
    BY <1>1, <2>2, <2>3, InStep DEF SameTurns
  <2>5. a[1] = b[1] /\ a[2] = b[2]
    BY <2>2, <2>3, <2>4
  <2>6. a[3] = TRUE /\ b[3] = TRUE
    <3>1. a[3] \in BOOLEAN /\ b[3] \in BOOLEAN
      BY DEF Hash
    <3> QED BY <2>2, <2>3, <3>1
  <2>7. a = <<a[1], a[2], a[3]>> /\ b = <<b[1], b[2], b[3]>>
    BY DEF Hash
  <2>8. a = b
    BY <2>5, <2>6, <2>7
  <2> QED BY <2>2, <2>3, <2>8
<1>2. LinkInv => DesyncIsReal
  BY <1>1 DEF DesyncIsReal
<1> QED BY <1>2, LinkSafety, PTL

-----------------------------------------------------------------------------
(* How a battle ends.  What has been said counts turns and does not look   *)
(* into one; who wins is settled in the queue.  luck is the fate of the    *)
(* turns, the same for both machines, and f the object of s.               *)

\* A turn brings at most one last faint of poison or the like: with two, each machine tells
\* its own player's loss first and the opponent's behind it, and so records a win.
OnePoisoned == \A d \in Fates : d.by = "residual" => Len(d.outs) <= 1

Ended(f)    == f.result # "none"
\* It is on the way to its end, or over: nothing is chosen in it any more.
Quits(f)    == Ended(f) /\ f.phase \in {"messages", "over"} /\ f.party = "shut"
HasFaint(q) == q # <<>> /\ q[Len(q)] \in Side

\* What a turn of fate d brings is in the queue or was.
Brought(q, d) ==
  q = <<>> \/ q[1] \notin (IF d.by = "move" THEN {"moves"} ELSE {"moves", "endOfTurn"})

\* The last turn is decisive, and who loses by it.
Last(luck, f)    == luck[Len(f.played)]
Decides(luck, f) == Len(f.played) > 0 /\ Last(luck, f).outs # <<>>
Beaten(luck, f)  == Last(luck, f).outs[Len(Last(luck, f).outs)]

\* A battle with a result is being finished; but its player may be in the party menu, or
\* wait for an answer to the choice he made there.
Ends(f) ==
  /\ Ended(f) <=> f.after = "finish"
  /\ Ended(f) => f.phase # "menu"
  /\ f.phase = "over" => Ended(f) /\ f.queue = <<>>
  /\ f.timedOut => f.result \in {"lose", "draw"}

\* No turn but the last was decisive, nor was that if time ran out behind it or the party
\* menu was asked for; and what the last brings is told.
Tells(luck, f) ==
  /\ \A k \in 1..Len(f.played) :
       k < Len(f.played) \/ f.timedOut \/ f.party # "shut" => luck[k].outs = <<>>
  /\ Decides(luck, f) /\ ~Ended(f) /\ Brought(f.queue, Last(luck, f)) => HasFaint(f.queue)
  /\ HasFaint(f.queue) => /\ Decides(luck, f) /\ Brought(f.queue, Last(luck, f))
                          /\ f.queue[Len(f.queue)] = Beaten(luck, f)

\* Why s has won or lost; late is whether the opponent ran out of time.
Outcome(luck, s, f, late) ==
  /\ f.result = "win"  => late \/ HasFaint(f.queue)
                               \/ (Decides(luck, f) /\ Beaten(luck, f) = Other(s))
  /\ f.result = "lose" => f.timedOut \/ HasFaint(f.queue)
                               \/ (Decides(luck, f) /\ Beaten(luck, f) = s)

Course(luck, s, f, late) == Ends(f) /\ Tells(luck, f) /\ Outcome(luck, s, f, late)

LEMMA OutsAreSides ==
  ASSUME NEW d \in Fate
  PROVE  /\ d.by \in {"move", "residual"} /\ d.outs \in Seq(Side)
         /\ \/ d.outs = <<>>
            \/ \E p \in Side : d.outs = <<p>>
            \/ \E p \in Side : d.outs = <<p, Other(p)>>
<1>1. d.by \in {"move", "residual"}
      /\ d.outs \in {<<>>} \cup {<<p>> : p \in Side} \cup {<<p, Other(p)>> : p \in Side}
  BY DEF Fate
<1>2. \/ d.outs = <<>>
      \/ \E p \in Side : d.outs = <<p>>
      \/ \E p \in Side : d.outs = <<p, Other(p)>>
  BY <1>1
<1>3. MoveFaints("host", [d EXCEPT !.by = "move"]) = d.outs
  BY DEF MoveFaints, Fate
<1>4. [d EXCEPT !.by = "move"] \in Fate /\ "host" \in Side
  BY DEF Fate, Side
<1>5. d.outs \in Seq(Side)
  BY <1>3, <1>4, FaintsAreSides
<1> QED BY <1>1, <1>2, <1>5

\* With one faint at most there is no order to differ in.
LEMMA OneFaint ==
  ASSUME OnePoisoned, NEW s \in Side, NEW d \in Fates, d.by = "residual"
  PROVE  ResidualFaints(s, d) = d.outs
<1>1. d \in Fate /\ Len(d.outs) <= 1
  BY BattleAssumption DEF OnePoisoned
<1>2. Other(s) \in Side /\ Other(s) # s /\ Side = {s, Other(s)}
  BY Sides
<1>3. ResidualFaints(s, d) = Out(s, d.outs) \o Out(Other(s), d.outs)
  BY DEF ResidualFaints, OwnFirst
<1>4. <<s>> \o <<>> = <<s>> /\ <<>> \o <<Other(s)>> = <<Other(s)>> /\ <<>> \o <<>> = <<>>
  OBVIOUS
<1>5. CASE d.outs = <<>>
  <2>1. Out(s, <<>>) = <<>> /\ Out(Other(s), <<>>) = <<>>
    BY DEF Out
  <2> QED BY <1>3, <1>4, <1>5, <2>1
<1>6. CASE d.outs = <<s>>
  <2>1. Out(s, <<s>>) = <<s>> /\ Out(Other(s), <<s>>) = <<>>
    BY <1>2 DEF Out
  <2> QED BY <1>3, <1>4, <1>6, <2>1
<1>7. CASE d.outs = <<Other(s)>>
  <2>1. Out(s, <<Other(s)>>) = <<>> /\ Out(Other(s), <<Other(s)>>) = <<Other(s)>>
    BY <1>2 DEF Out
  <2> QED BY <1>3, <1>4, <1>7, <2>1
<1>8. ASSUME NEW p \in Side, d.outs = <<p, Other(p)>> PROVE FALSE
  BY <1>1, <1>8
<1> QED BY <1>1, <1>2, <1>5, <1>6, <1>7, <1>8, OutsAreSides

\* Where a queue stands in its turn.
Room(d) == IF d.by = "move" THEN 2 ELSE 1

LEMMA AgendaTells ==
  ASSUME NEW q \in Seq(Item), NEW p \in 0..3, Agenda(q, p)
  PROVE  /\ Len(q) \in Nat /\ p <= Len(q)
         /\ HasFaint(q) <=> Len(q) > p
         /\ \A d \in Fate : Brought(q, d) <=> p <= Room(d)
<1>1. Len(q) \in Nat /\ p <= Len(q)
  BY LenProperties DEF Agenda
<1>2. "hash" \notin Side /\ "moves" \notin Side /\ "endOfTurn" \notin Side
  BY DEF Side
<1>3. CASE q = <<>>
  <2>1. Len(q) = 0 /\ p = 0
    BY <1>1, <1>3, EmptySeq
  <2> QED BY <1>1, <1>3, <2>1 DEF HasFaint, Brought, Room
<1>4. CASE q # <<>>
  <2>1. Len(q) >= 1 /\ 1 \in 1..Len(q) /\ Len(q) \in 1..Len(q)
    BY <1>1, <1>4, EmptySeq
  <2>2. /\ p = 3 => q[1] = "moves"
        /\ p = 2 => q[1] = "endOfTurn"
        /\ p = 1 => q[1] = "hash"
        /\ p = 0 => q[1] \in Side
    BY <2>1 DEF Agenda
  <2>3. /\ Len(q) = p => q[Len(q)] = "hash"
        /\ Len(q) > p => q[Len(q)] \in Side
    BY <2>1 DEF Agenda
  <2>4. HasFaint(q) <=> Len(q) > p
    BY <1>1, <1>2, <1>4, <2>3 DEF HasFaint
  <2>5. ASSUME NEW d \in Fate PROVE Brought(q, d) <=> p <= Room(d)
    <3>1. d.by \in {"move", "residual"}
      BY OutsAreSides
    <3> QED BY <1>2, <1>4, <2>2, <3>1 DEF Brought, Room
  <2> QED BY <1>1, <2>4, <2>5
<1> QED BY <1>3, <1>4

-----------------------------------------------------------------------------
(* Lemmas about the course of one battle.                                  *)

LEMMA LateIsLate ==
  ASSUME NEW luck, NEW s \in Side, NEW f \in Object, NEW late, NEW later,
         Course(luck, s, f, late), late => later
  PROVE  Course(luck, s, f, later)
  BY DEF Course, Outcome

\* The battle gets a result.
LEMMA EndCourse ==
  ASSUME NEW luck, NEW s \in Side, NEW f \in Object, NEW late, Course(luck, s, f, late),
         NEW r \in Result \ {"none"}, r = "draw" \/ (r = "win" /\ late /\ ~f.timedOut)
  PROVE  Course(luck, s, EndWith(f, r), late)
<1>1. PICK e \in Object : e = EndWith(f, r)
  BY EndWithFields
<1>2. /\ e.played = f.played /\ e.timedOut = f.timedOut /\ e.result = r /\ e.after = "finish"
      /\ e.phase = "messages" /\ e.queue = f.queue /\ e.party = f.party
  BY <1>1, EndWithFields DEF Same, Alike
<1>3. Ends(e)
  BY <1>2 DEF Ends, Ended
<1>4. Tells(luck, e)
  BY <1>2 DEF Course, Tells, Ended, Decides, Beaten, Last
<1>5. Outcome(luck, s, e, late)
  BY <1>2 DEF Outcome
<1> QED BY <1>1, <1>3, <1>4, <1>5 DEF Course

\* Both actions are there.
LEMMA ResolveCourse ==
  ASSUME NEW luck, NEW s \in Side, NEW f \in Object, NEW late, Course(luck, s, f, late),
         ~Ended(f), f.mine \in Action, f.theirs \in Action, f.queue = <<>>, ~f.timedOut,
         f.party = "shut"
  PROVE  Course(luck, s, TryResolve(s, f), late)
<1>1. PICK g \in Object : g = [f EXCEPT !.mine = None, !.theirs = None]
  BY DEF Object
<1>2. /\ g.played = f.played /\ g.result = f.result /\ g.queue = f.queue
      /\ g.timedOut = f.timedOut /\ g.after = f.after /\ g.phase = f.phase
      /\ g.party = f.party
  BY <1>1 DEF Object
<1>3. None \notin {f.mine, f.theirs}
  BY ActionsAreSome
<1>4. Course(luck, s, g, late)
  BY <1>2 DEF Course, Ends, Tells, Outcome, Ended, Decides, Beaten, Last
<1>5. CASE "run" \in {f.mine.kind, f.theirs.kind}
  <2>1. PICK r \in Result \ {"none"} : r = "draw"
    BY DEF Result
  <2>2. TryResolve(s, f) = EndWith(g, r)
    BY <1>1, <1>3, <1>5, <2>1 DEF TryResolve
  <2> QED BY <1>4, <2>1, <2>2, EndCourse
<1>6. CASE "run" \notin {f.mine.kind, f.theirs.kind}
  <2>1. PICK q : q = <<"moves", "endOfTurn", "hash">>
    OBVIOUS
  <2>2. Len(q) = 3 /\ q[1] = "moves" /\ q[3] = "hash" /\ q # <<>>
    BY <2>1
  <2>3. g.queue \o <<"moves", "endOfTurn", "hash">> = q
    BY <1>2, <2>1
  <2>4. PICK p \in Seq(Pairs) : p = Append(f.played, Pair(s, f))
    BY ObjectFields, PairOfActions, AppendProperties
  <2>5. Len(p) = Len(f.played) + 1 /\ Len(f.played) \in Nat
    BY <2>4, ObjectFields, PairOfActions, AppendProperties, LenProperties
  <2> DEFINE e == [g EXCEPT !.phase = "messages", !.after = "linkNext", !.played = p, !.queue = q]
  <2>6. TryResolve(s, f) = e
    BY <1>1, <1>2, <1>3, <1>6, <2>3, <2>4 DEF TryResolve
  <2>7. /\ e.played = p /\ e.queue = q /\ e.phase = "messages" /\ e.after = "linkNext"
        /\ e.result = f.result /\ ~e.timedOut /\ e.party = "shut"
    BY <1>2 DEF Object
  <2> HIDE DEF e
  <2>8. ~HasFaint(q) /\ \A d : ~Brought(q, d)
    BY <2>2 DEF HasFaint, Brought, Side
  <2>9. ~Decides(luck, f)
    <3>1. Brought(f.queue, Last(luck, f)) /\ ~HasFaint(f.queue)
      BY DEF Brought, HasFaint
    <3> QED BY <3>1 DEF Course, Tells
  <2>10. ASSUME NEW k \in 1..Len(p), k < Len(p) PROVE luck[k].outs = <<>>
    <3>1. k \in 1..Len(f.played)
      BY <2>5, <2>10
    <3>2. CASE k < Len(f.played)
      BY <3>1, <3>2 DEF Course, Tells
    <3>3. CASE k = Len(f.played)
      BY <2>5, <2>9, <3>1, <3>3 DEF Decides, Last
    <3> QED BY <2>5, <3>1, <3>2, <3>3
  <2>11. Tells(luck, e)
    BY <2>7, <2>8, <2>10 DEF Tells
  <2>12. Ends(e) /\ Outcome(luck, s, e, late)
    BY <2>7 DEF Ends, Outcome, Ended
  <2> QED BY <2>6, <2>11, <2>12 DEF Course
<1> QED BY <1>5, <1>6

\* Tells, by the place p up to which the queue is what is left of a turn.
TellsAt(luck, f, p) ==
  /\ Decides(luck, f) /\ ~Ended(f) /\ p <= Room(Last(luck, f)) => Len(f.queue) > p
  /\ Len(f.queue) > p => /\ Decides(luck, f) /\ p <= Room(Last(luck, f))
                         /\ f.queue[Len(f.queue)] = Beaten(luck, f)

LEMMA TellsAtPlace ==
  ASSUME NEW luck \in [1..MaxTurns -> Fates], NEW f \in Object, Len(f.played) <= MaxTurns,
         NEW p \in 0..3, Agenda(f.queue, p),
         \A k \in 1..Len(f.played) :
           k < Len(f.played) \/ f.timedOut \/ f.party # "shut" => luck[k].outs = <<>>
  PROVE  Tells(luck, f) <=> TellsAt(luck, f, p)
<1>1. f.queue \in Seq(Item) /\ Len(f.played) \in Nat
  BY ObjectFields, LenProperties
<1>2. /\ Len(f.queue) \in Nat /\ p <= Len(f.queue)
      /\ HasFaint(f.queue) <=> Len(f.queue) > p
      /\ \A d \in Fate : Brought(f.queue, d) <=> p <= Room(d)
  BY <1>1, AgendaTells
<1>3. Decides(luck, f) => Last(luck, f) \in Fate
  BY <1>1, BattleAssumption DEF Decides, Last
<1>4. Decides(luck, f) => (Brought(f.queue, Last(luck, f)) <=> p <= Room(Last(luck, f)))
  BY <1>2, <1>3
<1> QED BY <1>2, <1>4 DEF Tells, TellsAt

\* A comparison of signatures.
LEMMA CheckCourse ==
  ASSUME NEW luck, NEW s \in Side, NEW f \in Object, NEW late, Course(luck, s, f, late)
  PROVE  Course(luck, s, Check(f), late) /\ (Quits(f) => Quits(Check(f)))
<1>1. PICK n \in Nat : n = f.checked + 1
  BY ObjectFields
<1>2. PICK g \in Object : g = [f EXCEPT !.checked = n]
  BY DEF Object
<1>3. /\ g.played = f.played /\ g.result = f.result /\ g.queue = f.queue
      /\ g.timedOut = f.timedOut /\ g.after = f.after /\ g.phase = f.phase
      /\ g.party = f.party
  BY <1>2 DEF Object
<1>4. Course(luck, s, g, late)
  BY <1>3 DEF Course, Ends, Tells, Outcome, Ended, Decides, Beaten, Last
<1>5. PICK r \in Result \ {"none"} : r = "draw"
  BY DEF Result
<1>6. Course(luck, s, EndWith(g, r), late) /\ (f.party = "shut" => Quits(EndWith(g, r)))
  <2>1. PICK e : e = EndWith(g, r)
    OBVIOUS
  <2>2. e.result = r /\ e.phase = "messages" /\ e.party = g.party
    BY <2>1, EndWithFields DEF Same
  <2> QED BY <1>3, <1>4, <1>5, <2>1, <2>2, EndCourse DEF Quits, Ended
<1>7. Check(f) \in {f, g, EndWith(g, r)}
  BY <1>1, <1>2, <1>5 DEF Check
<1> QED BY <1>3, <1>4, <1>6, <1>7 DEF Quits, Ended

\* The next item of the queue runs.
LEMMA StepCourse ==
  ASSUME OnePoisoned, NEW luck \in [1..MaxTurns -> Fates], NEW s \in Side, NEW f \in Object,
         NEW late, Sound(f), Course(luck, s, f, late), f.phase = "messages", f.queue # <<>>,
         NEW h, h = Head(f.queue),
         NEW t \in Object, t.queue = Tail(f.queue), Same(f, t), t.phase = f.phase,
         t.after = f.after, t.result = f.result, t.ran = f.ran, t.local = f.local,
         t.remote = f.remote, t.checked = f.checked,
         NEW d, d = luck[Len(f.played)]
  PROVE  LET e == RunItem(s, h, t, d)
         IN  Course(luck, s, e, late) /\ (Quits(f) => Quits(e))
<1>1. PICK p \in 0..3 : Agenda(f.queue, p) /\ Signed(f, p)
  BY DEF Sound
<1>2. PICK r \in 0..3 : r = IF p = 0 THEN 0 ELSE p - 1
  OBVIOUS
<1>3. /\ Tail(f.queue) \in Seq(Item) /\ Agenda(Tail(f.queue), r)
      /\ p = 0 => h \in Side
      /\ p = 1 => h = "hash"
      /\ p = 2 => h = "endOfTurn"
      /\ p = 3 => h = "moves"
  BY <1>1, <1>2, ObjectFields, AgendaTail
<1>4. /\ t.queue = Tail(f.queue) /\ t.played = f.played /\ t.phase = "messages"
      /\ t.after = f.after /\ t.result = f.result /\ t.timedOut = f.timedOut
      /\ t.party = f.party
  BY DEF Same, Alike
<1>5. ~f.timedOut /\ f.party = "shut" /\ Len(f.played) <= MaxTurns
  BY DEF Sound, Waits, Bounded
<1>6. Len(f.played) \in Nat /\ Len(f.local) \in Nat
  BY ObjectFields, LenProperties
<1>7. /\ Len(Tail(f.queue)) = Len(f.queue) - 1 /\ Len(f.queue) \in Nat /\ Len(f.queue) >= 1
      /\ \A i \in 1..Len(Tail(f.queue)) : Tail(f.queue)[i] = f.queue[i + 1]
      /\ h = f.queue[1]
  BY ObjectFields, HeadTailProperties, LenProperties, EmptySeq
<1>8. /\ Len(f.queue) \in Nat /\ Len(f.queue) >= 1 /\ Len(Tail(f.queue)) = Len(f.queue) - 1
       /\ Len(t.queue) = Len(f.queue) - 1
  BY <1>4, <1>7
<1>9. PICK L \in Nat : L = Len(f.queue)
  BY <1>8
<1>10. Len(Tail(f.queue)) > 0 => Tail(f.queue)[Len(Tail(f.queue))] = f.queue[Len(f.queue)]
  BY <1>7
<1>11. TellsAt(luck, f, p)
  BY <1>1, <1>5, TellsAtPlace DEF Course, Tells
<1>12. Ends(f) /\ Outcome(luck, s, f, late)
       /\ \A k \in 1..Len(f.played) :
            k < Len(f.played) \/ f.timedOut \/ f.party # "shut" => luck[k].outs = <<>>
  BY DEF Course, Tells
<1>13. HasFaint(f.queue) <=> Len(f.queue) > p
  BY <1>1, ObjectFields, AgendaTells
<1>14. Last(luck, f) = d
  BY DEF Last
<1>15. Len(f.played) > 0 => d \in Fates /\ d \in Fate /\ d.by \in {"move", "residual"}
  <2>1. Len(f.played) > 0 => Len(f.played) \in 1..MaxTurns
    BY <1>5, <1>6, BattleAssumption
  <2> QED BY <2>1, BattleAssumption, OutsAreSides
<1>16. p # 0 => Len(f.played) > 0
  BY <1>1, <1>6 DEF Signed

\* Whatever comes of it runs its course if it differs from f like this.
<1>17. ASSUME NEW e \in Object, e.played = f.played, e.timedOut = f.timedOut,
              e.phase = f.phase, e.after = f.after, e.result = f.result, e.party = f.party,
              Agenda(e.queue, r), TellsAt(luck, e, r),
              Ended(f) /\ Len(f.queue) > p => Len(e.queue) > r
       PROVE  Course(luck, s, e, late) /\ (Quits(f) => Quits(e))
  <2>1. Ended(e) <=> Ended(f)
    BY <1>17 DEF Ended
  <2>2. Ends(e)
    BY <1>12, <1>17, <2>1 DEF Ends
  <2>3. Tells(luck, e)
    <3>1. \A k \in 1..Len(e.played) : k < Len(e.played) \/ e.timedOut \/ e.party # "shut" => luck[k].outs = <<>>
      BY <1>12, <1>17
    <3>2. Len(e.played) <= MaxTurns
      BY <1>5, <1>17
    <3> QED BY <1>17, <3>1, <3>2, TellsAtPlace
  <2>4. Outcome(luck, s, e, late)
    <3>1. HasFaint(e.queue) <=> Len(e.queue) > r
      BY <1>17, ObjectFields, AgendaTells
    <3>2. /\ Decides(luck, e) <=> Decides(luck, f)
          /\ Beaten(luck, e) = Beaten(luck, f)
      BY <1>17 DEF Decides, Beaten, Last
    <3>3. Ended(f) /\ HasFaint(f.queue) => HasFaint(e.queue)
      BY <1>13, <1>17, <3>1
    <3> QED BY <1>12, <1>17, <3>2, <3>3 DEF Outcome, Ended
  <2> QED BY <1>17, <2>1, <2>2, <2>3, <2>4 DEF Course, Quits
<1>18. CASE p = 3
  <2>1. h = "moves" /\ r = 2 /\ Len(f.played) > 0 /\ d \in Fate /\ d.by \in {"move", "residual"}
    BY <1>2, <1>3, <1>15, <1>16, <1>18
  <2>2. Len(f.queue) = 3
    <3>1. L >= 3
      BY <1>1, <1>18, <1>9 DEF Agenda
    <3>2. ~(L > 3)
      BY <1>11, <1>14, <1>18, <1>9 DEF TellsAt, Room
    <3>3. L = 3
      BY <3>1, <3>2
    <3> QED BY <1>9, <3>3
  <2>3. CASE Ended(f)
    <3> DEFINE e == [t EXCEPT !.ran = FALSE]
    <3>1. RunItem(s, h, t, d) = e
      BY <1>4, <2>1, <2>3 DEF RunItem, Side, Ended
    <3>2. /\ e \in Object /\ e.queue = t.queue /\ e.played = t.played /\ e.phase = t.phase
          /\ e.after = t.after /\ e.result = t.result /\ e.timedOut = t.timedOut
            /\ e.party = t.party
      BY DEF Object
    <3> HIDE DEF e
    <3>3. Len(e.queue) = 2
      BY <1>8, <2>2, <3>2
    <3>4. TellsAt(luck, e, r)
      <4>2. ~(Len(e.queue) > r)
        BY <2>1, <3>3
      <4>1. Ended(e) /\ ~(Len(e.queue) > r)
        BY <1>4, <2>3, <3>2, <4>2 DEF Ended
      <4> QED BY <4>1 DEF TellsAt
    <3> QED BY <1>3, <1>4, <1>17, <1>18, <2>2, <3>1, <3>2, <3>4
  <2>4. CASE ~Ended(f)
    <3>1. MoveFaints(s, d) \in Seq(Side)
      BY <2>1, FaintsAreSides
    <3>2. PICK m \in Seq(Side) : m = MoveFaints(s, d)
      BY <3>1
    <3>3. PICK q \in Seq(Item) : q = t.queue \o m /\ Agenda(q, r)
      BY <1>3, <1>4, <3>2, AgendaConcat
    <3> DEFINE e == [t EXCEPT !.ran = TRUE, !.queue = q]
    <3>4. RunItem(s, h, t, d) = e
      BY <1>4, <2>1, <2>4, <3>2, <3>3 DEF RunItem, Side, Ended
    <3>5. /\ e \in Object /\ e.queue = q /\ e.played = t.played /\ e.phase = t.phase
          /\ e.after = t.after /\ e.result = t.result /\ e.timedOut = t.timedOut
            /\ e.party = t.party
      BY DEF Object
    <3> HIDE DEF e
    <3>6. /\ Len(m) \in Nat /\ Len(q) = 2 + Len(m)
          /\ Len(m) > 0 => q[Len(q)] = m[Len(m)]
      <4>1. Side \subseteq Item
        BY DEF Item
      <4>2. m \in Seq(Item) /\ Len(m) \in Nat /\ t.queue \in Seq(Item) /\ Len(t.queue) = 2
        BY <1>3, <1>4, <1>8, <2>2, <4>1, LenProperties
      <4>3. /\ Len(q) = Len(t.queue) + Len(m)
            /\ \A i \in 1..Len(t.queue) + Len(m) :
                 q[i] = IF i <= Len(t.queue) THEN t.queue[i] ELSE m[i - Len(t.queue)]
        BY <3>3, <4>2, ConcatProperties
      <4>4. Len(q) = 2 + Len(m)
        BY <4>2, <4>3
      <4>5. ASSUME Len(m) > 0 PROVE q[Len(q)] = m[Len(m)]
        <5>1. PICK a \in Nat : a = Len(t.queue)
          BY <4>2
        <5>2. PICK b \in Nat : b = Len(m) /\ b > 0
          BY <4>2, <4>5
        <5>3. a + b \in 1..a + b /\ ~(a + b <= a) /\ a + b - a = b
          BY <5>1, <5>2
        <5>4. \A i \in 1..a + b : q[i] = IF i <= a THEN t.queue[i] ELSE m[i - a]
          BY <4>3, <5>1, <5>2
        <5>5. q[a + b] = m[b]
          BY <5>3, <5>4
        <5> QED BY <4>3, <5>1, <5>2, <5>5
      <4> QED BY <4>2, <4>4, <4>5
    <3>7. Decides(luck, e) <=> d.outs # <<>>
      BY <1>4, <1>14, <2>1, <3>5 DEF Decides, Last
    <3>8. Last(luck, e) = d /\ Beaten(luck, e) = d.outs[Len(d.outs)]
      BY <1>4, <1>14, <3>5 DEF Last, Beaten
    <3>9. TellsAt(luck, e, r)
      <4>1. CASE d.by = "move"
        <5>1. m = d.outs
          BY <3>2, <4>1 DEF MoveFaints
        <5>2. Len(m) > 0 <=> d.outs # <<>>
          BY <3>6, <5>1, EmptySeq
        <5> QED BY <2>1, <3>5, <3>6, <3>7, <3>8, <4>1, <5>1, <5>2 DEF TellsAt, Room
      <4>2. CASE d.by = "residual"
        <5>1. m = <<>>
          BY <3>2, <4>2 DEF MoveFaints
        <5>2. Len(q) = 2
          BY <3>6, <5>1
        <5> QED BY <2>1, <3>5, <3>8, <4>2, <5>2 DEF TellsAt, Room
      <4> QED BY <2>1, <4>1, <4>2
    <3> QED BY <1>4, <1>17, <2>4, <3>3, <3>4, <3>5, <3>9
  <2> QED BY <2>3, <2>4
<1>19. CASE p = 2
  <2>1. h = "endOfTurn" /\ r = 1 /\ Len(f.played) > 0 /\ d \in Fates /\ d \in Fate /\ d.by \in {"move", "residual"}
    BY <1>2, <1>3, <1>15, <1>16, <1>19
  <2>2. Len(f.queue) >= 2
    BY <1>1, <1>7, <1>19 DEF Agenda
  <2>3. Len(Tail(f.queue)) > 1 <=> Len(f.queue) > 2
    BY <1>7
  <2>4. CASE Ended(f) \/ d.by = "move"
    <3>1. RunItem(s, h, t, d).queue = t.queue /\ RunItem(s, h, t, d) \in {t, [t EXCEPT !.queue = t.queue]}
      <4>1. t.queue \o <<>> = t.queue
        BY <1>3, <1>4, ConcatEmptySeq
      <4>2. RunItem(s, h, t, d) \in {t, [t EXCEPT !.queue = t.queue \o <<>>]}
        BY <1>4, <2>1, <2>4 DEF RunItem, Side, Ended, ResidualFaints
      <4> QED BY <4>1, <4>2 DEF Object
    <3>2. [t EXCEPT !.queue = t.queue] = t
      BY DEF Object
    <3>3. RunItem(s, h, t, d) = t
      BY <3>1, <3>2
    <3>4. TellsAt(luck, t, r)
      <4>1. /\ Decides(luck, t) <=> Decides(luck, f)
            /\ Beaten(luck, t) = Beaten(luck, f) /\ Last(luck, t) = d
            /\ Ended(t) <=> Ended(f)
        BY <1>4, <1>14 DEF Decides, Beaten, Last, Ended
      <4>2. Len(f.queue) > 2 => /\ Decides(luck, f) /\ 2 <= Room(d)
                                /\ f.queue[Len(f.queue)] = Beaten(luck, f)
        BY <1>11, <1>14, <1>19 DEF TellsAt
      <4>3. Decides(luck, f) /\ ~Ended(f) => Len(f.queue) > 2
        BY <1>11, <1>14, <1>19, <2>4 DEF TellsAt, Room
      <4>4. Len(t.queue) > 1 <=> Len(f.queue) > 2
        BY <1>4, <2>3
      <4>5. Len(f.queue) > 2 => t.queue[Len(t.queue)] = f.queue[Len(f.queue)]
        BY <1>4, <1>7, <1>10
      <4>6. 1 <= Room(d)
        BY DEF Room
      <4> QED BY <2>1, <4>1, <4>2, <4>3, <4>4, <4>5, <4>6 DEF TellsAt
    <3> QED BY <1>3, <1>4, <1>17, <1>19, <2>1, <2>3, <3>3, <3>4
  <2>5. CASE ~Ended(f) /\ d.by = "residual"
    <3>1. ResidualFaints(s, d) = d.outs /\ d.outs \in Seq(Side)
      BY <2>1, <2>5, OneFaint, OutsAreSides
    <3>2. PICK m \in Seq(Side) : m = d.outs /\ m = ResidualFaints(s, d)
      BY <3>1
    <3>3. PICK q \in Seq(Item) : q = t.queue \o m /\ Agenda(q, r)
      BY <1>3, <1>4, <3>2, AgendaConcat
    <3> DEFINE e == [t EXCEPT !.queue = q]
    <3>4. RunItem(s, h, t, d) = e
      BY <1>4, <2>1, <2>5, <3>2, <3>3 DEF RunItem, Side, Ended
    <3>5. /\ e \in Object /\ e.queue = q /\ e.played = t.played /\ e.phase = t.phase
          /\ e.after = t.after /\ e.result = t.result /\ e.timedOut = t.timedOut
            /\ e.party = t.party
      BY DEF Object
    <3> HIDE DEF e
    <3>6. Len(t.queue) = 1
      <4>1. ~(L > 2) /\ L >= 2
        BY <1>11, <1>14, <1>19, <1>9, <2>2, <2>5 DEF TellsAt, Room
      <4>2. L = 2
        BY <4>1
      <4> QED BY <1>8, <1>9, <4>2
    <3>7. /\ Len(m) \in Nat /\ Len(q) = 1 + Len(m)
          /\ Len(m) > 0 => q[Len(q)] = m[Len(m)]
      <4>1. Side \subseteq Item
        BY DEF Item
      <4>2. m \in Seq(Item) /\ Len(m) \in Nat /\ t.queue \in Seq(Item)
        BY <1>3, <1>4, <4>1, LenProperties
      <4>3. /\ Len(q) = Len(t.queue) + Len(m)
            /\ \A i \in 1..Len(t.queue) + Len(m) :
                 q[i] = IF i <= Len(t.queue) THEN t.queue[i] ELSE m[i - Len(t.queue)]
        BY <3>3, <4>2, ConcatProperties
      <4>4. Len(q) = 1 + Len(m)
        BY <3>6, <4>2, <4>3
      <4>5. ASSUME Len(m) > 0 PROVE q[Len(q)] = m[Len(m)]
        <5>1. PICK a \in Nat : a = Len(t.queue)
          BY <3>6
        <5>2. PICK b \in Nat : b = Len(m) /\ b > 0
          BY <4>2, <4>5
        <5>3. a + b \in 1..a + b /\ ~(a + b <= a) /\ a + b - a = b
          BY <5>1, <5>2
        <5>4. \A i \in 1..a + b : q[i] = IF i <= a THEN t.queue[i] ELSE m[i - a]
          BY <4>3, <5>1, <5>2
        <5>5. q[a + b] = m[b]
          BY <5>3, <5>4
        <5> QED BY <4>3, <5>1, <5>2, <5>5
      <4> QED BY <4>2, <4>4, <4>5
    <3>8. Decides(luck, e) <=> d.outs # <<>>
      BY <1>4, <1>14, <2>1, <3>5 DEF Decides, Last
    <3>9. Last(luck, e) = d /\ Beaten(luck, e) = d.outs[Len(d.outs)]
      BY <1>4, <1>14, <3>5 DEF Last, Beaten
    <3>10. Len(m) > 0 <=> d.outs # <<>>
      BY <3>2, <3>7, EmptySeq
    <3>11. TellsAt(luck, e, r)
      <4>1. Room(d) = 1 /\ (Len(e.queue) > r <=> d.outs # <<>>)
        BY <2>1, <2>5, <3>5, <3>7, <3>10 DEF Room
      <4>2. d.outs # <<>> => e.queue[Len(e.queue)] = Beaten(luck, e)
        BY <3>2, <3>5, <3>7, <3>9, <3>10
      <4>3. r <= Room(Last(luck, e))
        BY <2>1, <3>9, <4>1
      <4> QED BY <3>8, <4>1, <4>2, <4>3 DEF TellsAt
    <3> QED BY <1>4, <1>17, <2>5, <3>3, <3>4, <3>5, <3>11
  <2> QED BY <2>1, <2>4, <2>5
<1>20. CASE p = 1
  <2>1. h = "hash" /\ r = 0 /\ Len(f.played) > 0 /\ d \in Fate
    BY <1>2, <1>3, <1>15, <1>16, <1>20
  <2>2. PICK l : l = Append(t.local, Signature(s, t))
    OBVIOUS
  <2>3. Signature(s, t) \in Hash
    <3>1. Len(f.played) \in 1..Len(f.played)
      BY <1>6, <2>1
    <3>2. PICK n \in 1..Len(f.played) : n = Len(f.played)
      BY <3>1
    <3>3. f.played[n] \in Pairs
      BY <3>2, ObjectFields, ElementOfSeq
    <3> QED BY <1>4, <3>2, <3>3, ObjectFields DEF Signature, Pairs, Side, Hash
  <2>4. l \in Seq(Hash)
    BY <2>2, <2>3, ObjectFields, AppendProperties
  <2> DEFINE e == [t EXCEPT !.local = l]
  <2>5. RunItem(s, h, t, d) = Check(e)
    BY <2>1, <2>2 DEF RunItem, Side
  <2>6. /\ e \in Object /\ e.queue = t.queue /\ e.played = t.played /\ e.phase = t.phase
        /\ e.after = t.after /\ e.result = t.result /\ e.timedOut = t.timedOut
          /\ e.party = t.party
    BY <2>4 DEF Object
  <2> HIDE DEF e
  <2>7. TellsAt(luck, e, r)
    <3>1. /\ Decides(luck, e) <=> Decides(luck, f)
          /\ Beaten(luck, e) = Beaten(luck, f) /\ Last(luck, e) = d
          /\ Ended(e) <=> Ended(f)
      BY <1>4, <1>14, <2>6 DEF Decides, Beaten, Last, Ended
    <3>2. /\ Decides(luck, f) /\ ~Ended(f) => Len(f.queue) > 1
          /\ Len(f.queue) > 1 => Decides(luck, f) /\ f.queue[Len(f.queue)] = Beaten(luck, f)
      BY <1>11, <1>14, <1>20 DEF TellsAt, Room
    <3>3. /\ Len(e.queue) > 0 <=> Len(f.queue) > 1
          /\ Len(e.queue) > 0 => e.queue[Len(e.queue)] = f.queue[Len(f.queue)]
      BY <1>4, <1>7, <1>10, <2>6
    <3> QED BY <2>1, <3>1, <3>2, <3>3 DEF TellsAt, Room
  <2>8. Len(f.queue) > p => Len(e.queue) > r
    BY <1>4, <1>7, <1>20, <2>1, <2>6
  <2>9. Course(luck, s, e, late) /\ (Quits(f) => Quits(e))
    BY <1>3, <1>4, <1>17, <2>6, <2>7, <2>8
  <2> QED BY <2>5, <2>6, <2>9, CheckCourse
<1>21. CASE p = 0
  <2>1. h \in Side /\ r = 0 /\ h \notin {"moves", "endOfTurn", "hash"}
    BY <1>2, <1>3, <1>21 DEF Side
  <2>2. PICK w \in Result \ {"none"} : w = IF h = s THEN "lose" ELSE "win"
    BY DEF Result
  <2> DEFINE e == [t EXCEPT !.result = w, !.after = "finish"]
  <2>3. RunItem(s, h, t, d) = e
    BY <2>1, <2>2 DEF RunItem, Side
  <2>4. /\ e \in Object /\ e.queue = t.queue /\ e.played = t.played /\ e.phase = t.phase
        /\ e.after = "finish" /\ e.result = w /\ e.timedOut = t.timedOut /\ e.party = t.party
    BY DEF Object
  <2> HIDE DEF e
  <2>5. Ended(e) /\ Ends(e) /\ Quits(e)
    BY <1>4, <1>5, <2>4 DEF Ends, Ended, Quits
  <2>6. /\ Decides(luck, f) /\ f.queue[Len(f.queue)] = Beaten(luck, f) /\ 0 <= Room(d)
    BY <1>7, <1>11, <1>21 DEF TellsAt, Room
  <2>7. /\ Decides(luck, e) <=> Decides(luck, f)
        /\ Beaten(luck, e) = Beaten(luck, f) /\ Last(luck, e) = d
    BY <1>4, <1>14, <2>4 DEF Decides, Beaten, Last
  <2>8. Tells(luck, e)
    <3>1. TellsAt(luck, e, r)
      BY <1>4, <1>10, <2>1, <2>4, <2>5, <2>6, <2>7 DEF TellsAt
    <3>2. Agenda(e.queue, r) /\ Len(e.played) <= MaxTurns
      BY <1>3, <1>4, <1>5, <2>4
    <3>3. \A k \in 1..Len(e.played) : k < Len(e.played) \/ e.timedOut \/ e.party # "shut" => luck[k].outs = <<>>
      BY <1>4, <1>12, <2>4
    <3> QED BY <2>4, <3>1, <3>2, <3>3, TellsAtPlace
  <2>9. Outcome(luck, s, e, late)
    <3>1. CASE Len(e.queue) > 0
      <4>1. HasFaint(e.queue)
        BY <1>3, <1>4, <2>1, <2>4, <3>1, ObjectFields, AgendaTells
      <4> QED BY <4>1 DEF Outcome
    <3>2. CASE ~(Len(e.queue) > 0)
      <4>1. Len(e.queue) = L - 1 /\ L >= 1
        BY <1>8, <1>9, <2>4
      <4>2. L = 1
        BY <3>2, <4>1
      <4>3. Len(f.queue) = 1
        BY <1>9, <4>2
      <4>4. Beaten(luck, e) = h
        BY <1>7, <2>6, <2>7, <4>3
      <4>5. h = s \/ h = Other(s)
        BY <2>1, Sides
      <4> QED BY <2>2, <2>4, <2>6, <2>7, <4>4, <4>5 DEF Outcome
    <3> QED BY <3>1, <3>2
  <2> QED BY <2>3, <2>5, <2>8, <2>9 DEF Course
<1> QED BY <1>18, <1>19, <1>20, <1>21

-----------------------------------------------------------------------------
(* What the machines have told each other of it: f is the object of s, g   *)
(* that of its opponent, w what is on its way to s.                        *)

\* With these messages the opponent has said that his battle has a result.
Final(m) == m.type \in {"bye", "forfeit"} \/ (m.type = "hash" /\ ~m.value[3])

\* Behind them he chooses nothing any more.
Closing(f, g, w) ==
  /\ \A i \in 1..Len(w) : Final(w[i]) => Quits(g) /\ \A j \in Actions(w) : j < i
  /\ \A i \in 1..Len(w) : w[i].type = "forfeit" => g.timedOut
  /\ \A n \in 1..Len(f.remote) : ~f.remote[n][3] => Quits(g) /\ Actions(w) = {}

\* Signatures come turn by turn: s has R of M, and those at the places H of what is on its
\* way are for the turns num.
Follow(R, M, H, num, i) ==
  /\ R < num[i] /\ num[i] <= M
  /\ num[i] = R + 1 \/ \E j \in H : j < i /\ num[j] + 1 = num[i]
  /\ \A j \in H : j < i => num[j] < num[i]
InTurn(R, M, H, num) == R <= M /\ \A i \in H : Follow(R, M, H, num, i)

\* The last of them is there or on its way.
UpToDate(R, M, H, num) == R = M \/ \E i \in H : num[i] = M

Hashes(w) == Places("hash", w)
Signatures(f, g, w, broken) ==
  /\ \A n \in 1..Len(f.remote) : f.remote[n] = g.local[n]
  /\ \E num \in [Nat -> Nat] :
       /\ InTurn(Len(f.remote), Len(g.local), Hashes(w), num)
       /\ broken \/ UpToDate(Len(f.remote), Len(g.local), Hashes(w), num)
       /\ \A i \in Hashes(w) : w[i].value = g.local[num[i]]

\* A battle that ended while s waited for an action, or was asking for the party menu, gets
\* none any more.
Alone(f, g, w, broken) ==
  Ended(f) /\ (f.mine # None \/ f.party # "shut") => Actions(w) = {} /\ (broken \/ Quits(g))

Told(f, g, w, broken) == Closing(f, g, w) /\ Signatures(f, g, w, broken) /\ Alone(f, g, w, broken)

\* One more signature is sent.
LEMMA InTurnGrows ==
  ASSUME NEW R \in Nat, NEW M \in Nat, NEW L \in Nat, NEW H, \A i \in H : i \in Nat /\ i <= L,
         NEW num \in [Nat -> Nat], InTurn(R, M, H, num), UpToDate(R, M, H, num)
  PROVE  /\ InTurn(R, M + 1, H \cup {L + 1}, [num EXCEPT ![L + 1] = M + 1])
         /\ UpToDate(R, M + 1, H \cup {L + 1}, [num EXCEPT ![L + 1] = M + 1])
<1>1. PICK J \in Nat : J = L + 1
  OBVIOUS
<1>2. PICK N \in Nat : N = M + 1
  OBVIOUS
<1>3. PICK G : G = H \cup {J}
  OBVIOUS
<1>4. PICK new : new = [num EXCEPT ![J] = N]
  OBVIOUS
<1>5. new \in [Nat -> Nat] /\ new[J] = N /\ \A i \in Nat : i # J => new[i] = num[i]
  BY <1>4
<1>6. \A i \in H : i \in Nat /\ i < J /\ new[i] = num[i] /\ num[i] \in Nat
  BY <1>1, <1>5
<1>7. \A i \in H : Follow(R, M, H, num, i)
  BY DEF InTurn
<1>8. ASSUME NEW i \in H PROVE Follow(R, N, G, new, i)
  <2>1. i < J /\ new[i] = num[i] /\ num[i] \in Nat /\ i \in Nat
    BY <1>6
  <2>2. R < num[i] /\ num[i] <= N
    BY <1>2, <1>7, <2>1 DEF Follow
  <2>3. num[i] = R + 1 \/ \E j \in G : j < i /\ new[j] + 1 = new[i]
    BY <1>3, <1>6, <1>7, <2>1 DEF Follow
  <2>4. ASSUME NEW j \in G, j < i PROVE new[j] < new[i]
    <3>1. j \in H
      BY <1>3, <2>1, <2>4
    <3> QED BY <1>6, <1>7, <2>1, <2>4, <3>1 DEF Follow
  <2> QED BY <2>1, <2>2, <2>3, <2>4 DEF Follow
<1>9. Follow(R, N, G, new, J)
  <2>1. R < N /\ N <= N
    BY <1>2 DEF InTurn
  <2>2. N = R + 1 \/ \E j \in G : j < J /\ new[j] + 1 = N
    BY <1>2, <1>3, <1>6 DEF UpToDate
  <2>3. ASSUME NEW j \in G, j < J PROVE new[j] < N
    <3>1. j \in H
      BY <1>1, <1>3, <2>3
    <3>2. num[j] <= M
      BY <1>7, <3>1 DEF Follow
    <3> QED BY <1>2, <1>6, <3>1, <3>2
  <2> QED BY <1>5, <2>1, <2>2, <2>3 DEF Follow
<1>10. InTurn(R, N, G, new) /\ UpToDate(R, N, G, new)
  <2>1. R <= N
    BY <1>2 DEF InTurn
  <2>2. \A i \in G : Follow(R, N, G, new, i)
    BY <1>3, <1>8, <1>9
  <2>3. \E i \in G : new[i] = N
    BY <1>3, <1>5
  <2> QED BY <2>1, <2>2, <2>3 DEF InTurn, UpToDate
<1> QED BY <1>1, <1>2, <1>3, <1>4, <1>10

\* The places have shifted by one.
Shifted(A, B, num, new) ==
  /\ A \in SUBSET (Nat \ {0}) /\ B \in SUBSET (Nat \ {0}) /\ Follows(A, B)
  /\ \A i \in Nat : new[i] = num[i + 1]

\* The first message is a signature: that of the next turn.
LEMMA InTurnStarts ==
  ASSUME NEW R \in Nat, NEW M \in Nat, NEW A \in SUBSET (Nat \ {0}), 1 \in A,
         NEW num \in [Nat -> Nat], InTurn(R, M, A, num)
  PROVE  num[1] = R + 1 /\ num[1] <= M
<1>1. Follow(R, M, A, num, 1)
  BY DEF InTurn
<1>2. \A j \in A : j \in Nat /\ ~(j < 1)
  OBVIOUS
<1> QED BY <1>1, <1>2 DEF Follow

\* It is taken.
LEMMA InTurnMovesOn ==
  ASSUME NEW R \in Nat, NEW M \in Nat, NEW A, NEW B, NEW num \in [Nat -> Nat], NEW new,
         1 \in A, Shifted(A, B, num, new), InTurn(R, M, A, num)
  PROVE  /\ InTurn(R + 1, M, B, new)
         /\ UpToDate(R, M, A, num) => UpToDate(R + 1, M, B, new)
<1>0. A \in SUBSET (Nat \ {0}) /\ B \in SUBSET (Nat \ {0})
  BY DEF Shifted
<1>1. \A i \in Nat \ {0} : i \in B <=> i + 1 \in A
  BY DEF Shifted, Follows
<1>2. \A i \in A : i = 1 \/ i - 1 \in B
  BY <1>0, <1>1
<1>3. \A i \in A : Follow(R, M, A, num, i)
  BY DEF InTurn
<1>4. num[1] = R + 1 /\ num[1] <= M
  BY <1>0, InTurnStarts
<1>5. \A i \in Nat : new[i] = num[i + 1]
  BY DEF Shifted
<1>6. ASSUME NEW i \in B PROVE Follow(R + 1, M, B, new, i)
  <2>1. i + 1 \in A /\ new[i] = num[i + 1] /\ num[i + 1] \in Nat /\ 1 < i + 1
    BY <1>0, <1>1, <1>5
  <2>2. num[1] < num[i + 1] /\ num[i + 1] <= M
    BY <1>0, <1>3, <2>1 DEF Follow
  <2>3. R + 1 < new[i] /\ new[i] <= M
    BY <1>4, <2>1, <2>2
  <2>4. new[i] = R + 1 + 1 \/ \E j \in B : j < i /\ new[j] + 1 = new[i]
    <3>1. num[i + 1] # R + 1
      BY <1>4, <2>2
    <3>2. PICK j \in A : j < i + 1 /\ num[j] + 1 = num[i + 1]
      BY <1>0, <1>3, <2>1, <3>1 DEF Follow
    <3>3. CASE j = 1
      BY <1>4, <2>1, <3>2, <3>3
    <3>4. CASE j # 1
      <4>1. j - 1 \in B /\ j - 1 \in Nat /\ j - 1 < i /\ new[j - 1] = num[j]
        BY <1>0, <1>2, <1>5, <3>2, <3>4
      <4> QED BY <2>1, <3>2, <4>1
    <3> QED BY <3>3, <3>4
  <2>5. ASSUME NEW j \in B, j < i PROVE new[j] < new[i]
    <3>1. j + 1 \in A /\ j + 1 < i + 1 /\ new[j] = num[j + 1]
      BY <1>0, <1>1, <1>5, <2>5
    <3> QED BY <1>0, <1>3, <2>1, <3>1 DEF Follow
  <2> QED BY <2>3, <2>4, <2>5 DEF Follow
<1>7. UpToDate(R, M, A, num) => UpToDate(R + 1, M, B, new)
  <2> SUFFICES ASSUME UpToDate(R, M, A, num) PROVE R + 1 = M \/ \E i \in B : new[i] = M
    BY DEF UpToDate
  <2>1. R # M
    BY <1>4
  <2>2. CASE \E i \in A : num[i] = M
    <3>1. PICK i \in A : num[i] = M
      BY <2>2
    <3>2. CASE i = 1
      BY <1>4, <3>1, <3>2
    <3>3. CASE i # 1
      <4>1. i - 1 \in B /\ new[i - 1] = num[i]
        BY <1>0, <1>2, <1>5, <3>3
      <4> QED BY <3>1, <4>1
    <3> QED BY <3>2, <3>3
  <2> QED BY <2>1, <2>2 DEF UpToDate
<1>8. InTurn(R + 1, M, B, new)
  BY <1>4, <1>6 DEF InTurn
<1> QED BY <1>7, <1>8

\* The first message is another and is taken.
LEMMA InTurnShifts ==
  ASSUME NEW R \in Nat, NEW M \in Nat, NEW A, NEW B, NEW num \in [Nat -> Nat], NEW new,
         1 \notin A, Shifted(A, B, num, new), InTurn(R, M, A, num)
  PROVE  /\ InTurn(R, M, B, new)
         /\ UpToDate(R, M, A, num) => UpToDate(R, M, B, new)
<1>0. A \in SUBSET (Nat \ {0}) /\ B \in SUBSET (Nat \ {0})
  BY DEF Shifted
<1>1. \A i \in Nat \ {0} : i \in B <=> i + 1 \in A
  BY DEF Shifted, Follows
<1>2. \A i \in A : i - 1 \in B
  BY <1>0, <1>1
<1>3. \A i \in A : Follow(R, M, A, num, i)
  BY DEF InTurn
<1>4. \A i \in Nat : new[i] = num[i + 1]
  BY DEF Shifted
<1>5. ASSUME NEW i \in B PROVE Follow(R, M, B, new, i)
  <2>1. i + 1 \in A /\ new[i] = num[i + 1] /\ num[i + 1] \in Nat
    BY <1>0, <1>1, <1>4
  <2>2. R < new[i] /\ new[i] <= M
    BY <1>0, <1>3, <2>1 DEF Follow
  <2>3. new[i] = R + 1 \/ \E j \in B : j < i /\ new[j] + 1 = new[i]
    <3>1. CASE num[i + 1] = R + 1
      BY <2>1, <3>1
    <3>2. CASE num[i + 1] # R + 1
      <4>1. PICK j \in A : j < i + 1 /\ num[j] + 1 = num[i + 1]
        BY <1>0, <1>3, <2>1, <3>2 DEF Follow
      <4>2. j - 1 \in B /\ j - 1 \in Nat /\ j - 1 < i /\ new[j - 1] = num[j]
        BY <1>0, <1>2, <1>4, <4>1
      <4> QED BY <2>1, <4>1, <4>2
    <3> QED BY <3>1, <3>2
  <2>4. ASSUME NEW j \in B, j < i PROVE new[j] < new[i]
    <3>1. j + 1 \in A /\ j + 1 < i + 1 /\ new[j] = num[j + 1]
      BY <1>0, <1>1, <1>4, <2>4
    <3> QED BY <1>0, <1>3, <2>1, <3>1 DEF Follow
  <2> QED BY <2>2, <2>3, <2>4 DEF Follow
<1>6. UpToDate(R, M, A, num) => UpToDate(R, M, B, new)
  <2> SUFFICES ASSUME UpToDate(R, M, A, num) PROVE R = M \/ \E i \in B : new[i] = M
    BY DEF UpToDate
  <2>1. CASE \E i \in A : num[i] = M
    <3>1. PICK i \in A : num[i] = M
      BY <2>1
    <3>2. i - 1 \in B /\ new[i - 1] = num[i]
      BY <1>0, <1>2, <1>4
    <3> QED BY <3>1, <3>2
  <2> QED BY <2>1 DEF UpToDate
<1>7. InTurn(R, M, B, new)
  BY <1>5 DEF InTurn
<1> QED BY <1>6, <1>7

\* The link breaks, or did: only a beginning of what was on its way arrives.
LEMMA InTurnIsCut ==
  ASSUME NEW R \in Nat, NEW M \in Nat, NEW N \in Nat, M <= N, NEW A \in SUBSET Nat, NEW k \in Nat,
         NEW B, UpTo(A, k, B), NEW num \in [Nat -> Nat], InTurn(R, M, A, num)
  PROVE  InTurn(R, N, B, num)
<1>1. B \subseteq A /\ \A i \in A : i \in B <=> i <= k
  BY DEF UpTo
<1>2. ASSUME NEW i \in B PROVE Follow(R, N, B, num, i)
  <2>1. Follow(R, M, A, num, i) /\ i \in A /\ i \in Nat /\ i <= k /\ num[i] \in Nat
    BY <1>1 DEF InTurn
  <2>2. \A j \in A : j < i => j \in B
    BY <1>1, <2>1
  <2>3. num[i] = R + 1 \/ \E j \in B : j < i /\ num[j] + 1 = num[i]
    BY <2>1, <2>2 DEF Follow
  <2>4. num[i] <= N
    BY <2>1 DEF Follow
  <2> QED BY <1>1, <2>1, <2>3, <2>4 DEF Follow
<1> QED BY <1>2 DEF InTurn

-----------------------------------------------------------------------------
(* Lemmas about what has been told.                                        *)

\* g goes on to be h, and sends m.
Later(g, h)   == (Quits(g) => Quits(h)) /\ (g.timedOut => h.timedOut)
Says(g, h, m) ==
  /\ m.type = "action" => ~Quits(g)
  /\ m.type = "forfeit" => h.timedOut
  /\ Final(m) => Quits(h)
  /\ h.local = IF m.type = "hash" THEN Append(g.local, m.value) ELSE g.local

LEMMA SilentTold ==
  ASSUME NEW f, NEW g, NEW h, NEW w, NEW broken, Told(f, g, w, broken), Later(g, h), h.local = g.local
  PROVE  Told(f, h, w, broken)
<1>1. Closing(f, h, w)
  BY DEF Told, Closing, Later
<1>2. Signatures(f, h, w, broken)
  BY DEF Told, Signatures
<1>3. Alone(f, h, w, broken)
  BY DEF Told, Alone, Later
<1> QED BY <1>1, <1>2, <1>3 DEF Told

LEMMA SpeakingCloses ==
  ASSUME NEW f, NEW g, NEW h, NEW w \in Seq(Message), NEW m \in Message,
         Closing(f, g, w), Later(g, h), Says(g, h, m)
  PROVE  Closing(f, h, Append(w, m))
<1>1. /\ Len(Append(w, m)) = Len(w) + 1 /\ Len(w) \in Nat
      /\ \A i \in 1..Len(w) : Append(w, m)[i] = w[i]
      /\ Append(w, m)[Len(w) + 1] = m
  BY AppendProperties, LenProperties
<1>2. PICK L \in Nat : L = Len(w)
  BY <1>1
<1>3. PICK v : v = Append(w, m)
  OBVIOUS
<1>4. Len(v) = L + 1 /\ v[L + 1] = m /\ \A i \in 1..L : v[i] = w[i]
  BY <1>1, <1>2, <1>3
<1>5. \A i \in 1..L + 1 : i \in 1..L \/ i = L + 1
  OBVIOUS
<1>6. \A j \in Actions(v) : j \in Nat /\ (j \in Actions(w) \/ (j = L + 1 /\ m.type = "action"))
  BY <1>2, <1>4, <1>5 DEF Actions, Places
<1>7. \A j \in Actions(w) : j \in Nat /\ j <= L
  BY <1>2 DEF Actions, Places
<1>8. Quits(g) => \A j \in Actions(v) : j \in Actions(w)
  BY <1>6 DEF Says
<1>9. ASSUME NEW i \in 1..Len(v), Final(v[i])
      PROVE  Quits(h) /\ \A j \in Actions(v) : j < i
  <2>1. CASE i \in 1..L
    <3>1. Quits(g) /\ \A j \in Actions(w) : j < i
      BY <1>2, <1>4, <1>9, <2>1 DEF Closing
    <3> QED BY <1>8, <3>1 DEF Later
  <2>2. CASE i = L + 1
    <3>1. Final(m) /\ m.type # "action"
      BY <1>4, <1>9, <2>2 DEF Final
    <3>2. \A j \in Actions(v) : j \in Nat /\ j <= L
      BY <1>6, <1>7, <3>1
    <3> QED BY <2>2, <3>1, <3>2 DEF Says
  <2> QED BY <1>4, <1>5, <2>1, <2>2
<1>10. ASSUME NEW i \in 1..Len(v), v[i].type = "forfeit" PROVE h.timedOut
  BY <1>2, <1>4, <1>5, <1>10 DEF Closing, Later, Says
<1>11. ASSUME NEW n \in 1..Len(f.remote), ~f.remote[n][3] PROVE Quits(h) /\ Actions(v) = {}
  BY <1>8, <1>11 DEF Closing, Later
<1>12. Closing(f, h, v)
  BY <1>9, <1>10, <1>11 DEF Closing
<1> QED BY <1>3, <1>12

\* The signatures a side has sent stay what they are when one is added.
LEMMA HashesAppended ==
  ASSUME NEW f \in Object, NEW g \in Object, NEW h \in Object, NEW w \in Seq(Message),
         NEW m \in Message, Says(g, h, m), m.type = "hash"
  PROVE  /\ Len(h.local) = Len(g.local) + 1 /\ Len(g.local) \in Nat
         /\ h.local[Len(g.local) + 1] = m.value
         /\ \A n \in 1..Len(g.local) : h.local[n] = g.local[n]
<1>1. m.value \in Hash /\ g.local \in Seq(Hash)
  BY ObjectFields DEF Message
<1> QED BY <1>1, AppendProperties, LenProperties DEF Says

LEMMA HashesAppend ==
  ASSUME NEW w \in Seq(Message), NEW m \in Message
  PROVE  /\ \A i \in Hashes(w) : Append(w, m)[i] = w[i]
         /\ Append(w, m)[Len(w) + 1] = m
         /\ \A i : i \in Hashes(Append(w, m)) <=>
                    i \in Hashes(w) \/ (i = Len(w) + 1 /\ m.type = "hash")
<1>1. PICK t : t = "hash"
  OBVIOUS
<1>2. /\ Append(w, m) \in Seq(Message)
      /\ \A i \in Places(t, w) : Append(w, m)[i] = w[i]
      /\ Append(w, m)[Len(w) + 1] = m
      /\ \A i : i \in Places(t, Append(w, m)) <=>
                 i \in Places(t, w) \/ (i = Len(w) + 1 /\ m.type = t)
  BY PlacesAppend
<1> QED BY <1>1, <1>2 DEF Hashes

LEMMA SpeakingSigns ==
  ASSUME NEW f \in Object, NEW g \in Object, NEW h \in Object, NEW w \in Seq(Message),
         NEW m \in Message, Signatures(f, g, w, FALSE), Says(g, h, m)
  PROVE  Signatures(f, h, Append(w, m), FALSE)
<1>0. PICK v : v = Append(w, m)
  OBVIOUS
<1>1. /\ \A i \in Hashes(w) : v[i] = w[i]
      /\ v[Len(w) + 1] = m
      /\ \A i : i \in Hashes(v) <=> i \in Hashes(w) \/ (i = Len(w) + 1 /\ m.type = "hash")
  <2>1. /\ \A i \in Hashes(w) : Append(w, m)[i] = w[i]
        /\ Append(w, m)[Len(w) + 1] = m
        /\ \A i : i \in Hashes(Append(w, m)) <=> i \in Hashes(w) \/ (i = Len(w) + 1 /\ m.type = "hash")
    BY HashesAppend
  <2> QED BY <1>0, <2>1
<1>2. PICK num \in [Nat -> Nat] : /\ InTurn(Len(f.remote), Len(g.local), Hashes(w), num)
                                  /\ UpToDate(Len(f.remote), Len(g.local), Hashes(w), num)
                                  /\ \A i \in Hashes(w) : w[i].value = g.local[num[i]]
  BY DEF Signatures
<1>3. PICK L \in Nat : L = Len(w) /\ Hashes(w) \in SUBSET (Nat \ {0}) /\ \A i \in Hashes(w) : i <= L
  BY PlacesAre DEF Hashes
<1>4. PICK R \in Nat : R = Len(f.remote)
  BY ObjectFields, LenProperties
<1>5. PICK M \in Nat : M = Len(g.local)
  BY ObjectFields, LenProperties
<1>6. R <= M /\ \A i \in Hashes(w) : R < num[i] /\ num[i] <= M /\ num[i] \in Nat
  BY <1>2, <1>3, <1>4, <1>5 DEF InTurn, Follow
<1>7. CASE m.type # "hash"
  <2>1. Hashes(v) = Hashes(w)
    BY <1>1, <1>7
  <2>2. h.local = g.local
    BY <1>7 DEF Says
  <2>3. \A i \in Hashes(v) : v[i].value = h.local[num[i]]
    BY <1>1, <1>2, <2>1, <2>2
  <2>4. Signatures(f, h, v, FALSE)
    BY <1>2, <2>1, <2>2, <2>3 DEF Signatures
  <2> QED BY <1>0, <2>4
<1>8. CASE m.type = "hash"
  <2>1. Len(h.local) = M + 1 /\ h.local[M + 1] = m.value /\ \A n \in 1..M : h.local[n] = g.local[n]
    BY <1>5, <1>8, HashesAppended
  <2>2. PICK new \in [Nat -> Nat] : /\ InTurn(R, M + 1, Hashes(w) \cup {L + 1}, new)
                                    /\ UpToDate(R, M + 1, Hashes(w) \cup {L + 1}, new)
                                    /\ \A i \in Hashes(w) : new[i] = num[i]
                                    /\ new[L + 1] = M + 1
    <3>1. InTurn(R, M, Hashes(w), num) /\ UpToDate(R, M, Hashes(w), num) /\ \A i \in Hashes(w) : i \in Nat /\ i <= L
      BY <1>2, <1>3, <1>4, <1>5
    <3>2. R \in Nat /\ M \in Nat /\ L \in Nat /\ num \in [Nat -> Nat]
      BY <1>2, <1>3, <1>4, <1>5
    <3>3. PICK new : new = [num EXCEPT ![L + 1] = M + 1]
      OBVIOUS
    <3>4. /\ InTurn(R, M + 1, Hashes(w) \cup {L + 1}, new)
          /\ UpToDate(R, M + 1, Hashes(w) \cup {L + 1}, new)
      BY <3>1, <3>2, <3>3, InTurnGrows
    <3>5. L + 1 \in Nat /\ M + 1 \in Nat /\ \A i \in Hashes(w) : i \in Nat /\ i # L + 1
      BY <3>1, <3>2
    <3>6. /\ new \in [Nat -> Nat] /\ new[L + 1] = M + 1
          /\ \A i \in Hashes(w) : new[i] = num[i]
      BY <3>2, <3>3, <3>5
    <3> QED BY <3>4, <3>6
  <2>3. Hashes(v) = Hashes(w) \cup {L + 1}
    BY <1>1, <1>3, <1>8
  <2>4. ASSUME NEW i \in Hashes(v) PROVE v[i].value = h.local[new[i]]
    <3>1. CASE i \in Hashes(w)
      <4>1. num[i] \in 1..M
        <5>1. R < num[i] /\ num[i] <= M /\ num[i] \in Nat
          BY <1>6, <3>1
        <5>2. PICK j \in Nat : j = num[i]
          BY <5>1
        <5>3. R < j /\ j <= M /\ R \in Nat /\ M \in Nat /\ j \in Nat
          BY <1>4, <1>5, <5>1, <5>2
        <5>4. j \in 1..M
          BY <5>3
        <5> QED BY <5>2, <5>4
      <4>2. v[i].value = g.local[num[i]]
        BY <1>1, <1>2, <3>1
      <4> QED BY <2>1, <2>2, <3>1, <4>1, <4>2
    <3>2. CASE i = L + 1
      BY <1>1, <1>3, <2>1, <2>2, <3>2
    <3> QED BY <2>3, <3>1, <3>2
  <2>5. \A n \in 1..R : f.remote[n] = h.local[n]
    <3>1. \A n \in 1..R : n \in 1..M
      BY <1>6
    <3> QED BY <1>4, <2>1, <3>1 DEF Signatures
  <2>6. /\ InTurn(Len(f.remote), Len(h.local), Hashes(v), new)
        /\ UpToDate(Len(f.remote), Len(h.local), Hashes(v), new)
    BY <1>4, <2>1, <2>2, <2>3
  <2>7. Signatures(f, h, v, FALSE)
    BY <1>4, <2>4, <2>5, <2>6 DEF Signatures
  <2> QED BY <1>0, <2>7
<1> QED BY <1>7, <1>8

\* What is sent over a broken link is lost.
LEMMA LostSigns ==
  ASSUME NEW f \in Object, NEW g \in Object, NEW h \in Object, NEW w \in Seq(Message),
         NEW m \in Message, Signatures(f, g, w, TRUE), Says(g, h, m)
  PROVE  Signatures(f, h, w, TRUE)
<1>1. CASE m.type # "hash"
  <2>1. h.local = g.local
    BY <1>1 DEF Says
  <2> QED BY <2>1 DEF Signatures
<1>2. CASE m.type = "hash"
  <2>1. PICK num \in [Nat -> Nat] : /\ InTurn(Len(f.remote), Len(g.local), Hashes(w), num)
                                    /\ \A i \in Hashes(w) : w[i].value = g.local[num[i]]
    BY DEF Signatures
  <2>2. PICK L \in Nat : L = Len(w) /\ Hashes(w) \in SUBSET Nat /\ \A i \in Hashes(w) : i <= L
    BY PlacesAre DEF Hashes
  <2>3. PICK R \in Nat : R = Len(f.remote)
    BY ObjectFields, LenProperties
  <2>4. PICK M \in Nat : M = Len(g.local)
    BY ObjectFields, LenProperties
  <2>5. Len(h.local) = M + 1 /\ \A n \in 1..M : h.local[n] = g.local[n]
    BY <1>2, <2>4, HashesAppended
  <2>6. R <= M /\ \A i \in Hashes(w) : num[i] \in 1..M
    <3>1. R <= M /\ \A i \in Hashes(w) : R < num[i] /\ num[i] <= M
      BY <2>1, <2>3, <2>4 DEF InTurn, Follow
    <3>2. \A i \in Hashes(w) : num[i] \in Nat
      BY <2>1, <2>2
    <3>3. ASSUME NEW i \in Hashes(w) PROVE num[i] \in 1..M
      <4>1. R < num[i] /\ num[i] <= M /\ num[i] \in Nat
        BY <3>1, <3>2
      <4>2. \A a, b, c \in Nat : a < b /\ b <= c => b \in 1..c
        OBVIOUS
      <4> QED BY <2>3, <2>4, <4>1, <4>2, Zenon
    <3> QED BY <3>1, <3>3
  <2>7. PICK N \in Nat : N = M + 1
    OBVIOUS
  <2>8. UpTo(Hashes(w), L, Hashes(w))
    BY <2>2 DEF UpTo
  <2>9. InTurn(R, N, Hashes(w), num)
    <3>1. PICK H \in SUBSET Nat : H = Hashes(w)
      BY <2>2
    <3>2. InTurn(R, M, H, num) /\ UpTo(H, L, H) /\ M <= N
      <4>1. InTurn(R, M, H, num)
        BY <2>1, <2>3, <2>4, <3>1
      <4>2. UpTo(H, L, H)
        BY <2>8, <3>1
      <4>3. M <= N
        BY <2>4, <2>7
      <4> QED BY <4>1, <4>2, <4>3
    <3>3. InTurn(R, N, H, num)
      BY <2>1, <2>2, <2>3, <2>4, <2>7, <3>1, <3>2, InTurnIsCut
    <3> QED BY <3>1, <3>3
  <2>10. \A i \in Hashes(w) : w[i].value = h.local[num[i]]
    BY <2>1, <2>5, <2>6
  <2>11. \A n \in 1..R : f.remote[n] = h.local[n]
    <3>1. \A n \in 1..R : n \in 1..M
      BY <2>6
    <3> QED BY <2>3, <2>5, <3>1 DEF Signatures
  <2>12. InTurn(Len(f.remote), Len(h.local), Hashes(w), num)
    BY <2>3, <2>5, <2>7, <2>9
  <2> QED BY <2>3, <2>10, <2>11, <2>12 DEF Signatures
<1> QED BY <1>1, <1>2

LEMMA SpeakingTold ==
  ASSUME NEW f \in Object, NEW g \in Object, NEW h \in Object, NEW w \in Seq(Message),
         NEW m \in Message, NEW broken \in BOOLEAN, Told(f, g, w, broken), Later(g, h), Says(g, h, m)
  PROVE  Told(f, h, IF broken THEN w ELSE Append(w, m), broken)
<1>1. CASE broken
  <2>1. Closing(f, h, w)
    BY DEF Told, Closing, Later
  <2>2. Alone(f, h, w, TRUE)
    BY <1>1 DEF Told, Alone
  <2>3. Signatures(f, h, w, TRUE)
    BY <1>1, LostSigns DEF Told
  <2> QED BY <1>1, <2>1, <2>2, <2>3 DEF Told
<1>2. CASE ~broken
  <2>1. Closing(f, h, Append(w, m)) /\ Signatures(f, h, Append(w, m), FALSE)
    BY <1>2, SpeakingCloses, SpeakingSigns DEF Told
  <2>2. ASSUME Ended(f), f.mine # None \/ f.party # "shut"
        PROVE  Actions(Append(w, m)) = {} /\ Quits(h)
    <3>1. Actions(w) = {} /\ Quits(g)
      BY <1>2, <2>2 DEF Told, Alone
    <3>2. m.type # "action"
      BY <3>1 DEF Says
    <3>3. \A i : i \in Actions(Append(w, m)) <=>
                   i \in Actions(w) \/ (i = Len(w) + 1 /\ m.type = "action")
      BY PlacesAppend DEF Actions
    <3> QED BY <3>1, <3>2, <3>3 DEF Later
  <2> QED BY <1>2, <2>1, <2>2 DEF Told, Alone
<1> QED BY <1>1, <1>2

LEMMA Beginning ==
  ASSUME NEW n \in Nat, NEW k \in 0..n
  PROVE  \A i \in Nat : i \in 1..k <=> i \in 1..n /\ i <= k
  OBVIOUS

LEMMA HashesTail ==
  ASSUME NEW w \in Seq(Message), w # <<>>
  PROVE  /\ Tail(w) \in Seq(Message) /\ Head(w) = w[1] /\ Head(w) \in Message
         /\ 1 \in Hashes(w) <=> Head(w).type = "hash"
         /\ \A i \in Nat \ {0} : i \in Hashes(Tail(w)) <=> i + 1 \in Hashes(w)
         /\ \A i \in Hashes(Tail(w)) : Tail(w)[i] = w[i + 1]
<1>1. PICK t : t = "hash"
  OBVIOUS
<1>2. /\ Tail(w) \in Seq(Message) /\ Head(w) = w[1] /\ Head(w) \in Message
      /\ 1 \in Places(t, w) <=> Head(w).type = t
      /\ \A i \in Nat \ {0} : i \in Places(t, Tail(w)) <=> i + 1 \in Places(t, w)
      /\ \A i \in Places(t, Tail(w)) : Tail(w)[i] = w[i + 1]
  BY PlacesTail
<1> QED BY <1>1, <1>2 DEF Hashes

\* f becomes e and takes the first of the messages.
Taking(f, e, m) == e.remote = IF m.type = "hash" THEN Append(f.remote, m.value) ELSE f.remote
Takes(f, e, w)  == w # <<>> /\ Taking(f, e, Head(w))

LEMMA HashTaken ==
  ASSUME NEW f \in Object, NEW e, NEW m \in Message, m.type = "hash", Taking(f, e, m)
  PROVE  /\ Len(e.remote) = Len(f.remote) + 1 /\ Len(f.remote) \in Nat
         /\ e.remote[Len(f.remote) + 1] = m.value
         /\ \A n \in 1..Len(f.remote) : e.remote[n] = f.remote[n]
<1>1. m.value \in Hash /\ f.remote \in Seq(Hash)
  BY ObjectFields DEF Message
<1> QED BY <1>1, AppendProperties, LenProperties DEF Taking

LEMMA HeardCloses ==
  ASSUME NEW f \in Object, NEW g, NEW e \in Object, NEW w \in Seq(Message),
         Closing(f, g, w), Takes(f, e, w)
  PROVE  Closing(e, g, Tail(w))
<1>0. PICK m \in Message : m = Head(w) /\ Taking(f, e, m)
  BY HeadTailProperties DEF Takes
<1>1. /\ Len(Tail(w)) = Len(w) - 1 /\ Len(w) \in Nat /\ Len(w) >= 1
      /\ \A i \in 1..Len(Tail(w)) : Tail(w)[i] = w[i + 1]
      /\ m = w[1]
  BY <1>0, HeadTailProperties, LenProperties, EmptySeq DEF Takes
<1>2. PICK L \in Nat : L + 1 = Len(w)
  <2>1. PICK k \in Nat : k = Len(w) /\ k >= 1
    BY <1>1
  <2>2. k - 1 \in Nat /\ k - 1 + 1 = k
    BY <2>1
  <2> QED BY <2>1, <2>2
<1>3. PICK v : v = Tail(w)
  OBVIOUS
<1>4. Len(v) = L /\ m = w[1] /\ \A i \in 1..L : v[i] = w[i + 1] /\ i + 1 \in 1..L + 1
  BY <1>1, <1>2, <1>3
<1>5. \A j \in Actions(v) : j \in Nat /\ j >= 1 /\ j + 1 \in Actions(w)
  BY <1>2, <1>4 DEF Actions, Places
<1>6. ASSUME NEW i \in 1..Len(v), Final(v[i]) PROVE Quits(g) /\ \A j \in Actions(v) : j < i
  <2>1. i + 1 \in 1..Len(w) /\ Final(w[i + 1]) /\ i \in Nat
    BY <1>2, <1>4, <1>6
  <2>2. Quits(g) /\ \A j \in Actions(w) : j < i + 1
    BY <2>1 DEF Closing
  <2>3. ASSUME NEW j \in Actions(v) PROVE j < i
    <3>1. j \in Nat /\ j + 1 < i + 1
      BY <1>5, <2>2
    <3> QED BY <2>1, <3>1
  <2> QED BY <2>2, <2>3
<1>7. ASSUME NEW i \in 1..Len(v), v[i].type = "forfeit" PROVE g.timedOut
  BY <1>2, <1>4, <1>7 DEF Closing
<1>8. Actions(w) = {} => Actions(v) = {}
  BY <1>5
<1>9. ASSUME NEW n \in 1..Len(e.remote), ~e.remote[n][3] PROVE Quits(g) /\ Actions(v) = {}
  <2>1. CASE m.type # "hash"
    BY <1>0, <1>8, <1>9, <2>1 DEF Closing, Taking
  <2>2. CASE m.type = "hash"
    <3>2. /\ Len(e.remote) = Len(f.remote) + 1 /\ Len(f.remote) \in Nat
          /\ e.remote[Len(f.remote) + 1] = m.value
          /\ \A k \in 1..Len(f.remote) : e.remote[k] = f.remote[k]
      BY <1>0, <2>2, HashTaken
    <3>3. n \in 1..Len(f.remote) \/ n = Len(f.remote) + 1
      BY <3>2
    <3>4. CASE n \in 1..Len(f.remote)
      BY <1>8, <1>9, <3>2, <3>4 DEF Closing
    <3>5. CASE n = Len(f.remote) + 1
      <4>1. Final(w[1]) /\ 1 \in 1..Len(w)
        BY <1>2, <1>4, <1>9, <2>2, <3>2, <3>5 DEF Final
      <4>2. Quits(g) /\ \A j \in Actions(w) : j < 1
        BY <4>1 DEF Closing
      <4>3. \A j \in Actions(v) : FALSE
        BY <1>5, <4>2
      <4> QED BY <4>2, <4>3
    <3> QED BY <3>3, <3>4, <3>5
  <2> QED BY <2>1, <2>2
<1>10. Closing(e, g, v)
  BY <1>6, <1>7, <1>9 DEF Closing
<1> QED BY <1>3, <1>10

LEMMA HeardSigns ==
  ASSUME NEW f \in Object, NEW g \in Object, NEW e \in Object, NEW w \in Seq(Message),
         NEW broken \in BOOLEAN, Signatures(f, g, w, broken), Takes(f, e, w)
  PROVE  Signatures(e, g, Tail(w), broken)
<1>0. PICK m \in Message : m = Head(w) /\ Taking(f, e, m)
  BY HeadTailProperties DEF Takes
<1>1. PICK num \in [Nat -> Nat] : /\ InTurn(Len(f.remote), Len(g.local), Hashes(w), num)
                                  /\ broken \/ UpToDate(Len(f.remote), Len(g.local), Hashes(w), num)
                                  /\ \A i \in Hashes(w) : w[i].value = g.local[num[i]]
  BY DEF Signatures
<1>2. PICK R \in Nat : R = Len(f.remote)
  BY ObjectFields, LenProperties
<1>3. m.type = "hash" => /\ Len(e.remote) = R + 1 /\ e.remote[R + 1] = m.value
                         /\ \A n \in 1..R : e.remote[n] = f.remote[n]
  BY <1>0, <1>2, HashTaken
<1>4. PICK M \in Nat : M = Len(g.local)
  BY ObjectFields, LenProperties
<1>5. PICK A \in SUBSET (Nat \ {0}) : A = Hashes(w)
  BY PlacesAre DEF Hashes
<1>6. PICK v \in Seq(Message) : v = Tail(w)
  BY HashesTail DEF Takes
<1>7. PICK B \in SUBSET (Nat \ {0}) : B = Hashes(v)
  BY <1>6, PlacesAre DEF Hashes
<1>8. /\ m = w[1] /\ (1 \in A <=> m.type = "hash")
      /\ \A i \in Nat \ {0} : i \in B <=> i + 1 \in A
      /\ \A i \in B : v[i] = w[i + 1]
  BY <1>0, <1>5, <1>6, <1>7, HashesTail DEF Takes
<1>9. Follows(A, B) /\ InTurn(R, M, A, num)
  BY <1>1, <1>2, <1>4, <1>5, <1>8 DEF Follows
<1>10. broken \/ UpToDate(R, M, A, num)
  BY <1>1, <1>2, <1>4, <1>5
<1>11. /\ R \in Nat /\ M \in Nat /\ A \in SUBSET (Nat \ {0}) /\ B \in SUBSET (Nat \ {0})
       /\ num \in [Nat -> Nat]
  BY <1>1, <1>2, <1>4, <1>5, <1>7
<1>12. PICK new : new = [i \in Nat |-> num[i + 1]]
  OBVIOUS
<1>13. new \in [Nat -> Nat] /\ \A i \in Nat : new[i] = num[i + 1]
  <2>1. num \in [Nat -> Nat]
    BY <1>1
  <2>2. \A i \in Nat : i + 1 \in Nat
    OBVIOUS
  <2>3. \A i \in Nat : num[i + 1] \in Nat
    BY <2>1, <2>2
  <2> QED BY <1>12, <2>3
<1>14. Shifted(A, B, num, new)
  BY <1>9, <1>11, <1>13 DEF Shifted
<1>15. \A i \in B : v[i].value = g.local[new[i]]
  <2>1. ASSUME NEW i \in B PROVE v[i].value = g.local[new[i]]
    <3>1. i \in Nat /\ i + 1 \in A /\ v[i] = w[i + 1] /\ new[i] = num[i + 1]
      BY <1>7, <1>8, <1>13
    <3> QED BY <1>1, <1>5, <3>1
  <2> QED BY <2>1
<1>16. CASE m.type # "hash"
  <2>0. 1 \notin A
    BY <1>8, <1>16
  <2>1. InTurn(R, M, B, new) /\ (UpToDate(R, M, A, num) => UpToDate(R, M, B, new))
    BY <1>9, <1>11, <1>14, <2>0, InTurnShifts
  <2>2. e.remote = f.remote
    BY <1>0, <1>16 DEF Taking
  <2>3. Signatures(e, g, v, broken)
    BY <1>2, <1>4, <1>7, <1>13, <1>15, <1>10, <2>1, <2>2 DEF Signatures
  <2> QED BY <1>6, <2>3
<1>17. CASE m.type = "hash"
  <2>1. /\ num[1] = R + 1 /\ num[1] <= M /\ InTurn(R + 1, M, B, new)
        /\ UpToDate(R, M, A, num) => UpToDate(R + 1, M, B, new)
    <3>1. 1 \in A
      BY <1>8, <1>17
    <3>2. num[1] = R + 1 /\ num[1] <= M
      BY <1>9, <1>11, <3>1, InTurnStarts
    <3>3. InTurn(R + 1, M, B, new) /\ (UpToDate(R, M, A, num) => UpToDate(R + 1, M, B, new))
      BY <1>9, <1>11, <1>14, <3>1, InTurnMovesOn
    <3> QED BY <3>2, <3>3
  <2>3. /\ Len(e.remote) = R + 1 /\ e.remote[R + 1] = m.value
        /\ \A n \in 1..R : e.remote[n] = f.remote[n]
    BY <1>17, <1>3
  <2>4. m.value = g.local[R + 1]
    BY <1>1, <1>5, <1>8, <1>17, <2>1
  <2>5. \A n \in 1..R : f.remote[n] = g.local[n]
    BY <1>2 DEF Signatures
  <2>6. \A n \in 1..R + 1 : e.remote[n] = g.local[n]
    <3>0. R \in Nat
      BY <1>11
    <3>1. \A n \in 1..R + 1 : n \in 1..R \/ n = R + 1
      BY <3>0
    <3> QED BY <2>3, <2>4, <2>5, <3>1
  <2>7. /\ InTurn(Len(e.remote), Len(g.local), Hashes(v), new)
        /\ broken \/ UpToDate(Len(e.remote), Len(g.local), Hashes(v), new)
    BY <1>4, <1>7, <1>10, <2>1, <2>3
  <2>8. Signatures(e, g, v, broken)
    BY <1>7, <1>13, <1>15, <2>3, <2>6, <2>7 DEF Signatures
  <2> QED BY <1>6, <2>8
<1> QED BY <1>16, <1>17

\* The link breaks.
LEMMA CutTold ==
  ASSUME NEW f \in Object, NEW g \in Object, NEW w \in Seq(Message), NEW broken \in BOOLEAN,
         NEW k \in 0..Len(w), Told(f, g, w, broken)
  PROVE  Told(f, g, SubSeq(w, 1, k), TRUE)
<1>1. PICK v : v = SubSeq(w, 1, k)
  OBVIOUS
<1>2. PICK L \in Nat : L = Len(w)
  BY LenProperties
<1>3. Len(v) = k /\ k \in Nat /\ \A i \in 1..k : v[i] = w[i] /\ i \in 1..L
  BY <1>1, <1>2, SubSeqProperties
<1>4. \A i \in Actions(v) : i \in Actions(w)
  BY <1>2, <1>3 DEF Actions, Places
<1>5. Closing(f, g, v)
  <2>1. ASSUME NEW i \in 1..Len(v), Final(v[i]) PROVE Quits(g) /\ \A j \in Actions(v) : j < i
    BY <1>2, <1>3, <1>4, <2>1 DEF Told, Closing
  <2>2. ASSUME NEW i \in 1..Len(v), v[i].type = "forfeit" PROVE g.timedOut
    BY <1>2, <1>3, <2>2 DEF Told, Closing
  <2>3. ASSUME NEW n \in 1..Len(f.remote), ~f.remote[n][3] PROVE Quits(g) /\ Actions(v) = {}
    BY <1>4, <2>3 DEF Told, Closing
  <2> QED BY <2>1, <2>2, <2>3 DEF Closing
<1>6. Alone(f, g, v, TRUE)
  BY <1>4 DEF Told, Alone
<1>7. Signatures(f, g, v, TRUE)
  <2>1. PICK num \in [Nat -> Nat] : /\ InTurn(Len(f.remote), Len(g.local), Hashes(w), num)
                                    /\ \A i \in Hashes(w) : w[i].value = g.local[num[i]]
    BY DEF Told, Signatures
  <2>2. PICK R \in Nat : R = Len(f.remote)
    BY ObjectFields, LenProperties
  <2>3. PICK M \in Nat : M = Len(g.local)
    BY ObjectFields, LenProperties
  <2>4. PICK A \in SUBSET Nat : A = Hashes(w)
    BY PlacesAre DEF Hashes
  <2>5. PICK B : B = Hashes(v)
    OBVIOUS
  <2>6. \A i \in Nat : i \in 1..k <=> i \in 1..L /\ i <= k
    <3>1. k \in 0..L
      BY <1>2
    <3> QED BY <1>2, <3>1, Beginning
  <2>7. \A i \in B : i \in A /\ v[i] = w[i]
    BY <1>2, <1>3, <2>4, <2>5 DEF Hashes, Places
  <2>8. UpTo(A, k, B)
    BY <1>2, <1>3, <2>4, <2>5, <2>6, <2>7 DEF UpTo, Hashes, Places
  <2>9. InTurn(R, M, A, num) /\ M <= M
    BY <2>1, <2>2, <2>3, <2>4 DEF InTurn
  <2>10. InTurn(R, M, B, num)
    <3>1. /\ R \in Nat /\ M \in Nat /\ A \in SUBSET Nat /\ k \in Nat
          /\ num \in [Nat -> Nat]
      BY <1>3, <2>1, <2>2, <2>3, <2>4
    <3> QED BY <2>8, <2>9, <3>1, InTurnIsCut
  <2>11. \A i \in B : v[i].value = g.local[num[i]]
    BY <2>1, <2>4, <2>7
  <2> QED BY <2>1, <2>2, <2>3, <2>5, <2>10, <2>11 DEF Told, Signatures
<1> QED BY <1>1, <1>5, <1>6, <1>7 DEF Told

\* A comparison that fails is told by the opponent: he had a result before he played the
\* turn, and chooses nothing any more.
LEMMA MismatchEnds ==
  ASSUME LinkInv, ListsStay, NEW s \in Side, ~Ended(side[s]),
         NEW t \in Object, t.local = side[s].local, t.result = side[s].result,
         NEW w, NEW broken, Closing(t, side[Other(s)], w), Signatures(t, side[Other(s)], w, broken),
         Ended(Check(t))
  PROVE  Quits(side[Other(s)]) /\ Actions(w) = {}
<1>1. PICK o \in Side : o = Other(s)
  BY Sides
<1>2. PICK n \in Nat : n = t.checked + 1
  BY ObjectFields
<1>3. ~(n > Len(t.local)) /\ ~(n > Len(t.remote)) /\ t.local[n] # t.remote[n]
  <2>1. ~Ended(t) /\ ~Ended([t EXCEPT !.checked = n])
    BY DEF Ended, Object
  <2> QED BY <1>2, <2>1 DEF Check
<1>4. side[s] \in Object /\ side[o] \in Object
  BY DEF LinkInv, Typed
<1>5. PICK R \in Nat : R = Len(t.remote)
  BY ObjectFields, LenProperties
<1>6. PICK M \in Nat : M = Len(side[o].local)
  BY <1>4, ObjectFields, LenProperties
<1>7. PICK L \in Nat : L = Len(t.local)
  BY ObjectFields, LenProperties
<1>8. n \in 1..R /\ n \in 1..M /\ n \in 1..L
  <2>1. R <= M
    BY <1>1, <1>5, <1>6 DEF Signatures, InTurn
  <2>2. n >= 1
    BY <1>2, ObjectFields
  <2> QED BY <1>2, <1>3, <1>5, <1>6, <1>7, <2>1, <2>2
<1>9. n \in DOMAIN side[s].local /\ n \in DOMAIN side[o].local
  BY <1>4, <1>6, <1>7, <1>8, ObjectFields, LenProperties
<1>10. t.remote[n] = side[o].local[n]
  BY <1>1, <1>5, <1>8 DEF Signatures
<1>11. PICK a \in Hash : /\ a = side[s].local[n] /\ n \in DOMAIN side[s].played
                         /\ a[1] = side[s].played[n]["host"]
                         /\ a[2] = side[s].played[n]["guest"] /\ a[3]
  BY <1>9, SignedTurns DEF Ended
<1>12. PICK b \in Hash : /\ b = side[o].local[n] /\ n \in DOMAIN side[o].played
                         /\ b[1] = side[o].played[n]["host"]
                         /\ b[2] = side[o].played[n]["guest"]
  BY <1>9, SignedTurns
<1>13. side[s].played[n] = side[o].played[n]
  <2>1. (s = "host" /\ o = "guest") \/ (s = "guest" /\ o = "host")
    BY <1>1 DEF Side, Other
  <2> QED BY <1>11, <1>12, <2>1, InStep DEF SameTurns
<1>14. ~b[3]
  <2>1. a # b
    BY <1>3, <1>10, <1>11, <1>12
  <2>2. a[1] = b[1] /\ a[2] = b[2]
    BY <1>11, <1>12, <1>13
  <2>3. a = <<a[1], a[2], a[3]>> /\ b = <<b[1], b[2], b[3]>> /\ a[3] \in BOOLEAN /\ b[3] \in BOOLEAN
    BY DEF Hash
  <2>4. a[3] # b[3]
    BY <2>1, <2>2, <2>3
  <2> QED BY <1>11, <2>3, <2>4
<1> QED BY <1>1, <1>5, <1>8, <1>10, <1>12, <1>14 DEF Closing

-----------------------------------------------------------------------------
(* The invariant of the end.                                               *)

OnCourse ==
  /\ fate \in [1..MaxTurns -> Fates]
  /\ \A s \in Side : /\ Course(fate, s, side[s], side[Other(s)].timedOut)
                     /\ Told(side[s], side[Other(s)], wire[s], cut)

\* The link is broken, s has sent somebody out in a battle that had its result and plays on,
\* and the opponent waits for an action that does not arrive.
Astray(f)      == f.result \in {"draw", "lose"} /\ ~HasFaint(f.queue)
Stranded(g, v) == g.mine # None /\ g.result # "lose" /\ Actions(v) = {}
Parted(s)      == cut /\ Astray(side[s]) /\ Stranded(side[Other(s)], wire[Other(s)])

EndInv == OnCourse \/ \E s \in Side : Parted(s)

\* What the steps find.
LEMMA EndNow ==
  ASSUME LinkInv, OnCourse, NEW s \in Side
  PROVE  /\ side[s] \in Object /\ side[Other(s)] \in Object /\ Other(s) \in Side
         /\ wire[s] \in Seq(Message) /\ wire[Other(s)] \in Seq(Message) /\ cut \in BOOLEAN
         /\ fate \in [1..MaxTurns -> Fates] /\ Sound(side[s])
         /\ Course(fate, s, side[s], side[Other(s)].timedOut)
         /\ Course(fate, Other(s), side[Other(s)], side[s].timedOut)
         /\ Told(side[s], side[Other(s)], wire[s], cut)
         /\ Told(side[Other(s)], side[s], wire[Other(s)], cut)
<1>1. Other(s) \in Side /\ Other(Other(s)) = s
  BY Sides
<1> QED BY <1>1 DEF LinkInv, Typed, OnCourse

\* s becomes e, and what the two have told each other is true.
LEMMA EndStep ==
  ASSUME LinkInv, OnCourse, NEW s \in Side, NEW e \in Object, Later(side[s], e),
         Course(fate, s, e, side[Other(s)].timedOut), NEW w, NEW v,
         Told(e, side[Other(s)], w, cut), Told(side[Other(s)], e, v, cut),
         side' = [side EXCEPT ![s] = e],
         wire' = [p \in Side |-> IF p = s THEN w ELSE v], UNCHANGED <<fate, cut>>
  PROVE  OnCourse'
<1>1. Other(s) \in Side /\ Other(s) # s /\ Other(Other(s)) = s /\ Side = {s, Other(s)}
  BY Sides
<1>2. side \in [Side -> Object]
  BY DEF LinkInv, Typed
<1>3. side'[s] = e /\ side'[Other(s)] = side[Other(s)]
  BY <1>1, <1>2
<1>4. wire'[s] = w /\ wire'[Other(s)] = v
  BY <1>1
<1>5. Course(fate, Other(s), side[Other(s)], e.timedOut)
  <2>1. /\ side[Other(s)] \in Object
        /\ Course(fate, Other(s), side[Other(s)], side[s].timedOut)
    BY EndNow
  <2>2. side[s].timedOut => e.timedOut
    BY DEF Later
  <2> QED BY <1>1, <2>1, <2>2, LateIsLate
<1>6. /\ Course(fate, s, side'[s], side'[Other(s)].timedOut)
      /\ Told(side'[s], side'[Other(s)], wire'[s], cut)
  BY <1>3, <1>4
<1>7. /\ Course(fate, Other(s), side'[Other(s)], side'[s].timedOut)
      /\ Told(side'[Other(s)], side'[s], wire'[Other(s)], cut)
  BY <1>3, <1>4, <1>5
<1>8. ASSUME NEW p \in Side
      PROVE  /\ Course(fate, p, side'[p], side'[Other(p)].timedOut)
             /\ Told(side'[p], side'[Other(p)], wire'[p], cut)
  BY <1>1, <1>6, <1>7
<1>9. fate' = fate /\ cut' = cut /\ fate \in [1..MaxTurns -> Fates]
  BY DEF OnCourse
<1> QED BY <1>8, <1>9 DEF OnCourse

\* The same, with what has to be shown of a step under a name.
Becomes(s, e, w, v) ==
  /\ Later(side[s], e) /\ Course(fate, s, e, side[Other(s)].timedOut)
  /\ Told(e, side[Other(s)], w, cut) /\ Told(side[Other(s)], e, v, cut)
  /\ side' = [side EXCEPT ![s] = e]
  /\ wire' = [p \in Side |-> IF p = s THEN w ELSE v] /\ UNCHANGED <<fate, cut>>

LEMMA EndBecomes ==
  ASSUME LinkInv, OnCourse, NEW s \in Side, NEW e \in Object, NEW w, NEW v, Becomes(s, e, w, v)
  PROVE  OnCourse'
<1>1. /\ Later(side[s], e) /\ Course(fate, s, e, side[Other(s)].timedOut)
      /\ Told(e, side[Other(s)], w, cut) /\ Told(side[Other(s)], e, v, cut)
      /\ side' = [side EXCEPT ![s] = e]
      /\ wire' = [p \in Side |-> IF p = s THEN w ELSE v] /\ UNCHANGED <<fate, cut>>
  BY DEF Becomes
<1> QED BY <1>1, EndStep, ZenonT(60)


\* s becomes e and says at most one thing.
LEMMA BecomeEnds ==
  ASSUME LinkInv, OnCourse, NEW s \in Side, NEW e \in Object, Later(side[s], e),
         Course(fate, s, e, side[Other(s)].timedOut), e.remote = side[s].remote,
         Alone(e, side[Other(s)], wire[s], cut), NEW out, Become(s, e, out),
         \/ out = <<>> /\ e.local = side[s].local
         \/ \E m \in Message : out = <<m>> /\ Says(side[s], e, m)
  PROVE  OnCourse'
<1>1. /\ side[s] \in Object /\ side[Other(s)] \in Object /\ Other(s) \in Side
      /\ wire[Other(s)] \in Seq(Message) /\ cut \in BOOLEAN
      /\ Told(side[s], side[Other(s)], wire[s], cut)
      /\ Told(side[Other(s)], side[s], wire[Other(s)], cut)
  BY EndNow
<1>2. Told(e, side[Other(s)], wire[s], cut)
  BY <1>1 DEF Told, Closing, Signatures
<1>3. Typed
  BY DEF LinkInv
<1>4. PICK v : /\ wire' = [p \in Side |-> IF p = s THEN wire[s] ELSE v]
               /\ Told(side[Other(s)], e, v, cut)
  <2>1. CASE out = <<>> /\ e.local = side[s].local
    <3>1. Told(side[Other(s)], e, wire[Other(s)], cut)
      BY <1>1, <2>1, SilentTold
    <3>2. wire' = [p \in Side |-> IF p = s THEN wire[s] ELSE wire[Other(s)]]
      BY <1>3, <2>1, Sends
    <3> QED BY <3>1, <3>2
  <2>2. CASE \E m \in Message : out = <<m>> /\ Says(side[s], e, m)
    <3>1. PICK m \in Message : out = <<m>> /\ Says(side[s], e, m)
      BY <2>2
    <3>2. PICK v : v = IF cut THEN wire[Other(s)] ELSE Append(wire[Other(s)], m)
      OBVIOUS
    <3>3. Told(side[Other(s)], e, v, cut)
      BY <1>1, <3>1, <3>2, SpeakingTold
    <3>4. wire' = [p \in Side |-> IF p = s THEN wire[s] ELSE v]
      <4>1. Become(s, e, <<m>>)
        BY <3>1
      <4>2. wire' = [p \in Side |-> IF p = s THEN wire[s]
                                     ELSE IF cut THEN wire[Other(s)] ELSE Append(wire[Other(s)], m)]
        BY <1>3, <4>1, Sends
      <4> QED BY <3>2, <4>2
    <3> QED BY <3>3, <3>4
  <2> QED BY <2>1, <2>2
<1>5. side' = [side EXCEPT ![s] = e] /\ UNCHANGED <<fate, cut>>
  BY DEF Become
<1>6. /\ LinkInv /\ OnCourse /\ Later(side[s], e)
      /\ Course(fate, s, e, side[Other(s)].timedOut)
  OBVIOUS
<1>7. /\ Told(e, side[Other(s)], wire[s], cut) /\ Told(side[Other(s)], e, v, cut)
      /\ wire' = [p \in Side |-> IF p = s THEN wire[s] ELSE v]
  BY <1>2, <1>4
<1> QED BY ZenonT(60), <1>5, <1>6, <1>7, EndStep

\* What a side becomes is an object.
LEMMA BecomesObject ==
  ASSUME LinkInv, LinkInv', NEW s \in Side, NEW e, side' = [side EXCEPT ![s] = e]
  PROVE  e \in Object
<1>1. side'[s] = e
  BY DEF LinkInv, Typed
<1>2. side'[s] \in Object
  BY DEF LinkInv, Typed
<1> QED BY <1>1, <1>2

\* The same course, when what it is about does not change.
LEMMA SameCourse ==
  ASSUME NEW luck, NEW s, NEW f, NEW e, NEW late, Course(luck, s, f, late), Ends(e),
         e.played = f.played, e.queue = f.queue, e.result = f.result, e.timedOut = f.timedOut,
         e.party \in {f.party, "shut"}
  PROVE  Course(luck, s, e, late)
<1>1. Ended(e) <=> Ended(f)
  BY DEF Ended
<1>2. Tells(luck, f) /\ Outcome(luck, s, f, late)
  BY DEF Course
<1>3. (Decides(luck, e) <=> Decides(luck, f)) /\ Last(luck, e) = Last(luck, f)
      /\ Beaten(luck, e) = Beaten(luck, f)
  BY DEF Decides, Last, Beaten
<1>4. Tells(luck, e)
  BY <1>1, <1>2, <1>3 DEF Tells
<1>5. Outcome(luck, s, e, late)
  BY <1>2, <1>3 DEF Outcome
<1> QED BY <1>4, <1>5 DEF Course

LEMMA CourseKept ==
  ASSUME NEW luck, NEW s, NEW f, NEW e, NEW late, Course(luck, s, f, late),
         e.played = f.played, e.queue = f.queue, e.result = f.result, e.timedOut = f.timedOut,
         e.after = f.after, e.party \in {f.party, "shut"},
         e.phase = f.phase \/ (e.phase # "over" /\ (Ended(f) => e.phase # "menu"))
  PROVE  Course(luck, s, e, late)
<1>1. Ended(e) <=> Ended(f)
  BY DEF Ended
<1>2. Ends(f)
  BY DEF Course
<1>3. CASE e.phase = f.phase
  <2>1. Ends(e)
    BY <1>1, <1>2, <1>3 DEF Ends
  <2> QED BY <2>1, SameCourse
<1>4. CASE e.phase # "over" /\ (Ended(f) => e.phase # "menu")
  <2>1. Ends(e)
    BY <1>1, <1>2, <1>4 DEF Ends
  <2> QED BY <2>1, SameCourse
<1> QED BY <1>3, <1>4

LEMMA CheckFields ==
  ASSUME NEW f \in Object
  PROVE  /\ Check(f).local = f.local /\ Check(f).remote = f.remote /\ Check(f).mine = f.mine
         /\ Check(f).timedOut = f.timedOut /\ Check(f).party = f.party
  BY DEF Check, EndWith, Object

LEMMA ResolveFields ==
  ASSUME NEW s \in Side, NEW f \in Object, f.mine \in Action, f.theirs \in Action
  PROVE  /\ TryResolve(s, f).local = f.local /\ TryResolve(s, f).remote = f.remote
         /\ TryResolve(s, f).mine = None /\ TryResolve(s, f).timedOut = f.timedOut
         /\ TryResolve(s, f).party = f.party
<1>1. PICK g \in Object : g = [f EXCEPT !.mine = None, !.theirs = None]
  BY DEF Object
<1>2. /\ g.local = f.local /\ g.remote = f.remote /\ g.mine = None /\ g.timedOut = f.timedOut
      /\ g.party = f.party
  BY <1>1 DEF Object
<1>3. None \notin {f.mine, f.theirs}
  BY ActionsAreSome
<1>4. PICK p : p = Append(g.played, Pair(s, f))
  OBVIOUS
<1>5. PICK q : q = g.queue \o <<"moves", "endOfTurn", "hash">>
  OBVIOUS
<1>6. \/ TryResolve(s, f) = EndWith(g, "draw")
      \/ TryResolve(s, f) = [g EXCEPT !.phase = "messages", !.after = "linkNext", !.played = p, !.queue = q]
  BY <1>1, <1>3, <1>4, <1>5 DEF TryResolve
<1>7. CASE TryResolve(s, f) = EndWith(g, "draw")
  <2>1. TryResolve(s, f) = [g EXCEPT !.result = "draw", !.after = "finish", !.phase = "messages"]
    BY <1>7 DEF EndWith
  <2> QED BY <1>2, <2>1 DEF Object
<1>8. CASE TryResolve(s, f) = [g EXCEPT !.phase = "messages", !.after = "linkNext", !.played = p, !.queue = q]
  BY <1>2, <1>8 DEF Object
<1> QED BY <1>6, <1>7, <1>8

LEMMA RunItemFields ==
  ASSUME NEW s, NEW t \in Object, NEW d, NEW h \in Item
  PROVE  /\ RunItem(s, h, t, d).remote = t.remote
         /\ h # "hash" => RunItem(s, h, t, d).local = t.local
         /\ h = "hash" => RunItem(s, h, t, d).local = Append(t.local, Signature(s, t))
<1>1. PICK e : e = RunItem(s, h, t, d)
  OBVIOUS
<1>2. CASE h = "moves"
  BY <1>1, <1>2 DEF RunItem, Object
<1>3. CASE h = "endOfTurn"
  BY <1>1, <1>3 DEF RunItem, Object
<1>4. CASE h = "hash"
  <2>1. PICK l : l = Append(t.local, Signature(s, t))
    OBVIOUS
  <2>2. PICK g : g = [t EXCEPT !.local = l]
    OBVIOUS
  <2>3. e = Check(g)
    <3>1. RunItem(s, h, t, d) = Check([t EXCEPT !.local = Append(@, Signature(s, t))])
      BY <1>4 DEF RunItem, Side
    <3> QED BY <1>1, <2>1, <2>2, <3>1
  <2>5. g.local = l /\ g.remote = t.remote
    BY <2>2 DEF Object
  <2>4. Check(g).local = g.local /\ Check(g).remote = g.remote
    BY <2>2 DEF Check, EndWith, Object
  <2> QED BY <1>1, <1>4, <2>1, <2>3, <2>4, <2>5
<1>5. CASE h \in Side
  <2>1. h # "moves" /\ h # "endOfTurn" /\ h # "hash"
    BY <1>5 DEF Side
  <2> QED BY <1>1, <1>5, <2>1 DEF RunItem, Object
<1> QED BY <1>2, <1>3, <1>4, <1>5 DEF Item

-----------------------------------------------------------------------------
(* Each step keeps the invariant of the end.                               *)

\* At the menu no battle has a result, and no turn was decisive.
LEMMA AtMenu ==
  ASSUME NEW luck, NEW s, NEW f \in Object, NEW late, Sound(f), Course(luck, s, f, late),
         f.phase = "menu"
  PROVE  /\ ~Ended(f) /\ f.mine = None /\ f.queue = <<>> /\ ~f.timedOut /\ f.party = "shut"
         /\ \A k \in 1..Len(f.played) : luck[k].outs = <<>>
<1>1. ~Ended(f)
  BY DEF Course, Ends
<1>2. f.mine = None /\ f.queue = <<>> /\ ~f.timedOut /\ f.party = "shut"
  BY <1>1 DEF Sound, Waits
<1>3. ~Decides(luck, f)
  <2>1. Brought(f.queue, Last(luck, f)) /\ ~HasFaint(f.queue)
    BY <1>2 DEF Brought, HasFaint
  <2> QED BY <1>1, <2>1 DEF Course, Tells
<1>4. ASSUME NEW k \in 1..Len(f.played) PROVE luck[k].outs = <<>>
  <2>1. CASE k < Len(f.played)
    BY <2>1 DEF Course, Tells
  <2>2. CASE k = Len(f.played)
    BY <1>3, <2>2, ObjectFields, LenProperties DEF Decides, Last
  <2> QED BY <2>1, <2>2, ObjectFields, LenProperties
<1> QED BY <1>1, <1>2, <1>4

LEMMA ChooseEnds ==
  ASSUME LinkInv, OnCourse, NEW s \in Side, NEW a \in Action, NEW order \in Orders,
         Choose(s, a, order), ~Ended(side[s]) \/ side[s].theirs = None
  PROVE  OnCourse'
<1>1. /\ side[s] \in Object /\ Sound(side[s])
      /\ Course(fate, s, side[s], side[Other(s)].timedOut)
      /\ Alone(side[s], side[Other(s)], wire[s], cut)
  BY EndNow DEF Told
<1>2. /\ side[s].mine = None /\ side[s].queue = <<>> /\ ~side[s].timedOut /\ ~Quits(side[s])
      /\ Ended(side[s]) => side[s].party = "open"
  BY <1>1 DEF Choose, CanChoose, Sound, Waits, Course, Ends, Quits
<1>3. PICK b \in Action : b = Meant(a, order)
  BY MeantIsAction
<1>4. PICK p \in Object : p = Pending(side[s], b)
  BY <1>1 DEF Pending, Object
<1>5. /\ p.played = side[s].played /\ p.queue = side[s].queue /\ p.result = side[s].result
      /\ p.after = side[s].after /\ p.timedOut = side[s].timedOut /\ p.phase = "waitRemote"
      /\ p.mine = b /\ p.theirs = side[s].theirs /\ p.party = "shut"
      /\ p.local = side[s].local /\ p.remote = side[s].remote
  BY <1>1, <1>4 DEF Pending, Object
<1>6. Course(fate, s, p, side[Other(s)].timedOut) /\ (Ended(p) <=> Ended(side[s]))
  BY <1>1, <1>5, CourseKept DEF Ended
<1>7. PICK e : e = TryResolve(s, p)
  OBVIOUS
<1>8. /\ Course(fate, s, e, side[Other(s)].timedOut) /\ e.local = side[s].local
      /\ e.remote = side[s].remote /\ ~e.timedOut
      /\ Alone(e, side[Other(s)], wire[s], cut)
  <2>1. CASE p.theirs = None
    <3>1. e = p
      BY <1>7, <2>1 DEF TryResolve
    <3>2. Alone(e, side[Other(s)], wire[s], cut)
      BY <1>1, <1>2, <1>6, <3>1 DEF Alone
    <3> QED BY <1>2, <1>5, <1>6, <3>1, <3>2
  <2>2. CASE p.theirs # None
    <3>1. /\ p.theirs \in Action /\ p.mine \in Action /\ p.queue = <<>> /\ ~p.timedOut
          /\ ~Ended(p)
      BY <1>2, <1>5, <1>6, <2>2, ObjectFields
    <3>2. Course(fate, s, e, side[Other(s)].timedOut)
      BY <1>5, <1>6, <1>7, <3>1, ResolveCourse
    <3>3. /\ e.local = p.local /\ e.remote = p.remote /\ e.mine = None
          /\ e.timedOut = p.timedOut /\ e.party = p.party
      BY <1>7, <3>1, ResolveFields
    <3>4. Alone(e, side[Other(s)], wire[s], cut)
      BY <1>5, <3>3 DEF Alone
    <3> QED BY <1>5, <3>1, <3>2, <3>3, <3>4
  <2> QED BY <2>1, <2>2
<1>9. PICK m \in Message : m = [type |-> "action", action |-> a]
  BY DEF Message
<1>10. Become(s, e, <<m>>)
  BY <1>3, <1>4, <1>7, <1>9 DEF Choose
<1>11. e \in Object
  <2>1. LinkInv'
    BY ChooseInv
  <2> QED BY <1>10, <2>1, BecomesObject DEF Become
<1>12. Says(side[s], e, m)
  BY <1>2, <1>8, <1>9 DEF Says, Final
<1>13. Later(side[s], e)
  BY <1>2 DEF Later
<1> QED BY <1>8, <1>9, <1>10, <1>11, <1>12, <1>13, BecomeEnds

\* The party menu is asked for, shown or left.
LEMMA OpenPartyEnds ==
  ASSUME LinkInv, OnCourse, NEW s \in Side, OpenParty(s)
  PROVE  OnCourse'
<1>1. /\ side[s] \in Object /\ Sound(side[s])
      /\ Course(fate, s, side[s], side[Other(s)].timedOut)
  BY EndNow
<1>2. /\ ~Ended(side[s]) /\ side[s].queue = <<>> /\ ~side[s].timedOut
      /\ \A k \in 1..Len(side[s].played) : fate[k].outs = <<>>
  BY <1>1, AtMenu DEF OpenParty
<1>3. PICK e \in Object : e = [side[s] EXCEPT !.phase = "messages", !.after = "menu", !.party = "asked"]
  BY <1>1 DEF Object
<1>4. /\ e.phase = "messages" /\ e.after = "menu" /\ e.played = side[s].played
      /\ e.queue = <<>> /\ e.result = side[s].result /\ ~e.timedOut
      /\ e.local = side[s].local /\ e.remote = side[s].remote
  BY <1>1, <1>2, <1>3 DEF Object
<1>5. ~Ended(e) /\ ~Decides(fate, e) /\ ~HasFaint(e.queue) /\ Len(side[s].played) \in Nat
  BY <1>1, <1>2, <1>4, ObjectFields, LenProperties DEF Ended, Decides, Last, HasFaint
<1>6. Course(fate, s, e, side[Other(s)].timedOut)
  <2>1. Ends(e)
    BY <1>4, <1>5 DEF Ends
  <2>2. Tells(fate, e)
    BY <1>2, <1>4, <1>5 DEF Tells
  <2>3. Outcome(fate, s, e, side[Other(s)].timedOut)
    BY <1>5 DEF Outcome, Ended
  <2> QED BY <2>1, <2>2, <2>3 DEF Course
<1>7. Become(s, e, <<>>)
  BY <1>3 DEF OpenParty
<1>8. Later(side[s], e) /\ Alone(e, side[Other(s)], wire[s], cut)
  BY <1>2, <1>5 DEF Later, Alone, Quits
<1> QED BY <1>4, <1>6, <1>7, <1>8, BecomeEnds

LEMMA PartyEnds ==
  ASSUME LinkInv, OnCourse, NEW s \in Side, ShowParty(s) \/ CloseParty(s)
  PROVE  OnCourse'
<1>1. /\ side[s] \in Object /\ Sound(side[s])
      /\ Course(fate, s, side[s], side[Other(s)].timedOut)
      /\ Alone(side[s], side[Other(s)], wire[s], cut)
  BY EndNow DEF Told
<1>2. PICK q \in {"open", "shut"} :
        /\ side[s].party # "shut" /\ (q = "open" => side[s].party = "asked")
        /\ Become(s, [side[s] EXCEPT !.party = q], <<>>)
  BY DEF ShowParty, CloseParty
<1>3. PICK e \in Object : e = [side[s] EXCEPT !.party = q]
  BY <1>1 DEF Object
<1>4. /\ e.phase = side[s].phase /\ e.after = side[s].after /\ e.played = side[s].played
      /\ e.queue = side[s].queue /\ e.result = side[s].result /\ e.timedOut = side[s].timedOut
      /\ e.mine = None /\ e.party = q
      /\ e.local = side[s].local /\ e.remote = side[s].remote
  BY <1>1, <1>2, <1>3 DEF Object, Sound, Waits
<1>5. Course(fate, s, e, side[Other(s)].timedOut)
  <2>1. (Ended(e) <=> Ended(side[s])) /\ (Decides(fate, e) <=> Decides(fate, side[s]))
        /\ Last(fate, e) = Last(fate, side[s]) /\ Beaten(fate, e) = Beaten(fate, side[s])
    BY <1>4 DEF Ended, Decides, Last, Beaten
  <2>2. Ends(e)
    BY <1>1, <1>4, <2>1 DEF Course, Ends
  <2>3. Tells(fate, e)
    BY <1>1, <1>2, <1>4, <2>1 DEF Course, Tells
  <2>4. Outcome(fate, s, e, side[Other(s)].timedOut)
    BY <1>1, <1>4, <2>1 DEF Course, Outcome
  <2> QED BY <2>2, <2>3, <2>4 DEF Course
<1>6. Become(s, e, <<>>)
  BY <1>2, <1>3
<1>7. Later(side[s], e) /\ Alone(e, side[Other(s)], wire[s], cut)
  BY <1>1, <1>2, <1>4 DEF Later, Alone, Quits, Ended
<1> QED BY <1>4, <1>5, <1>6, <1>7, BecomeEnds

LEMMA TimeUpEnds ==
  ASSUME LinkInv, OnCourse, NEW s \in Side, TimeUp(s)
  PROVE  OnCourse'
<1>1. /\ side[s] \in Object /\ Sound(side[s])
      /\ Course(fate, s, side[s], side[Other(s)].timedOut)
  BY EndNow
<1>2. /\ ~Ended(side[s]) /\ side[s].mine = None /\ side[s].queue = <<>> /\ ~side[s].timedOut
      /\ side[s].party = "shut" /\ \A k \in 1..Len(side[s].played) : fate[k].outs = <<>>
  BY <1>1, AtMenu DEF TimeUp
<1>3. PICK h \in Object : h = [side[s] EXCEPT !.timedOut = TRUE]
  BY <1>1 DEF Object
<1>4. /\ h.played = side[s].played /\ h.queue = <<>> /\ h.timedOut /\ h.mine = None
      /\ h.party = "shut"
      /\ h.local = side[s].local /\ h.remote = side[s].remote
  BY <1>1, <1>2, <1>3 DEF Object
<1>5. PICK r \in Result : r = "lose"
  BY DEF Result
<1>6. PICK e \in Object : e = EndWith(h, r)
  BY EndWithFields
<1>7. /\ e.played = side[s].played /\ e.queue = <<>> /\ e.timedOut /\ e.result = "lose"
      /\ e.after = "finish" /\ e.phase = "messages" /\ e.mine = None
      /\ e.party = "shut"
      /\ e.local = side[s].local /\ e.remote = side[s].remote
  BY <1>4, <1>5, <1>6, EndWithFields DEF Same, Alike
<1>8. Course(fate, s, e, side[Other(s)].timedOut)
  <2>1. Ended(e) /\ Ends(e)
    BY <1>7 DEF Ends, Ended
  <2>2. ~HasFaint(e.queue)
    BY <1>7 DEF HasFaint
  <2>3. Tells(fate, e)
    BY <1>2, <1>7, <2>1, <2>2 DEF Tells
  <2>4. Outcome(fate, s, e, side[Other(s)].timedOut)
    BY <1>7 DEF Outcome
  <2> QED BY <2>1, <2>3, <2>4 DEF Course
<1>9. PICK m \in Message : m = [type |-> "forfeit"]
  BY DEF Message
<1>10. Become(s, e, <<m>>)
  BY <1>3, <1>5, <1>6, <1>9 DEF TimeUp
<1>11. Says(side[s], e, m) /\ Later(side[s], e)
  BY <1>2, <1>7, <1>9 DEF Says, Later, Quits, Ended, Final
<1>12. Alone(e, side[Other(s)], wire[s], cut)
  BY <1>7 DEF Alone
<1> QED BY <1>7, <1>8, <1>9, <1>10, <1>11, <1>12, BecomeEnds

\* s has heard the first message and become e.
Hears(s, e) ==
  /\ Later(side[s], e) /\ Course(fate, s, e, side[Other(s)].timedOut)
  /\ e.local = side[s].local /\ Takes(side[s], e, wire[s])
  /\ Alone(e, side[Other(s)], Tail(wire[s]), cut)

LEMMA NoActionsBehind ==
  ASSUME NEW w \in Seq(Message), w # <<>>, \A j \in Actions(w) : j < 1
  PROVE  Actions(w) = {} /\ Actions(Tail(w)) = {}
<1>1. \A j \in Actions(w) : j \in Nat /\ j # 0
  BY ActionsArePlaces
<1>2. Actions(w) = {}
  BY <1>1
<1>3. \A i \in Actions(Tail(w)) : i \in Nat \ {0} /\ i + 1 \in Actions(w)
  BY ActionsTail, ActionsArePlaces
<1> QED BY <1>2, <1>3

LEMMA HearsAction ==
  ASSUME LinkInv, OnCourse, NEW s \in Side, wire[s] # <<>>,
         NEW a \in Action, Head(wire[s]) = [type |-> "action", action |-> a],
         NEW e, e = TryResolve(s, [side[s] EXCEPT !.theirs = a])
  PROVE  Hears(s, e)
<1>1. /\ side[s] \in Object /\ wire[s] \in Seq(Message) /\ Sound(side[s])
      /\ Course(fate, s, side[s], side[Other(s)].timedOut)
      /\ Alone(side[s], side[Other(s)], wire[s], cut)
  BY EndNow DEF Told
<1>2. Head(wire[s]).type = "action"
  OBVIOUS
<1>3. 1 \in Actions(wire[s])
  BY <1>1, <1>2, ActionsTail
<1>4. ~Ended(side[s]) \/ (side[s].mine = None /\ side[s].party = "shut")
  BY <1>1, <1>3 DEF Alone
<1>5. PICK t \in Object : t = [side[s] EXCEPT !.theirs = a]
  BY <1>1 DEF Object
<1>6. /\ t.played = side[s].played /\ t.queue = side[s].queue /\ t.result = side[s].result
      /\ t.after = side[s].after /\ t.timedOut = side[s].timedOut /\ t.phase = side[s].phase
      /\ t.mine = side[s].mine /\ t.theirs = a /\ t.party = side[s].party
      /\ t.local = side[s].local /\ t.remote = side[s].remote
  BY <1>1, <1>5 DEF Object
<1>7. Course(fate, s, t, side[Other(s)].timedOut)
  BY <1>1, <1>6, CourseKept
<1>8. /\ Course(fate, s, e, side[Other(s)].timedOut) /\ Later(side[s], e)
      /\ e.local = side[s].local /\ e.remote = side[s].remote /\ e.mine = None
      /\ Ended(e) => e.party = "shut"
  <2>1. CASE side[s].mine = None
    <3>1. e = t
      BY <1>5, <1>6, <2>1 DEF TryResolve
    <3> QED BY <1>4, <1>6, <1>7, <2>1, <3>1 DEF Later, Ended, Quits
  <2>2. CASE side[s].mine # None
    <3>1. /\ t.mine \in Action /\ t.theirs \in Action /\ t.queue = <<>> /\ ~t.timedOut
          /\ ~Ended(t) /\ ~Ended(side[s]) /\ ~side[s].timedOut /\ t.party = "shut"
      <4>1. side[s].mine \in Action
        BY <1>1, <2>2, ObjectFields
      <4> QED BY <1>1, <1>4, <1>6, <2>2, <4>1 DEF Sound, Waits, Ended
    <3>2. Course(fate, s, e, side[Other(s)].timedOut)
      BY <1>5, <1>7, <3>1, ResolveCourse
    <3>3. e.local = t.local /\ e.remote = t.remote /\ e.mine = None /\ e.party = "shut"
      BY <1>5, <3>1, ResolveFields
    <3> QED BY <1>6, <3>1, <3>2, <3>3 DEF Later, Quits
  <2> QED BY <2>1, <2>2
<1>9. Takes(side[s], e, wire[s])
  BY <1>2, <1>8 DEF Takes, Taking
<1> QED BY <1>8, <1>9 DEF Hears, Alone

LEMMA HearsHash ==
  ASSUME LinkInv, OnCourse, ListsStay, NEW s \in Side, wire[s] # <<>>,
         NEW v \in Hash, Head(wire[s]) = [type |-> "hash", value |-> v],
         NEW e \in Object, e = Check([side[s] EXCEPT !.remote = Append(@, v)])
  PROVE  Hears(s, e)
<1>1. /\ side[s] \in Object /\ side[Other(s)] \in Object /\ wire[s] \in Seq(Message)
      /\ cut \in BOOLEAN /\ Course(fate, s, side[s], side[Other(s)].timedOut)
      /\ Closing(side[s], side[Other(s)], wire[s])
      /\ Signatures(side[s], side[Other(s)], wire[s], cut)
      /\ Alone(side[s], side[Other(s)], wire[s], cut)
  BY EndNow DEF Told
<1>2. Head(wire[s]).type = "hash" /\ Head(wire[s]).value = v
  OBVIOUS
<1>3. PICK r \in Seq(Hash) : r = Append(side[s].remote, v)
  BY <1>1, ObjectFields, AppendProperties
<1>4. PICK t \in Object : t = [side[s] EXCEPT !.remote = r]
  BY <1>1 DEF Object
<1>5. /\ t.played = side[s].played /\ t.queue = side[s].queue /\ t.result = side[s].result
      /\ t.after = side[s].after /\ t.timedOut = side[s].timedOut /\ t.phase = side[s].phase
      /\ t.mine = side[s].mine /\ t.local = side[s].local /\ t.remote = r
      /\ t.party = side[s].party
  BY <1>1, <1>4 DEF Object
<1>6. Course(fate, s, t, side[Other(s)].timedOut)
  BY <1>1, <1>5, CourseKept
<1>7. e = Check(t)
  BY <1>3, <1>4
<1>8. Course(fate, s, e, side[Other(s)].timedOut) /\ (Quits(t) => Quits(e))
  BY <1>6, <1>7, CheckCourse
<1>9. e.local = t.local /\ e.remote = t.remote /\ e.mine = t.mine /\ e.timedOut = t.timedOut
      /\ e.party = t.party
  BY <1>7, CheckFields
<1>10. Takes(side[s], t, wire[s]) /\ Takes(side[s], e, wire[s])
  BY <1>2, <1>3, <1>5, <1>9 DEF Takes, Taking
<1>11. Later(side[s], e)
  BY <1>5, <1>8, <1>9 DEF Later, Quits, Ended
<1>12. ASSUME Ended(e), e.mine # None \/ e.party # "shut"
       PROVE  Actions(Tail(wire[s])) = {} /\ (cut \/ Quits(side[Other(s)]))
  <2>1. CASE Ended(side[s])
    <3>1. Actions(wire[s]) = {} /\ (cut \/ Quits(side[Other(s)]))
      BY <1>1, <1>5, <1>9, <1>12, <2>1 DEF Alone
    <3> QED BY <1>1, <3>1, NoActionsBehind
  <2>2. CASE ~Ended(side[s])
    <3>1. Closing(t, side[Other(s)], Tail(wire[s]))
      BY <1>1, <1>10, HeardCloses
    <3>2. Signatures(t, side[Other(s)], Tail(wire[s]), cut)
      BY <1>1, <1>10, HeardSigns
    <3>3. Ended(Check(t)) /\ t.local = side[s].local /\ t.result = side[s].result
      BY <1>5, <1>7, <1>12
    <3> QED BY <2>2, <3>1, <3>2, <3>3, MismatchEnds
  <2> QED BY <2>1, <2>2
<1> QED BY <1>5, <1>8, <1>9, <1>10, <1>11, <1>12 DEF Hears, Alone

LEMMA HearsEnd ==
  ASSUME LinkInv, OnCourse, NEW s \in Side, wire[s] # <<>>,
         NEW m, m = Head(wire[s]), NEW r \in Result \ {"none"},
         \/ m.type = "bye" /\ r = "draw"
         \/ m.type = "forfeit" /\ r = "win",
         NEW e, e = IfOpen(side[s], r)
  PROVE  Hears(s, e)
<1>1. /\ side[s] \in Object /\ wire[s] \in Seq(Message)
      /\ Course(fate, s, side[s], side[Other(s)].timedOut)
      /\ Closing(side[s], side[Other(s)], wire[s])
  BY EndNow DEF Told
<1>2. m = wire[s][1] /\ 1 \in 1..Len(wire[s])
  BY <1>1, HeadTailProperties, LenProperties, EmptySeq
<1>3. Final(m)
  BY DEF Final
<1>4. Quits(side[Other(s)]) /\ \A j \in Actions(wire[s]) : j < 1
  BY <1>1, <1>2, <1>3 DEF Closing
<1>5. m.type = "forfeit" => side[Other(s)].timedOut
  BY <1>1, <1>2 DEF Closing
<1>6. Actions(Tail(wire[s])) = {}
  BY <1>1, <1>4, NoActionsBehind
<1>7. Alone(e, side[Other(s)], Tail(wire[s]), cut)
  BY <1>4, <1>6 DEF Alone
<1>8. m.type # "hash"
  OBVIOUS
<1>9. CASE Ended(side[s])
  <2>1. e = side[s]
    BY <1>9 DEF IfOpen, Ended
  <2>2. Later(side[s], e) /\ Takes(side[s], e, wire[s])
    BY <1>8, <2>1 DEF Later, Takes, Taking
  <2> QED BY <1>1, <1>7, <2>1, <2>2 DEF Hears
<1>10. CASE ~Ended(side[s])
  <2>1. e = EndWith(side[s], r)
    BY <1>10 DEF IfOpen, Ended
  <2>2. ~side[s].timedOut
    BY <1>1, <1>10 DEF Course, Ends, Ended
  <2>3. Course(fate, s, e, side[Other(s)].timedOut)
    BY <1>1, <1>5, <2>1, <2>2, EndCourse
  <2>4. r \in Result
    OBVIOUS
  <2>5. e.local = side[s].local /\ e.remote = side[s].remote
    BY <1>1, <2>1, <2>4, EndWithFields
  <2>6. Later(side[s], e) /\ Takes(side[s], e, wire[s])
    BY <1>8, <1>10, <2>2, <2>5 DEF Later, Quits, Takes, Taking
  <2> QED BY <1>7, <2>3, <2>5, <2>6 DEF Hears
<1> QED BY <1>9, <1>10

LEMMA ReceiveEnds ==
  ASSUME LinkInv, OnCourse, ListsStay, NEW s \in Side, Receive(s)
  PROVE  OnCourse'
<1>1. /\ side[s] \in Object /\ side[Other(s)] \in Object /\ Other(s) \in Side
      /\ wire[s] \in Seq(Message) /\ wire[Other(s)] \in Seq(Message) /\ cut \in BOOLEAN
      /\ Told(side[s], side[Other(s)], wire[s], cut)
      /\ Told(side[Other(s)], side[s], wire[Other(s)], cut)
  BY EndNow
<1>2. wire[s] # <<>>
  BY DEF Receive
<1>3. PICK m \in Message : m = Head(wire[s])
  BY <1>1, <1>2, HeadTailProperties
<1>4. PICK e : e = Heard(s, side[s], m)
  OBVIOUS
<1>5. side' = [side EXCEPT ![s] = e] /\ UNCHANGED <<fate, cut>>
  BY <1>3, <1>4 DEF Receive
<1>6. e \in Object
  <2>1. LinkInv'
    BY ReceiveInv
  <2> QED BY <1>5, <2>1, BecomesObject
<1>7. Hears(s, e)
  <2>1. CASE m.type = "action"
    <3>1. PICK a \in Action : m = [type |-> "action", action |-> a]
      BY <2>1 DEF Message
    <3>2. e = TryResolve(s, [side[s] EXCEPT !.theirs = a])
      BY <1>4, <3>1 DEF Heard
    <3> QED BY <1>2, <1>3, <3>1, <3>2, HearsAction
  <2>2. CASE m.type = "hash"
    <3>1. PICK v \in Hash : m = [type |-> "hash", value |-> v]
      BY <2>2 DEF Message
    <3>2. e = Check([side[s] EXCEPT !.remote = Append(@, v)])
      BY <1>4, <3>1 DEF Heard
    <3> QED BY <1>2, <1>3, <1>6, <3>1, <3>2, HearsHash
  <2>3. CASE m.type = "bye"
    <3>1. PICK r \in Result \ {"none"} : r = "draw"
      BY DEF Result
    <3>2. e = IfOpen(side[s], r)
      BY <1>4, <2>3, <3>1 DEF Heard
    <3> QED BY <1>2, <1>3, <2>3, <3>1, <3>2, HearsEnd
  <2>4. CASE m.type = "forfeit"
    <3>1. PICK r \in Result \ {"none"} : r = "win"
      BY DEF Result
    <3>2. e = IfOpen(side[s], r)
      BY <1>4, <2>4, <3>1 DEF Heard
    <3> QED BY <1>2, <1>3, <2>4, <3>1, <3>2, HearsEnd
  <2>5. m.type \in {"action", "hash", "bye", "forfeit"}
    BY DEF Message
  <2> QED BY <2>1, <2>2, <2>3, <2>4, <2>5
<1>8. PICK w : w = Tail(wire[s])
  OBVIOUS
<1>9. Told(e, side[Other(s)], w, cut)
  <2>1. Closing(e, side[Other(s)], w)
    BY <1>1, <1>6, <1>7, <1>8, HeardCloses DEF Told, Hears
  <2>2. Signatures(e, side[Other(s)], w, cut)
    BY <1>1, <1>6, <1>7, <1>8, HeardSigns DEF Told, Hears
  <2> QED BY <1>7, <1>8, <2>1, <2>2 DEF Told, Hears
<1>10. Told(side[Other(s)], e, wire[Other(s)], cut)
  BY <1>1, <1>7, SilentTold DEF Hears
<1>11. wire' = [p \in Side |-> IF p = s THEN w ELSE wire[Other(s)]]
  <2>1. wire' = [wire EXCEPT ![s] = w]
    BY <1>8 DEF Receive
  <2>2. Other(s) \in Side /\ Other(s) # s /\ Side = {s, Other(s)}
    BY Sides
  <2>3. wire \in [Side -> Seq(Message)]
    BY DEF LinkInv, Typed
  <2> QED BY <2>1, <2>2, <2>3
<1>12. Later(side[s], e) /\ Course(fate, s, e, side[Other(s)].timedOut)
  BY <1>7 DEF Hears
<1>13. Becomes(s, e, w, wire[Other(s)])
  BY <1>5, <1>9, <1>10, <1>11, <1>12 DEF Becomes
<1> QED BY <1>6, <1>13, EndBecomes

\* A signature that says the moves were not executed says that the battle has a result.
LEMMA SignatureSays ==
  ASSUME NEW s, NEW f \in Object, Sound(f), f.queue # <<>>, Head(f.queue) = "hash",
         NEW t, t.played = f.played, t.ran = f.ran
  PROVE  Signature(s, t) \in Hash /\ (~Signature(s, t)[3] => Ended(f))
<1>1. PICK p \in 0..3 : Agenda(f.queue, p) /\ Signed(f, p)
  BY DEF Sound
<1>2. PICK r \in 0..3 : r = IF p = 0 THEN 0 ELSE p - 1
  OBVIOUS
<1>3. p = 1
  <2>1. /\ p = 0 => Head(f.queue) \in Side
        /\ p = 2 => Head(f.queue) = "endOfTurn"
        /\ p = 3 => Head(f.queue) = "moves"
    BY <1>1, <1>2, ObjectFields, AgendaTail
  <2> QED BY <2>1 DEF Side
<1>4. Len(f.played) \in Nat /\ Len(f.local) \in Nat
  BY ObjectFields, LenProperties
<1>5. Len(f.played) > 0
  BY <1>1, <1>3, <1>4 DEF Signed
<1>6. PICK n \in 1..Len(f.played) : n = Len(f.played)
  BY <1>4, <1>5
<1>7. f.played[n] \in Pairs
  BY <1>6, ObjectFields, ElementOfSeq
<1>8. Signature(s, t) = <<f.played[n]["host"], f.played[n]["guest"], f.ran>>
  BY <1>6 DEF Signature
<1>9. Signature(s, t) \in Hash /\ Signature(s, t)[3] = f.ran
  BY <1>7, <1>8, ObjectFields DEF Pairs, Side, Hash
<1>10. ~f.ran => Ended(f)
  BY <1>1, <1>3, <1>5 DEF Signed, Ended
<1> QED BY <1>9, <1>10

LEMMA QueueStepEnds ==
  ASSUME LinkInv, OnCourse, OnePoisoned, NEW s \in Side, QueueStep(s)
  PROVE  OnCourse'
<1>1. /\ side[s] \in Object /\ Sound(side[s]) /\ fate \in [1..MaxTurns -> Fates]
      /\ Course(fate, s, side[s], side[Other(s)].timedOut)
  BY EndNow
<1>2. side[s].phase = "messages" /\ side[s].queue # <<>>
  BY DEF QueueStep
<1>3. PICK t : t = [side[s] EXCEPT !.queue = Tail(@)]
  OBVIOUS
<1>4. PICK h \in Item : h = Head(side[s].queue)
  BY <1>1, <1>2, ObjectFields, HeadTailProperties
<1>5. Tail(side[s].queue) \in Seq(Item)
  BY <1>1, <1>2, ObjectFields, HeadTailProperties
<1>6. /\ t \in Object /\ t.queue = Tail(side[s].queue) /\ Same(side[s], t) /\ t.phase = side[s].phase
      /\ t.after = side[s].after /\ t.result = side[s].result /\ t.ran = side[s].ran
      /\ t.local = side[s].local /\ t.remote = side[s].remote /\ t.checked = side[s].checked
      /\ t.played = side[s].played
  BY <1>1, <1>3, <1>5 DEF Object, Same, Alike
<1>7. PICK d : d = fate[Len(side[s].played)]
  OBVIOUS
<1>8. PICK e : e = RunItem(s, h, t, d)
  OBVIOUS
<1>9. Course(fate, s, e, side[Other(s)].timedOut) /\ (Quits(side[s]) => Quits(e))
  BY <1>1, <1>2, <1>4, <1>6, <1>7, <1>8, StepCourse
<1>10. Len(side[s].played) \in 1..MaxTurns => d \in Fate
  BY <1>1, <1>7, BattleAssumption
<1>11. e \in Object /\ Same(side[s], e)
  BY <1>1, <1>2, <1>4, <1>6, <1>8, <1>10, StepIsSound
<1>12. /\ e.remote = side[s].remote
       /\ h # "hash" => e.local = side[s].local
       /\ h = "hash" => e.local = Append(side[s].local, Signature(s, t))
  <2>1. /\ RunItem(s, h, t, d).remote = t.remote
        /\ h # "hash" => RunItem(s, h, t, d).local = t.local
        /\ h = "hash" => RunItem(s, h, t, d).local = Append(t.local, Signature(s, t))
    <3>1. t \in Object /\ h \in Item
      BY <1>4, <1>6
    <3> QED BY ONLY <3>1, RunItemFields
  <2>2. t.remote = side[s].remote /\ t.local = side[s].local
    BY <1>6
  <2> QED BY <1>8, <2>1, <2>2
<1>13. Later(side[s], e)
  BY <1>9, <1>11 DEF Later, Same
<1>14. Alone(e, side[Other(s)], wire[s], cut)
  BY <1>1, <1>2, <1>11 DEF Alone, Sound, Waits, Same, Alike
<1>15. /\ Head(side[s].queue) = h
       /\ RunItem(s, Head(side[s].queue), t, fate[Len(t.played)]) = e
  BY <1>4, <1>6, <1>7, <1>8
<1>16. CASE h # "hash"
  <2>1. Become(s, e, <<>>)
    BY <1>3, <1>15, <1>16 DEF QueueStep
  <2>2. e.local = side[s].local
    BY <1>12, <1>16
  <2> QED BY <1>9, <1>11, <1>12, <1>13, <1>14, <2>1, <2>2, BecomeEnds
<1>17. CASE h = "hash"
  <2>1. Signature(s, t) \in Hash /\ (~Signature(s, t)[3] => Quits(side[s]))
    <3>1. side[s].party = "shut"
      BY <1>1, <1>2 DEF Sound, Waits
    <3> QED BY <1>1, <1>2, <1>4, <1>6, <1>17, <3>1, SignatureSays DEF Quits
  <2>2. e.local[Len(e.local)] = Signature(s, t)
    BY <1>1, <1>12, <1>17, <2>1, ObjectFields, AppendProperties, LenProperties
  <2>3. PICK m \in Message : m = [type |-> "hash", value |-> Signature(s, t)]
    BY <2>1 DEF Message
  <2>4. Become(s, e, <<m>>)
    <3>1. Become(s, e, <<[type |-> "hash", value |-> e.local[Len(e.local)]]>>)
      BY <1>3, <1>15, <1>17 DEF QueueStep
    <3> QED BY <2>2, <2>3, <3>1
  <2>5. Says(side[s], e, m)
    BY <1>9, <1>12, <1>17, <2>1, <2>3 DEF Says, Final
  <2> QED BY <1>9, <1>11, <1>12, <1>13, <1>14, <2>4, <2>5, BecomeEnds
<1> QED BY <1>16, <1>17

LEMMA NextTurnEnds ==
  ASSUME LinkInv, OnCourse, NEW s \in Side, NextTurn(s)
  PROVE  OnCourse'
<1>1. /\ side[s] \in Object /\ Sound(side[s])
      /\ Course(fate, s, side[s], side[Other(s)].timedOut)
      /\ Told(side[s], side[Other(s)], wire[s], cut)
  BY EndNow
<1>2. PICK e \in Object : e = [side[s] EXCEPT !.phase = "menu", !.after = "menu"]
  BY <1>1 DEF Object
<1>3. /\ e.phase = "menu" /\ e.after = "menu" /\ e.played = side[s].played
      /\ e.queue = side[s].queue /\ e.result = side[s].result /\ e.timedOut = side[s].timedOut
      /\ e.local = side[s].local /\ e.remote = side[s].remote /\ e.party = side[s].party
  BY <1>1, <1>2 DEF Object
<1>4. ~Ended(side[s]) /\ ~Ended(e) /\ ~side[s].timedOut
  BY <1>1, <1>3 DEF NextTurn, Course, Ends, Ended
<1>5. Ends(e)
  BY <1>3, <1>4 DEF Ends
<1>6. Course(fate, s, e, side[Other(s)].timedOut)
  BY <1>1, <1>3, <1>5, SameCourse
<1>7. Become(s, e, <<>>)
  BY <1>2 DEF NextTurn
<1>8. Later(side[s], e) /\ Alone(e, side[Other(s)], wire[s], cut)
  BY <1>4 DEF Later, Alone, Quits
<1> QED BY <1>3, <1>6, <1>7, <1>8, BecomeEnds

LEMMA FinishEnds ==
  ASSUME LinkInv, OnCourse, NEW s \in Side, Finish(s)
  PROVE  OnCourse'
<1>1. /\ side[s] \in Object
      /\ Course(fate, s, side[s], side[Other(s)].timedOut)
      /\ Told(side[s], side[Other(s)], wire[s], cut)
  BY EndNow
<1>2. PICK e \in Object : e = [side[s] EXCEPT !.phase = "over"]
  BY <1>1 DEF Object
<1>3. /\ e.phase = "over" /\ e.after = side[s].after /\ e.played = side[s].played
      /\ e.queue = side[s].queue /\ e.result = side[s].result /\ e.timedOut = side[s].timedOut
      /\ e.local = side[s].local /\ e.remote = side[s].remote /\ e.mine = side[s].mine
      /\ e.party = "shut" /\ side[s].party = "shut"
  BY <1>1, <1>2 DEF Object, Finish, QueueIsDone
<1>4. Ended(side[s]) /\ Quits(e) /\ Ended(e) /\ e.queue = <<>>
  BY <1>1, <1>3 DEF Finish, QueueIsDone, Course, Ends, Ended, Quits
<1>5. Ends(e)
  BY <1>1, <1>3, <1>4 DEF Ends, Course
<1>6. Course(fate, s, e, side[Other(s)].timedOut)
  BY <1>1, <1>3, <1>5, SameCourse
<1>7. PICK m \in Message : m = [type |-> "bye"]
  BY DEF Message
<1>8. Become(s, e, <<m>>)
  BY <1>2, <1>7 DEF Finish
<1>9. Says(side[s], e, m)
  BY <1>3, <1>4, <1>7 DEF Says
<1>10. Later(side[s], e) /\ Alone(e, side[Other(s)], wire[s], cut)
  BY <1>1, <1>3, <1>4 DEF Later, Told, Alone
<1> QED BY <1>3, <1>6, <1>7, <1>8, <1>9, <1>10, BecomeEnds

LEMMA NoticeClosedEnds ==
  ASSUME LinkInv, OnCourse, NEW s \in Side, NoticeClosed(s)
  PROVE  OnCourse'
<1>1. /\ side[s] \in Object
      /\ Course(fate, s, side[s], side[Other(s)].timedOut)
      /\ Course(fate, Other(s), side[Other(s)], side[s].timedOut)
  BY EndNow
<1>2. PICK r \in Result \ {"none"} : r = "draw"
  BY DEF Result
<1>3. PICK e : e = EndWith(side[s], r)
  OBVIOUS
<1>4. Course(fate, s, e, side[Other(s)].timedOut)
  BY <1>1, <1>2, <1>3, EndCourse
<1>5. /\ e \in Object /\ e.timedOut = side[s].timedOut
      /\ e.local = side[s].local /\ e.remote = side[s].remote
  <2>1. r \in Result
    OBVIOUS
  <2> QED BY <1>1, <1>3, <2>1, EndWithFields DEF Same
<1>6. Become(s, e, <<>>)
  BY <1>2, <1>3 DEF NoticeClosed
<1>7. Later(side[s], e)
  BY <1>5 DEF NoticeClosed, Later, Ended, Quits
<1>8. Alone(e, side[Other(s)], wire[s], cut)
  <2>1. wire[s] = <<>> /\ (cut \/ side[Other(s)].phase = "over")
    BY DEF NoticeClosed, Closed
  <2>2. Actions(<<>>) = {}
    BY EmptySeq DEF Actions, Places
  <2>3. cut \/ Quits(side[Other(s)])
    <3>1. Sound(side[Other(s)])
      BY Sides DEF LinkInv
    <3> QED BY <1>1, <2>1, <3>1 DEF Course, Ends, Quits, Sound, Waits
  <2> QED BY <2>1, <2>2, <2>3 DEF Alone
<1> QED BY <1>4, <1>5, <1>6, <1>7, <1>8, BecomeEnds

LEMMA BreakEnds ==
  ASSUME LinkInv, OnCourse, Break
  PROVE  OnCourse'
<1>1. "host" \in Side /\ "guest" \in Side /\ Side = {"host", "guest"}
  BY DEF Side
<1>2. Len(wire["host"]) \in Nat /\ Len(wire["guest"]) \in Nat
  BY <1>1, EndNow, LenProperties
<1>3. PICK k \in 0..Len(wire["host"]), n \in 0..Len(wire["guest"]) :
        wire' = [host |-> SubSeq(wire["host"], 1, k), guest |-> SubSeq(wire["guest"], 1, n)]
  <2>1. PICK k, n \in 0..Len(wire["host"]) + Len(wire["guest"]) :
          /\ k <= Len(wire["host"]) /\ n <= Len(wire["guest"])
          /\ wire' = [host |-> SubSeq(wire["host"], 1, k), guest |-> SubSeq(wire["guest"], 1, n)]
    BY DEF Break
  <2>2. k \in 0..Len(wire["host"]) /\ n \in 0..Len(wire["guest"])
    BY <1>2, <2>1
  <2> QED BY <2>1, <2>2
<1>4. cut' = TRUE /\ side' = side /\ fate' = fate
  BY DEF Break
<1>5. wire'["host"] = SubSeq(wire["host"], 1, k) /\ wire'["guest"] = SubSeq(wire["guest"], 1, n)
  BY <1>3
<1>6. ASSUME NEW s \in Side
      PROVE  /\ Course(fate, s, side[s], side[Other(s)].timedOut)
             /\ Told(side[s], side[Other(s)], wire'[s], TRUE)
  <2>1. /\ side[s] \in Object /\ side[Other(s)] \in Object /\ wire[s] \in Seq(Message)
        /\ cut \in BOOLEAN /\ Course(fate, s, side[s], side[Other(s)].timedOut)
        /\ Told(side[s], side[Other(s)], wire[s], cut)
    BY EndNow
  <2>2. PICK j \in 0..Len(wire[s]) : wire'[s] = SubSeq(wire[s], 1, j)
    BY <1>1, <1>5
  <2>3. Told(side[s], side[Other(s)], SubSeq(wire[s], 1, j), TRUE)
    BY <2>1, CutTold
  <2> QED BY <2>1, <2>2, <2>3
<1>7. fate \in [1..MaxTurns -> Fates]
  BY DEF OnCourse
<1> QED BY <1>4, <1>6, <1>7 DEF OnCourse

LEMMA EndInitInv == Init => OnCourse
<1> SUFFICES ASSUME Init PROVE OnCourse
  OBVIOUS
<1>1. Len(<<>>) = 0 /\ <<>> \in Seq(Hash)
  BY EmptySeq
<1>2. /\ Fresh.phase = "menu" /\ Fresh.after = "menu" /\ Fresh.queue = <<>>
      /\ Fresh.result = "none" /\ Fresh.timedOut = FALSE /\ Fresh.played = <<>>
      /\ Fresh.local = <<>> /\ Fresh.remote = <<>> /\ Fresh.party = "shut"
  BY DEF Fresh
<1>3. \A s \in Side : side[s] = Fresh /\ side[Other(s)] = Fresh /\ wire[s] = <<>>
  BY Sides DEF Init
<1>4. ASSUME NEW s \in Side PROVE Course(fate, s, Fresh, FALSE)
  <2>1. ~Ended(Fresh) /\ Ends(Fresh)
    BY <1>2 DEF Ends, Ended
  <2>2. ~HasFaint(Fresh.queue) /\ ~Decides(fate, Fresh)
    BY <1>1, <1>2 DEF HasFaint, Decides
  <2>3. Tells(fate, Fresh)
    <3>1. \A k \in 1..0 : FALSE
      OBVIOUS
    <3> QED BY <1>1, <1>2, <2>2, <3>1 DEF Tells
  <2>4. Outcome(fate, s, Fresh, FALSE)
    BY <1>2 DEF Outcome
  <2> QED BY <2>1, <2>3, <2>4 DEF Course
<1>5. Told(Fresh, Fresh, <<>>, cut)
  <2>1. \A k \in 1..0 : FALSE
    OBVIOUS
  <2>2. Hashes(<<>>) = {} /\ Actions(<<>>) = {}
    BY <1>1, <2>1 DEF Hashes, Actions, Places
  <2>3. Closing(Fresh, Fresh, <<>>)
    BY <1>1, <1>2, <2>1 DEF Closing
  <2>4. Signatures(Fresh, Fresh, <<>>, cut)
    <3>1. PICK num \in [Nat -> Nat] : num = [i \in Nat |-> 0]
      OBVIOUS
    <3>2. InTurn(0, 0, {}, num) /\ UpToDate(0, 0, {}, num)
      BY DEF InTurn, UpToDate
    <3>3. InTurn(Len(Fresh.remote), Len(Fresh.local), Hashes(<<>>), num)
          /\ UpToDate(Len(Fresh.remote), Len(Fresh.local), Hashes(<<>>), num)
      BY <1>1, <1>2, <2>2, <3>2
    <3> QED BY <1>1, <1>2, <2>1, <2>2, <3>3 DEF Signatures
  <2>5. Alone(Fresh, Fresh, <<>>, cut)
    BY <2>2, <1>2 DEF Alone, Ended
  <2> QED BY <2>3, <2>4, <2>5 DEF Told
<1>6. fate \in [1..MaxTurns -> Fates]
  BY DEF Init
<1>7. \A s \in Side : side[Other(s)].timedOut = FALSE
  BY <1>2, <1>3
<1> QED BY <1>3, <1>4, <1>5, <1>6, <1>7 DEF OnCourse

-----------------------------------------------------------------------------
(* Who plays on behind the end of a battle.                                *)

\* What s has resolved is not told yet.
LEMMA ResolvedAstray ==
  ASSUME NEW s \in Side, NEW f \in Object, Astray(f), f.mine # None => f.queue = <<>>
  PROVE  Astray(TryResolve(s, f))
<1>1. CASE None \in {f.mine, f.theirs}
  BY <1>1 DEF TryResolve
<1>2. CASE None \notin {f.mine, f.theirs}
  <2>1. PICK g \in Object : g = [f EXCEPT !.mine = None, !.theirs = None]
    BY DEF Object
  <2>2. PICK p : p = Append(g.played, Pair(s, f))
    OBVIOUS
  <2>3. PICK q : q = g.queue \o <<"moves", "endOfTurn", "hash">>
    OBVIOUS
  <2>4. g.result = f.result /\ g.queue = <<>>
    BY <1>2, <2>1 DEF Object
  <2>5. q = <<"moves", "endOfTurn", "hash">>
    BY <2>3, <2>4
  <2>6. ~HasFaint(q) /\ ~HasFaint(<<>>)
    BY <2>5 DEF HasFaint, Side
  <2>7. \/ TryResolve(s, f) = EndWith(g, "draw")
        \/ TryResolve(s, f) = [g EXCEPT !.phase = "messages", !.after = "linkNext", !.played = p,
                                        !.queue = q]
    BY <1>2, <2>1, <2>2, <2>3 DEF TryResolve
  <2>8. CASE TryResolve(s, f) = EndWith(g, "draw")
    <3>1. TryResolve(s, f) = [g EXCEPT !.result = "draw", !.after = "finish", !.phase = "messages"]
      BY <2>8 DEF EndWith
    <3> QED BY <2>4, <2>6, <3>1 DEF Astray, Object
  <2>9. CASE TryResolve(s, f) = [g EXCEPT !.phase = "messages", !.after = "linkNext", !.played = p,
                                          !.queue = q]
    BY <2>4, <2>6, <2>9 DEF Astray, Object
  <2> QED BY <2>7, <2>8, <2>9
<1> QED BY <1>1, <1>2

\* A comparison of signatures may end a battle as a draw and changes nothing else here.
LEMMA CheckedStill ==
  ASSUME NEW f \in Object, NEW l,
         NEW g, g = [f EXCEPT !.local = l] \/ g = [f EXCEPT !.remote = l]
  PROVE  /\ Check(g).queue = f.queue /\ Check(g).mine = f.mine
         /\ Check(g).result \in {f.result, "draw"}
<1>1. g.queue = f.queue /\ g.mine = f.mine /\ g.result = f.result
  BY DEF Object
<1>2. PICK n : n = g.checked + 1
  OBVIOUS
<1>3. PICK h : h = [g EXCEPT !.checked = n]
  OBVIOUS
<1>4. h.queue = f.queue /\ h.mine = f.mine /\ h.result = f.result
  BY <1>1, <1>3 DEF Object
<1>5. Check(g) \in {g, h, EndWith(h, "draw")}
  BY <1>2, <1>3 DEF Check
<1>6. /\ EndWith(h, "draw").queue = f.queue /\ EndWith(h, "draw").mine = f.mine
      /\ EndWith(h, "draw").result = "draw"
  BY <1>3, <1>4 DEF EndWith, Object
<1> QED BY <1>1, <1>4, <1>5, <1>6

\* Who has no faint to tell comes to none behind the end.
LEMMA StepAstray ==
  ASSUME NEW s \in Side, NEW f \in Object, Sound(f), Astray(f), f.queue # <<>>,
         NEW t, t = [f EXCEPT !.queue = Tail(@)], NEW d
  PROVE  Astray(RunItem(s, Head(f.queue), t, d))
<1>1. PICK p \in 0..3 : Agenda(f.queue, p)
  BY DEF Sound
<1>2. PICK r \in 0..3 : r = IF p = 0 THEN 0 ELSE p - 1
  OBVIOUS
<1>3. /\ Tail(f.queue) \in Seq(Item) /\ Agenda(Tail(f.queue), r)
      /\ p = 1 => Head(f.queue) = "hash"
      /\ p = 2 => Head(f.queue) = "endOfTurn"
      /\ p = 3 => Head(f.queue) = "moves"
  BY <1>1, <1>2, ObjectFields, AgendaTail
<1>4. Len(f.queue) \in Nat /\ p = Len(f.queue) /\ p # 0
  BY <1>1, ObjectFields, AgendaTells, EmptySeq DEF Astray
<1>5. Len(Tail(f.queue)) = r
  BY <1>2, <1>4, ObjectFields, HeadTailProperties
<1>6. ~HasFaint(Tail(f.queue))
  <2>1. HasFaint(Tail(f.queue)) <=> Len(Tail(f.queue)) > r
    BY <1>3, AgendaTells
  <2> QED BY <1>5, <2>1
<1>7. t \in Object /\ t.queue = Tail(f.queue) /\ t.result = f.result
  BY <1>3 DEF Object
<1>8. Astray(t) /\ t.result # "none"
  BY <1>6, <1>7 DEF Astray
<1>9. CASE Head(f.queue) = "moves"
  <2>1. RunItem(s, Head(f.queue), t, d) = [t EXCEPT !.ran = FALSE]
    BY <1>8, <1>9 DEF RunItem, Side
  <2> QED BY <1>7, <1>8, <2>1 DEF Astray, Object
<1>10. CASE Head(f.queue) = "endOfTurn"
  BY <1>8, <1>10 DEF RunItem, Side
<1>11. CASE Head(f.queue) = "hash"
  <2>1. PICK g : g = [t EXCEPT !.local = Append(@, Signature(s, t))]
    OBVIOUS
  <2>2. RunItem(s, Head(f.queue), t, d) = Check(g)
    BY <1>11, <2>1 DEF RunItem, Side
  <2>3. PICK l : g = [t EXCEPT !.local = l]
    BY <2>1
  <2>4. Check(g).queue = t.queue /\ Check(g).result \in {t.result, "draw"}
    BY <1>7, <2>3, CheckedStill
  <2> QED BY <1>8, <2>2, <2>4 DEF Astray
<1> QED BY <1>3, <1>4, <1>9, <1>10, <1>11

\* s becomes e, or the opponent does.
LEMMA AstrayParts ==
  ASSUME LinkInv, NEW s \in Side, Parted(s), NEW e, Astray(e), side' = [side EXCEPT ![s] = e],
         wire'[Other(s)] = wire[Other(s)], cut' = cut
  PROVE  Parted(s)'
<1>1. Other(s) \in Side /\ Other(s) # s /\ side \in [Side -> Object]
  BY Sides DEF LinkInv, Typed
<1> QED BY <1>1 DEF Parted

LEMMA StrandedParts ==
  ASSUME LinkInv, NEW s \in Side, Parted(s), NEW e, Stranded(e, wire'[Other(s)]),
         side' = [side EXCEPT ![Other(s)] = e], cut' = cut
  PROVE  Parted(s)'
<1>1. Other(s) \in Side /\ Other(s) # s /\ side \in [Side -> Object]
  BY Sides DEF LinkInv, Typed
<1> QED BY <1>1 DEF Parted

\* What s does.
LEMMA AstrayKept ==
  ASSUME LinkInv, NEW s \in Side, Parted(s),
         \/ \E a \in Action, order \in Orders : Choose(s, a, order)
         \/ OpenParty(s) \/ ShowParty(s) \/ CloseParty(s) \/ TimeUp(s) \/ Receive(s)
         \/ QueueStep(s) \/ NextTurn(s) \/ Finish(s) \/ NoticeClosed(s)
  PROVE  Parted(s)'
<1>1. /\ side[s] \in Object /\ Sound(side[s]) /\ Astray(side[s]) /\ cut
      /\ Waits(side[s]) /\ wire[s] \in Seq(Message)
  BY DEF LinkInv, Typed, Parted, Sound
<1>2. Other(s) \in Side /\ Other(s) # s /\ wire \in [Side -> Seq(Message)]
  BY Sides DEF LinkInv, Typed
<1>3. ASSUME NEW e, NEW out, Become(s, e, out), Astray(e) PROVE Parted(s)'
  <2>1. side' = [side EXCEPT ![s] = e] /\ wire'[Other(s)] = wire[Other(s)] /\ cut' = cut
    BY <1>1, <1>3 DEF Become
  <2> QED BY <1>3, <2>1, AstrayParts
<1>4. ASSUME NEW a \in Action, NEW order \in Orders, Choose(s, a, order) PROVE Parted(s)'
  <2>1. PICK b \in Action : b = Meant(a, order)
    BY MeantIsAction
  <2>2. PICK p \in Object : p = Pending(side[s], b)
    BY <1>1 DEF Pending, Object
  <2>3. side[s].queue = <<>>
    BY <1>1, <1>4 DEF Choose, CanChoose, Waits
  <2>4. p.queue = <<>> /\ p.result = side[s].result
    BY <1>1, <2>2, <2>3 DEF Pending, Object
  <2>5. Astray(TryResolve(s, p))
    BY <1>1, <2>3, <2>4, ResolvedAstray DEF Astray
  <2>6. Become(s, TryResolve(s, p), <<[type |-> "action", action |-> a]>>)
    BY <1>4, <2>1, <2>2 DEF Choose
  <2> QED BY <1>3, <2>5, <2>6
<1>5. CASE OpenParty(s) \/ ShowParty(s) \/ CloseParty(s) \/ NextTurn(s) \/ Finish(s)
  <2>1. PICK e, out : /\ Become(s, e, out) /\ e.queue = side[s].queue
                      /\ e.result = side[s].result
    <3>1. CASE OpenParty(s)
      <4>1. PICK e : e = [side[s] EXCEPT !.phase = "messages", !.after = "menu", !.party = "asked"]
        OBVIOUS
      <4>2. e.queue = side[s].queue /\ e.result = side[s].result
        BY <1>1, <4>1 DEF Object
      <4> QED BY <3>1, <4>1, <4>2 DEF OpenParty
    <3>2. CASE ShowParty(s)
      BY <1>1, <3>2 DEF ShowParty, Object
    <3>3. CASE CloseParty(s)
      BY <1>1, <3>3 DEF CloseParty, Object
    <3>4. CASE NextTurn(s)
      <4>1. PICK e : e = [side[s] EXCEPT !.phase = "menu", !.after = "menu"]
        OBVIOUS
      <4>2. e.queue = side[s].queue /\ e.result = side[s].result
        BY <1>1, <4>1 DEF Object
      <4> QED BY <3>4, <4>1, <4>2 DEF NextTurn
    <3>5. CASE Finish(s)
      <4>1. PICK e : e = [side[s] EXCEPT !.phase = "over"]
        OBVIOUS
      <4>2. e.queue = side[s].queue /\ e.result = side[s].result
        BY <1>1, <4>1 DEF Object
      <4> QED BY <3>5, <4>1, <4>2 DEF Finish
    <3> QED BY <1>5, <3>1, <3>2, <3>3, <3>4, <3>5
  <2>2. Astray(e)
    BY <1>1, <2>1 DEF Astray
  <2> QED BY <1>3, <2>1, <2>2
<1>6. CASE TimeUp(s)
  <2>1. PICK h \in Object : h = [side[s] EXCEPT !.timedOut = TRUE]
    BY <1>1 DEF Object
  <2>2. h.queue = <<>>
    BY <1>1, <1>6, <2>1 DEF TimeUp, Waits, Object
  <2>3. PICK r \in Result : r = "lose"
    BY DEF Result
  <2>4. EndWith(h, r).result = "lose" /\ EndWith(h, r).queue = <<>>
    BY <2>1, <2>2, <2>3, EndWithFields
  <2>5. Astray(EndWith(h, r))
    BY <2>4 DEF Astray, HasFaint
  <2>6. Become(s, EndWith(h, r), <<[type |-> "forfeit"]>>)
    BY <1>6, <2>1, <2>3 DEF TimeUp
  <2> QED BY <1>3, <2>5, <2>6
<1>7. CASE Receive(s)
  <2>1. PICK m \in Message : m = Head(wire[s])
    BY <1>1, <1>7, HeadTailProperties DEF Receive
  <2>2. /\ side' = [side EXCEPT ![s] = Heard(s, side[s], m)] /\ cut' = cut
        /\ wire'[Other(s)] = wire[Other(s)]
    BY <1>2, <1>7, <2>1 DEF Receive
  <2>3. Astray(Heard(s, side[s], m))
    <3>1. CASE m.type = "action"
      <4>1. PICK a \in Action : m = [type |-> "action", action |-> a]
        BY <3>1 DEF Message
      <4>2. PICK t \in Object : t = [side[s] EXCEPT !.theirs = a]
        BY <1>1 DEF Object
      <4>3. /\ t.queue = side[s].queue /\ t.result = side[s].result
            /\ t.mine # None => t.queue = <<>>
        BY <1>1, <4>2 DEF Object, Waits
      <4>4. Astray(t)
        BY <1>1, <4>3 DEF Astray
      <4>5. Heard(s, side[s], m) = TryResolve(s, t)
        BY <4>1, <4>2 DEF Heard
      <4> QED BY <4>3, <4>4, <4>5, ResolvedAstray
    <3>2. CASE m.type = "hash"
      <4>1. PICK l, g : g = [side[s] EXCEPT !.remote = l] /\ Heard(s, side[s], m) = Check(g)
        BY <3>2 DEF Heard
      <4>2. Check(g).queue = side[s].queue /\ Check(g).result \in {side[s].result, "draw"}
        BY <1>1, <4>1, CheckedStill
      <4> QED BY <1>1, <4>1, <4>2 DEF Astray
    <3>3. CASE m.type \in {"bye", "forfeit"}
      <4>1. Heard(s, side[s], m) = side[s]
        BY <1>1, <3>3 DEF Heard, IfOpen, Astray
      <4> QED BY <1>1, <4>1
    <3> QED BY <3>1, <3>2, <3>3 DEF Message
  <2> QED BY <2>2, <2>3, AstrayParts
<1>8. CASE QueueStep(s)
  <2>1. side[s].queue # <<>>
    BY <1>8 DEF QueueStep
  <2>2. PICK t : t = [side[s] EXCEPT !.queue = Tail(@)]
    OBVIOUS
  <2>3. PICK e : e = RunItem(s, Head(side[s].queue), t, fate[Len(t.played)])
    OBVIOUS
  <2>4. Astray(e)
    BY <1>1, <2>1, <2>2, <2>3, StepAstray
  <2>5. PICK out : Become(s, e, out)
    BY <1>8, <2>2, <2>3 DEF QueueStep
  <2> QED BY <1>3, <2>4, <2>5
<1>9. ~NoticeClosed(s)
  BY <1>1 DEF NoticeClosed, Astray
<1> QED BY <1>4, <1>5, <1>6, <1>7, <1>8, <1>9

\* What the opponent does: he hears what still arrives, and notices that the link is broken.
LEMMA StrandedKept ==
  ASSUME LinkInv, NEW s \in Side, Parted(s), NEW o, o = Other(s),
         \/ \E a \in Action, order \in Orders : Choose(o, a, order)
         \/ OpenParty(o) \/ ShowParty(o) \/ CloseParty(o) \/ TimeUp(o) \/ Receive(o)
         \/ QueueStep(o) \/ NextTurn(o) \/ Finish(o) \/ NoticeClosed(o)
  PROVE  Parted(s)'
<1>1. o \in Side /\ o # s
  BY Sides
<1>2. /\ side[o] \in Object /\ Stranded(side[o], wire[o]) /\ cut
      /\ Waits(side[o]) /\ wire[o] \in Seq(Message) /\ wire \in [Side -> Seq(Message)]
  BY <1>1 DEF LinkInv, Typed, Parted, Sound
<1>3. /\ side[o].mine # None /\ side[o].queue = <<>> /\ side[o].phase # "menu"
      /\ side[o].phase # "messages" \/ side[o].after = "finish"
      /\ side[o].party = "shut"
  BY <1>2 DEF Waits, Stranded
<1>4. ASSUME NEW e, NEW out, Become(o, e, out), e.mine = side[o].mine, e.result # "lose"
      PROVE  Parted(s)'
  <2>1. side' = [side EXCEPT ![o] = e] /\ wire'[o] = wire[o] /\ cut' = cut
    BY <1>2, <1>4 DEF Become
  <2>2. Stranded(e, wire'[o])
    BY <1>2, <1>4, <2>1 DEF Stranded
  <2> QED BY <2>1, <2>2, StrandedParts
<1>5. /\ \A a \in Action, order \in Orders : ~Choose(o, a, order)
      /\ ~OpenParty(o) /\ ~ShowParty(o) /\ ~CloseParty(o) /\ ~TimeUp(o) /\ ~QueueStep(o)
      /\ ~NextTurn(o)
  BY <1>3 DEF Choose, CanChoose, OpenParty, ShowParty, CloseParty, TimeUp, QueueStep, NextTurn,
              QueueIsDone
<1>6. CASE Finish(o)
  <2>1. PICK e : e = [side[o] EXCEPT !.phase = "over"]
    OBVIOUS
  <2>2. e.mine = side[o].mine /\ e.result = side[o].result
    BY <1>2, <2>1 DEF Object
  <2>3. Become(o, e, <<[type |-> "bye"]>>)
    BY <1>6, <2>1 DEF Finish
  <2> QED BY <1>2, <1>4, <2>2, <2>3 DEF Stranded
<1>7. CASE NoticeClosed(o)
  <2>1. PICK r \in Result : r = "draw"
    BY DEF Result
  <2>2. PICK e : e = EndWith(side[o], r)
    OBVIOUS
  <2>3. e.mine = side[o].mine /\ e.result = "draw"
    BY <1>2, <2>1, <2>2, EndWithFields DEF Same, Alike
  <2>4. Become(o, e, <<>>)
    BY <1>7, <2>1, <2>2 DEF NoticeClosed
  <2> QED BY <1>4, <2>3, <2>4
<1>8. CASE Receive(o)
  <2>1. PICK m \in Message : m = Head(wire[o])
    BY <1>2, <1>8, HeadTailProperties DEF Receive
  <2>2. side' = [side EXCEPT ![o] = Heard(o, side[o], m)] /\ cut' = cut /\ wire'[o] = Tail(wire[o])
    BY <1>1, <1>2, <1>8, <2>1 DEF Receive
  <2>3. wire[o] # <<>> /\ Actions(wire[o]) = {}
    BY <1>2, <1>8 DEF Receive, Stranded
  <2>4. m.type # "action"
    BY <1>2, <2>1, <2>3, ActionsTail
  <2>5. Actions(Tail(wire[o])) = {}
    BY <1>2, <2>3, NoActionsBehind
  <2>6. Heard(o, side[o], m).mine = side[o].mine /\ Heard(o, side[o], m).result # "lose"
    <3>1. CASE m.type = "hash"
      <4>1. PICK f \in Object : f = side[o]
        BY <1>2
      <4>2. PICK l, g : g = [f EXCEPT !.remote = l] /\ Heard(o, side[o], m) = Check(g)
        BY <3>1, <4>1 DEF Heard
      <4>3. Check(g).mine = f.mine /\ Check(g).result \in {f.result, "draw"}
        BY <4>2, CheckedStill
      <4> QED BY <1>2, <4>1, <4>2, <4>3 DEF Stranded
    <3>2. CASE m.type \in {"bye", "forfeit"}
      <4>1. PICK r \in Result : /\ r # "lose"
                                /\ Heard(o, side[o], m) \in {side[o], EndWith(side[o], r)}
        BY <3>2 DEF Heard, IfOpen, Result
      <4>2. EndWith(side[o], r).mine = side[o].mine /\ EndWith(side[o], r).result = r
        BY <1>2, EndWithFields DEF Same, Alike
      <4> QED BY <1>2, <4>1, <4>2 DEF Stranded
    <3> QED BY <2>4, <3>1, <3>2 DEF Message
  <2>7. Stranded(Heard(o, side[o], m), wire'[o])
    BY <1>3, <2>2, <2>5, <2>6 DEF Stranded
  <2> QED BY <2>2, <2>7, StrandedParts
<1> QED BY <1>5, <1>6, <1>7, <1>8

LEMMA PartedStays ==
  ASSUME LinkInv, NEW s \in Side, Parted(s), [Next]_vars
  PROVE  Parted(s)'
<1>1. CASE UNCHANGED vars
  BY <1>1 DEF vars, Parted
<1>2. ~Break
  BY DEF Parted, Break
<1>3. Side = {s, Other(s)}
  BY Sides
<1> QED BY <1>1, <1>2, <1>3, AstrayKept, StrandedKept DEF Next

\* Who sends somebody out in a battle that has its result, against an action that is there
\* already, does so over a broken link: the opponent cannot have told him of the end.
LEMMA ChooseParts ==
  ASSUME LinkInv, OnCourse, NEW s \in Side, NEW a \in Action, NEW order \in Orders,
         Choose(s, a, order), Ended(side[s]), side[s].theirs # None
  PROVE  Parted(s)'
<1>1. /\ side[s] \in Object /\ side[Other(s)] \in Object /\ Other(s) \in Side
      /\ wire[Other(s)] \in Seq(Message) /\ Sound(side[s])
      /\ Course(fate, s, side[s], side[Other(s)].timedOut)
      /\ Course(fate, Other(s), side[Other(s)], side[s].timedOut)
      /\ Alone(side[s], side[Other(s)], wire[s], cut)
      /\ Alone(side[Other(s)], side[s], wire[Other(s)], cut)
  BY EndNow DEF Told
<1>2. Waits(side[s]) /\ Waits(side[Other(s)])
  BY <1>1 DEF LinkInv, Sound
<1>3. /\ side[s].party = "open" /\ side[s].mine = None /\ side[s].queue = <<>>
      /\ ~side[s].timedOut /\ ~Quits(side[s])
  BY <1>1, <1>2 DEF Choose, CanChoose, Waits, Course, Ends, Quits
<1>4. \A k \in 1..Len(side[s].played) : fate[k].outs = <<>>
  BY <1>1, <1>3 DEF Course, Tells

\* He has what the opponent chose for the next turn, and the opponent knows of no choice.
<1>5. /\ side[Other(s)].mine # None /\ Actions(wire[Other(s)]) = {}
      /\ Len(side[Other(s)].played) = Len(side[s].played)
  <2>1. Typed
    BY DEF LinkInv
  <2>2. PICK fled \in [Side -> {0, 1}] : Counted(fled)
    BY DEF LinkInv
  <2>3. /\ fled[s] \in {0, 1} /\ fled[Other(s)] \in {0, 1}
        /\ fled[Other(s)] = 1 => Gone(side[Other(s)])
        /\ Level(s, side[s], side[Other(s)], wire[s], wire[Other(s)], cut, fled[s], fled[Other(s)])
    BY <1>1, <2>1, <2>2, Now DEF Counted
  <2>4. fled[s] = 0
    BY <1>3, <2>2, <2>3 DEF Counted, Gone
  <2>5. /\ Taken(side[s], 0) <= Chosen(side[Other(s)], fled[Other(s)])
        /\ Taken(side[Other(s)], fled[Other(s)]) <= Chosen(side[s], 0)
    BY <2>3, <2>4 DEF Level, InOrder, Way
  <2>6. /\ Len(side[s].played) \in Nat
        /\ Taken(side[s], 0) = Len(side[s].played) + 1 /\ Chosen(side[s], 0) = Len(side[s].played)
    <3>1. One(side[s].mine) = 0 /\ One(side[s].theirs) = 1
      BY <1>3 DEF One
    <3>2. /\ Len(side[s].played) \in Nat /\ Turns(side[s], 0) = Len(side[s].played) + 0
          /\ Taken(side[s], 0) = Turns(side[s], 0) + One(side[s].theirs)
          /\ Chosen(side[s], 0) = Turns(side[s], 0) + One(side[s].mine)
      BY <1>1, Numbers
    <3> QED BY <3>1, <3>2
  <2>7. /\ Len(side[Other(s)].played) \in Nat
        /\ One(side[Other(s)].mine) \in {0, 1} /\ One(side[Other(s)].theirs) \in {0, 1}
        /\ Taken(side[Other(s)], fled[Other(s)])
             = Len(side[Other(s)].played) + fled[Other(s)] + One(side[Other(s)].theirs)
        /\ Chosen(side[Other(s)], fled[Other(s)])
             = Len(side[Other(s)].played) + fled[Other(s)] + One(side[Other(s)].mine)
    BY <1>1, <2>3, Numbers
  <2>8. One(side[Other(s)].mine) = 1
    BY <2>3, <2>5, <2>6, <2>7
  <2>9. side[Other(s)].mine # None
    BY <2>8 DEF One
  <2>10. fled[Other(s)] = 0
    BY <2>3, <2>9 DEF Gone
  <2>11. /\ Len(side[Other(s)].played) = Len(side[s].played)
         /\ Taken(side[Other(s)], 0) = Len(side[s].played)
    BY <2>5, <2>6, <2>7, <2>8, <2>10
  <2>12. ASSUME NEW i \in Actions(wire[Other(s)]) PROVE FALSE
    <3>1. Due(Taken(side[Other(s)], 0), Actions(wire[Other(s)]), i) <= Chosen(side[s], 0)
      BY <2>3, <2>4, <2>10 DEF Level, InOrder, Way
    <3>2. Due(Len(side[s].played), Actions(wire[Other(s)]), i)
            \in {Len(side[s].played) + 1, Len(side[s].played) + 2}
      BY DEF Due
    <3> QED BY <2>6, <2>11, <3>1, <3>2
  <2> QED BY <2>9, <2>11, <2>12
<1>6. cut
  <2>1. cut \/ Quits(side[Other(s)])
    BY <1>1, <1>3 DEF Alone
  <2>2. CASE Quits(side[Other(s)])
    BY <1>1, <1>3, <1>5, <2>2 DEF Alone, Quits
  <2> QED BY <2>1, <2>2

\* No turn was decisive, so the opponent has not lost, and s has a draw.
<1>7. ~Decides(fate, side[s]) /\ ~Decides(fate, side[Other(s)])
  <2>1. Len(side[s].played) > 0 => Len(side[s].played) \in 1..Len(side[s].played)
    BY <1>1, ObjectFields, LenProperties
  <2> QED BY <1>4, <1>5, <2>1 DEF Decides, Last
<1>8. side[Other(s)].queue = <<>> /\ ~side[Other(s)].timedOut
  BY <1>2, <1>5 DEF Waits
<1>9. side[Other(s)].result # "lose"
  BY <1>1, <1>7, <1>8 DEF Course, Outcome, HasFaint
<1>10. side[s].result \in {"draw", "lose"}
  <2>1. side[s].result # "win"
    BY <1>1, <1>3, <1>7, <1>8 DEF Course, Outcome, HasFaint
  <2> QED BY <1>1, <2>1, ObjectFields DEF Ended, Result
<1>11. PICK b \in Action : b = Meant(a, order)
  BY MeantIsAction
<1>12. PICK p \in Object : p = Pending(side[s], b)
  BY <1>1 DEF Pending, Object
<1>13. p.queue = <<>> /\ p.result = side[s].result
  BY <1>1, <1>3, <1>12 DEF Pending, Object
<1>14. Astray(TryResolve(s, p))
  <2>1. Astray(p)
    BY <1>10, <1>13 DEF Astray, HasFaint
  <2> QED BY <1>13, <2>1, ResolvedAstray
<1>15. Become(s, TryResolve(s, p), <<[type |-> "action", action |-> a]>>)
  BY <1>11, <1>12 DEF Choose
<1>16. /\ side' = [side EXCEPT ![s] = TryResolve(s, p)] /\ wire' = wire /\ cut' = cut
  BY <1>6, <1>15 DEF Become
<1>17. Other(s) # s /\ side \in [Side -> Object]
  BY Sides DEF LinkInv, Typed
<1>18. side'[s] = TryResolve(s, p) /\ side'[Other(s)] = side[Other(s)]
  BY <1>1, <1>16, <1>17
<1> QED BY <1>5, <1>6, <1>9, <1>14, <1>16, <1>18 DEF Parted, Stranded

LEMMA EndStepInv == ListsStay /\ OnePoisoned /\ LinkInv /\ EndInv /\ [Next]_vars => EndInv'
<1> SUFFICES ASSUME ListsStay, OnePoisoned, LinkInv, EndInv, [Next]_vars PROVE EndInv'
  OBVIOUS
<1>1. CASE \E s \in Side : Parted(s)
  BY <1>1, PartedStays DEF EndInv
<1>2. CASE OnCourse
  <2>1. CASE UNCHANGED vars
    BY <1>2, <2>1 DEF vars, EndInv, OnCourse
  <2>2. ASSUME NEW s \in Side, NEW a \in Action, NEW order \in Orders, Choose(s, a, order)
        PROVE  EndInv'
    BY <1>2, <2>2, ChooseEnds, ChooseParts DEF EndInv
  <2>3. ASSUME NEW s \in Side, TimeUp(s) PROVE EndInv'
    BY <1>2, <2>3, TimeUpEnds DEF EndInv
  <2>4. ASSUME NEW s \in Side, Receive(s) PROVE EndInv'
    BY <1>2, <2>4, ReceiveEnds DEF EndInv
  <2>5. ASSUME NEW s \in Side, QueueStep(s) PROVE EndInv'
    BY <1>2, <2>5, QueueStepEnds DEF EndInv
  <2>6. ASSUME NEW s \in Side, NextTurn(s) PROVE EndInv'
    BY <1>2, <2>6, NextTurnEnds DEF EndInv
  <2>7. ASSUME NEW s \in Side, Finish(s) PROVE EndInv'
    BY <1>2, <2>7, FinishEnds DEF EndInv
  <2>8. ASSUME NEW s \in Side, NoticeClosed(s) PROVE EndInv'
    BY <1>2, <2>8, NoticeClosedEnds DEF EndInv
  <2>9. CASE Break
    BY <1>2, <2>9, BreakEnds DEF EndInv
  <2>10. ASSUME NEW s \in Side, OpenParty(s) PROVE EndInv'
    BY <1>2, <2>10, OpenPartyEnds DEF EndInv
  <2>11. ASSUME NEW s \in Side, ShowParty(s) \/ CloseParty(s) PROVE EndInv'
    BY <1>2, <2>11, PartyEnds DEF EndInv
  <2> QED BY <2>1, <2>2, <2>3, <2>4, <2>5, <2>6, <2>7, <2>8, <2>9, <2>10, <2>11 DEF Next
<1> QED BY <1>1, <1>2 DEF EndInv

-----------------------------------------------------------------------------
(* Who wins.                                                               *)

\* Who ran out of time is not behind: the opponent has played nothing that he has not.
LEMMA LateIsAhead ==
  ASSUME LinkInv, NEW s \in Side, side[Other(s)].timedOut
  PROVE  Len(side[s].played) <= Len(side[Other(s)].played)
<1>1. Typed /\ Waits(side[Other(s)])
  BY Sides DEF LinkInv, Sound
<1>2. PICK fled \in [Side -> {0, 1}] : Counted(fled)
  BY DEF LinkInv
<1>3. /\ side[s] \in Object /\ side[Other(s)] \in Object /\ Other(s) \in Side
      /\ fled[s] \in {0, 1} /\ fled[Other(s)] \in {0, 1}
  BY <1>1, <1>2, Now
<1>4. Taken(side[s], fled[s]) <= Chosen(side[Other(s)], fled[Other(s)])
  BY <1>2 DEF Counted, InOrder, Way
<1>5. fled[Other(s)] = 0
  BY <1>2, <1>3 DEF Counted, Gone
<1>6. One(side[Other(s)].mine) = 0
  BY <1>1 DEF Waits, One
<1>7. /\ Len(side[s].played) \in Nat /\ Turns(side[s], fled[s]) = Len(side[s].played) + fled[s]
      /\ One(side[s].theirs) \in {0, 1}
      /\ Taken(side[s], fled[s]) = Turns(side[s], fled[s]) + One(side[s].theirs)
  BY <1>3, Numbers
<1>8. /\ Len(side[Other(s)].played) \in Nat
      /\ Turns(side[Other(s)], fled[Other(s)]) = Len(side[Other(s)].played) + fled[Other(s)]
      /\ Chosen(side[Other(s)], fled[Other(s)]) =
           Turns(side[Other(s)], fled[Other(s)]) + One(side[Other(s)].mine)
  BY <1>3, Numbers
<1> QED BY <1>3, <1>4, <1>5, <1>6, <1>7, <1>8

\* Only one turn is decisive, and the same on both machines.
LEMMA DecidedOnce ==
  ASSUME NEW luck, NEW f \in Object, NEW g \in Object, Tells(luck, f), Tells(luck, g),
         Decides(luck, f), Decides(luck, g)
  PROVE  Beaten(luck, f) = Beaten(luck, g)
<1>1. Len(f.played) \in Nat /\ Len(g.played) \in Nat
  BY ObjectFields, LenProperties
<1>2. Len(f.played) > 0 /\ Len(g.played) > 0
      /\ luck[Len(f.played)].outs # <<>> /\ luck[Len(g.played)].outs # <<>>
  BY DEF Decides, Last
<1>3. ~(Len(f.played) < Len(g.played))
  <2>1. ASSUME Len(f.played) < Len(g.played) PROVE Len(f.played) \in 1..Len(g.played)
    BY <1>1, <1>2, <2>1
  <2> QED BY <1>2, <2>1 DEF Tells
<1>4. ~(Len(g.played) < Len(f.played))
  <2>1. ASSUME Len(g.played) < Len(f.played) PROVE Len(g.played) \in 1..Len(f.played)
    BY <1>1, <1>2, <2>1
  <2> QED BY <1>2, <2>1 DEF Tells
<1>5. Len(f.played) = Len(g.played)
  BY <1>1, <1>3, <1>4
<1> QED BY <1>5 DEF Beaten, Last

\* What is known of s when the battle is over on its machine.
LEMMA OverKnows ==
  ASSUME LinkInv, OnCourse, NEW s \in Side, Over(s)
  PROVE  /\ side[s] \in Object /\ Tells(fate, side[s])
         /\ side[s].timedOut => side[s].result # "win"
         /\ side[s].result = "win"  => \/ side[Other(s)].timedOut
                                       \/ Decides(fate, side[s]) /\ Beaten(fate, side[s]) = Other(s)
         /\ side[s].result = "lose" => \/ side[s].timedOut
                                       \/ Decides(fate, side[s]) /\ Beaten(fate, side[s]) = s
<1>1. side[s] \in Object /\ Course(fate, s, side[s], side[Other(s)].timedOut)
  BY EndNow
<1>2. ~HasFaint(side[s].queue) /\ (side[s].timedOut => side[s].result # "win")
  BY <1>1 DEF Course, Ends, Over, HasFaint
<1> QED BY <1>1, <1>2 DEF Course, Outcome

\* A battle that is over on both machines has one winner at most, and two losers only
\* when both ran out of time (playerMonFainted, enemyMonFainted, the shot clock), if
\* nobody reorders his moves and no turn ends with the last of both parties fainting of
\* poison or the like, which each machine takes for a win of its own player.
THEOREM OneWinner == ListsStay /\ OnePoisoned => (Spec => []OneWinnerAtMost)
<1> SUFFICES ASSUME ListsStay, OnePoisoned PROVE Spec => []OneWinnerAtMost
  OBVIOUS
<1>1. ASSUME LinkInv, OnCourse, \A s \in Side : Over(s)
      PROVE  \E s \in Side : side[s].result # "win"
  <2> SUFFICES ASSUME \A s \in Side : side[s].result = "win" PROVE FALSE
    OBVIOUS
  <2>1. PICK s \in Side : TRUE
    BY DEF Side
  <2>2. Other(s) \in Side /\ Other(s) # s /\ Other(Other(s)) = s
    BY <2>1, Sides
  <2>3. /\ side[s] \in Object /\ Tells(fate, side[s]) /\ ~side[s].timedOut
        /\ side[Other(s)].timedOut
           \/ (Decides(fate, side[s]) /\ Beaten(fate, side[s]) = Other(s))
    BY <1>1, <2>1, OverKnows
  <2>4. /\ side[Other(s)] \in Object /\ Tells(fate, side[Other(s)]) /\ ~side[Other(s)].timedOut
        /\ side[s].timedOut
           \/ (Decides(fate, side[Other(s)]) /\ Beaten(fate, side[Other(s)]) = s)
    BY <1>1, <2>2, OverKnows
  <2> QED BY <2>2, <2>3, <2>4, DecidedOnce
<1>2. ASSUME LinkInv, OnCourse, \A s \in Side : Over(s), \A s \in Side : side[s].result = "lose",
             NEW s \in Side, ~side[s].timedOut
      PROVE  FALSE
  <2>1. Other(s) \in Side /\ Other(s) # s /\ Other(Other(s)) = s
    BY Sides
  <2>2. /\ side[s] \in Object /\ Tells(fate, side[s])
        /\ Decides(fate, side[s]) /\ Beaten(fate, side[s]) = s
    BY <1>2, OverKnows
  <2>3. /\ side[Other(s)] \in Object /\ Tells(fate, side[Other(s)])
        /\ side[Other(s)].timedOut
           \/ (Decides(fate, side[Other(s)]) /\ Beaten(fate, side[Other(s)]) = Other(s))
    BY <1>2, <2>1, OverKnows
  <2>4. side[Other(s)].timedOut
    BY <2>1, <2>2, <2>3, DecidedOnce
  <2>5. Len(side[s].played) <= Len(side[Other(s)].played)
    BY <1>2, <2>4, LateIsAhead
  <2>6. Len(side[s].played) \in 1..Len(side[Other(s)].played)
    <3>1. Len(side[s].played) \in Nat /\ Len(side[Other(s)].played) \in Nat
      BY <2>2, <2>3, ObjectFields, LenProperties
    <3>2. Len(side[s].played) > 0
      BY <2>2 DEF Decides
    <3> QED BY <2>5, <3>1, <3>2
  <2>7. fate[Len(side[s].played)].outs = <<>>
    BY <2>3, <2>4, <2>6 DEF Tells
  <2> QED BY <2>2, <2>7 DEF Decides, Last
<1>3. LinkInv /\ EndInv => OneWinnerAtMost
  <2>1. LinkInv /\ OnCourse => OneWinnerAtMost
    BY <1>1, <1>2 DEF OneWinnerAtMost
  <2>2. ASSUME NEW s \in Side, Parted(s) PROVE OneWinnerAtMost
    <3>1. side[s].result # "win" /\ side[Other(s)].result # "lose" /\ Other(s) \in Side
      BY <2>2, Sides DEF Parted, Astray, Stranded
    <3> QED BY <3>1 DEF OneWinnerAtMost
  <2> QED BY <2>1, <2>2 DEF EndInv
<1>4. LinkInv /\ EndInv /\ [Next]_vars => EndInv'
  BY EndStepInv
<1>5. Init => EndInv
  BY EndInitInv DEF EndInv
<1>6. Spec => []EndInv
  BY <1>4, <1>5, LinkSafety, PTL DEF Spec
<1> QED BY <1>3, <1>6, LinkSafety, PTL
=============================================================================
