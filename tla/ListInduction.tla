----------------------------- MODULE ListInduction -----------------------------
(***************************************************************************)
(* Induction on natural numbers, stated of sets, and what it gives for     *)
(* values that are computed item after item of a list.                     *)
(***************************************************************************)
EXTENDS Naturals, Sequences, SequenceTheorems, WellFoundedInduction, TLAPS

\* A number and a greater one.
Before == {ss \in Nat \X Nat : ss[1] < ss[2]}

\* No descent among the numbers goes on for ever.
LEMMA BeforeIsWellFounded == IsWellFoundedOn(Before, Nat)
  BY NatLessThanWellFounded DEF OpToRel, Before

\* A set of numbers that has one has a least one.
LEMMA LeastNumber ==
  ASSUME NEW T \in SUBSET Nat, T # {}
  PROVE  \E n \in T : \A m \in T : n <= m
<1>1. PICK n \in T : \A m \in T : <<m, n>> \notin Before
  BY BeforeIsWellFounded, WFMin
<1>2. \A m \in T : ~(m < n)
  BY <1>1 DEF Before
<1> QED BY <1>2

\* A set that has 0, and the next of each of its numbers up to m, has them all.
LEMMA Inductive ==
  ASSUME NEW m \in Nat, NEW S, 0 \in S, \A n \in 0..m : n \in S /\ n < m => n + 1 \in S
  PROVE  0..m \subseteq S
<1> SUFFICES ASSUME (0..m) \ S # {} PROVE FALSE
  OBVIOUS
<1>1. (0..m) \ S \in SUBSET Nat
  OBVIOUS
<1>2. PICK n \in (0..m) \ S : \A k \in (0..m) \ S : n <= k
  BY <1>1, LeastNumber
<1>3. n # 0 /\ n - 1 \in 0..m /\ n - 1 < m /\ (n - 1) + 1 = n
  BY <1>2
<1>4. n - 1 \in S
  BY <1>2, <1>3
<1> QED BY <1>2, <1>3, <1>4

\* What F makes of base, item after item of s.
Course(g, F, base, s) ==
  /\ g[0] = base
  /\ \A n \in 1..Len(s) : g[n] = F[<<g[n - 1], s[n]>>]

\* Such a course there is, whatever the list, and it stays in the values F is for.
LEMMA CourseExists ==
  ASSUME NEW S, NEW X, NEW F \in [S \X X -> S], NEW base \in S, NEW s \in Seq(X)
  PROVE  \E g \in [0..Len(s) -> S] : Course(g, F, base, s)
<1>1. Len(s) \in Nat /\ \A n \in 1..Len(s) : s[n] \in X
  BY LenProperties, ElementOfSeq
<1> DEFINE Upto(k, g) == g[0] = base /\ \A n \in 1..k : g[n] = F[<<g[n - 1], s[n]>>]
           T == {k \in 0..Len(s) : \E g \in [0..k -> S] : Upto(k, g)}
<1>2. 0 \in T
  <2>1. PICK g \in [0..0 -> S] : g = [i \in 0..0 |-> base]
    OBVIOUS
  <2>2. g[0] = base
    BY <2>1
  <2>3. Upto(0, g)
    BY <2>2
  <2> QED BY <1>1, <2>3
<1>3. ASSUME NEW k \in 0..Len(s), k \in T, k < Len(s)
      PROVE  k + 1 \in T
  <2>1. PICK g \in [0..k -> S] : Upto(k, g)
    BY <1>3
  <2>2. k \in Nat /\ k + 1 \in 1..Len(s) /\ g[k] \in S /\ F[<<g[k], s[k + 1]>>] \in S
    BY <1>1, <1>3
  <2>3. PICK h : h = [i \in 0..(k + 1) |-> IF i = k + 1 THEN F[<<g[k], s[k + 1]>>] ELSE g[i]]
    OBVIOUS
  <2>4. h \in [0..(k + 1) -> S] /\ h[k + 1] = F[<<g[k], s[k + 1]>>] /\ \A i \in 0..k : h[i] = g[i]
    BY <2>2, <2>3
  <2>5. h[0] = base
    BY <2>1, <2>2, <2>4
  <2>6. ASSUME NEW n \in 1..(k + 1) PROVE h[n] = F[<<h[n - 1], s[n]>>]
    <3>1. CASE n = k + 1
      BY <2>2, <2>4, <3>1
    <3>2. CASE n # k + 1
      <4>1. n \in 1..k /\ n \in 0..k /\ n - 1 \in 0..k
        BY <2>2, <3>2
      <4> QED BY <2>1, <2>4, <4>1
    <3> QED BY <3>1, <3>2
  <2>7. Upto(k + 1, h)
    BY <2>5, <2>6
  <2> QED BY <1>1, <2>2, <2>4, <2>7
<1> HIDE DEF T
<1>4. 0..Len(s) \subseteq T
  BY <1>1, <1>2, <1>3, Inductive
<1>5. Len(s) \in T
  BY <1>1, <1>4
<1> QED BY <1>5 DEF T, Course
=============================================================================
