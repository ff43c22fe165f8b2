---------------------------- MODULE ServiceProofs -----------------------------
(***************************************************************************)
(* Proofs about the services beside the game server: the development web   *)
(* server's proxy, for every size of its buffers and its reads, and the    *)
(* migration runner, for every number of scripts, deploys, edits and       *)
(* troubles.                                                               *)
(***************************************************************************)
EXTENDS DevServer, MigrationRunner, SequenceTheorems, TLAPS

-----------------------------------------------------------------------------
(***************************************************************************)
(* The proxy hands on a beginning of what each side writes.                *)
(*                                                                         *)
(* Where a byte is says its number: what t has received are the first      *)
(* bytes the other side wrote, what is on its way to t are the next, and,  *)
(* while the session lasts, what waits at the proxy are the last.          *)
(***************************************************************************)

\* q holds the bytes that come after the first k.
Numbered(q, k) == \A i \in 1..Len(q) : q[i] = k + i

Passed(s) == Len(received[Other(s)]) + Len(outbox[Other(s)])

ProxyTypes ==
  /\ phase \in {"dialing", "open", "closed", "unreachable", "aborted"}
  /\ ended \in Sides \cup {"full", "gone", ""}
  /\ ready \in Seq(Sides)
  /\ shut \subseteq Sides
  /\ written \in [Sides -> Nat]
  /\ inbox \in [Sides -> Seq(Nat)]
  /\ outbox \in [Sides -> Seq(Nat)]
  /\ received \in [Sides -> Seq(Nat)]

\* What the proxy has sent to a side is a beginning, and fits into the buffer.
SentIsBeginning ==
  \A s \in Sides : /\ Numbered(received[s], 0)
                   /\ Numbered(outbox[s], Len(received[s]))
                   /\ Len(outbox[s]) <= Room

\* What it has read and not yet sent comes next, as long as it will send it.
RestIsNext ==
  phase \in {"dialing", "open"} =>
    \A s \in Sides : Numbered(inbox[s], Passed(s)) /\ Passed(s) + Len(inbox[s]) = written[s]

\* How the session ended, and what that says of the side that ended it.
EndIsClean ==
  /\ (ended # "") = (phase = "closed")
  /\ \A s \in Sides : ended = s =>
       inbox[s] = <<>> /\ (inbox[Other(s)] = <<>> => Passed(s) = written[s])

ProxyInv == ProxyTypes /\ SentIsBeginning /\ RestIsNext /\ EndIsClean

-----------------------------------------------------------------------------
\* Sequences of numbered bytes.

LEMMA OtherSide == \A s \in Sides : Other(s) \in Sides /\ Other(s) # s /\ Other(Other(s)) = s
  BY DEF Sides, Other

\* The next byte is put behind the others ...
LEMMA NumberedAppend ==
  ASSUME NEW q \in Seq(Nat), NEW k \in Nat, Numbered(q, k), NEW n \in Nat, n = k + Len(q) + 1
  PROVE  /\ Append(q, n) \in Seq(Nat) /\ Len(Append(q, n)) = Len(q) + 1
         /\ Numbered(Append(q, n), k)
<1> DEFINE r == Append(q, n)
<1>1. Len(q) \in Nat
  BY LenProperties
<1>2. /\ r \in Seq(Nat) /\ Len(r) = Len(q) + 1
      /\ \A i \in 1..Len(q) : r[i] = q[i]
      /\ r[Len(q) + 1] = n
  BY AppendProperties
<1> HIDE DEF r
<1>3. ASSUME NEW i \in 1..Len(r) PROVE r[i] = k + i
  <2>1. CASE i = Len(q) + 1
    BY <1>1, <1>2, <2>1
  <2>2. CASE i \in 1..Len(q)
    BY <1>2, <2>2 DEF Numbered
  <2> QED BY <1>1, <1>2, <2>1, <2>2
<1> QED BY <1>2, <1>3 DEF r, Numbered

\* ... the first is taken off ...
LEMMA NumberedTail ==
  ASSUME NEW q \in Seq(Nat), q # <<>>, NEW k \in Nat, Numbered(q, k)
  PROVE  /\ Tail(q) \in Seq(Nat) /\ Len(Tail(q)) + 1 = Len(q)
         /\ Head(q) = k + 1
         /\ Numbered(Tail(q), k + 1)
<1>1. Len(q) \in Nat \ {0}
  BY EmptySeq
<1>2. Head(q) = q[1]
  OBVIOUS
<1> DEFINE r == Tail(q)
<1>3. r \in Seq(Nat) /\ Len(r) = Len(q) - 1 /\ \A i \in 1..Len(r) : r[i] = q[i + 1]
  BY HeadTailProperties
<1> HIDE DEF r
<1>4. Numbered(r, k + 1)
  BY <1>1, <1>3 DEF Numbered
<1> QED BY <1>1, <1>2, <1>3, <1>4 DEF Numbered, r

\* ... two rows are joined ...
LEMMA NumberedConcat ==
  ASSUME NEW p \in Seq(Nat), NEW q \in Seq(Nat), NEW k \in Nat,
         Numbered(p, k), Numbered(q, k + Len(p))
  PROVE  /\ p \o q \in Seq(Nat) /\ Len(p \o q) = Len(p) + Len(q)
         /\ Numbered(p \o q, k)
<1>1. Len(p) \in Nat /\ Len(q) \in Nat
  BY LenProperties
<1> DEFINE r == p \o q
<1>2. r \in Seq(Nat) /\ Len(r) = Len(p) + Len(q)
  BY ConcatProperties
<1>3. \A i \in 1..Len(p) + Len(q) : r[i] = IF i <= Len(p) THEN p[i] ELSE q[i - Len(p)]
  BY ConcatProperties
<1> HIDE DEF r
<1>4. ASSUME NEW i \in 1..Len(r) PROVE r[i] = k + i
  <2>1. CASE i \in 1..Len(p)
    <3>1. r[i] = p[i]
      BY <1>1, <1>2, <1>3, <2>1
    <3> QED BY <2>1, <3>1 DEF Numbered
  <2>2. CASE i - Len(p) \in 1..Len(q)
    <3>1. r[i] = q[i - Len(p)] /\ q[i - Len(p)] = k + Len(p) + (i - Len(p))
      BY <1>1, <1>2, <1>3, <2>2 DEF Numbered
    <3> QED BY <1>1, <3>1
  <2> QED BY <1>1, <1>2, <2>1, <2>2
<1> QED BY <1>2, <1>4 DEF r, Numbered

\* ... and one is cut in two.
LEMMA NumberedCut ==
  ASSUME NEW q \in Seq(Nat), NEW k \in Nat, Numbered(q, k), NEW n \in 0..Len(q)
  PROVE  /\ SubSeq(q, 1, n) \in Seq(Nat) /\ Len(SubSeq(q, 1, n)) = n
         /\ Numbered(SubSeq(q, 1, n), k)
         /\ SubSeq(q, n + 1, Len(q)) \in Seq(Nat) /\ Len(SubSeq(q, n + 1, Len(q))) = Len(q) - n
         /\ Numbered(SubSeq(q, n + 1, Len(q)), k + n)
<1>1. Len(q) \in Nat /\ \A i \in 1..Len(q) : q[i] \in Nat
  BY LenProperties
<1> DEFINE a == SubSeq(q, 1, n)
           b == SubSeq(q, n + 1, Len(q))
<1>2. a \in Seq(Nat) /\ Len(a) = n /\ \A i \in 1..n : a[i] = q[i]
  BY <1>1, SubSeqProperties
<1>3. b \in Seq(Nat) /\ Len(b) = Len(q) - n /\ \A i \in 1..Len(q) - n : b[i] = q[n + i]
  <2>1. \A i \in n + 1 .. Len(q) : q[i] \in Nat
    BY <1>1
  <2>2. n + 1 \in Int /\ Len(q) \in Int
    BY <1>1
  <2> DEFINE m == n + 1
             l == Len(q)
  <2>3. /\ b \in Seq(Nat)
        /\ Len(b) = IF m <= l THEN l - m + 1 ELSE 0
        /\ \A i \in 1..l - m + 1 : b[i] = q[m + i - 1]
    BY <2>1, <2>2, SubSeqProperties
  <2> HIDE DEF b
  <2> QED BY <1>1, <2>3
<1> HIDE DEF a, b
<1>4. ASSUME NEW i \in 1..Len(a) PROVE a[i] = k + i
  <2>1. i \in 1..Len(q) /\ a[i] = q[i]
    BY <1>1, <1>2
  <2> QED BY <2>1 DEF Numbered
<1>5. ASSUME NEW i \in 1..Len(b) PROVE b[i] = k + n + i
  <2>1. n + i \in 1..Len(q) /\ b[i] = q[n + i]
    BY <1>1, <1>3
  <2>2. q[n + i] = k + (n + i)
    BY <2>1 DEF Numbered
  <2> QED BY <1>1, <1>3, <2>1, <2>2
<1> QED BY <1>2, <1>3, <1>4, <1>5 DEF a, b, Numbered

\* A numbered beginning is what it should be.
LEMMA NumberedIsBeginning ==
  ASSUME NEW q \in Seq(Nat), Numbered(q, 0)
  PROVE  q = [i \in 1..Len(q) |-> i]
  BY LenProperties DEF Numbered

-----------------------------------------------------------------------------
\* What the types give of one side.
LEMMA SideTypes ==
  ASSUME ProxyTypes, NEW s \in Sides
  PROVE  /\ inbox[s] \in Seq(Nat) /\ outbox[s] \in Seq(Nat) /\ received[s] \in Seq(Nat)
         /\ Len(inbox[s]) \in Nat /\ Len(outbox[s]) \in Nat /\ Len(received[s]) \in Nat
         /\ written[s] \in Nat
<1>1. inbox[s] \in Seq(Nat) /\ outbox[s] \in Seq(Nat) /\ received[s] \in Seq(Nat) /\ written[s] \in Nat
  BY DEF ProxyTypes
<1> QED BY <1>1, LenProperties

LEMMA PassedNat ==
  ASSUME ProxyTypes, NEW s \in Sides
  PROVE  Passed(s) \in Nat
<1> DEFINE a == Len(received[Other(s)])
           b == Len(outbox[Other(s)])
<1>1. a \in Nat /\ b \in Nat
  BY OtherSide, SideTypes
<1>2. Passed(s) = a + b
  BY DEF Passed
<1> HIDE DEF a, b
<1> QED BY <1>1, <1>2

LEMMA ProxyInitInv == ProxyInit => ProxyInv
<1> SUFFICES ASSUME ProxyInit PROVE ProxyInv
  OBVIOUS
<1>1. <<>> \in Seq(Nat) /\ <<>> \in Seq(Sides) /\ Len(<<>>) = 0
  OBVIOUS
<1>2. \A s \in Sides : inbox[s] = <<>> /\ outbox[s] = <<>> /\ received[s] = <<>> /\ written[s] = 0
  BY DEF ProxyInit
<1>3. ProxyTypes
  BY <1>1 DEF ProxyInit, ProxyTypes
<1>4. \A k \in Nat : Numbered(<<>>, k)
  BY <1>1 DEF Numbered
<1>5. SentIsBeginning
  BY <1>1, <1>2, <1>4, ProxyAssumption DEF SentIsBeginning
<1>6. RestIsNext
  <2>1. \A s \in Sides : Len(received[s]) = 0 /\ Len(outbox[s]) = 0
    BY <1>1, <1>2
  <2>2. \A s \in Sides : Passed(s) = 0 + 0
    BY <2>1, OtherSide DEF Passed
  <2> QED BY <1>1, <1>2, <1>4, <2>2 DEF RestIsNext
<1>7. EndIsClean
  BY DEF ProxyInit, EndIsClean, Sides
<1> QED BY <1>3, <1>5, <1>6, <1>7 DEF ProxyInv

\* Steps that move no byte: dialing, a side that closes, and select.
LEMMA QuietProxy ==
  ASSUME ProxyInv, ProxyTypes', UNCHANGED <<written, inbox, outbox, received, ended>>,
         phase' \in {"dialing", "open"} => phase \in {"dialing", "open"},
         (phase' = "closed") = (phase = "closed")
  PROVE  ProxyInv'
<1>1. SentIsBeginning'
  BY DEF ProxyInv, SentIsBeginning
<1>2. RestIsNext'
  BY DEF ProxyInv, RestIsNext, Passed
<1>3. EndIsClean'
  BY DEF ProxyInv, EndIsClean, Passed
<1> QED BY <1>1, <1>2, <1>3 DEF ProxyInv

LEMMA DialInv == ProxyInv /\ Dial => ProxyInv'
<1> SUFFICES ASSUME ProxyInv, Dial PROVE ProxyInv'
  OBVIOUS
<1>1. ProxyTypes'
  BY DEF ProxyInv, ProxyTypes, Dial
<1> QED BY <1>1, QuietProxy DEF Dial

LEMMA ShutInv == ASSUME ProxyInv, NEW s \in Sides, Shut(s) PROVE ProxyInv'
<1>1. ProxyTypes'
  BY DEF ProxyInv, ProxyTypes, Shut
<1> QED BY <1>1, QuietProxy DEF Shut

LEMMA SelectInv == ProxyInv /\ Select => ProxyInv'
<1> SUFFICES ASSUME ProxyInv, Select PROVE ProxyInv'
  OBVIOUS
<1>1. ready' \in Seq(Sides)
  <2>1. <<"client">> \in Seq(Sides) /\ <<"upstream">> \in Seq(Sides)
    BY DEF Sides
  <2>2. <<"client", "upstream">> \in Seq(Sides)
    BY DEF Sides
  <2> QED BY <2>1, <2>2 DEF Select, Polls
<1>2. ProxyTypes'
  BY <1>1 DEF ProxyInv, ProxyTypes, Select
<1> QED BY <1>2, QuietProxy DEF Select

LEMMA SayInv == ASSUME ProxyInv, NEW s \in Sides, Say(s) PROVE ProxyInv'
<1> DEFINE n == written[s] + 1
<1>0. ProxyTypes /\ SentIsBeginning /\ RestIsNext /\ EndIsClean
  BY DEF ProxyInv
<1>1. /\ Passed(s) \in Nat /\ n \in Nat /\ n = Passed(s) + Len(inbox[s]) + 1
      /\ inbox[s] \in Seq(Nat) /\ Numbered(inbox[s], Passed(s)) /\ Len(inbox[s]) \in Nat
  <2>1. /\ inbox[s] \in Seq(Nat) /\ Len(inbox[s]) \in Nat /\ written[s] \in Nat
        /\ Len(received[Other(s)]) \in Nat /\ Len(outbox[Other(s)]) \in Nat
    BY <1>0, SideTypes, OtherSide
  <2>2. Numbered(inbox[s], Passed(s)) /\ Passed(s) + Len(inbox[s]) = written[s]
    BY <1>0 DEF RestIsNext, Say
  <2>3. Passed(s) \in Nat
    BY <1>0, PassedNat
  <2> QED BY <2>1, <2>2, <2>3
<1> DEFINE r == Append(inbox[s], n)
<1>2. r \in Seq(Nat) /\ Len(r) = Len(inbox[s]) + 1 /\ Numbered(r, Passed(s))
  BY <1>1, NumberedAppend
<1>3. inbox' = [inbox EXCEPT ![s] = r] /\ written' = [written EXCEPT ![s] = n]
  BY DEF Say
<1> HIDE DEF r, n
<1>4. ProxyTypes'
  <2>1. inbox' \in [Sides -> Seq(Nat)] /\ written' \in [Sides -> Nat]
    BY <1>0, <1>1, <1>2, <1>3 DEF ProxyTypes
  <2> QED BY <1>0, <2>1 DEF ProxyTypes, Say
<1>5. SentIsBeginning'
  BY <1>0 DEF SentIsBeginning, Say
<1>6. \A t \in Sides : Passed(t)' = Passed(t)
  BY DEF Passed, Say
<1>7. RestIsNext'
  <2> SUFFICES ASSUME NEW t \in Sides
               PROVE  Numbered(inbox'[t], Passed(t)) /\ Passed(t) + Len(inbox'[t]) = written'[t]
    BY <1>6 DEF RestIsNext
  <2>1. CASE t = s
    <3>1. inbox'[t] = r /\ written'[t] = n
      BY <1>0, <1>3, <2>1 DEF ProxyTypes
    <3> QED BY <1>1, <1>2, <2>1, <3>1
  <2>2. CASE t # s
    <3>1. inbox'[t] = inbox[t] /\ written'[t] = written[t]
      BY <1>0, <1>3, <2>2 DEF ProxyTypes
    <3> QED BY <1>0, <3>1 DEF RestIsNext, Say
  <2> QED BY <2>1, <2>2
<1>8. EndIsClean'
  <2>1. ended = "" /\ ended' = ended /\ phase' = phase
    BY <1>0 DEF EndIsClean, Say
  <2> QED BY <1>0, <2>1 DEF EndIsClean, Sides
<1> QED BY <1>4, <1>5, <1>7, <1>8 DEF ProxyInv

LEMMA ReceiveInv == ASSUME ProxyInv, NEW s \in Sides, Receive(s) PROVE ProxyInv'
<1>0. ProxyTypes /\ SentIsBeginning /\ RestIsNext /\ EndIsClean
  BY DEF ProxyInv
<1> DEFINE o == outbox[s]
           g == received[s]
           h == Head(o)
           o2 == Tail(o)
           g2 == Append(g, h)
<1>1. /\ o \in Seq(Nat) /\ o # <<>> /\ g \in Seq(Nat) /\ Len(g) \in Nat /\ Len(o) \in Nat
      /\ Numbered(g, 0) /\ Numbered(o, Len(g)) /\ Len(o) <= Room
  BY <1>0, SideTypes DEF SentIsBeginning, Receive
<1>2. /\ outbox' = [outbox EXCEPT ![s] = o2]
      /\ received' = [received EXCEPT ![s] = g2]
  BY DEF Receive
<1> HIDE DEF o, g
<1>3. o2 \in Seq(Nat) /\ Len(o2) + 1 = Len(o) /\ h = Len(g) + 1 /\ Numbered(o2, Len(g) + 1)
  BY <1>1, NumberedTail
<1> HIDE DEF h, o2
<1>4. g2 \in Seq(Nat) /\ Len(g2) = Len(g) + 1 /\ Numbered(g2, 0)
  BY <1>1, <1>3, NumberedAppend
<1> HIDE DEF g2
<1>5. Len(o2) \in Nat
  BY <1>3, LenProperties
<1>6. ProxyTypes'
  BY <1>0, <1>2, <1>3, <1>4 DEF ProxyTypes, Receive
<1>7. /\ outbox'[s] = o2 /\ received'[s] = g2
      /\ \A t \in Sides \ {s} : outbox'[t] = outbox[t] /\ received'[t] = received[t]
  BY <1>0, <1>2 DEF ProxyTypes
<1>8. SentIsBeginning'
  <2>1. Numbered(g2, 0) /\ Numbered(o2, Len(g2)) /\ Len(o2) <= Room
    BY <1>1, <1>3, <1>4, <1>5, ProxyAssumption
  <2> QED BY <1>0, <1>7, <2>1 DEF SentIsBeginning
<1>9. \A t \in Sides : Passed(t)' = Passed(t)
  <2>1. Len(g2) + Len(o2) = Len(g) + Len(o)
    <3>1. Len(g) \in Nat /\ Len(o2) \in Nat
      BY <1>1, <1>5
    <3>2. Len(g2) = Len(g) + 1 /\ Len(o) = Len(o2) + 1
      BY <1>3, <1>4
    <3> HIDE DEF g, o, g2, o2
    <3> QED BY <3>1, <3>2
  <2> QED BY <1>7, <2>1, OtherSide DEF Passed, o, g
<1>10. RestIsNext' /\ EndIsClean'
  BY <1>0, <1>9 DEF RestIsNext, EndIsClean, Receive
<1> QED BY <1>6, <1>8, <1>10 DEF ProxyInv

LEMMA ResetInv == ASSUME ProxyInv, NEW s \in Sides, Reset(s) PROVE ProxyInv'
<1>0. ProxyTypes /\ SentIsBeginning /\ RestIsNext /\ EndIsClean
  BY DEF ProxyInv
<1>1. <<>> \in Seq(Nat) /\ Len(<<>>) = 0 /\ \A k \in Nat : Numbered(<<>>, k)
  BY DEF Numbered
<1>2. ProxyTypes'
  BY <1>0, <1>1 DEF ProxyTypes, Reset
<1>3. outbox'[s] = <<>> /\ \A t \in Sides \ {s} : outbox'[t] = outbox[t]
  BY <1>0 DEF ProxyTypes, Reset
<1>4. SentIsBeginning'
  BY <1>0, <1>1, <1>3, SideTypes, ProxyAssumption DEF SentIsBeginning, Reset
<1>5. RestIsNext'
  BY DEF RestIsNext, Reset
\* The side that is reset left bytes unread: nothing is promised of the stream to it.
<1>6. EndIsClean'
  <2> SUFFICES ASSUME NEW t \in Sides, ended = t
               PROVE  inbox[t] = <<>> /\ (inbox[Other(t)] = <<>> => Passed(t)' = written[t])
    BY <1>0 DEF EndIsClean, Reset
  <2>1. inbox[t] = <<>> /\ (inbox[Other(t)] = <<>> => Passed(t) = written[t])
    BY <1>0 DEF EndIsClean
  <2>2. inbox[Other(t)] = <<>> => Other(t) # s
    BY DEF Reset
  <2>3. Other(t) # s => Passed(t)' = Passed(t)
    BY <1>3, OtherSide DEF Passed, Reset
  <2> QED BY <2>1, <2>2, <2>3
<1> QED BY <1>2, <1>4, <1>5, <1>6 DEF ProxyInv

\* The proxy takes a chunk off one side's bytes and sends what the other's buffer takes.
LEMMA Pump ==
  ASSUME ProxyInv, phase = "open", NEW s \in Sides, NEW m \in 0..Len(inbox[s]),
         NEW bytes \in Seq(Nat), Numbered(bytes, Passed(s)),
         Len(bytes) + Len(outbox[Other(s)]) <= Room,
         outbox' = [outbox EXCEPT ![Other(s)] = @ \o bytes],
         inbox' = [inbox EXCEPT ![s] = SubSeq(@, m + 1, Len(@))],
         UNCHANGED <<written, received>>
  PROVE  /\ inbox' \in [Sides -> Seq(Nat)] /\ outbox' \in [Sides -> Seq(Nat)]
         /\ SentIsBeginning'
         /\ Len(bytes) = m => \A u \in Sides : /\ Numbered(inbox'[u], Passed(u)')
                                               /\ Passed(u)' + Len(inbox'[u]) = written[u]
<1>0. ProxyTypes /\ SentIsBeginning /\ RestIsNext
  BY DEF ProxyInv
<1> DEFINE t == Other(s)
           o == outbox[t]
           g == received[t]
           q == inbox[s]
           o2 == o \o bytes
           q2 == SubSeq(q, m + 1, Len(q))
<1>1. t \in Sides /\ t # s /\ Other(t) = s
  BY OtherSide
<1>2. /\ o \in Seq(Nat) /\ g \in Seq(Nat) /\ q \in Seq(Nat)
      /\ Numbered(g, 0) /\ Numbered(o, Len(g))
      /\ Numbered(q, Passed(s))
  BY <1>0, <1>1, SideTypes DEF SentIsBeginning, RestIsNext
<1>3. Len(o) \in Nat /\ Len(g) \in Nat /\ Len(q) \in Nat /\ Len(bytes) \in Nat
  BY <1>2, LenProperties
<1>4. Passed(s) = Len(g) + Len(o) /\ Passed(s) + Len(q) = written[s]
  BY <1>0 DEF Passed, RestIsNext
<1>5. outbox' = [outbox EXCEPT ![t] = o2] /\ inbox' = [inbox EXCEPT ![s] = q2]
  OBVIOUS
<1>6. Len(bytes) + Len(o) <= Room /\ m \in 0..Len(q)
  OBVIOUS
<1> HIDE DEF o, g, q, t
<1>7. o2 \in Seq(Nat) /\ Len(o2) = Len(o) + Len(bytes) /\ Numbered(o2, Len(g))
  <2>1. Numbered(bytes, Len(g) + Len(o))
    BY <1>4
  <2> QED BY <1>2, <1>3, <2>1, NumberedConcat
<1>8. q2 \in Seq(Nat) /\ Len(q2) = Len(q) - m /\ Numbered(q2, Passed(s) + m)
  <2>1. Passed(s) \in Nat
    BY <1>0, PassedNat
  <2> QED BY <1>2, <1>6, <2>1, NumberedCut
<1> HIDE DEF o2, q2
<1>9. inbox' \in [Sides -> Seq(Nat)] /\ outbox' \in [Sides -> Seq(Nat)]
  <2>1. inbox \in [Sides -> Seq(Nat)] /\ outbox \in [Sides -> Seq(Nat)]
    BY <1>0 DEF ProxyTypes
  <2>2. q2 \in Seq(Nat) /\ o2 \in Seq(Nat)
    BY <1>7, <1>8
  <2> QED BY <1>5, <2>1, <2>2
<1>10. /\ outbox'[t] = o2 /\ inbox'[s] = q2
       /\ \A u \in Sides \ {t} : outbox'[u] = outbox[u]
       /\ \A u \in Sides \ {s} : inbox'[u] = inbox[u]
  BY <1>0, <1>1, <1>5 DEF ProxyTypes
<1>11. SentIsBeginning'
  <2>1. Len(o2) <= Room
    BY <1>3, <1>6, <1>7, ProxyAssumption
  <2> QED BY <1>0, <1>2, <1>7, <1>10, <2>1 DEF SentIsBeginning, g
<1>12. ASSUME Len(bytes) = m, NEW u \in Sides
       PROVE  Numbered(inbox'[u], Passed(u)') /\ Passed(u)' + Len(inbox'[u]) = written[u]
  <2>1. CASE u = s
    <3>1. Passed(s)' = Len(g) + Len(o2)
      BY <1>10 DEF Passed, g, t
    <3>2. Len(o2) = Len(o) + m /\ Len(q2) = Len(q) - m /\ m \in Nat
      BY <1>6, <1>7, <1>8, <1>12, <1>3
    <3>3. Passed(s)' = Passed(s) + m /\ Passed(s)' + Len(q2) = written[s]
      BY <1>3, <1>4, <3>1, <3>2
    <3> QED BY <1>8, <1>10, <2>1, <3>3
  <2>2. CASE u # s
    <3>1. u = t
      BY <1>12, <2>2 DEF t, Sides, Other
    <3>2. Passed(u)' = Passed(u)
      BY <1>1, <1>10, <3>1 DEF Passed
    <3>3. inbox'[u] = inbox[u]
      BY <1>10, <2>2
    <3> QED BY <1>0, <3>2, <3>3 DEF RestIsNext
  <2> QED BY <2>1, <2>2
<1> QED BY <1>9, <1>11, <1>12

LEMMA ForwardInv == ProxyInv /\ Forward => ProxyInv'
<1> SUFFICES ASSUME ProxyInv, Forward PROVE ProxyInv'
  OBVIOUS
<1>0. ProxyTypes /\ SentIsBeginning /\ RestIsNext /\ EndIsClean
  BY DEF ProxyInv
<1> DEFINE s == Head(ready)
           t == Other(s)
           m == IF Len(inbox[s]) < Chunk THEN Len(inbox[s]) ELSE Chunk
           chunk == SubSeq(inbox[s], 1, m)
           free == Room - Len(outbox[t])
           Send(bytes) == /\ outbox' = [outbox EXCEPT ![t] = @ \o bytes]
                          /\ inbox' = [inbox EXCEPT ![s] = SubSeq(@, Len(chunk) + 1, Len(@))]
<1>1. phase = "open" /\ ready # <<>> /\ UNCHANGED <<written, shut, received>>
  BY DEF Forward
<1>2. s \in Sides /\ t \in Sides /\ Tail(ready) \in Seq(Sides) /\ <<>> \in Seq(Sides)
  <2>1. ready \in Seq(Sides)
    BY <1>0 DEF ProxyTypes
  <2>2. s \in Sides /\ Tail(ready) \in Seq(Sides)
    BY <1>1, <2>1, HeadTailProperties
  <2>3. <<>> \in Seq(Sides)
    BY EmptySeq
  <2> QED BY <2>2, <2>3, OtherSide
<1>3. \/ chunk = <<>> /\ End(s) /\ UNCHANGED <<inbox, outbox>>
      \/ /\ Len(chunk) <= free
         /\ Send(chunk)
         /\ ready' = Tail(ready)
         /\ UNCHANGED <<phase, ended>>
      \/ /\ Len(chunk) > free
         /\ Send(SubSeq(chunk, 1, free))
         /\ End("full")
      \/ Send(<<>>) /\ End("gone")
  BY DEF Forward, AtEnd, SendFails
<1>4. inbox[s] \in Seq(Nat) /\ Len(inbox[s]) \in Nat /\ Len(outbox[t]) \in Nat
  BY <1>0, <1>2, SideTypes
<1>5. Numbered(inbox[s], Passed(s)) /\ Passed(s) + Len(inbox[s]) = written[s] /\ Passed(s) \in Nat
  BY <1>0, <1>1, <1>2, PassedNat DEF RestIsNext
<1>6. Len(outbox[t]) <= Room
  BY <1>0, <1>2 DEF SentIsBeginning
<1> HIDE DEF s
<1>7. m \in 0..Len(inbox[s])
  BY <1>4, ProxyAssumption
<1> HIDE DEF m
<1>8. chunk \in Seq(Nat) /\ Len(chunk) = m /\ Numbered(chunk, Passed(s))
  BY <1>4, <1>5, <1>7, NumberedCut
<1>9. free \in Nat
  BY <1>4, <1>6, ProxyAssumption
\* Whatever is sent, the invariant's first half holds.
<1>10. ASSUME NEW bytes \in Seq(Nat), Numbered(bytes, Passed(s)), Len(bytes) <= free, Send(bytes)
       PROVE  /\ inbox' \in [Sides -> Seq(Nat)] /\ outbox' \in [Sides -> Seq(Nat)]
              /\ SentIsBeginning'
              /\ Len(bytes) = m => \A u \in Sides : /\ Numbered(inbox'[u], Passed(u)')
                                                    /\ Passed(u)' + Len(inbox'[u]) = written[u]
  <2>1. Len(bytes) \in Nat
    BY <1>10, LenProperties
  <2>2. Len(bytes) + Len(outbox[Other(s)]) <= Room
    BY <1>4, <1>10, <2>1, ProxyAssumption
  <2>3. /\ outbox' = [outbox EXCEPT ![Other(s)] = @ \o bytes]
        /\ inbox' = [inbox EXCEPT ![s] = SubSeq(@, m + 1, Len(@))]
    BY <1>8, <1>10
  <2> QED BY <1>1, <1>2, <1>7, <1>10, <2>2, <2>3, Pump
<1>11. ASSUME NEW why \in {"full", "gone"}, End(why),
              inbox' \in [Sides -> Seq(Nat)], outbox' \in [Sides -> Seq(Nat)], SentIsBeginning'
       PROVE  ProxyInv'
  <2>1. ProxyTypes'
    BY <1>0, <1>1, <1>2, <1>11 DEF ProxyTypes, End
  <2>2. RestIsNext' /\ EndIsClean'
    BY <1>11 DEF RestIsNext, EndIsClean, End, Sides
  <2> QED BY <1>11, <2>1, <2>2 DEF ProxyInv
<1>12. CASE chunk = <<>> /\ End(s) /\ UNCHANGED <<inbox, outbox>>
  <2>1. ProxyTypes'
    BY <1>0, <1>1, <1>2, <1>12 DEF ProxyTypes, End
  <2>2. SentIsBeginning' /\ RestIsNext'
    BY <1>0, <1>1, <1>12 DEF SentIsBeginning, RestIsNext, End
  <2>3. m = 0
    <3>1. Len(chunk) = 0
      BY <1>8, <1>12, EmptySeq
    <3> QED BY <1>8, <3>1
  <2>4. Len(inbox[s]) = 0
    BY <1>4, <2>3, ProxyAssumption DEF m
  <2>5. inbox[s] = <<>>
    BY <1>4, <2>4, EmptySeq
  <2>6. Passed(s) = written[s]
    BY <1>5, <2>4
  <2>7. EndIsClean'
    BY <1>1, <1>2, <1>12, <2>5, <2>6 DEF EndIsClean, End, Sides, Passed
  <2> QED BY <2>1, <2>2, <2>7 DEF ProxyInv
<1>13. CASE Len(chunk) <= free /\ Send(chunk) /\ ready' = Tail(ready) /\ UNCHANGED <<phase, ended>>
  <2>1. /\ inbox' \in [Sides -> Seq(Nat)] /\ outbox' \in [Sides -> Seq(Nat)]
        /\ SentIsBeginning'
        /\ \A u \in Sides : /\ Numbered(inbox'[u], Passed(u)')
                            /\ Passed(u)' + Len(inbox'[u]) = written[u]
    BY <1>8, <1>10, <1>13
  <2>2. ProxyTypes'
    BY <1>0, <1>1, <1>2, <1>13, <2>1 DEF ProxyTypes
  <2>3. RestIsNext'
    BY <1>1, <2>1 DEF RestIsNext
  <2>4. EndIsClean'
    <3>1. ended = ""
      BY <1>0, <1>1 DEF EndIsClean
    <3> QED BY <1>0, <1>13, <3>1 DEF EndIsClean, Sides
  <2> QED BY <2>1, <2>2, <2>3, <2>4 DEF ProxyInv
<1>14. CASE Len(chunk) > free /\ Send(SubSeq(chunk, 1, free)) /\ End("full")
  <2> DEFINE bytes == SubSeq(chunk, 1, free)
  <2>1. free \in 0..Len(chunk)
    BY <1>8, <1>9, <1>14, LenProperties
  <2> HIDE DEF chunk, free
  <2>2. bytes \in Seq(Nat) /\ Len(bytes) = free /\ Numbered(bytes, Passed(s))
    BY <1>5, <1>8, <2>1, NumberedCut
  <2>3. Len(bytes) <= free
    BY <1>9, <2>2
  <2> HIDE DEF bytes
  <2> QED BY <1>10, <1>11, <1>14, <2>2, <2>3 DEF bytes
<1>15. CASE Send(<<>>) /\ End("gone")
  <2>1. <<>> \in Seq(Nat) /\ Len(<<>>) = 0 /\ Numbered(<<>>, Passed(s))
    BY DEF Numbered
  <2>2. Len(<<>>) <= free
    BY <1>9, <2>1
  <2> QED BY <1>10, <1>11, <1>15, <2>1, <2>2
<1> QED BY <1>3, <1>12, <1>13, <1>14, <1>15

LEMMA ProxyStepInv == ProxyInv /\ [ProxyNext]_proxyVars => ProxyInv'
<1> SUFFICES ASSUME ProxyInv, [ProxyNext]_proxyVars PROVE ProxyInv'
  OBVIOUS
<1>1. CASE UNCHANGED proxyVars
  <2>1. ProxyTypes'
    BY <1>1 DEF proxyVars, ProxyInv, ProxyTypes
  <2> QED BY <1>1, <2>1, QuietProxy DEF proxyVars
<1> QED BY <1>1, DialInv, SayInv, ShutInv, ReceiveInv, ResetInv, SelectInv, ForwardInv DEF ProxyNext

\* The inductive invariant of the proxy (serve.py:76-127).
THEOREM ProxySafety == ProxySpec => []ProxyInv
  BY ProxyInitInv, ProxyStepInv, PTL DEF ProxySpec

\* A session's state keeps its types and its buffers their size.
THEOREM ProxyTyped == ProxySpec => []ProxyTypeOK
<1>1. ProxyInv => ProxyTypeOK
  BY DEF ProxyInv, ProxyTypes, SentIsBeginning, EndIsClean, ProxyTypeOK
<1> QED BY <1>1, ProxySafety, PTL

\* What a side receives is a beginning of what the other wrote, nothing is held
\* back while the session lasts, and a side that closes has been heard out.
THEOREM StreamsArrive == ProxySpec => []StreamArrives
<1>1. ASSUME ProxyInv PROVE StreamArrives
  <2>0. ProxyTypes /\ SentIsBeginning /\ RestIsNext /\ EndIsClean
    BY <1>1 DEF ProxyInv
  <2>1. ASSUME NEW s \in Sides
        PROVE  /\ HandedOn(s) \in Seq(Nat) /\ Numbered(HandedOn(s), 0)
               /\ Len(HandedOn(s)) = Passed(s)
    <3>1. Other(s) \in Sides
      BY OtherSide
    <3>2. received[Other(s)] \in Seq(Nat) /\ outbox[Other(s)] \in Seq(Nat) /\ Len(received[Other(s)]) \in Nat
      BY <2>0, <3>1, SideTypes
    <3>3. Numbered(received[Other(s)], 0) /\ Numbered(outbox[Other(s)], 0 + Len(received[Other(s)]))
      BY <2>0, <3>1, <3>2 DEF SentIsBeginning
    <3> QED BY <3>2, <3>3, NumberedConcat DEF HandedOn, Passed
  <2>2. BeginningArrives
    BY <2>1, NumberedIsBeginning DEF BeginningArrives
  <2>3. NothingLost
    <3> SUFFICES ASSUME phase = "open", NEW s \in Sides
                 PROVE  HandedOn(s) \o inbox[s] = [i \in 1..written[s] |-> i]
      BY DEF NothingLost
    <3> DEFINE h == HandedOn(s)
               q == inbox[s]
               r == h \o q
    <3>1. h \in Seq(Nat) /\ Numbered(h, 0) /\ Len(h) = Passed(s) /\ Passed(s) \in Nat
      BY <2>0, <2>1, PassedNat
    <3>2. q \in Seq(Nat) /\ Numbered(q, Passed(s)) /\ Passed(s) + Len(q) = written[s]
      BY <2>0, SideTypes DEF RestIsNext
    <3> HIDE DEF h, q
    <3>3. Numbered(q, 0 + Len(h))
      BY <3>1, <3>2
    <3>4. r \in Seq(Nat) /\ Len(r) = Len(h) + Len(q) /\ Numbered(r, 0)
      BY <3>1, <3>2, <3>3, NumberedConcat
    <3> HIDE DEF r
    <3>5. Len(r) = written[s]
      BY <3>1, <3>2, <3>4
    <3>6. r = [i \in 1..Len(r) |-> i]
      BY <3>4, NumberedIsBeginning
    <3>7. r = [i \in 1..written[s] |-> i]
      BY <3>5, <3>6
    <3> QED BY <3>7 DEF r, h, q
  <2>4. EndsAfterLast
    BY <2>0, <2>1, NumberedIsBeginning DEF EndIsClean, EndsAfterLast
  <2> QED BY <2>2, <2>3, <2>4 DEF StreamArrives
<1> QED BY <1>1, ProxySafety, PTL

-----------------------------------------------------------------------------
(***************************************************************************)
(* The ledger of the migration runner is true.                             *)
(*                                                                         *)
(* While no connection is lost the lock alone would do.  Without it the    *)
(* proof rests on a script failing on what it finds done: only the run     *)
(* whose transaction inserted a row ever writes its checksum, so nobody    *)
(* who has passed a script sees its checksum change.  The first script,    *)
(* which tolerates what is there, is the exception the properties make.    *)
(***************************************************************************)

Steps  == {"check", "apply", "record"}
Pcs    == {"idle", "lock"} \cup Steps \cup Outcomes
Run    == [pc : Pcs, at : Version, loaded : [Version -> Content], locked : BOOLEAN]

MigrationTypes ==
  /\ scripts \in [Version -> Content]
  /\ runner \in [Runner -> Run]
  /\ ledger \in [Version -> Content \cup {Absent, Unset}]
  /\ applied \in [Version -> Seq(Content)]
  /\ scriptEdits \in 0..MaxScriptEdits
  /\ troubles \in Nat

\* The ledger has a row for what was executed, and true checksums only.
LedgerMatches ==
  /\ \A v \in Version : /\ ledger[v] = Absent <=> applied[v] = <<>>
                        /\ ledger[v] \in Content => ledger[v] \in Executed(v)
  /\ EachOnceInOrder

\* Who has passed v finds his checksum there.
Finds(loaded, v) ==
  \/ ledger[v] = loaded[v]
  \/ v = First /\ troubles > 0 /\ ledger[v] # Absent

Settled(p, v) == Finds(runner[p].loaded, v)

\* What a run has behind it, and what it is about to record.
RunIsTrue(p) ==
  /\ runner[p].pc = "record" =>
       /\ runner[p].loaded[runner[p].at] \in Executed(runner[p].at)
       /\ runner[p].at # First => ledger[runner[p].at] = Unset
  /\ runner[p].pc \in Steps => \A v \in Version : v < runner[p].at => Settled(p, v)
  /\ runner[p].pc = "done" => \A v \in Version : Settled(p, v)
  /\ troubles = 0 /\ runner[p].pc \notin {"idle", "lock"} => runner[p].locked

\* One run has the lock, and one run records a script other than the first.
OneAtATime ==
  \A p, q \in Runner :
    /\ runner[p].locked /\ runner[q].locked => p = q
    /\ /\ runner[p].pc = "record" /\ runner[q].pc = "record"
       /\ runner[p].at = runner[q].at /\ runner[p].at # First
       => p = q

UnsetIsTemporary ==
  \A v \in Version : ledger[v] = Unset =>
    troubles > 0 \/ \E p \in Runner : runner[p].pc = "record" /\ runner[p].at = v

MigrationInv ==
  /\ MigrationTypes
  /\ LedgerMatches
  /\ OneAtATime
  /\ UnsetIsTemporary
  /\ \A p \in Runner : RunIsTrue(p)

-----------------------------------------------------------------------------
LEMMA MigrationInitInv == MigrationInit => MigrationInv
<1> SUFFICES ASSUME MigrationInit PROVE MigrationInv
  OBVIOUS
<1>1. First \in Version /\ 0 \in Content
  BY MigrationAssumption DEF First, Version, Content
<1>2. MigrationTypes
  <2>1. <<>> \in Seq(Content)
    OBVIOUS
  <2> QED BY <1>1, <2>1, MigrationAssumption DEF MigrationInit, MigrationTypes, NoRun, Run, Pcs
<1>3. LedgerMatches
  BY MigrationAssumption DEF MigrationInit, LedgerMatches, EachOnceInOrder
<1>4. OneAtATime /\ UnsetIsTemporary /\ \A p \in Runner : RunIsTrue(p)
  BY MigrationAssumption DEF MigrationInit, OneAtATime, UnsetIsTemporary, RunIsTrue, NoRun, Steps
<1> QED BY <1>2, <1>3, <1>4 DEF MigrationInv

\* A run, and the script it is at.
LEMMA RunTypes ==
  ASSUME MigrationTypes, NEW p \in Runner
  PROVE  /\ runner[p].pc \in Pcs /\ runner[p].at \in Version /\ runner[p].locked \in BOOLEAN
         /\ runner[p].loaded \in [Version -> Content]
         /\ runner[p].loaded[runner[p].at] \in Content
  BY DEF MigrationTypes, Run

\* A transaction that commits executes its script and leaves a row.
LEMMA CommitFacts ==
  ASSUME MigrationTypes, LedgerMatches, NEW v \in Version, NEW content \in Content,
         \A u \in Version : u < v => ledger[u] # Absent,
         Commit(v, content)
  PROVE  /\ ledger' \in [Version -> Content \cup {Absent, Unset}]
         /\ applied' \in [Version -> Seq(Content)]
         /\ \A u \in Version : ledger[u] # Absent => ledger'[u] = ledger[u]
         /\ \A u \in Version \ {v} : ledger'[u] = ledger[u]
         /\ ledger[v] = Absent => ledger'[v] = Unset
         /\ ledger'[v] # Absent
         /\ v # First => ledger[v] = Absent
         /\ \A u \in Version : Executed(u) \subseteq Executed(u)'
         /\ content \in Executed(v)'
         /\ LedgerMatches'
<1> DEFINE s == applied[v]
           t == Append(s, content)
<1>1. s \in Seq(Content) /\ Len(s) \in Nat /\ DOMAIN s = 1..Len(s)
  BY LenProperties DEF MigrationTypes
<1>2. /\ applied' = [applied EXCEPT ![v] = t]
      /\ ledger' = [ledger EXCEPT ![v] = IF @ = Absent THEN Unset ELSE @]
      /\ v # First => ledger[v] = Absent
  BY DEF Commit, Tolerates
<1> HIDE DEF s
<1>3. t \in Seq(Content) /\ t # <<>> /\ Len(t) = Len(s) + 1
      /\ (\A i \in 1..Len(s) : t[i] = s[i]) /\ t[Len(s) + 1] = content
  BY <1>1, AppendProperties
<1> HIDE DEF t
<1>4. DOMAIN t = 1..Len(s) + 1
  BY <1>3, LenProperties
<1>5. /\ ledger' \in [Version -> Content \cup {Absent, Unset}]
      /\ \A u \in Version : ledger[u] # Absent => ledger'[u] = ledger[u]
      /\ \A u \in Version \ {v} : ledger'[u] = ledger[u]
      /\ ledger[v] = Absent => ledger'[v] = Unset
      /\ ledger'[v] # Absent
  BY <1>2, MigrationAssumption DEF MigrationTypes
<1>6. /\ applied' \in [Version -> Seq(Content)]
      /\ applied'[v] = t /\ \A u \in Version \ {v} : applied'[u] = applied[u]
  BY <1>2, <1>3 DEF MigrationTypes
<1>7. /\ \A i \in DOMAIN s : i \in DOMAIN t /\ t[i] = s[i]
      /\ Len(s) + 1 \in DOMAIN t
  BY <1>1, <1>3, <1>4
<1>8. /\ \A u \in Version : Executed(u) \subseteq Executed(u)'
      /\ content \in Executed(v)'
  BY <1>3, <1>6, <1>7 DEF Executed, s
<1>9. EachOnceInOrder'
  <2>1. ASSUME NEW u \in Version \ {First} PROVE Len(applied'[u]) <= 1
    <3>1. CASE u = v
      <4>1. s = <<>>
        BY <1>2, <3>1, <2>1 DEF LedgerMatches, s
      <4>2. Len(t) = 1
        BY <1>3, <4>1
      <4>3. applied'[u] = t
        BY <1>6, <3>1
      <4>4. Len(applied'[u]) = 1
        BY <4>2, <4>3
      <4> QED BY <4>4
    <3>2. CASE u # v
      <4>1. applied'[u] = applied[u]
        BY <1>6, <3>2
      <4>2. Len(applied[u]) <= 1
        BY <2>1 DEF LedgerMatches, EachOnceInOrder
      <4> QED BY <4>1, <4>2
    <3> QED BY <3>1, <3>2
  <2>2. ASSUME NEW u \in Version, NEW w \in Version, u < w, applied'[w] # <<>>
        PROVE  applied'[u] # <<>>
    <3>1. CASE w = v
      BY <1>3, <1>6, <2>2, <3>1 DEF LedgerMatches
    <3>2. CASE w # v
      BY <1>3, <1>6, <2>2, <3>2 DEF LedgerMatches, EachOnceInOrder
    <3> QED BY <3>1, <3>2
  <2> QED BY <2>1, <2>2 DEF EachOnceInOrder
<1>10. ASSUME NEW u \in Version
       PROVE  /\ ledger'[u] = Absent <=> applied'[u] = <<>>
              /\ ledger'[u] \in Content => ledger'[u] \in Executed(u)'
  BY <1>3, <1>5, <1>6, <1>8, MigrationAssumption DEF LedgerMatches
<1> QED BY <1>2, <1>5, <1>6, <1>8, <1>9, <1>10 DEF LedgerMatches

\* The UPDATE writes the checksum of a content that was executed.
LEMMA UpdateFacts ==
  ASSUME MigrationTypes, LedgerMatches, NEW v \in Version, NEW content \in Content,
         content \in Executed(v), UpdateChecksum(v, content)
  PROVE  /\ ledger' \in [Version -> Content \cup {Absent, Unset}]
         /\ applied' = applied
         /\ ledger'[v] = content /\ \A u \in Version \ {v} : ledger'[u] = ledger[u]
         /\ \A u \in Version : ledger[u] # Absent => ledger'[u] # Absent
         /\ LedgerMatches'
<1>1. /\ ledger' \in [Version -> Content \cup {Absent, Unset}]
      /\ applied' = applied
      /\ ledger'[v] = content /\ \A u \in Version \ {v} : ledger'[u] = ledger[u]
  BY DEF UpdateChecksum, MigrationTypes
<1>2. applied[v] # <<>>
  BY DEF Executed
<1>3. \A u \in Version : Executed(u)' = Executed(u)
  BY <1>1 DEF Executed
<1>4. EachOnceInOrder'
  BY <1>1 DEF LedgerMatches, EachOnceInOrder
<1> QED BY <1>1, <1>2, <1>3, <1>4, MigrationAssumption DEF LedgerMatches

-----------------------------------------------------------------------------
\* Whatever p's statement does to the database, what another run has behind it stays true:
\* a commit changes no checksum, and a checksum is written over an empty one, but for the
\* first script, which somebody else records at the same time only without the lock.
LEMMA StatementKeeps ==
  ASSUME MigrationInv, NEW p \in Runner, Severed(p),
         troubles' \in Nat, troubles <= troubles'
  PROVE  /\ ledger' \in [Version -> Content \cup {Absent, Unset}]
         /\ applied' \in [Version -> Seq(Content)]
         /\ LedgerMatches'
         /\ \A u \in Version : /\ ledger[u] # Absent => ledger'[u] # Absent
                               /\ Executed(u) \subseteq Executed(u)'
                               /\ ledger'[u] = Unset /\ ledger[u] # Unset =>
                                    runner[p].pc = "apply" /\ u = runner[p].at
         /\ \A u \in Version :
              /\ u < runner[p].at /\ runner[p].pc \in Steps
              /\ runner'[p].loaded = runner[p].loaded
              => Settled(p, u)'
         /\ \A q \in Runner \ {p} : runner'[q] = runner[q] => RunIsTrue(q)'
<1> DEFINE v == runner[p].at
           content == runner[p].loaded[v]
<1> USE DEF MigrationInv
<1>1. v \in Version /\ content \in Content /\ runner[p].loaded \in [Version -> Content]
      /\ Version \subseteq Nat /\ troubles \in Nat
  BY RunTypes, MigrationAssumption DEF Version, MigrationTypes
<1>2. ASSUME NEW q \in Runner PROVE RunIsTrue(q) /\ runner[q].loaded \in [Version -> Content]
                                    /\ runner[q].at \in Version
  BY RunTypes
<1>4. First \in Version /\ Absent \notin Content /\ Unset \notin Content /\ Absent # Unset
  BY MigrationAssumption DEF First, Version
<1>5. ASSUME runner[p].pc \in Steps, NEW u \in Version, u < v PROVE ledger[u] # Absent
  BY <1>1, <1>2, <1>4, <1>5 DEF RunIsTrue, Settled, Finds
<1>6. CASE runner[p].pc = "apply" /\ Commit(v, content)
  <2>1. /\ ledger' \in [Version -> Content \cup {Absent, Unset}]
        /\ applied' \in [Version -> Seq(Content)]
        /\ \A u \in Version : ledger[u] # Absent => ledger'[u] = ledger[u]
        /\ \A u \in Version \ {v} : ledger'[u] = ledger[u]
        /\ ledger[v] = Absent => ledger'[v] = Unset
        /\ ledger'[v] # Absent
        /\ \A u \in Version : Executed(u) \subseteq Executed(u)'
        /\ LedgerMatches'
    BY <1>1, <1>5, <1>6, CommitFacts DEF Steps
  <2>2. ASSUME NEW loaded \in [Version -> Content], NEW u \in Version, Finds(loaded, u)
        PROVE  Finds(loaded, u)'
    BY <1>1, <1>4, <2>1, <2>2 DEF Finds
  <2>3. ASSUME NEW u \in Version, u < runner[p].at, runner[p].pc \in Steps,
               runner'[p].loaded = runner[p].loaded
        PROVE  Settled(p, u)'
    <3>1. Settled(p, u)
      BY <1>2, <2>3 DEF RunIsTrue
    <3> QED BY <1>1, <1>4, <2>1, <2>3, <3>1 DEF Settled, Finds
  <2>4. ASSUME NEW q \in Runner \ {p}, runner'[q] = runner[q] PROVE RunIsTrue(q)'
    <3>1. ASSUME NEW u \in Version, Settled(q, u) PROVE Settled(q, u)'
      BY <1>1, <1>2, <1>4, <2>1, <2>4, <3>1 DEF Settled, Finds
    <3>2. runner[q].pc = "record" =>
            /\ runner'[q].loaded[runner'[q].at] \in Executed(runner[q].at)'
            /\ runner'[q].at # First => ledger'[runner'[q].at] = Unset
      BY <1>2, <1>4, <2>1, <2>4 DEF RunIsTrue
    <3> QED BY <1>1, <1>2, <2>4, <3>1, <3>2 DEF RunIsTrue
  <2> QED BY <1>6, <2>1, <2>3, <2>4
<1>7. CASE runner[p].pc = "record" /\ UpdateChecksum(v, content)
  <2>1. content \in Executed(v) /\ (v # First => ledger[v] = Unset)
    BY <1>2, <1>7 DEF RunIsTrue
  <2>2. /\ ledger' \in [Version -> Content \cup {Absent, Unset}]
        /\ applied' = applied
        /\ ledger'[v] = content /\ \A u \in Version \ {v} : ledger'[u] = ledger[u]
        /\ \A u \in Version : ledger[u] # Absent => ledger'[u] # Absent
        /\ LedgerMatches'
    BY <1>1, <1>7, <2>1, UpdateFacts
  <2>3. applied' \in [Version -> Seq(Content)] /\ \A u \in Version : Executed(u)' = Executed(u)
    BY <2>2 DEF MigrationTypes, Executed
  <2>4. ASSUME NEW u \in Version, u < runner[p].at, runner[p].pc \in Steps,
               runner'[p].loaded = runner[p].loaded
        PROVE  Settled(p, u)'
    <3>1. Settled(p, u) /\ ledger'[u] = ledger[u]
      BY <1>1, <1>2, <2>2, <2>4 DEF RunIsTrue
    <3> QED BY <1>1, <1>4, <2>2, <2>4, <3>1 DEF Settled, Finds
  <2>5. ASSUME NEW q \in Runner \ {p}, runner'[q] = runner[q] PROVE RunIsTrue(q)'
    <3>1. ASSUME NEW u \in Version, Settled(q, u), runner[q].pc \notin {"idle", "lock"}
          PROVE  Settled(q, u)'
      <4>1. CASE u # v
        BY <1>1, <1>2, <1>4, <2>2, <2>5, <3>1, <4>1 DEF Settled, Finds
      <4>2. CASE u = v /\ v # First
        \* Nobody has passed a script that is being recorded.
        BY <1>2, <1>4, <2>1, <3>1, <4>2 DEF Settled, Finds
      <4>3. CASE u = v /\ v = First
        <5>1. troubles' # 0
          BY <1>1, <1>2, <1>7, <2>5, <3>1 DEF RunIsTrue, OneAtATime
        <5> QED BY <1>1, <1>4, <2>2, <4>3, <5>1 DEF Settled, Finds
      <4> QED BY <4>1, <4>2, <4>3
    <3>2. runner[q].pc = "record" =>
            /\ runner'[q].loaded[runner'[q].at] \in Executed(runner[q].at)'
            /\ runner'[q].at # First => ledger'[runner'[q].at] = Unset
      \* Two runs never record the same script, but for the first.
      BY <1>2, <1>4, <1>7, <2>2, <2>5 DEF RunIsTrue, OneAtATime, Executed
    <3> QED BY <1>1, <1>2, <2>5, <3>1, <3>2 DEF RunIsTrue, Steps
  <2>6. ASSUME NEW u \in Version
        PROVE  /\ Executed(u) \subseteq Executed(u)'
               /\ ~(ledger'[u] = Unset /\ ledger[u] # Unset)
    BY <1>1, <1>4, <2>2, <2>3
  <2> QED BY <2>2, <2>3, <2>4, <2>5, <2>6
<1>8. CASE UNCHANGED Database
  <2>1. ledger' = ledger /\ applied' = applied
    BY <1>8 DEF Database
  <2>2. LedgerMatches' /\ \A u \in Version : Executed(u)' = Executed(u)
    BY <2>1 DEF LedgerMatches, EachOnceInOrder, Executed
  <2>3. ASSUME NEW u \in Version, u < runner[p].at, runner[p].pc \in Steps,
               runner'[p].loaded = runner[p].loaded
        PROVE  Settled(p, u)'
    BY <1>1, <1>2, <2>1, <2>3 DEF RunIsTrue, Settled, Finds
  <2>4. ASSUME NEW q \in Runner \ {p}, runner'[q] = runner[q] PROVE RunIsTrue(q)'
    <3>1. ASSUME NEW u \in Version, Settled(q, u) PROVE Settled(q, u)'
      BY <1>1, <2>1, <2>4, <3>1 DEF Settled, Finds
    <3> QED BY <1>1, <1>2, <2>1, <2>4, <3>1 DEF RunIsTrue, Executed
  <2> QED BY <2>1, <2>2, <2>3, <2>4 DEF MigrationTypes
<1> QED BY <1>6, <1>7, <1>8 DEF Severed

\* One lock, and one recorder of a script: what a step of p must not bring about.
LEMMA OneAtATimeKept ==
  ASSUME MigrationInv, NEW p \in Runner, \A q \in Runner \ {p} : runner'[q] = runner[q],
         runner'[p].locked => runner[p].locked \/ \A q \in Runner : ~runner[q].locked,
         runner'[p].pc = "record" =>
           \/ runner'[p].at = First
           \/ \A q \in Runner \ {p} : ~(runner[q].pc = "record" /\ runner[q].at = runner'[p].at)
  PROVE  OneAtATime'
<1> USE DEF MigrationInv
<1> SUFFICES ASSUME NEW q \in Runner, NEW r \in Runner
             PROVE  /\ runner'[q].locked /\ runner'[r].locked => q = r
                    /\ /\ runner'[q].pc = "record" /\ runner'[r].pc = "record"
                       /\ runner'[q].at = runner'[r].at /\ runner'[q].at # First
                       => q = r
  BY DEF OneAtATime
<1>1. CASE q = p /\ r = p
  BY <1>1
<1>2. CASE q # p /\ r # p
  BY <1>2 DEF OneAtATime
<1>3. CASE q # p /\ r = p
  BY <1>3 DEF OneAtATime
<1>4. CASE q = p /\ r # p
  BY <1>4 DEF OneAtATime
<1> QED BY <1>1, <1>2, <1>3, <1>4

\* What remains to be shown of a step of p, whatever its statement did.
LEMMA RunnerStep ==
  ASSUME MigrationInv, NEW p \in Runner, Severed(p),
         UNCHANGED <<scripts, scriptEdits>>, troubles' \in Nat, troubles <= troubles',
         runner' \in [Runner -> Run], \A q \in Runner \ {p} : runner'[q] = runner[q],
         runner'[p].locked => runner[p].locked \/ \A q \in Runner : ~runner[q].locked,
         runner'[p].pc = "record" =>
           \/ runner'[p].at = First
           \/ \A q \in Runner \ {p} : ~(runner[q].pc = "record" /\ runner[q].at = runner'[p].at),
         \/ troubles' # 0
         \/ runner[p].pc = "apply"  /\ runner'[p].pc = "record" /\ runner'[p].at = runner[p].at
         \/ runner[p].pc = "record" /\ ledger'[runner[p].at] # Unset
         \/ runner[p].pc # "record" /\ UNCHANGED Database,
         RunIsTrue(p)'
  PROVE  MigrationInv'
<1> USE DEF MigrationInv
<1>1. /\ ledger' \in [Version -> Content \cup {Absent, Unset}]
      /\ applied' \in [Version -> Seq(Content)]
      /\ LedgerMatches'
      /\ \A u \in Version : ledger'[u] = Unset /\ ledger[u] # Unset =>
                              runner[p].pc = "apply" /\ u = runner[p].at
      /\ \A q \in Runner \ {p} : RunIsTrue(q)'
  BY StatementKeeps
<1>2. MigrationTypes'
  BY <1>1 DEF MigrationTypes
<1>3. OneAtATime'
  BY OneAtATimeKept
<1>4. ASSUME NEW v \in Version, ledger'[v] = Unset
      PROVE  troubles' > 0 \/ \E q \in Runner : runner'[q].pc = "record" /\ runner'[q].at = v
  <2>1. CASE troubles' # 0
    BY <2>1
  <2>2. CASE troubles' = 0 /\ ledger[v] # Unset
    <3>1. runner[p].pc = "apply" /\ v = runner[p].at
      BY <1>1, <1>4, <2>2
    <3>2. ~UNCHANGED Database
      BY <1>4, <2>2 DEF Database
    <3> QED BY <2>2, <3>1, <3>2
  <2>3. CASE troubles' = 0 /\ ledger[v] = Unset
    <3>1. troubles = 0
      BY <2>3 DEF MigrationTypes
    <3>2. PICK q \in Runner : runner[q].pc = "record" /\ runner[q].at = v
      BY <2>3, <3>1 DEF UnsetIsTemporary
    <3>3. q # p
      BY <1>4, <2>3, <3>2
    <3> QED BY <3>2, <3>3
  <2> QED BY <2>1, <2>2, <2>3
<1>5. \A q \in Runner : RunIsTrue(q)'
  BY <1>1
<1>6. UnsetIsTemporary'
  BY <1>4 DEF UnsetIsTemporary
<1> QED BY <1>1, <1>2, <1>3, <1>5, <1>6

-----------------------------------------------------------------------------
LEMMA StartInv == ASSUME MigrationInv, NEW p \in Runner, Start(p) PROVE MigrationInv'
<1> USE DEF MigrationInv
<1>1. runner[p] \in Run /\ RunIsTrue(p)
  BY DEF MigrationTypes
<1>2. /\ runner' \in [Runner -> Run] /\ \A q \in Runner \ {p} : runner'[q] = runner[q]
      /\ runner'[p] = [runner[p] EXCEPT !.pc = "lock"]
  BY <1>1 DEF Start, Goes, MigrationTypes, Run, Pcs
<1>3. RunIsTrue(p)'
  BY <1>1, <1>2 DEF RunIsTrue, Run, Steps
<1>4. /\ Severed(p) /\ UNCHANGED Database /\ UNCHANGED World
      /\ troubles' \in Nat /\ troubles <= troubles'
  BY DEF Start, Severed, World, MigrationTypes
<1> QED BY <1>1, <1>2, <1>3, <1>4, RunnerStep DEF Run, World, Start

LEMMA LockInv == ASSUME MigrationInv, NEW p \in Runner, Lock(p) PROVE MigrationInv'
<1> USE DEF MigrationInv
<1>1. runner[p] \in Run /\ First \in Version
  BY MigrationAssumption DEF MigrationTypes, First, Version
<1>2. /\ runner' \in [Runner -> Run] /\ \A q \in Runner \ {p} : runner'[q] = runner[q]
      /\ runner'[p] = [pc |-> "check", at |-> First, loaded |-> scripts, locked |-> TRUE]
  BY <1>1 DEF Lock, MigrationTypes, Run, Pcs, Steps
<1>3. ASSUME NEW v \in Version PROVE ~(v < First)
  BY MigrationAssumption DEF Version, First
<1>4. RunIsTrue(p)'
  BY <1>2, <1>3 DEF RunIsTrue, Steps
<1>5. /\ Severed(p) /\ UNCHANGED Database /\ UNCHANGED World
      /\ troubles' \in Nat /\ troubles <= troubles'
  BY DEF Lock, Severed, World, MigrationTypes
<1> QED BY <1>2, <1>4, <1>5, RunnerStep DEF World, Lock

LEMMA EndRunInv == ASSUME MigrationInv, NEW p \in Runner, EndRun(p) PROVE MigrationInv'
<1> USE DEF MigrationInv
<1>1. runner[p] \in Run /\ NoRun \in Run
  BY MigrationAssumption DEF MigrationTypes, First, Version, Content, NoRun, Run, Pcs
<1>2. /\ runner' \in [Runner -> Run] /\ \A q \in Runner \ {p} : runner'[q] = runner[q]
      /\ runner'[p] = NoRun
  BY <1>1 DEF EndRun, MigrationTypes
<1>3. RunIsTrue(p)'
  BY <1>2 DEF RunIsTrue, Steps, NoRun
<1>4. /\ Severed(p) /\ UNCHANGED Database /\ UNCHANGED World
      /\ troubles' \in Nat /\ troubles <= troubles'
  BY DEF EndRun, Severed, World, MigrationTypes
<1> QED BY <1>2, <1>3, <1>4, RunnerStep DEF World, EndRun, NoRun, Outcomes

LEMMA KillInv == ASSUME MigrationInv, NEW p \in Runner, KillRunner(p) PROVE MigrationInv'
<1> USE DEF MigrationInv
<1>1. runner[p] \in Run /\ NoRun \in Run
  BY MigrationAssumption DEF MigrationTypes, First, Version, Content, NoRun, Run, Pcs
<1>2. /\ runner' \in [Runner -> Run] /\ \A q \in Runner \ {p} : runner'[q] = runner[q]
      /\ runner'[p] = NoRun
  BY <1>1 DEF KillRunner, MigrationTypes
<1>3. RunIsTrue(p)'
  BY <1>2 DEF RunIsTrue, Steps, NoRun
<1>4. /\ Severed(p) /\ UNCHANGED <<scripts, scriptEdits>>
      /\ troubles' \in Nat /\ troubles <= troubles' /\ troubles' # 0
  BY DEF KillRunner, Trouble, MigrationTypes
<1> QED BY <1>2, <1>3, <1>4, RunnerStep DEF NoRun

\* On to the next script, or the end: what is behind the run is what was, and the script it was at.
LEMMA OnToFacts ==
  ASSUME MigrationTypes, NEW p \in Runner, OnTo(p)
  PROVE  /\ runner' \in [Runner -> Run] /\ \A q \in Runner \ {p} : runner'[q] = runner[q]
         /\ runner'[p].loaded = runner[p].loaded /\ runner'[p].locked = runner[p].locked
         /\ runner'[p].pc \in {"check", "done"}
         /\ \A v \in Version : runner'[p].pc = "done" \/ v < runner'[p].at
                                 => v < runner[p].at \/ v = runner[p].at
<1>1. runner[p] \in Run /\ runner[p].at \in 1..LastScript /\ LastScript \in Nat
  BY MigrationAssumption DEF MigrationTypes, Run, Version
<1>2. CASE runner[p].at = LastScript
  <2>1. runner' = [runner EXCEPT ![p].pc = "done"]
    BY <1>2 DEF OnTo, Goes
  <2>2. runner' \in [Runner -> Run]
    BY <1>1, <2>1 DEF MigrationTypes, Run, Pcs, Outcomes
  <2>3. ASSUME NEW v \in Version PROVE v < runner[p].at \/ v = runner[p].at
    BY <1>1, <1>2 DEF Version
  <2> QED BY <2>1, <2>2, <2>3 DEF MigrationTypes
<1>3. CASE runner[p].at # LastScript
  <2>1. runner' = [runner EXCEPT ![p].pc = "check", ![p].at = @ + 1]
    BY <1>3 DEF OnTo
  <2>2. runner[p].at + 1 \in Version
    BY <1>1, <1>3 DEF Version
  <2>3. runner' \in [Runner -> Run]
    BY <1>1, <2>1, <2>2 DEF MigrationTypes, Run, Pcs, Steps
  <2>4. ASSUME NEW v \in Version, v < runner[p].at + 1 PROVE v < runner[p].at \/ v = runner[p].at
    BY <1>1, <2>4 DEF Version
  <2>5. runner'[p].at = runner[p].at + 1 /\ runner'[p].pc = "check"
    BY <2>1, <1>1 DEF MigrationTypes, Run
  <2> QED BY <1>1, <2>1, <2>3, <2>4, <2>5 DEF MigrationTypes, Run
<1> QED BY <1>2, <1>3

LEMMA CheckInv == ASSUME MigrationInv, NEW p \in Runner, Check(p) PROVE MigrationInv'
<1> DEFINE v == runner[p].at
<1> USE DEF MigrationInv
<1>1. /\ runner[p] \in Run /\ v \in Version /\ RunIsTrue(p) /\ runner[p].pc = "check"
      /\ First \in Version /\ troubles \in Nat
  BY MigrationAssumption, RunTypes DEF Check, MigrationTypes, First, Version
<1>2. /\ Severed(p) /\ UNCHANGED Database /\ UNCHANGED World
      /\ troubles' \in Nat /\ troubles <= troubles'
  BY DEF Check, Severed, World, MigrationTypes
<1>3. ASSUME NEW u \in Version, u < v, runner'[p].loaded = runner[p].loaded
      PROVE  Settled(p, u)'
  BY <1>1, <1>2, <1>3, StatementKeeps DEF Steps
<1>4. CASE Goes(p, "apply")
  <2>1. /\ runner' \in [Runner -> Run] /\ \A q \in Runner \ {p} : runner'[q] = runner[q]
        /\ runner'[p] = [runner[p] EXCEPT !.pc = "apply"]
    BY <1>1, <1>4 DEF Goes, MigrationTypes, Run, Pcs, Steps
  <2>2. RunIsTrue(p)'
    BY <1>1, <1>2, <1>3, <2>1 DEF RunIsTrue, Run, Steps, World
  <2> QED BY <1>1, <1>2, <2>1, <2>2, RunnerStep DEF Run, World
<1>5. CASE Goes(p, "failed")
  <2>1. /\ runner' \in [Runner -> Run] /\ \A q \in Runner \ {p} : runner'[q] = runner[q]
        /\ runner'[p] = [runner[p] EXCEPT !.pc = "failed"]
    BY <1>1, <1>5 DEF Goes, MigrationTypes, Run, Pcs, Outcomes
  <2>2. RunIsTrue(p)'
    BY <1>1, <1>2, <2>1 DEF RunIsTrue, Run, Steps, World
  <2> QED BY <1>1, <1>2, <2>1, <2>2, RunnerStep DEF Run, World
<1>6. CASE OnTo(p) /\ ledger[v] = runner[p].loaded[v]
  <2>1. /\ runner' \in [Runner -> Run] /\ \A q \in Runner \ {p} : runner'[q] = runner[q]
        /\ runner'[p].loaded = runner[p].loaded /\ runner'[p].locked = runner[p].locked
        /\ runner'[p].pc \in {"check", "done"}
        /\ \A u \in Version : runner'[p].pc = "done" \/ u < runner'[p].at => u < v \/ u = v
    BY <1>6, OnToFacts
  <2>2. ASSUME NEW u \in Version, runner'[p].pc = "done" \/ u < runner'[p].at
        PROVE  Settled(p, u)'
    <3>1. CASE u < v
      BY <1>3, <2>1, <3>1
    <3>2. CASE u = v
      BY <1>1, <1>2, <1>6, <2>1, <3>2 DEF Settled, Finds, Database
    <3> QED BY <2>1, <2>2, <3>1, <3>2
  <2>3. RunIsTrue(p)'
    BY <1>1, <1>2, <2>1, <2>2 DEF RunIsTrue, Steps, World
  <2> QED BY <1>1, <1>2, <2>1, <2>3, RunnerStep DEF World
<1> QED BY <1>4, <1>5, <1>6 DEF Check

LEMMA ApplyInv == ASSUME MigrationInv, NEW p \in Runner, ApplyScript(p) PROVE MigrationInv'
<1> USE DEF MigrationInv
<1> PICK v \in Version : v = runner[p].at
  BY RunTypes
<1> PICK content \in Content : content = runner[p].loaded[v]
  BY RunTypes
<1>1. /\ runner[p] \in Run /\ RunIsTrue(p) /\ runner[p].pc = "apply"
      /\ troubles \in Nat /\ UNCHANGED World
      /\ First \in Version /\ Absent \notin Content /\ Unset \notin Content /\ Absent # Unset
  BY MigrationAssumption, RunTypes DEF ApplyScript, MigrationTypes, First, Version
<1>2. CASE Commit(v, content) /\ Goes(p, "record")
  <2>1. Severed(p) /\ troubles' = troubles
    BY <1>1, <1>2 DEF Severed, World
  <2>2. /\ runner' \in [Runner -> Run] /\ \A q \in Runner \ {p} : runner'[q] = runner[q]
        /\ runner'[p] = [runner[p] EXCEPT !.pc = "record"]
    BY <1>1, <1>2 DEF Goes, MigrationTypes, Run, Pcs, Steps
  <2>3. ASSUME NEW u \in Version, u < v PROVE ledger[u] # Absent /\ Settled(p, u)'
    <3>1. Settled(p, u) /\ ledger[u] # Absent
      BY <1>1, <2>3 DEF RunIsTrue, Steps, Settled, Finds, Run
    <3>2. Settled(p, u)'
      BY <1>1, <2>1, <2>2, <2>3, StatementKeeps DEF Steps, Run
    <3> QED BY <3>1, <3>2
  <2>4. /\ content \in Executed(v)' /\ (ledger[v] = Absent => ledger'[v] = Unset)
        /\ v # First => ledger[v] = Absent
    BY <1>1, <1>2, <2>3, CommitFacts
  <2>5. runner'[p].loaded = runner[p].loaded /\ runner'[p].at = v /\ runner'[p].pc = "record"
        /\ runner'[p].locked = runner[p].locked
    BY <1>1, <2>2 DEF Run
  <2>6. runner'[p].loaded[runner'[p].at] \in Executed(runner[p].at)'
    BY <2>4, <2>5 DEF Executed
  <2>7. RunIsTrue(p)'
    BY <1>1, <2>1, <2>3, <2>4, <2>5, <2>6 DEF RunIsTrue, Steps
  \* Who else records v finds a row without a checksum, and the script would not have run.
  <2>8. ASSUME NEW q \in Runner \ {p}, runner[q].pc = "record", runner[q].at = v, v # First
        PROVE  FALSE
    BY <1>1, <2>4, <2>8 DEF RunIsTrue
  <2>9. /\ runner'[p].at = First
           \/ \A q \in Runner \ {p} : ~(runner[q].pc = "record" /\ runner[q].at = runner'[p].at)
        /\ UNCHANGED <<scripts, scriptEdits>> /\ troubles' \in Nat /\ troubles <= troubles'
        /\ runner[p].pc = "apply" /\ runner'[p].at = runner[p].at
    BY <1>1, <2>1, <2>5, <2>8 DEF World
  <2> QED BY <2>1, <2>2, <2>5, <2>7, <2>9, RunnerStep
<1>3. CASE Goes(p, "failed") /\ UNCHANGED Database
  <2>1. /\ runner' \in [Runner -> Run] /\ \A q \in Runner \ {p} : runner'[q] = runner[q]
        /\ runner'[p] = [runner[p] EXCEPT !.pc = "failed"]
    BY <1>1, <1>3 DEF Goes, MigrationTypes, Run, Pcs, Outcomes
  <2>2. RunIsTrue(p)'
    BY <1>1, <2>1 DEF RunIsTrue, Run, Steps, World
  <2>3. Severed(p)
    BY <1>3 DEF Severed
  <2> QED BY <1>1, <1>3, <2>1, <2>2, <2>3, RunnerStep DEF Run, World
<1> QED BY <1>2, <1>3 DEF ApplyScript

LEMMA RecordInv == ASSUME MigrationInv, NEW p \in Runner, Record(p) PROVE MigrationInv'
<1> USE DEF MigrationInv
<1> PICK v \in Version : v = runner[p].at
  BY RunTypes
<1> PICK content \in Content : content = runner[p].loaded[v]
  BY RunTypes
<1>1. /\ runner[p] \in Run /\ RunIsTrue(p) /\ runner[p].pc = "record"
      /\ UNCHANGED World /\ troubles' \in Nat /\ troubles' = troubles
      /\ First \in Version /\ Absent \notin Content /\ Unset \notin Content /\ Absent # Unset
  BY MigrationAssumption DEF Record, MigrationTypes, First, Version, World
<1>2. UpdateChecksum(v, content) /\ Severed(p)
  BY <1>1 DEF Record, Severed
<1>3. ledger'[v] = content
  BY <1>2 DEF UpdateChecksum, MigrationTypes
<1>4. /\ runner' \in [Runner -> Run] /\ \A q \in Runner \ {p} : runner'[q] = runner[q]
      /\ runner'[p].loaded = runner[p].loaded /\ runner'[p].locked = runner[p].locked
      /\ runner'[p].pc \in {"check", "done"}
      /\ \A u \in Version : runner'[p].pc = "done" \/ u < runner'[p].at => u < v \/ u = v
  BY OnToFacts DEF Record
<1>5. ASSUME NEW u \in Version, runner'[p].pc = "done" \/ u < runner'[p].at
      PROVE  Settled(p, u)'
  <2>1. CASE u < v
    BY <1>1, <1>2, <1>4, <2>1, StatementKeeps DEF Steps
  <2>2. CASE u = v
    BY <1>3, <1>4, <2>2 DEF Settled, Finds
  <2> QED BY <1>4, <1>5, <2>1, <2>2
<1>6. RunIsTrue(p)'
  BY <1>1, <1>4, <1>5 DEF RunIsTrue, Steps
<1>7. /\ UNCHANGED <<scripts, scriptEdits>> /\ troubles <= troubles'
      /\ runner'[p].pc # "record" /\ ledger'[runner[p].at] # Unset
  BY <1>1, <1>3, <1>4 DEF World, MigrationTypes
<1> QED BY <1>1, <1>2, <1>4, <1>6, <1>7, RunnerStep

LEMMA DisconnectedInv == ASSUME MigrationInv, NEW p \in Runner, Disconnected(p) PROVE MigrationInv'
<1> USE DEF MigrationInv
<1>1. /\ runner[p] \in Run /\ RunIsTrue(p) /\ UNCHANGED <<scripts, scriptEdits>>
      /\ troubles' \in Nat /\ troubles <= troubles' /\ troubles' # 0
      /\ First \in Version /\ runner[p].pc \in Pcs \ (Outcomes \cup {"idle"})
  BY MigrationAssumption DEF Disconnected, Trouble, MigrationTypes, Run, First, Version
<1>2. ASSUME NEW v \in Version PROVE ~(v < First)
  BY MigrationAssumption DEF Version, First
<1>3. CASE runner' = [runner EXCEPT ![p].locked = FALSE] /\ UNCHANGED Database
  <2>1. /\ runner' \in [Runner -> Run] /\ \A q \in Runner \ {p} : runner'[q] = runner[q]
        /\ runner'[p] = [runner[p] EXCEPT !.locked = FALSE]
    BY <1>1, <1>3 DEF MigrationTypes, Run
  <2>2. /\ runner'[p].pc = runner[p].pc /\ runner'[p].at = runner[p].at
        /\ runner'[p].loaded = runner[p].loaded /\ ~runner'[p].locked
    BY <1>1, <2>1 DEF Run
  <2>3. Severed(p) /\ ledger' = ledger /\ applied' = applied
    BY <1>3 DEF Severed, Database
  <2>4. ASSUME NEW u \in Version, u < runner[p].at, runner[p].pc \in Steps PROVE Settled(p, u)'
    BY <1>1, <2>2, <2>3, <2>4, StatementKeeps
  <2>5. RunIsTrue(p)'
    <3>1. runner'[p].pc = "record" =>
            /\ runner'[p].loaded[runner'[p].at] \in Executed(runner[p].at)'
            /\ runner'[p].at # First => ledger'[runner'[p].at] = Unset
      BY <1>1, <2>2, <2>3 DEF RunIsTrue, Executed
    <3> QED BY <1>1, <2>2, <2>4, <3>1 DEF RunIsTrue, Outcomes
  <2>6. runner'[p].pc = "record" =>
          \/ runner'[p].at = First
          \/ \A q \in Runner \ {p} : ~(runner[q].pc = "record" /\ runner[q].at = runner'[p].at)
    BY <2>2 DEF OneAtATime
  <2> QED BY <1>1, <2>1, <2>2, <2>3, <2>5, <2>6, RunnerStep
<1>4. CASE /\ Severed(p)
           /\ runner' = [runner EXCEPT ![p].locked = FALSE,
                ![p].pc = IF @ = "check" /\ runner[p].at = First THEN "apply" ELSE "failed"]
  <2> DEFINE next == IF runner[p].pc = "check" /\ runner[p].at = First THEN "apply" ELSE "failed"
  <2>1. next \in {"apply", "failed"} /\ (next = "apply" => runner[p].at = First)
    OBVIOUS
  <2>2. /\ runner' \in [Runner -> Run] /\ \A q \in Runner \ {p} : runner'[q] = runner[q]
        /\ runner'[p].pc = next /\ runner'[p].at = runner[p].at /\ ~runner'[p].locked
    BY <1>1, <1>4 DEF MigrationTypes, Run, Pcs, Steps, Outcomes
  <2> HIDE DEF next
  <2>3. RunIsTrue(p)'
    BY <1>1, <1>2, <2>1, <2>2 DEF RunIsTrue, Steps, Outcomes
  <2> QED BY <1>1, <1>4, <2>1, <2>2, <2>3, RunnerStep
<1> QED BY <1>3, <1>4 DEF Disconnected

LEMMA EditScriptInv == ASSUME MigrationInv, NEW v \in Version, EditScript(v) PROVE MigrationInv'
<1> USE DEF MigrationInv
<1>1. scriptEdits' \in 0..MaxScriptEdits /\ scripts' \in [Version -> Content]
  BY MigrationAssumption DEF EditScript, MigrationTypes, Content
<1>2. UNCHANGED <<runner, ledger, applied, troubles>>
  BY DEF EditScript, Database
<1>3. MigrationTypes'
  BY <1>1, <1>2 DEF MigrationTypes
<1>4. LedgerMatches' /\ OneAtATime' /\ UnsetIsTemporary' /\ \A p \in Runner : RunIsTrue(p)'
  BY <1>2 DEF LedgerMatches, EachOnceInOrder, OneAtATime, UnsetIsTemporary, RunIsTrue, Settled, Finds, Executed
<1> QED BY <1>3, <1>4

LEMMA MigrationStepInv == MigrationInv /\ [MigrationNext]_migrationVars => MigrationInv'
<1> SUFFICES ASSUME MigrationInv, [MigrationNext]_migrationVars PROVE MigrationInv'
  OBVIOUS
<1>1. CASE UNCHANGED migrationVars
  BY <1>1 DEF migrationVars, MigrationInv, MigrationTypes, LedgerMatches, EachOnceInOrder, OneAtATime,
              UnsetIsTemporary, RunIsTrue, Settled, Finds, Executed
<1>2. ASSUME NEW p \in Runner,
             Start(p) \/ Lock(p) \/ Check(p) \/ ApplyScript(p) \/ Record(p) \/ EndRun(p)
               \/ KillRunner(p) \/ Disconnected(p)
      PROVE  MigrationInv'
  BY <1>2, StartInv, LockInv, CheckInv, ApplyInv, RecordInv, EndRunInv, KillInv, DisconnectedInv
<1>3. ASSUME NEW v \in Version, EditScript(v) PROVE MigrationInv'
  BY <1>3, EditScriptInv
<1> QED BY <1>1, <1>2, <1>3 DEF MigrationNext

\* What the properties of the run say, from the invariant.
LEMMA MigrationInvLedger == MigrationInv => LedgerIsTrue
<1> SUFFICES ASSUME MigrationInv PROVE LedgerIsTrue
  OBVIOUS
<1> USE DEF MigrationInv
<1>1. EachOnceInOrder
  BY DEF LedgerMatches
<1>2. ChecksumsAreTrue
  BY DEF LedgerMatches, UnsetIsTemporary, ChecksumsAreTrue
<1>3. DoneIsUpToDate
  BY DEF RunIsTrue, Settled, Finds, DoneIsUpToDate
<1> QED BY <1>1, <1>2, <1>3 DEF LedgerIsTrue

-----------------------------------------------------------------------------
\* The inductive invariant holds of every number of scripts, runs, edits and troubles.
THEOREM MigrationSafety == MigrationSpec => []MigrationInv
<1> QED BY MigrationInitInv, MigrationStepInv, PTL DEF MigrationSpec

\* However runs are killed, lose the lock or race: no script but the tolerant first one is
\* executed twice or out of order, a checksum is that of what was executed, and a run that
\* says "up to date" is right (migration-runner.ts, runMigrations).
THEOREM LedgerTrue == MigrationSpec => []LedgerIsTrue
<1> QED BY MigrationSafety, MigrationInvLedger, PTL
=============================================================================
