------------------------------ MODULE LinkBattle ------------------------------
(***************************************************************************)
(* A link battle (gen1recomp/src/link/LinkBattle.lua): two games simulate  *)
(* the same battle, each in its own time.  They exchange the actions their *)
(* players choose, a signature of the state after each turn, and who left. *)
(*                                                                         *)
(* What a turn brings is decided by the two actions and the shared random  *)
(* stream; of it the model keeps who loses the last of his party, and how. *)
(* Text, animations and players pressing A are the time a queue step takes.*)
(* A side is seen from its own machine: "player" is the side itself.       *)
(***************************************************************************)
EXTENDS Naturals, Sequences

CONSTANTS
  Fates,    \* what a turn may bring, see below
  Slot,     \* the places of the move list players choose from
  MaxTurns, \* bound: after so many turns players can only run
  Clock,    \* whether the battle has a shot clock (opts.turnLimit)
  Orders,   \* the orders players may bring their move list into with SELECT
  Breaks    \* whether the link may break

VARIABLES
  side, \* side[s]: the LinkBattle object on the machine of s
  fate, \* fate[n]: what the random stream has in store for turn n
  wire, \* wire[s]: what is on its way to s, net's inbox included
  cut   \* the link is broken: nothing sent arrives any more

vars == <<side, fate, wire, cut>>

Side     == {"host", "guest"}
Other(s) == IF s = "host" THEN "guest" ELSE "host"

(* outs is the sides that lose the last of their party: "move" by the      *)
(* moves, the target before the user; "residual" by poison and the like at *)
(* the end of the turn, each machine looking at its own player first.      *)
Fate == [by : {"move", "residual"}, outs : {<<>>} \cup {<<s>> : s \in Side}
                                            \cup {<<s, Other(s)>> : s \in Side}]

ASSUME SlotAssumption ==
  /\ Slot \subseteq 1..2 /\ Orders \subseteq {<<1, 2>>, <<2, 1>>}
  /\ \A order \in Orders : \A k \in Slot : order[k] \in Slot

ASSUME BattleAssumption == Fates \subseteq Fate /\ MaxTurns \in Nat

Action == [kind : {"move"}, slot : Slot] \cup [kind : {"switch", "run"}, slot : {0}]
None   == [kind |-> "none", slot |-> 0]

\* mine, theirs are pendingMyAction and remoteAction; local and remote are localHashes
\* and remoteHashes, filled turn by turn, and checked counts checkedTurns; played is
\* what was resolved, and ran whether the last turn's moves were executed.  party is the
\* party menu: "asked" is its row at the head of the queue, and while it is "open" it lies
\* on the battle, which is not updated then (StateStack.lua:40-43).
Fresh ==
  [phase |-> "menu", after |-> "menu", queue |-> <<>>, mine |-> None, theirs |-> None,
   result |-> "none", timedOut |-> FALSE, played |-> <<>>, party |-> "shut",
   ran |-> FALSE, local |-> <<>>, remote |-> <<>>, checked |-> 0]

-----------------------------------------------------------------------------
(* The object f of side s.                                                 *)

\* endAsDraw and endWithResult: the queue goes on, and the battle finishes behind it.
EndWith(f, result) == [f EXCEPT !.result = result, !.after = "finish", !.phase = "messages"]
IfOpen(f, result)  == IF f.result = "none" THEN EndWith(f, result) ELSE f

\* checkHashes: at most one turn has both of its hashes and is not yet checked.
Check(f) ==
  LET n == f.checked + 1
      g == [f EXCEPT !.checked = n]
  IN  IF n > Len(f.local) \/ n > Len(f.remote) THEN f
      ELSE IF f.local[n] = f.remote[n] THEN g
      ELSE EndWith(g, "draw")

\* Both actions, host first, as this machine plays them.
Pair(s, f) == [p \in Side |-> IF p = s THEN f.mine ELSE f.theirs]

\* Mutant of TryResolve: the opponent's action is kept for the next turn.
KeepTheirs(s, f) ==
  IF None \in {f.mine, f.theirs} THEN f
  ELSE IF "run" \in {f.mine.kind, f.theirs.kind} THEN EndWith([f EXCEPT !.mine = None], "draw")
  ELSE [f EXCEPT !.mine = None, !.phase = "messages", !.after = "linkNext",
                 !.played = Append(@, Pair(s, f)), !.queue = @ \o <<"moves", "endOfTurn", "hash">>]
TryResolve(s, f) ==
  LET g == [f EXCEPT !.mine = None, !.theirs = None]
  IN  IF None \in {f.mine, f.theirs} THEN f
      ELSE IF "run" \in {f.mine.kind, f.theirs.kind} THEN EndWith(g, "draw")
      ELSE [g EXCEPT !.phase = "messages", !.after = "linkNext", !.played = Append(@, Pair(s, f)),
                     !.queue = @ \o <<"moves", "endOfTurn", "hash">>]

\* Mutant of Signature: the sides are named as the machine sees them.
OwnSideFirst(s, f) == <<f.played[Len(f.played)][s], f.played[Len(f.played)][Other(s)], f.ran>>
\* stateSig and stateHash, host first on both machines.
Signature(s, f) == <<f.played[Len(f.played)]["host"], f.played[Len(f.played)]["guest"], f.ran>>

Out(p, outs) == IF \E i \in DOMAIN outs : outs[i] = p THEN <<p>> ELSE <<>>
OwnFirst(s, outs) == Out(s, outs) \o Out(Other(s), outs)
\* Mutant of MoveFaints: as in endOfTurn, each machine looks at its own player first.
PlayerFirst(s, d) == IF d.by = "move" THEN OwnFirst(s, d.outs) ELSE <<>>
\* onFaint queues playerMonFainted or enemyMonFainted behind all that is queued.
MoveFaints(s, d) == IF d.by = "move" THEN d.outs ELSE <<>>
ResidualFaints(s, d) == IF d.by = "residual" THEN OwnFirst(s, d.outs) ELSE <<>>

\* The next item of the queue runs.  A battle with a result executes no action and
\* has no end of turn any more (BattleState.lua:3025, :2300).
RunItem(s, item, f, d) ==
  CASE item = "moves"     -> IF f.result # "none" THEN [f EXCEPT !.ran = FALSE]
                             ELSE [f EXCEPT !.ran = TRUE, !.queue = @ \o MoveFaints(s, d)]
    [] item = "endOfTurn" -> IF f.result # "none" THEN f
                             ELSE [f EXCEPT !.queue = @ \o ResidualFaints(s, d)]
    [] item = "hash"      -> Check([f EXCEPT !.local = Append(@, Signature(s, f))])
    [] item \in Side      -> [f EXCEPT !.result = IF item = s THEN "lose" ELSE "win",
                                       !.after = "finish"]

\* A message of the opponent.
Heard(s, f, m) ==
  CASE m.type = "action"  -> TryResolve(s, [f EXCEPT !.theirs = m.action])
    [] m.type = "hash"    -> Check([f EXCEPT !.remote = Append(@, m.value)])
    [] m.type = "bye"     -> IfOpen(f, "draw")
    [] m.type = "forfeit" -> IfOpen(f, "win")

-----------------------------------------------------------------------------
(* Actions.                                                                *)

\* s becomes f and sends the messages out.
Become(s, f, out) ==
  /\ side' = [side EXCEPT ![s] = f]
  /\ wire' = IF cut THEN wire ELSE [wire EXCEPT ![Other(s)] = @ \o out]
  /\ UNCHANGED <<fate, cut>>

\* Mutant of CanChoose: the player may choose again while the opponent thinks.
EagerChoose(f, a) ==
  IF a.kind = "switch" THEN f.party = "open" ELSE f.phase \in {"menu", "waitRemote"}
\* Who is sent out is chosen in the party menu, whatever has become of the battle.
CanChoose(f, a) == IF a.kind = "switch" THEN f.party = "open" ELSE f.phase = "menu"

\* The move at that place of the list, as the player's own machine has it: swapMoves
\* reorders the list there and nowhere else.
Meant(a, order) == IF a.kind = "move" THEN [a EXCEPT !.slot = order[a.slot]] ELSE a

\* Mutant of Pending: what was sent is not kept.
NothingKept(f, a) == [f EXCEPT !.phase = "waitRemote", !.party = "shut"]
\* submit keeps the action itself.
Pending(f, a) == [f EXCEPT !.mine = a, !.phase = "waitRemote", !.party = "shut"]

\* resolveTurn and tryRun, from the menu or the list of moves, and resolveSwitch from the
\* party menu, which closes.  What is sent of a move is its place in the list.
Choose(s, a, order) ==
  /\ CanChoose(side[s], a)
  /\ a.kind = "run" \/ Len(side[s].played) < MaxTurns
  /\ Become(s, TryResolve(s, Pending(side[s], Meant(a, order))),
            <<[type |-> "action", action |-> a]>>)

\* openParty: the menu is asked for, and the next frame shows it behind the messages it has
\* read.  They may have brought the battle a result.
OpenParty(s) ==
  /\ side[s].phase = "menu"
  /\ Become(s, [side[s] EXCEPT !.phase = "messages", !.after = "menu", !.party = "asked"], <<>>)

ShowParty(s) ==
  /\ side[s].party = "asked"
  /\ Become(s, [side[s] EXCEPT !.party = "open"], <<>>)

\* The player backs out, or picks somebody who cannot be sent out.
CloseParty(s) ==
  /\ side[s].party = "open"
  /\ Become(s, [side[s] EXCEPT !.party = "shut"], <<>>)

\* The shot clock, which runs while the menu is shown.
TimeUp(s) ==
  /\ Clock /\ side[s].phase = "menu"
  /\ Become(s, EndWith([side[s] EXCEPT !.timedOut = TRUE], "lose"), <<[type |-> "forfeit"]>>)

Receive(s) ==
  /\ side[s].phase # "over" /\ side[s].party # "open" /\ wire[s] # <<>>
  /\ side' = [side EXCEPT ![s] = Heard(s, @, Head(wire[s]))]
  /\ wire' = [wire EXCEPT ![s] = Tail(@)]
  /\ UNCHANGED <<fate, cut>>

QueueStep(s) ==
  /\ side[s].phase = "messages" /\ side[s].queue # <<>>
  /\ LET f == [side[s] EXCEPT !.queue = Tail(@)]
         g == RunItem(s, Head(side[s].queue), f, fate[Len(f.played)])
     IN  Become(s, g, IF Head(side[s].queue) # "hash" THEN <<>>
                      ELSE <<[type |-> "hash", value |-> g.local[Len(g.local)]]>>)

QueueIsDone(f) == f.phase = "messages" /\ f.queue = <<>> /\ f.party = "shut"

\* The queue is empty: back to the menu.
NextTurn(s) ==
  /\ QueueIsDone(side[s]) /\ side[s].after # "finish"
  /\ Become(s, [side[s] EXCEPT !.phase = "menu", !.after = "menu"], <<>>)

Finish(s) ==
  /\ QueueIsDone(side[s]) /\ side[s].after = "finish"
  /\ Become(s, [side[s] EXCEPT !.phase = "over"], <<[type |-> "bye"]>>)

\* Mutant of Closed: looked at behind the early return of a side that waits.
ClosedUnlessWaiting(s) ==
  side[s].phase # "waitRemote" /\ (cut \/ side[Other(s)].phase = "over")
\* net.closed: the link broke, or the opponent is through and has closed it.
Closed(s) == cut \/ side[Other(s)].phase = "over"

\* It is seen behind what had still arrived.
NoticeClosed(s) ==
  /\ side[s].phase # "over" /\ side[s].party # "open" /\ side[s].result = "none" /\ wire[s] = <<>>
  /\ Closed(s)
  /\ Become(s, EndWith(side[s], "draw"), <<>>)

\* The link breaks; some of what was on its way still arrives.
Break ==
  /\ Breaks /\ ~cut
  /\ cut' = TRUE
  /\ \E k, n \in 0..Len(wire["host"]) + Len(wire["guest"]) :
       /\ k <= Len(wire["host"]) /\ n <= Len(wire["guest"])
       /\ wire' = [host |-> SubSeq(wire["host"], 1, k), guest |-> SubSeq(wire["guest"], 1, n)]
  /\ UNCHANGED <<side, fate>>

Init ==
  /\ side = [s \in Side |-> Fresh]
  /\ fate \in [1..MaxTurns -> Fates]
  /\ wire = [s \in Side |-> <<>>]
  /\ cut = FALSE

Next ==
  \/ \E s \in Side :
       \/ \E a \in Action, order \in Orders : Choose(s, a, order)
       \/ OpenParty(s)
       \/ ShowParty(s)
       \/ CloseParty(s)
       \/ TimeUp(s)
       \/ Receive(s)
       \/ QueueStep(s)
       \/ NextTurn(s)
       \/ Finish(s)
       \/ NoticeClosed(s)
  \/ Break

Spec == Init /\ [][Next]_vars
-----------------------------------------------------------------------------
(* Properties.                                                             *)

Over(s) == side[s].phase = "over"

\* Every field holds a value of its kind, and a side that waits for the opponent's
\* action has one of its own to play against it.
LinkTypeOK ==
  \A s \in Side :
    LET f == side[s]
    IN  /\ f.phase \in {"menu", "waitRemote", "messages", "over"}
        /\ f.after \in {"menu", "linkNext", "finish"}
        /\ {f.mine, f.theirs} \subseteq Action \cup {None}
        /\ f.result \in {"none", "win", "lose", "draw"}
        /\ f.checked <= Len(f.local) /\ f.checked <= Len(f.remote) /\ Len(f.played) <= MaxTurns
        /\ f.phase = "waitRemote" => f.mine # None
        /\ f.party \in {"shut", "asked", "open"}
        /\ f.party # "shut" => f.phase = "messages" /\ f.queue = <<>> /\ f.mine = None

\* Lockstep: the two machines resolve the same pairs of actions in the same order,
\* and neither is more than a turn ahead.
SameTurns ==
  LET h == side["host"].played
      g == side["guest"].played
  IN  /\ Len(h) <= Len(g) + 1 /\ Len(g) <= Len(h) + 1
      /\ \A n \in DOMAIN h \cap DOMAIN g : h[n] = g[n]

\* The one slot for the opponent's action is free when the next one arrives.
ActionsInStep ==
  \A s \in Side : side[s].theirs # None =>
    \A i \in DOMAIN wire[s] : wire[s][i].type # "action"

\* Two simulations of the same actions see no desync while the battle is open on both
\* machines: signatures differ only when a side had a result before it played the turn.
DesyncIsReal ==
  \A n \in DOMAIN side["host"].local \cap DOMAIN side["guest"].local :
    side["host"].local[n] # side["guest"].local[n] => \E s \in Side : side[s].result # "none"

\* A battle that is over on both machines was not won on both, and it was lost on both
\* only if both players ran out of time.
OneWinnerAtMost ==
  (\A s \in Side : Over(s)) =>
    /\ \E s \in Side : side[s].result # "win"
    /\ (\A s \in Side : side[s].result = "lose") => \A s \in Side : side[s].timedOut

\* "the two simulations agree on the outcome" (tests/run_link_tests.lua:379-381).
OutcomesAgree ==
  (\A s \in Side : Over(s)) /\ ~cut =>
    {side[s].result : s \in Side} \in {{"win", "lose"}, {"draw"}}

-----------------------------------------------------------------------------
(* Progress.  Frames go on, the link delivers until it breaks, a break is  *)
(* noticed, and players close the text and the party menu they are shown.  *)
(* A frame of the battle reads what has arrived before it looks at a key   *)
(* (LinkBattle.lua:570-605), so a player who opens his party menu again    *)
(* and again puts off neither messages nor the end of the link.            *)

Fairness ==
  \A s \in Side : /\ SF_vars(Receive(s))
                  /\ WF_vars(QueueStep(s))
                  /\ WF_vars(NextTurn(s))
                  /\ WF_vars(Finish(s))
                  /\ WF_vars(ShowParty(s))
                  /\ WF_vars(CloseParty(s))
                  /\ SF_vars(cut /\ NoticeClosed(s))

FairSpec == Spec /\ Fairness

\* Players who always choose something.
PlayingSpec == FairSpec /\ \A s \in Side : WF_vars(\E a \in Action, order \in Orders : Choose(s, a, order))

\* s has sent somebody out in a battle that had its result: he waits for an answer to it,
\* or goes on playing behind it.
SentOutLate(s) ==
  LET f == side[s]
  IN  /\ f.result # "none"
      /\ \/ f.phase = "waitRemote" /\ f.mine.kind = "switch"
         \/ f.after # "finish" /\ f.played # <<>> /\ f.played[Len(f.played)][s].kind = "switch"

\* Whoever is through with the battle, the other does not stay in it, but for a player who
\* was asking for his party menu when the end reached him and sends somebody out in it.
EndFreesPeer == \A s \in Side : Over(s) ~> Over(Other(s)) \/ SentOutLate(Other(s))

Mismatch(f) == \E n \in 1..f.checked : f.local[n] # f.remote[n]

\* "any mismatch ends the match as a draw" (docs/behavior-porting-notes.md:484-485).
MismatchEndsMatch == \A s \in Side : Mismatch(side[s]) ~> Over(s)
=============================================================================
