------------------------------- MODULE LinkTrade -------------------------------
(***************************************************************************)
(* Two paired games, from the handshake to a finished trade or the start   *)
(* of a battle (gen1recomp/src/link: LinkState, Protocol's TradeSession,   *)
(* Handshake, and Net as far as they can tell).                            *)
(*                                                                         *)
(* A frame reads what the net has brought, then handles a stage and at     *)
(* most one key; what it sends leaves with the next frame.  The games      *)
(* differ in their release or data, and a Pokémon in how the other game    *)
(* rebuilds it.  Both are builds that announce themselves.                 *)
(***************************************************************************)
EXTENDS Naturals, Sequences

CONSTANT Parties  \* what players may bring: sequences over Fate

Fate   == {"shared", "differs", "unknown"}  \* on the other game
ASSUME PartiesAssumption == Parties \subseteq Seq(Fate)

Pairing == {"same", "data", "release", "major"}
Mode   == {"trade", "battle"}
Player == {"host", "guest"}
Peer(s) == CHOOSE o \in Player : o # s

VARIABLES
  pairing,  \* in what the two games differ
  modified, \* the host's mods touch the link surface
  relay,    \* the link runs through the relay and not over ENet
  party,    \* party[s]: the party s brought
  game,     \* game[s]: the LinkState of s with its session and its net
  wire,     \* wire[s]: what is on its way to s
  trouble   \* "broken": the link was cut, "killed": a player's process

tradeVars == <<pairing, modified, relay, party, game, wire, trouble>>

Msg(type) == [type |-> type]
\* Lists: whether q has m, and q without the items in out.
Holds(q, m) == \E i \in DOMAIN q : q[i] = m
Dropping(q, out) ==
  LET kept[n \in 0..Len(q)] == IF n = 0 THEN <<>>
                               ELSE IF q[n] \in out THEN kept[n - 1] ELSE Append(kept[n - 1], q[n])
  IN  kept[Len(q)]

Hello(mode)  == [type |-> "hello", mode |-> mode]
Mons(indices) == [type |-> "party", mons |-> indices]
Gone   == Msg("closed")
Failed == Msg("error")
Over   == {"left", "crashed", "killed", "battleRunning"}

\* A LinkState when the net has paired: the guest has announced himself.
Paired(stage, out) ==
  [stage |-> stage, mode |-> "trade", heard |-> FALSE, verdict |-> "none",
   inbox |-> <<>>, out |-> out, closed |-> FALSE,
   trade |-> "none", limited |-> FALSE, sends |-> <<>>, theirs |-> <<>>,
   myPick |-> 0, theirPick |-> 0, mine |-> FALSE, their |-> FALSE, got |-> 0]

Send(g, msg) == [g EXCEPT !.out = Append(@, msg)]
Leave(g)     == [g EXCEPT !.stage = "left"]
SayBye(g)    == Leave(Send(g, Msg("bye")))

-----------------------------------------------------------------------------
(* The handshake.                                                          *)

CheckCompat(s, g) ==
  IF ~g.heard THEN IF modified THEN "refused" ELSE "vanilla_peer"
  ELSE CASE pairing = "major"   -> "refused"
         [] pairing = "release" -> "engine_skew"
         [] pairing = "data"    -> "subset"
         [] OTHER               -> "full"

Strict(verdict) == verdict \in {"full", "subset", "engine_skew"}
Exits(g) == g.verdict = "refused" \/ g.mode # "trade"

\* A session that is not limited to a subset sends its whole party at once.
StartMode(s, g) ==
  LET all == [i \in DOMAIN party[s] |-> i]
  IN  IF g.mode = "battle" THEN Send([g EXCEPT !.stage = "battleWait"], Mons(all))
      ELSE IF g.verdict = "subset"
           THEN Send([g EXCEPT !.stage = "trade", !.trade = "waitRecords"], Msg("records"))
           ELSE Send([g EXCEPT !.stage = "trade", !.trade = "waitParty", !.sends = all], Mons(all))

DecideCompat(s, g) ==
  LET decided == [g EXCEPT !.verdict = CheckCompat(s, g)]
  IN  IF decided.verdict \notin {"full", "vanilla_peer"} THEN [decided EXCEPT !.stage = "notice"]
      ELSE IF s = "host" /\ g.mode = "battle" THEN [decided EXCEPT !.stage = "battleOptions"]
      ELSE StartMode(s, decided)

\* pollHello takes a first hello out of the inbox and leaves the rest.
FirstOf(type, msgs) ==
  LET at == {i \in DOMAIN msgs : msgs[i].type = type}
  IN  IF at = {} THEN 0 ELSE CHOOSE i \in at : \A j \in at : i <= j
PollHello(g) ==
  LET at == FirstOf("hello", g.inbox)
  IN  IF g.heard \/ at = 0 THEN g ELSE [g EXCEPT !.heard = TRUE, !.inbox = SubSeq(@, 1, at - 1) \o SubSeq(@, at + 1, Len(@))]

\* Whatever precedes the message a stage waits for is dropped, what follows stays.
Rest(g, at) == [g EXCEPT !.inbox = IF at = 0 THEN <<>> ELSE SubSeq(@, at + 1, Len(@))]

ModeSelect(s, g) ==
  {g, Leave(g)} \cup
    {LET asked == Send([g EXCEPT !.mode = mode], Hello(mode))
     IN  IF g.heard THEN DecideCompat(s, asked) ELSE [asked EXCEPT !.stage = "waitHello"] : mode \in Mode}

\* The grace period may lapse in any frame.
WaitHello(s, old, g) ==
  {Leave(old), DecideCompat(s, g)} \cup (IF g.heard \/ g.inbox # <<>> THEN {} ELSE {g})

WaitMode(s, g) ==
  LET at == FirstOf("hello", g.inbox)
  IN  {Leave(g), IF at = 0 THEN Rest(g, at)
                 ELSE DecideCompat(s, [Rest(g, at) EXCEPT !.heard = TRUE, !.mode = g.inbox[at].mode])}

BattleWait(g) ==
  LET at == FirstOf("party", g.inbox)
  IN  {Leave(g), IF at = 0 THEN Rest(g, at) ELSE [Rest(g, at) EXCEPT !.stage = "battleRunning"]}

Notice(s, g) == {g, SayBye(g)} \cup (IF Exits(g) THEN {} ELSE {StartMode(s, g)})

-----------------------------------------------------------------------------
(* The trade session.                                                      *)

Advance(g) ==
  LET trade == IF g.trade \in {"picking", "waitPick"} /\ g.myPick # 0
               THEN IF g.theirPick # 0 THEN "confirming" ELSE "waitPick" ELSE g.trade
  IN  [g EXCEPT !.trade = IF trade = "confirming" /\ g.mine /\ g.their THEN "done" ELSE trade]

\* A strict session refuses a party with a Pokémon it does not know, the others drop it.
TakeParty(s, g, mons) ==
  LET known == Dropping(mons, {i \in DOMAIN party[Peer(s)] : party[Peer(s)][i] = "unknown"})
  IN  IF Strict(g.verdict) /\ known # mons THEN [g EXCEPT !.trade = "cancelled"]
      ELSE [g EXCEPT !.theirs = known, !.trade = IF @ = "waitParty" THEN "picking" ELSE @]

\* _negotiate: both sides filter by the same records.
Negotiate(s, g) ==
  LET eligible == Dropping([i \in DOMAIN party[s] |-> i], {i \in DOMAIN party[s] : party[s][i] # "shared"})
  IN  Send([g EXCEPT !.trade = "waitParty", !.limited = TRUE, !.sends = eligible], Mons(eligible))

Handle(s, g, msg) ==
  CASE msg.type = "records" -> IF g.trade = "waitRecords" THEN Negotiate(s, g) ELSE g
    [] msg.type = "party"   -> TakeParty(s, g, msg.mons)
    [] msg.type = "pick"    -> Advance([g EXCEPT !.theirPick = msg.index])
    [] msg.type = "confirm" -> Advance([g EXCEPT !.their = TRUE])
    [] msg.type = "bye"     -> [g EXCEPT !.trade = "cancelled"]
    [] OTHER                -> g

CanPick(g, i) == g.limited => Holds(g.sends, i)
Pick(g, i) ==
  LET at == {k \in DOMAIN g.sends : g.sends[k] = i}
      sent == IF at = {} THEN i ELSE CHOOSE k \in at : TRUE
  IN  Send(Advance([g EXCEPT !.myPick = i]), [type |-> "pick", index |-> sent])

\* apply: an index past the end of the list is an error of the program.
ApplyTrade(g) ==
  IF g.theirPick \in DOMAIN g.theirs THEN Leave([g EXCEPT !.got = g.theirs[g.theirPick]])
  ELSE [g EXCEPT !.stage = "crashed"]

\* Mutant of MayCancel: B still cancels when one has confirmed.
AlwaysCancels(g) == TRUE
MayCancel(g) == ~g.mine

\* The object after all messages in ms.
Handled(s, g, ms) ==
  LET after[n \in 0..Len(ms)] == IF n = 0 THEN g ELSE Handle(s, after[n - 1], ms[n])
  IN  after[Len(ms)]

UpdateTrade(s, old) ==
  LET g == Handled(s, [old EXCEPT !.inbox = <<>>], old.inbox)
  IN  CASE g.trade = "cancelled" -> {Leave(g)}
        [] g.trade = "done"      -> {ApplyTrade(g)}
        [] OTHER ->
             {g} \cup (IF MayCancel(g) THEN {SayBye(g)} ELSE {})
               \cup (IF g.trade # "picking" THEN {}
                     ELSE {Pick(g, i) : i \in {j \in DOMAIN party[s] : CanPick(g, j)}})
               \cup (IF g.trade # "confirming" \/ g.mine THEN {}
                     ELSE {Send(Advance([g EXCEPT !.mine = TRUE]), Msg("confirm"))})

-----------------------------------------------------------------------------
(* Frames, and the link.                                                   *)

Stays == {"notice", "battleRunning"}  \* stages that a closed link does not end

\* What LinkState:update may leave of g, one for each key.
Update(s, g) ==
  IF g.closed /\ g.inbox = <<>> /\ g.stage \notin Stays THEN {Leave(g)} ELSE
  CASE g.stage = "modeSelect"    -> ModeSelect(s, PollHello(g))
    [] g.stage = "battleOptions" -> {g, Leave(g), StartMode(s, g)}
    [] g.stage = "waitHello"     -> WaitHello(s, g, PollHello(g))
    [] g.stage = "waitMode"      -> WaitMode(s, g)
    [] g.stage = "notice"        -> Notice(s, g)
    [] g.stage = "trade"         -> UpdateTrade(s, g)
    [] g.stage = "battleWait"    -> BattleWait(g)

Ended == Over \ {"battleRunning"}
Reaches(s) == trouble # "broken" /\ game[s].stage \notin Ended

\* Closing the relay's socket drops what was not yet written; ENet delivers it first.
LastWords(g) ==
  IF g.stage \in Ended
  THEN (IF relay \/ g.stage = "crashed" THEN <<>> ELSE g.out) \o <<Gone>> ELSE <<>>

Frame(s) ==
  LET old == game[s]
  IN
  /\ old.stage \notin Over
  /\ \E n \in IF old.closed THEN {0} ELSE 0..Len(wire[s]) :
       LET came == SubSeq(wire[s], 1, n)
           g == [old EXCEPT !.inbox = @ \o Dropping(came, {Gone, Failed}), !.out = <<>>,
                            !.closed = @ \/ Holds(came, Gone) \/ Holds(came, Failed)]
           left == IF old.closed THEN <<>> ELSE old.out
       IN  \E next \in IF Holds(came, Failed) THEN {Leave(g)} ELSE Update(s, g) :
             LET said == [next EXCEPT !.out = IF g.closed THEN <<>> ELSE @]
                 over == said.stage \in Ended
             IN  /\ game' = [game EXCEPT ![s] = IF over THEN [said EXCEPT !.out = <<>>, !.inbox = <<>>] ELSE said]
                 /\ wire' = [wire EXCEPT
                      ![s] = IF over THEN <<>> ELSE SubSeq(@, n + 1, Len(@)),
                      ![Peer(s)] = IF Reaches(Peer(s)) THEN @ \o left \o LastWords(said) ELSE @]
  /\ UNCHANGED <<pairing, modified, relay, party, trouble>>

\* The link breaks: what was on its way may be lost, and each side notices in its own time.
Break ==
  /\ trouble = "none" /\ trouble' = "broken"
  /\ \E kept \in [Player -> 0..4], end \in [Player -> {Gone, Failed}] :
       /\ \A s \in Player : kept[s] <= Len(wire[s])
       /\ wire' = [s \in Player |-> IF game[s].stage \in Over THEN wire[s]
                                  ELSE Append(SubSeq(wire[s], 1, kept[s]), end[s])]
  /\ UNCHANGED <<pairing, modified, relay, party, game>>

KillGame(s) ==
  /\ trouble = "none" /\ trouble' = "killed" /\ game[s].stage \notin Over
  /\ game' = [game EXCEPT ![s].stage = "killed", ![s].inbox = <<>>, ![s].out = <<>>]
  /\ wire' = [wire EXCEPT ![s] = <<>>, ![Peer(s)] = IF Reaches(Peer(s)) THEN Append(@, Gone) ELSE @]
  /\ UNCHANGED <<pairing, modified, relay, party>>

JustPaired ==
  /\ game = [host |-> Paired("modeSelect", <<>>), guest |-> Paired("waitMode", <<Hello("trade")>>)]
  /\ wire = [s \in Player |-> <<>>]
  /\ trouble = "none"

\* Two equal games share all their Pokémon; online play admits no mods.
TradeInit ==
  /\ pairing \in Pairing /\ modified \in BOOLEAN /\ relay \in BOOLEAN /\ ~(relay /\ modified)
  /\ LET Alike == {[i \in DOMAIN p |-> "shared"] : p \in Parties}
     IN  party \in [Player -> IF pairing \in {"same", "major"} THEN Alike ELSE Parties]
  /\ JustPaired

TradeNext == Break \/ \E s \in Player : Frame(s) \/ KillGame(s)

TradeSpec == TradeInit /\ [][TradeNext]_tradeVars

-----------------------------------------------------------------------------
\* Every object is in one of its stages, indices are in range, and streams stay short.
TradeTypeOK ==
  \A s \in Player :
    /\ game[s].stage \in Over \cup {"modeSelect", "battleOptions", "waitHello", "waitMode", "notice", "trade", "battleWait"}
    /\ game[s].trade \in {"none", "waitRecords", "waitParty", "picking", "waitPick", "confirming", "done", "cancelled"}
    /\ game[s].theirPick \in 0..Len(party[Peer(s)]) /\ game[s].got \in 0..Len(party[Peer(s)])
    /\ Len(wire[s]) <= 6

Swapped(s) == game[s].got # 0

\* Whoever swaps, swaps with a peer who has confirmed, and gets what that peer picked (a host
\* who decided before he heard the guest may drop rows, and is excepted); in a negotiated
\* session both games rebuild it alike.
SwapsAreAgreed ==
  \A s \in Player : Swapped(s) =>
    LET peer == game[Peer(s)]
    IN  /\ peer.mine
        /\ Strict(game[s].verdict) => game[s].got = peer.myPick
        /\ game[s].verdict \in {"full", "subset"} => party[Peer(s)][game[s].got] = "shared"

\* A link that holds never leaves one player with the trade and the other without.
NobodyIsRobbed ==
  (trouble = "none" /\ \A s \in Player : game[s].stage = "left" /\ Strict(game[s].verdict)) =>
    (Swapped("host") <=> Swapped("guest"))

\* A lockstep battle only ever runs between equal games.
BattlesNeedTheSameGame == \A s \in Player : game[s].stage = "battleRunning" => pairing = "same"

\* What the link promises its players.
LinkIsFair == SwapsAreAgreed /\ NobodyIsRobbed /\ BattlesNeedTheSameGame
=============================================================================
