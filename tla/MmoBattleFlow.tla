---------------------------- MODULE MmoBattleFlow ----------------------------
(***************************************************************************)
(* A battle from challenge to end, seen from both sides: the clients'      *)
(* BattleFlow and BattleNet (gen1recomp/src/mmo), the screens they push,   *)
(* the streams, and the coordinator.                                       *)
(*                                                                         *)
(* All players have joined and stand on one map; presence is MmoPresence's *)
(* subject.  Of a LinkBattle only its end is modelled: it may finish at    *)
(* any time and with any result.  Parties and hellos are opaque; which     *)
(* pairs of them are refused is a constant.                                *)
(***************************************************************************)
EXTENDS MmoCoordinator, SequencesExt

CONSTANTS
  Clash,   \* pairs of players whose hellos Handshake.checkCompat refuses
  Unfit,   \* pairs of players whose parties LinkBattle.new cannot build
  MaxAsks  \* bound: how many challenges are sent

ASSUME PayloadAssumption == {"hello", "party", "bye"} \subseteq Payload

VARIABLES
  flow,    \* flow[c]: the BattleFlow of c's game
  screens, \* screens[c]: what lies on the overworld in game.stack; the last is on top
  up, down,\* the streams; down[c] holds the messages BattleFlow takes notice of
  asks     \* how many challenges were sent

flowVars == <<vars, flow, screens, up, down, asks>>

(* stage, battleId, opponent, peerHello, theirParty, partySent and         *)
(* activeBattle are BattleFlow's fields.  net and open are battleNet:      *)
(* net = NoBattle when it is nil, open = ~closed; inbox is its inbox.      *)
FlowRecord ==
  [stage : {"idle", "challengeSent", "challengeReceived", "challengeAccepted",
            "battleHello", "battleParty", "battleRunning"},
   battleId : Nat, opponent : Peer, net : Nat, open : BOOLEAN, inbox : Seq(Payload),
   peerHello : BOOLEAN, theirParty : BOOLEAN, partySent : BOOLEAN, active : BOOLEAN]

Screen == [kind : {"prompt", "battle", "battleReturn"}, id : Id]

Fresh(c) ==
  [stage |-> "idle", battleId |-> NoBattle, opponent |-> c, net |-> NoBattle, open |-> FALSE,
   inbox |-> <<>>, peerHello |-> FALSE, theirParty |-> FALSE, partySent |-> FALSE, active |-> FALSE]

-----------------------------------------------------------------------------
(* BattleFlow, as functions of its record f.                               *)

Fail(f) == [f EXCEPT !.stage = "idle", !.open = FALSE]

StartNegotiation(f, m) ==
  IF f.net # NoBattle /\ f.open THEN Fail(f)
  ELSE [f EXCEPT !.stage = "battleHello", !.battleId = m.id, !.opponent = m.opponent,
                 !.net = m.id, !.open = TRUE, !.inbox = <<>>,
                 !.peerHello = FALSE, !.theirParty = FALSE, !.partySent = FALSE]

\* Mutant of TryStartBattle: the opponent's party is not waited for.
StartWithoutParty(c, f) ==
  IF ~f.peerHello \/ f.active THEN f ELSE [f EXCEPT !.active = TRUE, !.stage = "battleRunning"]
TryStartBattle(c, f) ==
  IF ~f.peerHello \/ ~f.theirParty \/ f.active THEN f
  ELSE IF {c, f.opponent} \in Clash \cup Unfit THEN Fail(f)
  ELSE [f EXCEPT !.active = TRUE, !.stage = "battleRunning"]

\* One payload of the list handleMessage has polled; what it does not handle, it
\* puts back for the LinkBattle.
HandlePayload(c, f, p) ==
  IF f.stage # "battleRunning" /\ p = "hello" /\ ~f.peerHello
  THEN IF {c, f.opponent} \in Clash
       THEN Fail([f EXCEPT !.peerHello = TRUE])
       ELSE TryStartBattle(c, [f EXCEPT !.peerHello = TRUE, !.partySent = TRUE,
                                        !.stage = "battleParty"])
  ELSE IF f.stage # "battleRunning" /\ p = "party"
  THEN TryStartBattle(c, [f EXCEPT !.theirParty = TRUE])
  ELSE [f EXCEPT !.inbox = Append(@, p)]

\* The record after the whole list ps.
Handling(c, f, ps) ==
  LET after[n \in 0..Len(ps)] == IF n = 0 THEN f ELSE HandlePayload(c, after[n - 1], ps[n])
  IN  after[Len(ps)]

\* BattleNet:ingest accepts only the payloads of its own battle, while it is open.
Ingest(c, f, m) ==
  IF f.net = NoBattle \/ ~f.open \/ f.net # m.id THEN f
  ELSE IF f.stage = "battleRunning" THEN [f EXCEPT !.inbox = Append(@, m.payload)]
  ELSE Handling(c, [f EXCEPT !.inbox = <<>>], Append(f.inbox, m.payload))

\* Mutant of BattleEnded: the end of the battle does not close its net.
KeepNet(f, m) ==
  IF m.id = f.battleId /\ f.stage # "battleRunning" THEN [f EXCEPT !.stage = "idle"] ELSE f
BattleEnded(f, m) ==
  IF m.id # f.battleId THEN f
  ELSE [f EXCEPT !.open = FALSE, !.stage = IF @ = "battleRunning" THEN @ ELSE "idle"]

\* The record after message m.
Heard(c, f, m) ==
  CASE m.type = "challenge_received" -> [f EXCEPT !.stage = "challengeReceived"]
    [] m.type = "battle_start"       -> StartNegotiation(f, m)
    [] m.type = "battle_message"     -> Ingest(c, f, m)
    [] m.type = "battle_ended"       -> BattleEnded(f, m)

\* What goes out through battleNet when the record turns from f to g.
Payloads(f, g) ==
  (IF g.net # NoBattle /\ g.open /\ f.net # g.net THEN <<"hello">> ELSE <<>>)
  \o (IF g.partySent /\ ~f.partySent THEN <<"party">> ELSE <<>>)
Envelope(id, p) == [type |-> "battle_message", id |-> id, payload |-> p]
Envelopes(id, ps) == [i \in DOMAIN ps |-> Envelope(id, ps[i])]

\* Mutant of EndMessage: the server is not told that the battle is over.
NoEndMessage(f) == <<>>
EndMessage(f) == <<[type |-> "battle_end", id |-> f.battleId]>>
\* Mutant of Finished: activeBattle is not reset.
KeepActive(f) == [f EXCEPT !.stage = "idle", !.net = NoBattle, !.open = FALSE, !.inbox = <<>>]
\* The onFinish callback names the flow's battle of the moment, not its own.
Finished(f) ==
  [f EXCEPT !.stage = "idle", !.active = FALSE, !.net = NoBattle, !.open = FALSE, !.inbox = <<>>]

Top(c) == screens[c] # <<>>
TopIs(c, kind) == Top(c) /\ Last(screens[c]).kind = kind

-----------------------------------------------------------------------------
(* Actions.  Game:step updates the topmost screen, then the world client,  *)
(* then the BattleFlow; each action below is one such update of one game.  *)

\* What the coordinator sends in a step goes out on the streams of those who listen;
\* BattleFlow ignores the rest.
Noticed == {"challenge_received", "battle_start", "battle_message", "battle_ended"}
Noticeable(ms) ==
  LET kept[n \in 0..Len(ms)] ==
        IF n = 0 THEN <<>>
        ELSE IF ms[n].type \in Noticed THEN Append(kept[n - 1], ms[n]) ELSE kept[n - 1]
  IN  kept[Len(ms)]
\* Mutant of Deliver: the messages of the other layers are routed here too.
DeliverAll ==
  down' = [c \in Peer |-> IF conn'[c] = "closed" THEN <<>> ELSE down[c] \o sent'[c]]
Deliver ==
  down' = [c \in Peer |-> IF conn'[c] = "closed" THEN <<>>
                          ELSE down[c] \o Noticeable(sent'[c])]

\* The player talks to a remote player in the overworld.
SendChallenge(c, t) ==
  /\ conn[c] = "joined" /\ ~Top(c)
  /\ t \in Joined \ {c}
  /\ asks < MaxAsks
  /\ asks' = asks + 1
  /\ flow' = [flow EXCEPT ![c].stage = "challengeSent"]
  /\ up' = [up EXCEPT ![c] = Append(@, [type |-> "challenge", target |-> t])]
  /\ sent' = Quiet
  /\ UNCHANGED <<state, screens, down>>

\* The prompt on top is answered; it knows the id of its challenge.
Reply(c, accepted) ==
  /\ conn[c] = "joined" /\ TopIs(c, "prompt")
  /\ screens' = [screens EXCEPT ![c] = Front(@)]
  /\ flow' = [flow EXCEPT ![c].stage = IF accepted THEN "challengeAccepted" ELSE "idle"]
  /\ up' = [up EXCEPT ![c] = Append(@, [type |-> "challenge_reply", id |-> Last(screens[c]).id,
                                        accept |-> accepted])]
  /\ sent' = Quiet
  /\ UNCHANGED <<state, down, asks>>

\* BattleFlow:update, one message of the application inbox.
HandleMessage(c) ==
  /\ conn[c] = "joined" /\ down[c] # <<>>
  /\ LET m == Head(down[c])
         f == flow[c]
         g == Heard(c, f, m)
     IN  /\ flow' = [flow EXCEPT ![c] = g]
         /\ screens' = [screens EXCEPT ![c] = @
              \o (IF m.type = "challenge_received" THEN <<[kind |-> "prompt", id |-> m.id]>> ELSE <<>>)
              \o (IF g.active /\ ~f.active THEN <<[kind |-> "battle", id |-> g.net]>> ELSE <<>>)]
         /\ up' = [up EXCEPT ![c] = @ \o Envelopes(g.net, Payloads(f, g))]
  /\ down' = [down EXCEPT ![c] = Tail(@)]
  /\ sent' = Quiet
  /\ UNCHANGED <<state, asks>>

\* LinkBattle's finish: bye, then onFinish at once when the battle is lost, and after
\* the fade back to the overworld otherwise.
FinishBattle(c, result) ==
  /\ conn[c] = "joined" /\ TopIs(c, "battle")
  /\ LET id   == Last(screens[c]).id
         f    == flow[c]
         bye  == IF f.net = id /\ f.open THEN <<Envelope(id, "bye")>> ELSE <<>>
     IN  IF result = "lose"
         THEN /\ screens' = [screens EXCEPT ![c] = Front(@)]
              /\ flow' = [flow EXCEPT ![c] = Finished(f)]
              /\ up' = [up EXCEPT ![c] = @ \o bye \o EndMessage(f)]
         ELSE /\ screens' = [screens EXCEPT ![c] = Append(Front(@), [kind |-> "battleReturn", id |-> id])]
              /\ up' = [up EXCEPT ![c] = @ \o bye]
              /\ UNCHANGED flow
  /\ sent' = Quiet
  /\ UNCHANGED <<state, down, asks>>

\* The fade is over and calls onFinish.
FadeEnds(c) ==
  /\ conn[c] = "joined" /\ TopIs(c, "battleReturn")
  /\ screens' = [screens EXCEPT ![c] = Front(@)]
  /\ flow' = [flow EXCEPT ![c] = Finished(@)]
  /\ up' = [up EXCEPT ![c] = @ \o EndMessage(flow[c])]
  /\ sent' = Quiet
  /\ UNCHANGED <<state, down, asks>>

ServerStep(c) ==
  /\ conn[c] # "closed" /\ up[c] # <<>>
  /\ Handle(c, Head(up[c]))
  /\ up' = [up EXCEPT ![c] = Tail(@)]
  /\ Deliver
  /\ UNCHANGED <<flow, screens, asks>>

\* The connection is gone for both ends.
Quit(c) ==
  /\ Disconnect(c)
  /\ up' = [up EXCEPT ![c] = <<>>]
  /\ Deliver
  /\ UNCHANGED <<flow, screens, asks>>

\* Everybody has joined and stands on one map.
FlowInit ==
  /\ conn = [c \in Peer |-> "joined"]
  /\ \E at \in Place : place = [c \in Peer |-> at]
  /\ battleOf = [c \in Peer |-> NoBattle]
  /\ challenges = {} /\ battles = {} /\ drawn = 0 /\ sent = Quiet
  /\ flow = [c \in Peer |-> Fresh(c)]
  /\ screens = [c \in Peer |-> <<>>]
  /\ up = [c \in Peer |-> <<>>]
  /\ down = [c \in Peer |-> <<>>]
  /\ asks = 0

FlowNext == \E c \in Peer :
  \/ \E t \in Peer : SendChallenge(c, t)
  \/ \E accepted \in BOOLEAN : Reply(c, accepted)
  \/ HandleMessage(c)
  \/ \E result \in {"win", "lose", "draw"} : FinishBattle(c, result)
  \/ FadeEnds(c)
  \/ ServerStep(c)
  \/ Quit(c)

FlowSpec == FlowInit /\ [][FlowNext]_flowVars
-----------------------------------------------------------------------------
(* Properties.                                                             *)

\* Every variable holds a value of its kind.
FlowTypeOK ==
  /\ TypeOK
  /\ flow \in [Peer -> FlowRecord]
  /\ \A c \in Peer : Range(screens[c]) \subseteq Screen
  /\ \A c \in Peer : Range(up[c]) \subseteq ClientMessage
  /\ \A c \in Peer : \A i \in DOMAIN down[c] : down[c][i].type \in Noticed

InStream(s, type, id) == \E i \in DOMAIN s : s[i].type = type /\ s[i].id = id
Shows(c, kind, id) == \E i \in DOMAIN screens[c] : screens[c][i] = [kind |-> kind, id |-> id]
HasNet(c, id) == flow[c].net = id /\ flow[c].open

\* A client holds an open battle net only for the battle the server has him in, or
\* the news of its end is on its way: BattleNet never carries a battle that is over.
NetHasBattle ==
  \A c \in Joined : \A id \in KnownIds :
    HasNet(c, id) => battleOf[c] = id \/ InStream(down[c], "battle_ended", id)

\* A player whom the server has in a battle is in that battle: the start is on its way
\* to him, his net is open, or his battle_end is on its way.  Else nobody would ever
\* end the battle, and the server would refuse his moves and challenges for good.
BattleIsPlayed ==
  \A c \in Joined : Fighting(c) =>
    \/ InStream(down[c], "battle_start", battleOf[c])
    \/ HasNet(c, battleOf[c])
    \/ InStream(up[c], "battle_end", battleOf[c])

\* A LinkBattle that runs over its net was built from parties both sides sent for this
\* very battle: the opponent too has sent his, and is still there or on his way out.
BattleIsNegotiated ==
  \A b \in battles : \A c, o \in Members(b) :
    c # o /\ HasNet(c, b.id) /\ flow[c].active /\ Shows(c, "battle", b.id) =>
      /\ flow[c].partySent
      /\ \/ HasNet(o, b.id) /\ flow[o].partySent
         \/ InStream(up[o], "battle_end", b.id)

\* When a battle is over its client tells the server so, and names that battle: what
\* mmo_battle_flow_test.lua checks as "battle completion returns to the MMO server".
EndsNameTheirBattle ==
  [][\A c \in Peer : up'[c] # <<>> /\ Len(up'[c]) > Len(up[c]) /\ Last(up'[c]).type = "battle_end"
       => Last(up'[c]).id = Last(screens[c]).id]_flowVars

-----------------------------------------------------------------------------
(* Progress.  Frames and the server's loop go on; a LinkBattle whose net   *)
(* is closed ends by itself once its player has closed the text that is    *)
(* still on it (LinkBattle.lua:603-605).  Players owe one thing more: who  *)
(* asked for his party menu in the frame of the close backs out of it, for *)
(* sending somebody out would leave him waiting (EndFreesPeer of           *)
(* LinkBattle).  They may stay in a battle, leave a prompt open or never   *)
(* challenge anyone.                                                       *)

CutShort(c) == ~HasNet(c, Last(screens[c]).id)

Fairness ==
  \A c \in Peer :
    /\ WF_flowVars(HandleMessage(c))
    /\ WF_flowVars(ServerStep(c))
    /\ WF_flowVars(FadeEnds(c))
    /\ WF_flowVars(TopIs(c, "battle") /\ CutShort(c)
                     /\ \E result \in {"win", "lose", "draw"} : FinishBattle(c, result))

FairFlow == FlowSpec /\ Fairness

\* Negotiation gets somewhere: a player in a battle comes to play it or to be free of
\* it, unless an unanswered prompt holds up his screen.
NegotiationEnds ==
  \A c \in Peer : \A id \in KnownIds :
    battleOf[c] = id ~>
      \/ Shows(c, "battle", id)
      \/ battleOf[c] # id
      \/ TopIs(c, "prompt")

\* One player's end frees the other: once a player is back in the overworld, his
\* opponent's battle does not stay on the screen, unless under a prompt.
EndReachesBoth ==
  \A c \in Peer : \A id \in KnownIds :
    conn[c] = "joined" /\ TopIs(c, "battle") /\ Last(screens[c]).id = id /\ battleOf[c] # id
      ~> conn[c] = "closed" \/ ~(TopIs(c, "battle") /\ Last(screens[c]).id = id)
=============================================================================
