----------------------------- MODULE MmoPresence -----------------------------
(***************************************************************************)
(* Presence end to end: the world clients of the game (WorldClient.lua),   *)
(* the byte streams between them and the server, and the coordinator.      *)
(*                                                                         *)
(* up[c] and down[c] are the two directions of c's TCP or WebSocket        *)
(* stream, the clients' txBuf, rxBuf and inbox included: each is reliable  *)
(* and in order until the connection breaks.  A break is noticed by the    *)
(* two ends at different times.  The overworld that moves the local player *)
(* is outside: Walk puts him anywhere.                                     *)
(***************************************************************************)
EXTENDS MmoCoordinator

CONSTANTS
  MaxWalks,   \* bound: how often players move, all together
  AppMessages \* what clients send besides presence: messages that start and end battles

\* What the overworld calls a place names a map that there is; Nowhere is no such place.
ASSUME PlaceAssumption == Nowhere \notin Place
ASSUME AppMessagesAssumption == AppMessages \subseteq ClientMessage

VARIABLES
  here,      \* here[c]: where the overworld has c's player
  published, \* published[c]: WorldClient.lastSent, Nowhere before join_world
  view,      \* view[c]: WorldClient.players, the other players c draws
  gone,      \* gone[c]: WorldClient.closed
  up, down,  \* the streams
  walks      \* how many steps were walked

clientVars == <<here, published, view, gone, walks>>
allVars    == <<vars, clientVars, up, down>>

-----------------------------------------------------------------------------
(* The transport's two directions: what is queued reaches the server in    *)
(* order, and the first n messages that have arrived are polled.           *)

Send(c, m)    == up' = [up EXCEPT ![c] = Append(@, m)]
Receive(c, n) == down' = [down EXCEPT ![c] = SubSeq(@, n + 1, Len(@))]

(* WorldClient:_handle.  A message leaves the others as they were unless   *)
(* it is about presence; records about the player himself are ignored.     *)

Without(v, id) == {r \in v : r.id # id}
\* Mutant of Upsert: the old record stays beside the new one.
AddOnly(c, v, r) == IF r.id = c THEN v ELSE v \cup {r}
Upsert(c, v, r) == IF r.id = c THEN v ELSE Without(v, r.id) \cup {r}

HandlePresence(c, v, m) ==
  CASE m.type \in {"snapshot", "world_snapshot"}    -> Without(m.players, c)
    [] m.type \in {"player_joined", "player_moved"} -> Upsert(c, v, m.player)
    [] m.type = "player_left"                       -> Without(v, m.id)
    [] OTHER                                        -> v

\* The view after the whole list ms.
Applied(c, v, ms) ==
  LET after[n \in 0..Len(ms)] == IF n = 0 THEN v ELSE HandlePresence(c, after[n - 1], ms[n])
  IN  after[Len(ms)]

\* _publishLocal: join once, then a move whenever the local state differs from
\* the last one sent.
\* Mutant of Report: the state published before is sent again.
ReportOld(c) == [type |-> IF published[c] = Nowhere THEN "join_world" ELSE "move",
                 map |-> (IF published[c] = Nowhere THEN here ELSE published)[c].map,
                 pos |-> (IF published[c] = Nowhere THEN here ELSE published)[c].pos]
Report(c) == [type |-> IF published[c] = Nowhere THEN "join_world" ELSE "move",
              map |-> here[c].map, pos |-> here[c].pos]

\* WorldClient:update: take the n messages that have arrived, then publish.  That
\* the join waits for the overworld to be the topmost screen delays the first update.
ClientUpdate(c, n) ==
  /\ ~gone[c]
  /\ n <= Len(down[c])
  /\ n # 0 \/ here[c] # published[c]
  /\ view' = [view EXCEPT ![c] = Applied(c, @, SubSeq(down[c], 1, n))]
  /\ Receive(c, n)
  /\ IF here[c] # published[c]
     THEN /\ Send(c, Report(c))
          /\ published' = [published EXCEPT ![c] = here[c]]
     ELSE UNCHANGED <<up, published>>
  /\ sent' = Quiet
  /\ UNCHANGED <<state, here, gone, walks>>

\* The local player is moved by the game, until he has heard that a battle starts.
Unaware(c) == \E i \in DOMAIN down[c] : down[c][i].type = "battle_start"
Walk(c) ==
  /\ ~gone[c] /\ walks < MaxWalks
  /\ Fighting(c) => Unaware(c)
  /\ \E at \in Place \ {here[c]} : here' = [here EXCEPT ![c] = at]
  /\ walks' = walks + 1
  /\ sent' = Quiet
  /\ UNCHANGED <<state, published, view, gone, up, down>>

\* A battle or challenge message of the layer above, which shares the stream: about
\* a player in view, a challenge received, a battle started.
Knows(c, m) ==
  \/ m.type = "challenge" /\ \E r \in view[c] : r.id = m.target
  \/ m.type = "challenge_reply" /\ \E ch \in challenges : ch.id = m.id /\ ch.to = c
  \/ m.type = "battle_end" /\ battleOf[c] = m.id
SendApp(c, m) ==
  /\ ~gone[c] /\ published[c] # Nowhere /\ up[c] = <<>> /\ down[c] = <<>>
  /\ Knows(c, m)
  /\ Send(c, m)
  /\ sent' = Quiet
  /\ UNCHANGED <<state, clientVars, down>>

\* The client finds its socket closed.  What had arrived with the close is never
\* polled (update returns first), and the view stays as it was.
ClientLost(c) ==
  /\ ~gone[c]
  /\ gone' = [gone EXCEPT ![c] = TRUE]
  /\ down' = [down EXCEPT ![c] = <<>>]
  /\ sent' = Quiet
  /\ UNCHANGED <<state, here, published, view, up, walks>>

\* What the coordinator sends in a step goes out on the streams of those who
\* still listen.
Deliver == down' = [c \in Peer |-> IF gone[c] THEN <<>> ELSE down[c] \o sent'[c]]

ServerStep(c) ==
  /\ conn[c] # "closed"
  /\ up[c] # <<>>
  /\ Handle(c, Head(up[c]))
  /\ up' = [up EXCEPT ![c] = Tail(@)]
  /\ Deliver
  /\ UNCHANGED clientVars

\* The server finds the socket closed; what it had not yet read is lost.
ServerLost(c) ==
  /\ Disconnect(c)
  /\ up' = [up EXCEPT ![c] = <<>>]
  /\ Deliver
  /\ UNCHANGED clientVars

PresenceInit ==
  /\ Init
  /\ here \in [Peer -> Place]
  /\ published = [c \in Peer |-> Nowhere]
  /\ view = [c \in Peer |-> {}]
  /\ gone = [c \in Peer |-> FALSE]
  /\ up   = [c \in Peer |-> <<>>]
  /\ down = [c \in Peer |-> <<>>]
  /\ walks = 0

PresenceNext == \E c \in Peer :
  \/ \E n \in 0..Len(down[c]) : ClientUpdate(c, n)
  \/ Walk(c)
  \/ \E m \in AppMessages : SendApp(c, m)
  \/ ClientLost(c)
  \/ ServerStep(c)
  \/ ServerLost(c)

PresenceSpec == PresenceInit /\ [][PresenceNext]_allVars
-----------------------------------------------------------------------------
(* Properties.                                                             *)

Live(c)  == conn[c] = "joined" /\ ~gone[c]
Truth(c) == {Public(q, place[q]) : q \in OnMap(place[c].map) \ {c}}

\* The streams, the clients' books and the coordinator's hold values of their kind; a client
\* has one entry for a player at most.
PresenceTypeOK ==
  /\ TypeOK
  /\ here \in [Peer -> Place]
  /\ published \in [Peer -> Place \cup {Nowhere}]
  /\ \A c \in Peer : view[c] \subseteq [id : Peer, map : Map, pos : Pos]
  /\ \A c \in Peer : \A r, s \in view[c] : r.id = s.id => r = s
  /\ gone \in [Peer -> BOOLEAN]
  /\ \A c \in Peer : \A i \in DOMAIN up[c] : up[c][i] \in ClientMessage

\* A player's view is never wrong, only late: what is still on its way to him
\* brings it exactly to what the coordinator has on his map, whatever joins,
\* moves, map changes and losses the messages come from.
ViewCatchesUp ==
  \A c \in Peer : Live(c) => Applied(c, view[c], down[c]) = Truth(c)

\* What c has reported last is at, also while the report is on its way.
IsReport(m) == m.type \in {"join_world", "move"}
ReportedLast(c, at) ==
  \/ /\ \A i \in DOMAIN up[c] : ~IsReport(up[c][i])
     /\ place[c] = at
  \/ \E i \in DOMAIN up[c] :
       /\ IsReport(up[c][i]) /\ \A j \in DOMAIN up[c] : i < j => ~IsReport(up[c][j])
       /\ [map |-> up[c][i].map, pos |-> up[c][i].pos] = at

\* Until battles refuse moves, the coordinator is never behind a client by more than
\* what is on its way to it: _publishLocal never forgets a change.
ReportsArrive ==
  drawn = 0 =>
    \A c \in Peer : conn[c] # "closed" /\ published[c] # Nowhere => ReportedLast(c, published[c])

\* Nothing is on its way and nobody fights.
Settled ==
  \A c \in Peer : up[c] = <<>> /\ down[c] = <<>> /\ ~Fighting(c)

\* When all is delivered and nobody fights, the coordinator's record of a player
\* is the state he published: source_investigation.md:196-198 says a move is sent
\* whenever the state changes and directly replaces the record.
RecordIsReported ==
  Settled => \A c \in Peer : Live(c) => place[c] = published[c]

-----------------------------------------------------------------------------
(* Progress.  The game calls update once per frame for as long as it runs, *)
(* Node drains its sockets, and a broken connection is noticed in the end  *)
(* by both sides.  Players need not move.                                  *)

Fairness ==
  \A c \in Peer :
    /\ WF_allVars(ClientUpdate(c, Len(down[c])))
    /\ WF_allVars(ServerStep(c))
    /\ WF_allVars(gone[c] /\ ServerLost(c))
    /\ WF_allVars(conn[c] = "closed" /\ ClientLost(c))

FairPresence == PresenceSpec /\ Fairness

Seen(c) == {Public(q, here[q]) : q \in {p \in Peer \ {c} : Live(p) /\ here[p].map = here[c].map}}

\* In the end (players stop walking after MaxWalks steps) every player sees exactly the
\* players who are there, where they are: unless a battle came in between, whose refused
\* moves RecordIsReported is about.
ViewsConverge ==
  [](battles = {}) => <>[](\A c \in Peer : Live(c) => view[c] = Seen(c))
=============================================================================
