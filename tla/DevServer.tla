------------------------------ MODULE DevServer ------------------------------
(***************************************************************************)
(* The WebSocket passthrough of web/serve.py: a thread that forwards bytes *)
(* between a browser and the game's WebSocket port, neither of its sockets *)
(* blocking, so that a send into a full buffer ends the session.           *)
(*                                                                         *)
(* The bytes a side writes are numbered from 1.                            *)
(***************************************************************************)
EXTENDS Naturals, Sequences

CONSTANTS
  Room,     \* the bytes a send buffer takes
  Chunk,    \* the bytes one recv reads, 65536 in the program
  MaxBytes  \* bound: what a side writes

ASSUME ProxyAssumption == Room \in Nat /\ Chunk \in Nat \ {0}

VARIABLES
  phase,    \* "dialing", "open", "closed", or the dial failed: "unreachable", "aborted"
  ended,    \* which return of the loop ended the session
  ready,    \* what select found readable and is still to be read
  written,  \* how many bytes each side wrote
  shut,     \* the sides that closed their connection
  inbox,    \* the bytes of a side that have reached the proxy
  outbox,   \* those the proxy has sent to a side and it has not received
  received  \* those it has

proxyVars == <<phase, ended, ready, written, shut, inbox, outbox, received>>

Sides == {"client", "upstream"}
Other(s) == IF s = "client" THEN "upstream" ELSE "client"

\* socket.create_connection and the handshake, which is sent before the loop's try.
Dial ==
  /\ phase = "dialing"
  /\ phase' \in {"open", "unreachable", "aborted"}
  /\ UNCHANGED <<ended, ready, written, shut, inbox, outbox, received>>

Say(s) ==
  /\ phase = "open" /\ s \notin shut /\ written[s] < MaxBytes
  /\ written' = [written EXCEPT ![s] = @ + 1]
  /\ inbox' = [inbox EXCEPT ![s] = Append(@, written[s] + 1)]
  /\ UNCHANGED <<phase, ended, ready, shut, outbox, received>>

Shut(s) ==
  /\ phase = "open" /\ s \notin shut
  /\ shut' = shut \cup {s}
  /\ UNCHANGED <<phase, ended, ready, written, inbox, outbox, received>>

Receive(s) ==
  /\ outbox[s] # <<>> /\ s \notin shut
  /\ received' = [received EXCEPT ![s] = Append(@, Head(outbox[s]))]
  /\ outbox' = [outbox EXCEPT ![s] = Tail(@)]
  /\ UNCHANGED <<phase, ended, ready, written, shut, inbox>>

\* A connection closed with bytes unread is reset, and what was on its way is gone.
Reset(s) ==
  /\ phase = "closed" /\ inbox[s] # <<>> /\ outbox[s] # <<>>
  /\ outbox' = [outbox EXCEPT ![s] = <<>>]
  /\ UNCHANGED <<phase, ended, ready, written, shut, inbox, received>>

Readable(s) == inbox[s] # <<>> \/ s \in shut

\* select answers in the order in which it is asked.
Polls == {<<"client">>, <<"upstream">>, <<"client", "upstream">>}
Select ==
  /\ phase = "open" /\ ready = <<>>
  /\ ready' \in {found \in Polls : {found[i] : i \in DOMAIN found} = {s \in Sides : Readable(s)}}
  /\ UNCHANGED <<phase, ended, written, shut, inbox, outbox, received>>

\* return: both sockets are closed.
End(why) == phase' = "closed" /\ ended' = why /\ ready' = <<>>

AtEnd(s, chunk) == chunk = <<>>

\* Mutant of SendFails: a full buffer is passed over, as a socket with nothing to read is.
PassOver(why) == ready' = Tail(ready) /\ UNCHANGED <<phase, ended>>
SendFails(why) == End(why)

\* One turn of the inner loop: recv, and sendall to the other side.
Forward ==
  /\ phase = "open" /\ ready # <<>>
  /\ LET s == Head(ready)  t == Other(s)
         chunk == SubSeq(inbox[s], 1, IF Len(inbox[s]) < Chunk THEN Len(inbox[s]) ELSE Chunk)
         free == Room - Len(outbox[t])
         Send(bytes) == outbox' = [outbox EXCEPT ![t] = @ \o bytes] /\ inbox' = [inbox EXCEPT ![s] = SubSeq(@, Len(chunk) + 1, Len(@))]
     IN \/ /\ AtEnd(s, chunk)
           /\ End(s)
           /\ UNCHANGED <<inbox, outbox>>
        \/ /\ ~AtEnd(s, chunk) /\ Len(chunk) <= free
           /\ Send(chunk)
           /\ ready' = Tail(ready)
           /\ UNCHANGED <<phase, ended>>
        \/ /\ ~AtEnd(s, chunk) /\ Len(chunk) > free
           /\ Send(SubSeq(chunk, 1, free))
           /\ SendFails("full")
        \/ /\ ~AtEnd(s, chunk) /\ t \in shut
           /\ Send(<<>>)
           /\ SendFails("gone")
  /\ UNCHANGED <<written, shut, received>>

ProxyInit ==
  /\ phase = "dialing" /\ ended = "" /\ ready = <<>> /\ shut = {}
  /\ written = [s \in Sides |-> 0]
  /\ inbox = [s \in Sides |-> <<>>] /\ outbox = inbox /\ received = inbox

ProxyNext == Dial \/ (\E s \in Sides : Say(s) \/ Shut(s) \/ Receive(s) \/ Reset(s)) \/ Select \/ Forward
ProxySpec == ProxyInit /\ [][ProxyNext]_proxyVars

-----------------------------------------------------------------------------
HandedOn(s) == received[Other(s)] \o outbox[Other(s)]

\* Every variable keeps its type, and a send buffer its size.
ProxyTypeOK ==
  /\ phase \in {"dialing", "open", "closed", "unreachable", "aborted"}
  /\ ended \in Sides \cup {"full", "gone", ""} /\ (ended # "") = (phase = "closed")
  /\ \A s \in Sides : Len(outbox[s]) <= Room

\* "no chance of corrupting framing" (serve.py:66-70): what a side receives is a beginning of
\* what the other wrote, also when a send fails in the middle of a chunk.
BeginningArrives == \A s \in Sides : HandedOn(s) = [i \in 1..Len(HandedOn(s)) |-> i]

\* While the session lasts a byte is in one place, and the loop holds none back.
NothingLost == phase = "open" => \A s \in Sides : HandedOn(s) \o inbox[s] = [i \in 1..written[s] |-> i]

\* A session that ends because one side closed has handed on all that this side wrote, if the
\* other had nothing more to say.
EndsAfterLast ==
  ended \in Sides =>
    /\ inbox[ended] = <<>>
    /\ inbox[Other(ended)] = <<>> => HandedOn(ended) = [i \in 1..written[ended] |-> i]

\* What a browser and the game have of each other's stream.
StreamArrives == BeginningArrives /\ NothingLost /\ EndsAfterLast
=============================================================================
