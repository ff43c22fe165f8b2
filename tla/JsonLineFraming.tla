--------------------------- MODULE JsonLineFraming ---------------------------
(***************************************************************************)
(* Newline-delimited JSON over a byte stream, as both transports of the    *)
(* backend read it (infrastructure/framing/json-line-decoder.ts, and the   *)
(* data handlers of tcp-game.server.ts and websocket-game.server.ts).      *)
(*                                                                         *)
(* A client writes lines; the network cuts the bytes into chunks (TCP      *)
(* segments, WebSocket frames) wherever it likes.  Of the bytes, the model *)
(* tells apart: plain ones ("a", "b"), the two bytes of a character beyond *)
(* ASCII ("lead", "cont"), the newline ("nl"), and two letters a line is   *)
(* judged by: with "bad" it is not JSON, with "odd" it is JSON of no known *)
(* message.                                                                *)
(***************************************************************************)
EXTENDS Naturals, Sequences, FiniteSets
LOCAL INSTANCE SequencesExt

CONSTANTS
  Lines,         \* what a client may write: sequences of bytes
  MaxLines,      \* bound: how many of them it writes
  MaxBufferBytes, \* the decoder's limit, 64 KiB in the program
  MaxPayload     \* the WebSocket library's limit on one frame

VARIABLES
  lines,   \* what the client wrote
  rest,    \* the bytes of it still to arrive
  buffer,  \* JsonLineDecoder.buffer: characters
  handled, \* the messages given to the coordinator
  errors,  \* the codes of what the handler caught
  transport, \* "tcp" or "websocket"
  socket   \* "open"; "closing" after peer.close of a WebSocket; "gone": no more events

vars == <<lines, rest, buffer, handled, errors, transport, socket>>

\* Buffer.toString: a character whose two bytes are not together becomes two
\* replacement characters.
Decoded(bytes) ==
  LET Whole(i) == i \in 1..Len(bytes) - 1 /\ bytes[i] = "lead" /\ bytes[i + 1] = "cont"
      Char(i)  == IF Whole(i) THEN <<"wide">>
                  ELSE IF Whole(i - 1) THEN <<>>
                  ELSE IF bytes[i] \in {"lead", "cont"} THEN <<"replacement">>
                  ELSE <<bytes[i]>>
  IN  FlattenSeq([i \in DOMAIN bytes |-> Char(i)])

\* Buffer.byteLength: a replacement character takes three bytes.
Width(char)      == CASE char = "wide" -> 2 [] char = "replacement" -> 3 [] OTHER -> 1
ByteLength(text) == FoldLeft(LAMBDA n, char : n + Width(char), 0, text)

\* split('\n') and pop(): the whole lines and what comes after them.
Split(text) ==
  FoldLeft(LAMBDA s, char : IF char = "nl"
                            THEN [whole |-> Append(s.whole, s.tail), tail |-> <<>>]
                            ELSE [s EXCEPT !.tail = Append(@, char)],
           [whole |-> <<>>, tail |-> <<>>], text)

\* What for..of hands to the coordinator before parseClientMessage throws.
Accepted(values) ==
  LET Odd == {i \in DOMAIN values : "odd" \in Range(values[i])}
  IN  SubSeq(values, 1, IF Odd = {} THEN Len(values)
                        ELSE (CHOOSE i \in Odd : \A j \in Odd : i <= j) - 1)

Kept(text) == Split(text).tail

\* Mutant of Closed: end() in place of destroy().
ClosedByEnd == "closing"
\* What peer.close leaves of the socket: destroy() ends its events at once, while a
\* WebSocket starts the closing handshake and emits what still arrives.
Closed == IF transport = "tcp" THEN "gone" ELSE "closing"

\* push empties the buffer and throws: of this chunk no line is handled.
Overflow(text) ==
  buffer' = <<>> /\ errors' = Append(errors, "protocol_error") /\ socket' = Closed /\ UNCHANGED handled

\* The handler of one chunk: the first n bytes that are left.
OnData(n) ==
  /\ socket # "gone" /\ n \in 1..Len(rest)
  /\ transport = "websocket" => n <= MaxPayload
  /\ rest' = SubSeq(rest, n + 1, Len(rest))
  /\ UNCHANGED <<lines, transport>>
  /\ LET text   == buffer \o Decoded(SubSeq(rest, 1, n))
         values == SelectSeq(Split(text).whole, LAMBDA line : line # <<>>)
     IN  \/ ByteLength(text) > MaxBufferBytes /\ Overflow(text)
         \/ /\ ByteLength(text) <= MaxBufferBytes
            /\ buffer' = Kept(text)
            /\ UNCHANGED socket
            /\ IF \E i \in DOMAIN values : "bad" \in Range(values[i])
               THEN handled' = handled /\ errors' = Append(errors, "invalid_json")
               ELSE /\ handled' = handled \o Accepted(values)
                    /\ errors' = IF Accepted(values) = values THEN errors
                                 ELSE Append(errors, "invalid_message")

\* A frame beyond maxPayload never reaches the handler: the library closes and reads no more.
FrameTooLarge ==
  /\ transport = "websocket" /\ socket # "gone" /\ Len(rest) > MaxPayload
  /\ socket' = "gone"
  /\ UNCHANGED <<lines, rest, buffer, handled, errors, transport>>

Init ==
  /\ lines \in SeqOf(Lines, MaxLines)
  /\ rest = FlattenSeq(lines)
  /\ buffer = <<>> /\ handled = <<>> /\ errors = <<>>
  /\ transport \in {"tcp", "websocket"} /\ socket = "open"

Next == (\E n \in 1..Len(rest) : OnData(n)) \/ FrameTooLarge
Spec == Init /\ [][Next]_vars
-----------------------------------------------------------------------------
(* Properties.                                                             *)

\* A line but for its characters beyond ASCII: a chunk boundary inside one of them spoils it,
\* and nothing else.
Plain(line) == SelectSeq(line, LAMBDA char : char \notin {"wide", "replacement"})
Same(read, written) == [i \in DOMAIN read |-> Plain(read[i])] = [i \in DOMAIN written |-> Plain(written[i])]

\* The lines that have arrived whole, blank ones left out.
Arrived ==
  LET all  == FlattenSeq(lines)
      read == Split(Decoded(SubSeq(all, 1, Len(all) - Len(rest))))
  IN  SelectSeq(read.whole, LAMBDA line : line # <<>>)
Sound(line) == Range(line) \cap {"bad", "odd"} = {}

\* What is left of a line whose beginning was in the buffer when it was emptied.
TailOf(read, line) == \E i \in 2..Len(line) : Plain(read) = Plain(SubSeq(line, i, Len(line)))

\* Lines may have lost their beginning to the limit: one for each time it was exceeded, and
\* none on TCP, whose socket is gone by then.
Tearable == IF transport = "tcp" THEN 0 ELSE Len(SelectSeq(errors, LAMBDA code : code = "protocol_error"))

\* The buffer stays within the limit and holds an unfinished line.
FramingTypeOK ==
  /\ ByteLength(buffer) <= MaxBufferBytes
  /\ "nl" \notin Range(buffer)
  /\ errors # <<>> => Range(errors) \subseteq {"protocol_error", "invalid_json", "invalid_message"}
  /\ transport \in {"tcp", "websocket"} /\ socket \in {"open", "closing", "gone"}

\* However the stream is cut, the coordinator is handed only lines the client wrote, in the
\* order it wrote them and none twice: lines never run together, and a refused line never
\* shifts the framing of those behind it.  A line is handled whole, except where the limit
\* was exceeded on a WebSocket: there the frames that come while it closes are read as if
\* the stream began with them, so that at most one line for each excess is handled without
\* its beginning.
HandledInOrder ==
  \E kept \in SUBSET DOMAIN Arrived :
    LET order    == SetToSortSeq(kept, <)
        Source(i) == Arrived[order[i]]
        IsWhole(i) == Sound(Source(i)) /\ Plain(handled[i]) = Plain(Source(i))
    IN  /\ Len(order) = Len(handled)
        /\ \A i \in DOMAIN handled : IsWhole(i) \/ TailOf(handled[i], Source(i))
        /\ Cardinality({i \in DOMAIN handled : ~IsWhole(i)}) <= Tearable

\* As long as nothing was refused, every line that has arrived whole is handled at once.
NothingWithheld == errors = <<>> => Same(handled, Arrived)

\* What is handled is what was written, no more and no less.
HandledAsWritten == HandledInOrder /\ NothingWithheld
=============================================================================
