------------------------------- MODULE RomBytes -------------------------------
(***************************************************************************)
(* What tools/rom_data.py reads from a ROM image, and the tables of names  *)
(* the manifest has for the numbers in it.                                 *)
(*                                                                         *)
(* A piece of ROM is the sequence of its bytes; an address is a position   *)
(* in it, from 1.  A table of names lists them in the order of their ids.  *)
(***************************************************************************)
EXTENDS Integers, Sequences, SequencesExt

CONSTANTS MapOrder, TilesetOrder, SpriteOrder, SpeciesOrder, ItemOrder, MoveOrder, TypeOrder,
          Invalid   \* what a decoder returns that raises ValueError

ASSUME NamesAreDistinct ==
  \A order \in {MapOrder, TilesetOrder, SpriteOrder, SpeciesOrder, ItemOrder, MoveOrder, TypeOrder} :
    IsInjective(order)

\* A slice past the end of the file is cut short.
Bytes(rom, at, n) == SubSeq(rom, at, IF at + n - 1 <= Len(rom) THEN at + n - 1 ELSE Len(rom))

Word(rom, at) == rom[at] + 256 * rom[at + 1]

\* A pointer as dw emits it.
LowHigh(n) == <<n % 256, n \div 256>>

Modulo256(n) == n % 256

\* Mutant of SignedByte: offsets to the west and north are never negative.
UnsignedByte(v) == v
SignedByte(v) == IF v >= 128 THEN v - 256 ELSE v

Bit(v, n) == (v \div 2^n) % 2 = 1

Nybbles(raw, count) ==
  SubSeq(FlattenSeq([i \in DOMAIN raw |-> <<raw[i] \div 16, raw[i] % 16>>]), 1, count)

\* nybble packs what it is given, the first highest.
PackNybbles(values) ==
  [b \in 1..((Len(values) + 1) \div 2) |->
     16 * values[2 * b - 1] + (IF 2 * b \in DOMAIN values THEN values[2 * b] ELSE 0)]

Bcd(raw) == FoldLeft(LAMBDA n, b : (n * 100) + (10 * (b \div 16)) + (b % 16), 0, raw)

IndexOf(order, name) == CHOOSE i \in DOMAIN order : order[i] = name

\* _species, _item and _move: ids count from 1, and one without a name stands for itself.
NameOf(order, id) == IF id \in DOMAIN order THEN order[id] ELSE ToString(id)

\* The first position from at on where the terminator stands; 0 when there is none.
EndOf(rom, at, terminator) ==
  LET ends == {i \in at..Len(rom) : rom[i] = terminator}
  IN IF ends = {} THEN 0 ELSE CHOOSE i \in ends : \A j \in ends : i <= j

ReadTerminated(rom, at, terminator) ==
  LET end == EndOf(rom, at, terminator)
  IN IF end = 0 THEN Invalid ELSE SubSeq(rom, at, end - 1)

\* An asm file is the sequence of its lines; k tells their macros apart.
Lines(source, k) == SelectSeq(source, LAMBDA l : l.k = k)

InFile(source, file) == SelectSeq(source, LAMBDA l : l.file = file)

Column(lines, Field(_)) == [i \in DOMAIN lines |-> Field(lines[i])]

\* The blocks of a file: what stands below each label, up to the next.
Blocks(lines) ==
  FoldLeft(LAMBDA blocks, l :
             IF l.k = "label" THEN Append(blocks, <<>>)
             ELSE IF blocks = <<>> THEN blocks
             ELSE [blocks EXCEPT ![Len(blocks)] = Append(@, l)],
           <<>>, lines)

\* Where the i-th of some pieces begins, once they stand one after another.
Start(pieces, i) == 1 + Len(FlattenSeq(SubSeq(pieces, 1, i - 1)))

\* A loop over the bytes: Step takes a cursor further until it is done, at most once a byte.
Scan(cursor, Step(_), room) ==
  LET after[n \in 0..room] == IF n = 0 THEN cursor ELSE LET c == after[n - 1] IN IF c.done THEN c ELSE Step(c)
  IN after[room]
=============================================================================
