----------------------------- MODULE RomPictures -----------------------------
(***************************************************************************)
(* Pictures: what the source-backed extractors make of a PNG, and what     *)
(* tools/build_rom_data.py reads from the graphics assembled from it.      *)
(*                                                                         *)
(* A PNG is the sequence of its 8x8 tiles, a tile the sequence of its rows *)
(* of grays.  A picture is the sequence of its rows of shades, 0 the       *)
(* lightest; Clear is a pixel with alpha 0.                                *)
(***************************************************************************)
EXTENDS RomBytes, Bitwise

CONSTANTS Sheets,       \* the overworld sheets: label, tiles across, tiles
          IconOrder,    \* the names of the party icons, in the order of their nybbles
          GlyphsPerRow  \* 16

Clear == 4

Rows(height, width, Shade(_, _)) == [y \in 1..height |-> [x \in 1..width |-> Shade(x - 1, y - 1)]]
Height(picture) == Len(picture)
Width(picture) == Len(picture[1])
Repaint(picture, Paint(_)) == [y \in DOMAIN picture |-> [x \in DOMAIN picture[y] |-> Paint(picture[y][x])]]

\* Scan for as many as n * n steps.
LongScan(cursor, Step(_), n) == Scan(cursor, LAMBDA c : Scan(c, Step, n), n)

-----------------------------------------------------------------------------
\* extract/gfx.py reads the grays of a PNG.
GrayOf(tiles, across) ==
  Rows(8 * (Len(tiles) \div across), 8 * across,
       LAMBDA x, y : tiles[((y \div 8) * across) + (x \div 8) + 1][(y % 8) + 1][(x % 8) + 1])

GrayToIndex(v) == 3 - ((v + 42) \div 85)

\* The pixels that opaque white spreads to from the edge.
MatteColor0(picture) ==
  LET w == Width(picture)  h == Height(picture)
      White == {p \in (1..h) \X (1..w) : picture[p[1]][p[2]] = 0}
      Near(p) == {<<p[1] - 1, p[2]>>, <<p[1] + 1, p[2]>>, <<p[1], p[2] - 1>>, <<p[1], p[2] + 1>>}
      Spread(c) ==
        LET next == (UNION {Near(p) : p \in c.queue} \cap White) \ c.seen
        IN [seen |-> c.seen \cup next, queue |-> next, done |-> next = {}]
      Edge == {p \in White : p[1] \in {1, h} \/ p[2] \in {1, w}}
      seen == LongScan([seen |-> Edge, queue |-> Edge, done |-> Edge = {}], Spread, w + h).seen
  IN [y \in 1..h |-> [x \in 1..w |-> IF <<y, x>> \in seen THEN Clear ELSE picture[y][x]]]

ConvertImage(gray, mode) ==
  LET Shade(v) == IF mode = "color0" /\ GrayToIndex(v) = 0 THEN Clear ELSE GrayToIndex(v)
      shaded == Repaint(gray, Shade)
  IN IF mode = "matte" THEN MatteColor0(shaded) ELSE shaded

-----------------------------------------------------------------------------
\* rgbgfx: a tile is eight rows of two bytes, one per bit of the colours; one byte for 1bpp.
PlaneByte(row, plane) == FoldLeft(LAMBDA n, v : (2 * n) + (((255 - v) \div (85 * plane)) % 2), 0, row)
Graphics2bpp(tiles) ==
  FlattenSeq([i \in DOMAIN tiles |->
    FlattenSeq([y \in 1..8 |-> <<PlaneByte(tiles[i][y], 1), PlaneByte(tiles[i][y], 2)>>])])
Graphics1bpp(tiles) == FlattenSeq([i \in DOMAIN tiles |-> [y \in 1..8 |-> PlaneByte(tiles[i][y], 1)]])

TileAt(x, y, width) == ((y \div 8) * (width \div 8)) + (x \div 8)

Decode2bpp(raw, width, height, color0) ==
  LET Shade(x, y) ==
        LET at == (TileAt(x, y, width) * 16) + ((y % 8) * 2) + 1
            Plane(n) == IF Bit(raw[at + n], 7 - (x % 8)) THEN 1 ELSE 0
        IN (2 * Plane(1)) + Plane(0)
      Seen(x, y) == IF color0 /\ Shade(x, y) = 0 THEN Clear ELSE Shade(x, y)
  IN IF width % 8 # 0 \/ height % 8 # 0 \/ Len(raw) # (width * height) \div 4 THEN Invalid
     ELSE Rows(height, width, Seen)

Decode1bpp(raw, width, height, color0) ==
  LET Seen(x, y) ==
        IF Bit(raw[(TileAt(x, y, width) * 8) + (y % 8) + 1], 7 - (x % 8)) THEN 3
        ELSE IF color0 THEN Clear ELSE 0
  IN IF width % 8 # 0 \/ height % 8 # 0 \/ Len(raw) # (width * height) \div 8 THEN Invalid
     ELSE Rows(height, width, Seen)

\* rgbgfx --columns lays the tiles of a PNG out column by column.
ByColumns(tiles, across) ==
  LET high == Len(tiles) \div across
  IN [i \in DOMAIN tiles |-> tiles[(((i - 1) % high) * across) + ((i - 1) \div high) + 1]]

ColumnsToRows(raw, across, high, perTile) ==
  [n \in 1..Len(raw) |->
     LET tile == (n - 1) \div perTile  x == tile % across  y == tile \div across
     IN raw[(((x * high) + y) * perTile) + ((n - 1) % perTile) + 1]]

-----------------------------------------------------------------------------
\* tools/pkmncompress.c: each row of a plane becomes where its bits change, and the pairs of
\* bits of eight-pixel columns become runs of zeros and packets of the others.
GrayCodes ==
  <<<<0, 1, 3, 2, 6, 7, 5, 4, 12, 13, 15, 14, 10, 11, 9, 8>>, <<8, 9, 11, 10, 14, 15, 13, 12, 4, 5, 7, 6, 2, 3, 1, 0>>>>

CompressPlane(plane, width) ==
  [j \in DOMAIN plane |->
     LET before == IF j <= width * 8 THEN 0 ELSE plane[j - (width * 8)]
         high == plane[j] \div 16
     IN (16 * GrayCodes[1 + (before % 2)][1 + high]) + GrayCodes[1 + (high % 2)][1 + (plane[j] % 16)]]

GroupsOf(plane, width) ==
  [n \in 1..(4 * Len(plane)) |->
     LET y == (n - 1) % (width * 8)  pair == ((n - 1) \div (width * 8)) % 4  x == (n - 1) \div (width * 32)
     IN (plane[(x * width * 8) + y + 1] \div 4^(3 - pair)) % 4]

BitsOf(v, count) == [i \in 1..count |-> (v \div 2^(count - i)) % 2]

EncodeNumber(n) ==
  LET k == CHOOSE k \in 1..16 : 2^k <= n + 1 /\ n + 1 < 2^(k + 1)
  IN [i \in 1..(k - 1) |-> 1] \o <<0>> \o BitsOf(n + 1 - 2^k, k)

\* The counter of a packet that ends a plane is not put back for the next plane.
Packets(groups, width, leftover) ==
  LET Close(c) == IF c.run > 0 THEN EncodeNumber(c.run)
                  ELSE FlattenSeq([i \in DOMAIN c.packet |-> BitsOf(c.packet[i], 2)])
      Zero(c) ==
        [c EXCEPT !.run = @ + 1, !.packet = <<>>,
                  !.bits = IF c.run > 0 THEN @ ELSE IF @ = <<>> THEN <<0>> ELSE @ \o Close(c) \o <<0, 0>>]
      NonZero(c, g) ==
        [c EXCEPT !.run = 0, !.packet = Append(@, g),
                  !.bits = IF c.run > 0 THEN @ \o Close(c) ELSE IF @ = <<>> THEN <<1>> ELSE @]
      Step(c) ==
        [(IF groups[c.at] = 0 THEN Zero(c) ELSE NonZero(c, groups[c.at])) EXCEPT !.at = @ + 1, !.done = c.at = width * width * 32]
      begin == [at |-> 1, done |-> FALSE, run |-> 0, packet |-> [i \in 1..leftover |-> 0], bits |-> <<>>]
      end == LongScan(begin, Step, 8 * width)
  IN [bits |-> end.bits \o Close(end), leftover |-> Len(end.packet)]

Transposed(tiles, width) ==
  [i \in DOMAIN tiles |-> tiles[((((i - 1) * width) + ((i - 1) \div width)) % (width * width)) + 1]]

Compressed(tiles, width, mode, order) ==
  LET data == Graphics2bpp(Transposed(tiles, width))
      Plane(n) == [i \in 1..(width * width * 8) |-> data[(2 * i) - 1 + n]]
      first == Plane(order)
      second == [i \in DOMAIN first |-> IF mode = 0 THEN Plane(1 - order)[i] ELSE Plane(1 - order)[i] ^^ first[i]]
      one == Packets(GroupsOf(CompressPlane(first, width), width), width, 0)
      two == Packets(GroupsOf(IF mode = 1 THEN second ELSE CompressPlane(second, width), width), width, one.leftover)
  IN BitsOf(width, 4) \o BitsOf(width, 4) \o <<order>> \o one.bits
       \o (IF mode = 0 THEN <<0>> ELSE <<1, mode - 1>>) \o two.bits

-----------------------------------------------------------------------------
\* tools/rom_data.py: a reader is the bits and how many of them are read.
ReadBits(bits, at, count) ==
  IF at + count > Len(bits) THEN Invalid
  ELSE FoldLeft(LAMBDA n, b : (2 * n) + b, 0, SubSeq(bits, at + 1, at + count))

\* Runs of zeros and packets in turn, until the groups of the plane are complete.
FillPicGroups(bits, at, width) ==
  LET count == width * width * 32
      Stop(c) == [c EXCEPT !.groups = Invalid, !.done = TRUE]
      ReadPacket(c) ==
        LET g == ReadBits(bits, c.at, 2)
        IN IF g = Invalid THEN Stop(c)
           ELSE IF g = 0 THEN [c EXCEPT !.at = @ + 2, !.mode = 0]
           ELSE [c EXCEPT !.at = @ + 2, !.groups = Append(@, g), !.done = Len(c.groups) + 1 = count]
      ReadRun(c) ==
        LET prefixes == {k \in 0..15 : ReadBits(bits, c.at + k, 1) = 0}
            k == CHOOSE k \in prefixes : \A j \in prefixes : k <= j
            rest == ReadBits(bits, c.at + k + 1, k + 1)
            zeros == (2^(k + 1) - 1) + rest
            room == count - Len(c.groups)
        IN IF prefixes = {} \/ rest = Invalid THEN Stop(c)
           ELSE [c EXCEPT !.at = @ + (2 * k) + 2, !.mode = 1, !.done = zeros >= room,
                          !.groups = @ \o [i \in 1..(IF zeros <= room THEN zeros ELSE room) |-> 0]]
      Step(c) == IF c.mode = 1 THEN ReadPacket(c) ELSE ReadRun(c)
      mode == ReadBits(bits, at, 1)
  IN IF mode = Invalid THEN [groups |-> Invalid, at |-> at]
     ELSE LongScan([at |-> at + 1, mode |-> mode, groups |-> <<>>, done |-> FALSE], Step, 16 * width)

PackGroups(groups, width) ==
  [i \in 1..(width * width * 8) |->
     LET Group(n) == groups[(((((i - 1) \div (width * 8)) * 4) + n) * width * 8) + ((i - 1) % (width * 8)) + 1]
     IN (64 * Group(0)) + (16 * Group(1)) + (4 * Group(2)) + Group(3)]

PicCodes ==
  <<<<0, 1, 3, 2, 7, 6, 4, 5, 15, 14, 12, 13, 8, 9, 11, 10>>, <<15, 14, 12, 13, 8, 9, 11, 10, 0, 1, 3, 2, 7, 6, 4, 5>>>>

UnfilterPicPlane(plane, width) ==
  LET done[n \in DOMAIN plane] ==
        LET before == IF n <= width * 8 THEN 0 ELSE done[n - (width * 8)]
            high == PicCodes[1 + (before % 2)][1 + (plane[n] \div 16)]
            low == PicCodes[1 + (high % 2)][1 + (plane[n] % 16)]
        IN (16 * high) + low
  IN done

\* Mutant of TransposePicTiles: the tiles stay column by column.
AsTheyCome(raw, width) == raw
TransposePicTiles(raw, width) ==
  [n \in DOMAIN raw |->
     LET tile == (n - 1) \div 16
     IN raw[(16 * (((tile * width) + (tile \div width)) % (width * width))) + ((n - 1) % 16) + 1]]

\* How the second plane is stored, and where it begins.
ReadMode(bits, at) ==
  LET high == ReadBits(bits, at, 1)
      low == ReadBits(bits, at + 1, 1)
  IN IF high = 0 THEN [mode |-> 0, at |-> at + 1]
     ELSE IF Invalid \in {high, low} THEN Invalid
     ELSE [mode |-> 1 + low, at |-> at + 2]

\* The bytes of the two planes in turn; the first in the stream need not be the first of a pair.
Interleaved(width, order, mode, first, stored) ==
  LET filtered == IF mode = 1 THEN stored ELSE UnfilterPicPlane(stored, width)
      Second(i) == IF mode = 0 THEN filtered[i] ELSE filtered[i] ^^ first[i]
  IN [n \in 1..(width * width * 16) |->
        LET i == (n + 1) \div 2 IN IF (n - 1) % 2 = order THEN first[i] ELSE Second(i)]

SecondPlane(bits, width, order, first, mode) ==
  IF mode = Invalid THEN Invalid
  ELSE LET two == FillPicGroups(bits, mode.at, width).groups
       IN IF two = Invalid THEN Invalid
          ELSE TransposePicTiles(Interleaved(width, order, mode.mode, first, PackGroups(two, width)), width)

FirstPlane(bits, width, order, one) ==
  IF order = Invalid \/ one.groups = Invalid THEN Invalid
  ELSE SecondPlane(bits, width, order, UnfilterPicPlane(PackGroups(one.groups, width), width), ReadMode(bits, one.at))

PicOf(raw, width) == IF raw = Invalid THEN Invalid ELSE [raw |-> raw, width |-> width]

DecompressPic(bits) ==
  LET width == ReadBits(bits, 0, 4)
      height == ReadBits(bits, 4, 4)
  IN IF Invalid \in {width, height} \/ width = 0 \/ width # height THEN Invalid
     ELSE PicOf(FirstPlane(bits, width, ReadBits(bits, 8, 1), FillPicGroups(bits, 9, width)), width)

\* _write_compressed_pic
CompressedPic(bits) ==
  LET pic == DecompressPic(bits)
  IN IF pic = Invalid THEN Invalid
     ELSE MatteColor0(Decode2bpp(pic.raw, pic.width * 8, pic.width * 8, FALSE))
=============================================================================
