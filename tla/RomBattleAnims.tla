----------------------------- MODULE RomBattleAnims -----------------------------
(***************************************************************************)
(* Battle animations, in three files that refer to one another: frame      *)
(* blocks of sprites, subanimations that place frame blocks, and a move's  *)
(* rows of subanimations and effects.  tools/build_rom_data.py checks      *)
(* every number it decodes; tools/extract/battle_anims.py the names and    *)
(* how many lines stand below a head.                                      *)
(***************************************************************************)
EXTENDS RomBytes

CONSTANTS SheetTiles,   \* how many tiles each tileset loads, from tileset 0
          Effects,      \* the bytes of the special effects
          BaseCoords,   \* how many base coordinates there are, from 0
          MiscAnims     \* the names of the animations behind those of the moves

SubanimTypes == <<"NORMAL", "HVFLIP", "HFLIP", "COORDFLIP", "REVERSE", "ENEMY">>

OamBit == [pal1 |-> 4, xflip |-> 5, yflip |-> 6, prio |-> 7]

File(source, file) == Blocks(InFile(source, file))

-----------------------------------------------------------------------------
(* The assembler.  A frame block begins with the number of its sprites, a  *)
(* subanimation with its type and the number of its frames.                *)

AssembleFrameLine(l) ==
  CASE l.k = "count" -> <<l.count>>
    [] l.k = "dbsprite" -> <<(l.ytile * 8 + l.ypx) % 256, (l.xtile * 8 + l.xpx) % 256, l.tile,
                             FoldSet(LAMBDA flag, n : n + 2^OamBit[flag], 0, l.attrs)>>

AssembleSubanimLine(l) ==
  CASE l.k = "subanim" -> <<32 * (IndexOf(SubanimTypes, l.type) - 1) + l.count>>
    [] l.k = "frame" -> <<l.block, l.coord, l.mode>>

SoundByte(sound) == IF sound = "NO_MOVE" THEN 255 ELSE IndexOf(MoveOrder \o MiscAnims, sound) - 1

\* (tileset << 6) | delay, for a tileset below 2 and a delay below 128.
PackDelay(tileset, delay) == IF delay < 64 THEN 64 * tileset + delay ELSE 64 + (delay % 64)

AssembleAnimLine(l) ==
  CASE l.k = "play" -> <<PackDelay(l.tileset, l.delay), SoundByte(l.sound), l.sub>>
    [] l.k = "effect" -> <<l.effect, SoundByte(l.sound)>>
    [] l.k = "end" -> <<255>>

LinesOf(blocks) == UNION {ToSet(block) : block \in ToSet(blocks)}

AssembleBlocks(blocks, Row(_)) == Column(blocks, LAMBDA block : FlattenSeq(Column(block, Row)))

-----------------------------------------------------------------------------
(* tools/extract/battle_anims.py.                                          *)

Declared(block) == block # <<>> /\ block[1].k \in {"count", "subanim"}

Sprite(y, x, tile, attrs) == [y |-> y, x |-> x, tile |-> tile, attrs |-> attrs]

\* A block with more sprites than it declares is cut, one with fewer stops the extraction.
ParseFrameBlocks(blocks) ==
  IF \E b \in DOMAIN blocks : ~Declared(blocks[b]) \/ Len(blocks[b]) - 1 < blocks[b][1].count THEN Invalid
  ELSE Column(blocks, LAMBDA block :
         Column(SubSeq(block, 2, block[1].count + 1), LAMBDA l :
           Sprite((l.ytile * 8 + l.ypx) % 256, (l.xtile * 8 + l.xpx) % 256, l.tile, l.attrs)))

ParseSubanimations(blocks, frameCount) ==
  IF \/ \E b \in DOMAIN blocks : ~Declared(blocks[b]) \/ Len(blocks[b]) - 1 # blocks[b][1].count
     \/ \E b \in DOMAIN blocks : \E i \in 2..Len(blocks[b]) :
          blocks[b][i].block >= frameCount \/ blocks[b][i].coord >= BaseCoords
  THEN Invalid
  ELSE Column(blocks, LAMBDA block :
         [type |-> block[1].type,
          blocks |-> Column(Tail(block), LAMBDA l : [block |-> l.block, coord |-> l.coord, mode |-> l.mode])])

ParseMoveAnims(blocks, subanimCount) ==
  LET Refused(l) ==
        \/ l.k = "play" /\ (l.sub >= subanimCount \/ l.delay \notin 1..63)
        \/ l.k = "effect" /\ l.effect \notin Effects
      Row(l) == IF l.k = "effect" THEN [effect |-> l.effect, sound |-> l.sound]
                ELSE [subanim |-> l.sub, tileset |-> l.tileset, delay |-> l.delay, sound |-> l.sound]
  IN IF \E l \in LinesOf(blocks) : Refused(l) THEN Invalid
     ELSE Column(blocks, LAMBDA block : Column(SelectSeq(block, LAMBDA l : l.k # "end"), Row))

-----------------------------------------------------------------------------
(* tools/build_rom_data.py.                                                *)

DecodeFrameBlock(rom, at) ==
  [i \in 1..rom[at] |->
     LET row == Bytes(rom, at + 1 + 4 * (i - 1), 4)
     IN Sprite(row[1], row[2], row[3], {flag \in DOMAIN OamBit : Bit(row[4], OamBit[flag])})]

DecodeSubanim(rom, at, frameCount) ==
  LET count == rom[at] % 32
      Row(i) == Bytes(rom, at + 1 + 3 * (i - 1), 3)
  IN IF 1 + rom[at] \div 32 \notin DOMAIN SubanimTypes \/ \E i \in 1..count : Row(i)[1] >= frameCount \/ Row(i)[2] >= BaseCoords
     THEN Invalid
     ELSE [type |-> SubanimTypes[1 + rom[at] \div 32],
           blocks |-> [i \in 1..count |-> [block |-> Row(i)[1], coord |-> Row(i)[2], mode |-> Row(i)[3]]]]

SoundOf(byte) == IF byte = 255 THEN "NO_MOVE" ELSE IF byte < Len(MoveOrder) THEN MoveOrder[byte + 1] ELSE Invalid

\* Rows until 0xFF: what is below the first special effect is a subanimation.
DecodeMoveAnim(rom, at, subanimCount) ==
  LET Step(c) ==
        LET first == rom[c.at]
            effect == [effect |-> first, sound |-> SoundOf(rom[c.at + 1])]
            play == [subanim |-> rom[c.at + 2], tileset |-> first \div 64, delay |-> first % 64,
                     sound |-> SoundOf(rom[c.at + 1])]
        IN IF first = 255 THEN [c EXCEPT !.done = TRUE]
           ELSE IF SoundOf(rom[c.at + 1]) = Invalid THEN [c EXCEPT !.ok = FALSE, !.done = TRUE]
           ELSE IF first >= 216
           THEN [c EXCEPT !.at = @ + 2, !.ok = @ /\ first \in Effects, !.seq = Append(@, effect)]
           ELSE [c EXCEPT !.at = @ + 3, !.seq = Append(@, play),
                   !.ok = @ /\ play.delay > 0 /\ play.subanim < subanimCount /\ play.tileset + 1 \in DOMAIN SheetTiles]
      end == Scan([at |-> at, done |-> FALSE, ok |-> TRUE, seq |-> <<>>], Step, Len(rom))
  IN IF end.done /\ end.ok THEN end.seq ELSE Invalid

-----------------------------------------------------------------------------
(* Both pipelines end with the same check, over all that was decoded.      *)

AnimPlays(seq) == {row \in ToSet(seq) : "subanim" \in DOMAIN row}

TilesFit(data) ==
  \A seq \in ToSet(data.moveAnims) : \A row \in AnimPlays(seq) :
    \A frame \in ToSet(data.subanims[row.subanim + 1].blocks) :
      \A sprite \in ToSet(data.frameBlocks[frame.block + 1]) : sprite.tile < SheetTiles[row.tileset + 1]

Checked(data) ==
  IF Invalid \in {data.frameBlocks, data.subanims, data.moveAnims} THEN Invalid
  ELSE IF TilesFit(data) THEN data ELSE Invalid

AnimsFromAsm(source) ==
  LET frames == File(source, "frames")
      subanims == File(source, "subanims")
  IN Checked([frameBlocks |-> ParseFrameBlocks(frames), subanims |-> ParseSubanimations(subanims, Len(frames)),
              moveAnims |-> ParseMoveAnims(File(source, "anims"), Len(subanims))])

Whole(list) == IF Invalid \in ToSet(list) THEN Invalid ELSE list

AnimsFromRom(source) ==
  LET frames == AssembleBlocks(File(source, "frames"), AssembleFrameLine)
      subanims == AssembleBlocks(File(source, "subanims"), AssembleSubanimLine)
      anims == AssembleBlocks(File(source, "anims"), AssembleAnimLine)
  IN Checked([frameBlocks |-> [i \in DOMAIN frames |-> DecodeFrameBlock(FlattenSeq(frames), Start(frames, i))],
              subanims |-> Whole([i \in DOMAIN subanims |->
                DecodeSubanim(FlattenSeq(subanims), Start(subanims, i), Len(frames))]),
              moveAnims |-> Whole([i \in DOMAIN anims |->
                DecodeMoveAnim(FlattenSeq(anims), Start(anims, i), Len(subanims))])])

\* A block of frames or subanimations begins with its only head; an animation ends, once and last.
\* Other files assemble too, but their ROM is read on into the next block, or not as far as the file.
AnimsAssemble(source) ==
  /\ \A file \in {"frames", "subanims"} : \A block \in ToSet(File(source, file)) :
       Declared(block) /\ (\A i \in 2..Len(block) : block[i].k \notin {"count", "subanim"})
  /\ \A block \in ToSet(File(source, "anims")) :
       block # <<>> /\ \A i \in DOMAIN block : block[i].k = "end" <=> i = Len(block)

\* What only the lines show: how many there are below a head, and a delay its six bits cannot hold.
LinesFit(source) ==
  /\ \A block \in ToSet(File(source, "frames")) : Len(block) - 1 >= block[1].count
  /\ \A block \in ToSet(File(source, "subanims")) : Len(block) - 1 = block[1].count
  /\ \A l \in LinesOf(File(source, "anims")) : l.k = "play" => l.delay < 64

\* What only the bytes show: a sound that is no move's, but the number of an animation.
SoundsFit(source) ==
  \A l \in LinesOf(File(source, "anims")) : l.k \in {"play", "effect"} => l.sound \in {"NO_MOVE"} \cup ToSet(MoveOrder)

\* Each pipeline refuses what the other cannot see; where there is neither, they find the same.
AnimsAgreeOn(source) ==
  AnimsAssemble(source) =>
    IF ~LinesFit(source) THEN AnimsFromAsm(source) = Invalid
    ELSE IF ~SoundsFit(source) THEN AnimsFromRom(source) = Invalid
    ELSE AnimsFromRom(source) = AnimsFromAsm(source)
=============================================================================
