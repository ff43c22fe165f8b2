------------------------------- MODULE RomTables -------------------------------
(***************************************************************************)
(* The tables of the game: moves, items, wild Pokémon, trainers' parties,  *)
(* species with their evolutions.  Each is assembled from its lines, and   *)
(* read back twice: from the bytes, by tools/build_rom_data.py, and from   *)
(* the lines, by the modules of tools/extract.                             *)
(*                                                                         *)
(* Names are numbers in the ROM; their spelling is left out, and so are    *)
(* the pointers to blocks that follow one another.                         *)
(***************************************************************************)
EXTENDS RomBytes

-----------------------------------------------------------------------------
(* Moves: rows of six bytes, and the animations they point to.             *)

ShakeEffects == {251}        \* SE_SHAKE_SCREEN
FlashEffects == {248, 254}   \* SE_FLASH_SCREEN_LONG, SE_DARK_SCREEN_FLASH

\* "\5 percent" in the move macro, and its way back.
Percent(p) == (p * 255) \div 100

Rounded(b) == (200 * b + 255) \div 510   \* round(b * 100 / 255): a half never happens

AssembleMove(l) == <<IndexOf(MoveOrder, l.id), l.effect, l.power, IndexOf(TypeOrder, l.type), Percent(l.accuracy), l.pp>>

\* battle_anim with four arguments, with two, and db -1.
AssembleAnimation(block) ==
  FlattenSeq(Column(block, LAMBDA l : CASE l.k = "subanim" -> <<64 * l.tileset + l.delay, l.sound, l.sub>>
                                        [] l.k = "effect" -> <<l.effect, l.sound>>
                                        [] OTHER -> <<255>>))

AnimationFlags(rom, at) ==
  LET Step(c) ==
        LET first == rom[c.at]
        IN IF first = 255 THEN [c EXCEPT !.done = TRUE]
           ELSE IF first >= 216
           THEN [c EXCEPT !.at = @ + 2, !.shake = @ \/ first = 251, !.flash = @ \/ first \in {248, 254}]
           ELSE [c EXCEPT !.at = @ + 3]
      end == Scan([at |-> at, done |-> FALSE, shake |-> FALSE, flash |-> FALSE], Step, Len(rom))
  IN IF end.done THEN [shake |-> end.shake, flash |-> end.flash] ELSE Invalid

\* Labels that stand together share the block below the last of them.
SharedBlock(blocks, i) ==
  LET full == {j \in i..Len(blocks) : blocks[j] # <<>>}
  IN blocks[CHOOSE j \in full : \A other \in full : j <= other]

AnimEffects(block) ==
  LET effects == {block[i].effect : i \in {j \in DOMAIN block : block[j].k = "effect"}}
  IN [shake |-> effects \cap ShakeEffects # {}, flash |-> effects \cap FlashEffects # {}]

MovesFromRom(source) ==
  LET rows == Column(Lines(source, "move"), AssembleMove)
      anims == [i \in DOMAIN Blocks(source) |-> AssembleAnimation(Blocks(source)[i])]
  IN IF \E i \in DOMAIN rows : rows[i][1] # i THEN Invalid
     ELSE [i \in DOMAIN rows |->
            [id |-> MoveOrder[i], effect |-> rows[i][2], power |-> rows[i][3], type |-> TypeOrder[rows[i][4]],
             accuracy |-> Rounded(rows[i][5]), pp |-> rows[i][6],
             anim |-> AnimationFlags(FlattenSeq(anims), Start(anims, i))]]

MovesFromAsm(source) ==
  LET moves == Lines(source, "move")
  IN [i \in DOMAIN moves |->
       [id |-> moves[i].id, effect |-> moves[i].effect, power |-> moves[i].power, type |-> moves[i].type,
        accuracy |-> moves[i].accuracy, pp |-> moves[i].pp, anim |-> AnimEffects(SharedBlock(Blocks(source), i))]]

\* Moves come in the order of their constants, and every block ends with db -1.
MovesAgreeOn(source) ==
  (/\ Len(Lines(source, "move")) = Len(Blocks(source))
   /\ \A i \in DOMAIN Lines(source, "move") : Lines(source, "move")[i].id = MoveOrder[i]
   /\ source # <<>> => Last(source).k = "end"
   /\ \A i \in DOMAIN Blocks(source) :
        LET block == Blocks(source)[i]
        IN \A j \in DOMAIN block : block[j].k = "end" <=> j = Len(block))
  => MovesFromRom(source) = MovesFromAsm(source)

-----------------------------------------------------------------------------
(* Items: prices in BCD, flags a bit each, the TMs' prices in nybbles.     *)

ToBcd(n) == [i \in 1..3 |-> LET pair == (n \div 100^(3 - i)) % 100 IN 16 * (pair \div 10) + (pair % 10)]

\* dbit packs the flags it is given, the first lowest.
PackBits(flags) ==
  [b \in 1..((Len(flags) + 7) \div 8) |->
     FoldSet(LAMBDA i, n : n + 2^((i - 1) % 8), 0, {i \in DOMAIN flags : (i - 1) \div 8 = b - 1 /\ flags[i]})]

HasBit(raw, i) == Bit(raw[1 + (i - 1) \div 8], (i - 1) % 8)

ItemsFromRom(source) ==
  LET items == Lines(source, "item")
      prices == FlattenSeq(Column(items, LAMBDA l : ToBcd(l.price)))
      flags == PackBits(Column(items, LAMBDA l : l.key))
      tms == Lines(source, "tm")
      packed == PackNybbles(Column(tms, LAMBDA l : l.price))
  IN [items |-> [i \in DOMAIN items |-> [price |-> Bcd(Bytes(prices, 3 * i - 2, 3)), keyItem |-> HasBit(flags, i)]],
      machines |-> [i \in DOMAIN tms |-> [move |-> tms[i].move, price |-> 1000 * Nybbles(packed, Len(tms))[i]]]]

ItemsFromAsm(source) ==
  [items |-> Column(Lines(source, "item"), LAMBDA l : [price |-> l.price, keyItem |-> l.key]),
   machines |-> Column(Lines(source, "tm"), LAMBDA l : [move |-> l.move, price |-> 1000 * l.price])]

ItemsAgreeOn(source) == ItemsFromRom(source) = ItemsFromAsm(source)

-----------------------------------------------------------------------------
(* Wild Pokémon: a rate and its slots for the grass, and again for water.  *)
(* A rate of 0 has no slots, any other has Slots (ten in the game).        *)

CONSTANT Slots

AssembleWildLine(l) ==
  CASE l.k = "def" -> <<l.rate>>
    [] l.k = "slot" -> <<l.level, IndexOf(SpeciesOrder, l.species)>>
    [] l.k = "end" -> <<>>

\* end_grass_wildmons and end_water_wildmons count the bytes since their rate.
WildAssembles(source) ==
  LET defs == {i \in DOMAIN source : source[i].k = "def"}
  IN /\ Column(Lines(source, "def"), LAMBDA l : l.kind) = <<"grass", "water">>
     /\ \A i \in DOMAIN source : source[i].k = "slot" => \E d \in defs : i \in d + 1..d + Slots /\ source[d].rate > 0
     /\ \A d \in defs : LET size == IF source[d].rate = 0 THEN 0 ELSE Slots IN
          /\ d + size + 1 \in DOMAIN source
          /\ source[d + size + 1].k = "end"
          /\ \A i \in d + 1..d + size : source[i].k = "slot"

SlotAt(rom, at) == [level |-> rom[at], species |-> NameOf(SpeciesOrder, rom[at + 1])]

WildTable(rom, at) ==
  [rate |-> rom[at],
   slots |-> IF rom[at] = 0 THEN <<>>
             ELSE [i \in 1..Slots |-> SlotAt(rom, at + 2 * i - 1)]]

\* A map's entry has the tables in which something can appear.
WildEntry(grass, water) ==
  LET table == [grass |-> grass, water |-> water]
  IN [kind \in {k \in DOMAIN table : table[k].rate > 0 \/ table[k].slots # <<>>} |-> table[kind]]

WildFromRom(source) ==
  LET rom == FlattenSeq(Column(source, AssembleWildLine))
      grass == WildTable(rom, 1)
  IN WildEntry(grass, WildTable(rom, 2 + 2 * Len(grass.slots)))

\* A slot goes to the table whose rate came last and has not ended.
WildFromAsm(source) ==
  LET empty == [rate |-> 0, slots |-> <<>>]
      Parse(parsed, l) ==
        CASE l.k = "def" -> [parsed EXCEPT ![l.kind].rate = l.rate, !.current = l.kind]
          [] l.k = "end" -> [parsed EXCEPT !.current = "none"]
          [] l.k = "slot" ->
               IF parsed.current = "none" THEN parsed
               ELSE [parsed EXCEPT ![parsed.current].slots = Append(@, [level |-> l.level, species |-> l.species])]
      end == FoldLeft(Parse, [grass |-> empty, water |-> empty, current |-> "none"], source)
  IN WildEntry(end.grass, end.water)

WildAgreeOn(source) == WildAssembles(source) => WildFromRom(source) = WildFromAsm(source)
=============================================================================
