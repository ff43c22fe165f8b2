------------------------------ MODULE RomSpecies ------------------------------
(***************************************************************************)
(* Species and trainers: base stats, evolutions and learnsets, parties.    *)
(* What varies in length ends with a 0 byte; tools/build_rom_data.py       *)
(* counts on that, tools/extract/pokemon.py and trainers.py on the lines.  *)
(***************************************************************************)
EXTENDS RomBytes

CONSTANTS DexOrder, Machines   \* the Pokédex, and the TMs and HMs, in their order

AssembleEach(lines, Row(_)) == FlattenSeq(Column(lines, Row))

-----------------------------------------------------------------------------
(* Evolutions, then what a species learns; each list ends with db 0.       *)

Methods == <<"LEVEL", "ITEM", "TRADE">>

AssembleEvosLine(l) ==
  CASE l.k = "evolve" -> <<IndexOf(Methods, l.method)>>
                           \o (IF l.method = "ITEM" THEN <<IndexOf(ItemOrder, l.item)>> ELSE <<>>)
                           \o <<l.level, IndexOf(SpeciesOrder, l.species)>>
    [] l.k = "learn" -> <<l.level, IndexOf(MoveOrder, l.move)>>
    [] l.k = "zero" -> <<0>>

Evolution(method, item, level, species) ==
  [method |-> method, item |-> item, level |-> level, species |-> species]

DecodeEvolutions(rom, at) ==
  LET Step(c) ==
        LET method == rom[c.at]
            past == IF method = 2 THEN 4 ELSE 3
        IN IF method = 0 THEN [c EXCEPT !.at = @ + 1, !.done = TRUE]
           ELSE IF method \notin DOMAIN Methods THEN [c EXCEPT !.found = Invalid, !.done = TRUE]
           ELSE [c EXCEPT !.at = @ + past,
                  !.found = Append(@, Evolution(Methods[method],
                              IF method = 2 THEN NameOf(ItemOrder, rom[c.at + 1]) ELSE "none",
                              rom[c.at + past - 2], NameOf(SpeciesOrder, rom[c.at + past - 1])))]
  IN Scan([at |-> at, done |-> FALSE, found |-> <<>>], Step, Len(rom))

DecodeLearnset(rom, at) ==
  LET Step(c) ==
        IF rom[c.at] = 0 THEN [c EXCEPT !.done = TRUE]
        ELSE [c EXCEPT !.at = @ + 2,
               !.found = Append(@, [level |-> rom[c.at], move |-> NameOf(MoveOrder, rom[c.at + 1])])]
  IN Scan([at |-> at, done |-> FALSE, found |-> <<>>], Step, Len(rom)).found

EvosMovesFromRom(source) ==
  LET bodies == [i \in DOMAIN Blocks(source) |-> AssembleEach(Blocks(source)[i], AssembleEvosLine)]
  IN [i \in DOMAIN bodies |->
       LET evolutions == DecodeEvolutions(FlattenSeq(bodies), Start(bodies, i))
       IN IF evolutions.found = Invalid THEN Invalid
          ELSE [evolutions |-> evolutions.found, learnset |-> DecodeLearnset(FlattenSeq(bodies), evolutions.at)]]

ParseEvosMoves(block) ==
  FoldLeft(LAMBDA parsed, l :
             IF l.k = "zero" THEN [parsed EXCEPT !.section = @ + 1]
             ELSE IF parsed.section = 0
             THEN [parsed EXCEPT !.evolutions = Append(@, Evolution(l.method, l.item, l.level, l.species))]
             ELSE [parsed EXCEPT !.learnset = Append(@, [level |-> l.level, move |-> l.move])],
           [section |-> 0, evolutions |-> <<>>, learnset |-> <<>>], block)

EvosMovesFromAsm(source) ==
  Column(Blocks(source), LAMBDA block : LET parsed == ParseEvosMoves(block)
    IN [evolutions |-> parsed.evolutions, learnset |-> parsed.learnset])

\* Under each label evolutions, a 0, what is learnt, a 0.
EvosMovesAgreeOn(source) ==
  (\A b \in DOMAIN Blocks(source) : LET block == Blocks(source)[b] IN
     \E end \in DOMAIN block :
       /\ \A i \in DOMAIN block : block[i].k = "zero" <=> i \in {end, Len(block)}
       /\ end < Len(block)
       /\ \A i \in DOMAIN block : block[i].k = "evolve" => i < end
       /\ \A i \in DOMAIN block : block[i].k = "learn" => i > end)
  => EvosMovesFromRom(source) = EvosMovesFromAsm(source)

-----------------------------------------------------------------------------
(* Trainers' parties: one level for all, or after 0xFF one for each.       *)

AssembleParty(l) ==
  (IF l.mixed THEN <<255>> \o FlattenSeq(Column(l.members, LAMBDA m : <<m.level, IndexOf(SpeciesOrder, m.species)>>))
   ELSE <<l.members[1].level>> \o Column(l.members, LAMBDA m : IndexOf(SpeciesOrder, m.species))) \o <<0>>

Member(level, id) == [level |-> level, species |-> NameOf(SpeciesOrder, id)]

Mixed(first) == first = 255

DecodeParty(rom, at) ==
  LET mixed == Mixed(rom[at])
      Step(c) ==
        IF rom[c.at] = 0 THEN [c EXCEPT !.at = @ + 1, !.done = TRUE]
        ELSE IF mixed
        THEN [c EXCEPT !.at = @ + 2, !.found = Append(@, Member(rom[c.at], rom[c.at + 1]))]
        ELSE [c EXCEPT !.at = @ + 1, !.found = Append(@, Member(rom[at], rom[c.at]))]
  IN Scan([at |-> at + 1, done |-> FALSE, found |-> <<>>], Step, Len(rom))

\* A class has the parties from its pointer to the next one's.
TrainerParties(rom, start, end) ==
  LET Step(c) ==
        IF c.at >= end THEN [c EXCEPT !.done = TRUE]
        ELSE LET party == DecodeParty(rom, c.at)
             IN [c EXCEPT !.at = party.at, !.found = Append(@, party.found)]
      all == Scan([at |-> start, done |-> FALSE, found |-> <<>>], Step, Len(rom) + 1)
  IN IF all.at = end THEN all.found ELSE Invalid

TrainersFromRom(source) ==
  LET data == [i \in DOMAIN Blocks(source) |-> AssembleEach(Blocks(source)[i], AssembleParty)]
  IN [i \in DOMAIN data |-> TrainerParties(FlattenSeq(data), Start(data, i), Start(data, i + 1))]

TrainersFromAsm(source) == Column(Blocks(source), LAMBDA block : Column(block, LAMBDA l : l.members))

\* No class is named before the first label, and one level is one level.
TrainersAgreeOn(source) ==
  (source # <<>> => source[1].k = "label") => TrainersFromRom(source) = TrainersFromAsm(source)

-----------------------------------------------------------------------------
(* Base stats: 28 bytes a species in the Pokédex' order, Mew's elsewhere.  *)

NoMove == "NO_MOVE"

MoveId(move) == IF move = NoMove THEN 0 ELSE IndexOf(MoveOrder, move)

AssembleStats(l) ==
  <<IndexOf(DexOrder, l.species)>> \o l.stats
    \o Column(l.types, LAMBDA t : IndexOf(TypeOrder, t)) \o <<l.catchRate, l.baseExp, 17 * l.size, 0, 0, 0, 0>>
    \o Column(l.moves, MoveId) \o <<l.growth>>
    \o <<FoldSet(LAMBDA m, n : n + 2^(IndexOf(Machines, m) - 1), 0, ToSet(l.machines))>>

StatsLength == 21   \* with up to eight machines; 28 with all of them

Distinct(pair) == IF pair[1] = pair[2] THEN <<pair[1]>> ELSE pair

StartMoves(ids) == SelectSeq(ids, LAMBDA v : v # 0)

StatsOf(species, row, size) ==
  IF row[1] # IndexOf(DexOrder, species) \/ row[11] \div 16 # size THEN Invalid
  ELSE [dex |-> row[1], stats |-> SubSeq(row, 2, 6), types |-> Distinct(Column(SubSeq(row, 7, 8), LAMBDA v : TypeOrder[v])),
        catchRate |-> row[9], baseExp |-> row[10], growth |-> row[20], size |-> size,
        moves |-> Column(StartMoves(SubSeq(row, 16, 19)), LAMBDA v : NameOf(MoveOrder, v)),
        machines |-> SelectSeq(Machines, LAMBDA m : Bit(row[21], IndexOf(Machines, m) - 1))]

StatsLine(source, species) ==
  LET lines == Lines(source, "stats") IN lines[CHOOSE i \in DOMAIN lines : lines[i].species = species]

\* Glitch slots have a species number, and neither a dex number nor stats.
RealSpecies == ToSet(SpeciesOrder) \cap ToSet(DexOrder)

StatsFromRom(source) ==
  LET dex == SelectSeq(DexOrder, LAMBDA s : s # "MEW")
      table == AssembleEach(dex, LAMBDA s : AssembleStats(StatsLine(source, s)))
      Row(species) == IF species = "MEW" THEN AssembleStats(StatsLine(source, species))
                      ELSE Bytes(table, 1 + StatsLength * (IndexOf(DexOrder, species) - 1), StatsLength)
  IN [s \in RealSpecies |-> StatsOf(s, Row(s), StatsLine(source, s).size)]

StatsFromAsm(source) ==
  [s \in RealSpecies |-> LET l == StatsLine(source, s) IN
    [dex |-> IndexOf(DexOrder, s), stats |-> l.stats, types |-> Distinct(l.types), catchRate |-> l.catchRate,
     baseExp |-> l.baseExp, growth |-> l.growth, size |-> l.size,
     moves |-> SelectSeq(l.moves, LAMBDA m : m # NoMove), machines |-> l.machines]]

\* A file a species; the machines in their order; Mew is last of the Pokédex.
StatsAgreeOn(source) ==
  (/\ {l.species : l \in ToSet(Lines(source, "stats"))} = RealSpecies
   /\ \A l \in ToSet(source) : l.machines = SelectSeq(Machines, LAMBDA m : m \in ToSet(l.machines)))
  => StatsFromRom(source) = StatsFromAsm(source)
=============================================================================
