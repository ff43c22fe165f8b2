------------------------------ MODULE RomCharts ------------------------------
(***************************************************************************)
(* The type chart and its names, the palettes, and the entries of the      *)
(* Pokédex, in the source and in the ROM.                                  *)
(***************************************************************************)
EXTENDS RomText

CONSTANTS PaletteOrder, DexSpecies   \* the names of the palettes, and the species of the Pokédex

\* read_string: what stands up to the "@", and where it is over; refused beyond the limit.
ReadString(rom, at, limit) ==
  LET end == EndOf(rom, at, 80)
  IN IF end = 0 \/ end >= at + limit THEN Invalid
     ELSE [text |-> Column(SubSeq(rom, at, end - 1), CharmapOf), at |-> end + 1]

\* A string the assembler stores, with its "@".
StringBytes(glyphs) == Append(Column(glyphs, LAMBDA g : Glyph(g).byte), 80)

-----------------------------------------------------------------------------
(* data/types/type_matchups.asm, and names.asm: labels, and the strings    *)
(* below them.                                                             *)

Effectiveness == [SUPER_EFFECTIVE |-> 20, NOT_VERY_EFFECTIVE |-> 5, NO_EFFECT |-> 0]

Matchup(attacker, defender, multiplier) ==
  [attacker |-> attacker, defender |-> defender, multiplier |-> multiplier]

SourceTypes(source) ==
  [matchups |-> Column(Lines(source, "match"), LAMBDA l : Matchup(l.attacker, l.defender, Effectiveness[l.effect])),
   names |-> Column(Lines(source, "name"), LAMBDA l : l.glyphs)]

AssembleMatchups(source) ==
  FlattenSeq(Column(Lines(source, "match"),
                    LAMBDA l : <<IndexOf(TypeOrder, l.attacker) - 1, IndexOf(TypeOrder, l.defender) - 1, Effectiveness[l.effect]>>))
    \o <<255>>

AssembleNames(source) == Column(Lines(source, "name"), LAMBDA l : StringBytes(l.glyphs))

\* typeNameLabels: where each label stands, in the order of the addresses.
TypeNameLabels(source) ==
  LET labels == {i \in DOMAIN source : source[i].k = "typelabel"}
      Below(i) == 1 + Cardinality({j \in 1..i : source[j].k = "name"})
  IN Column(SetToSortSeq(labels, <), LAMBDA i : Start(AssembleNames(source), Below(i)))

Once(labels) == SelectSeq([i \in DOMAIN labels |-> i], LAMBDA i : \A j \in 1..i - 1 : labels[j] # labels[i])

\* extract_type_chart: rows of three up to a 255, and the string of each address once.
ExtractTypes(effects, names, labels) ==
  LET end == EndOf(effects, 1, 255)
      Type(id) == NameOf(TypeOrder, id + 1)
  IN [matchups |-> [i \in 1..((end - 1) \div 3) |->
                      Matchup(Type(effects[3 * i - 2]), Type(effects[3 * i - 1]), effects[3 * i])],
      names |-> Column(Once(labels), LAMBDA i : LET s == ReadString(names, labels[i], 16) IN IF s = Invalid THEN s ELSE s.text)]

\* A string has a label above it, and every label a string below.
TypesAssemble(source) ==
  LET lines == SelectSeq(source, LAMBDA l : l.k \in {"typelabel", "name"})
  IN \A i \in DOMAIN lines :
       IF lines[i].k = "name" THEN i > 1 /\ lines[i - 1].k = "typelabel" ELSE i < Len(lines)

ChartAgreesOn(source) ==
  TypesAssemble(source) =>
    ExtractTypes(AssembleMatchups(source), FlattenSeq(AssembleNames(source)), TypeNameLabels(source)) = SourceTypes(source)

-----------------------------------------------------------------------------
(* data/sgb/sgb_palettes.asm, where IF DEF(_BLUE) hides lines from the Red *)
(* build, and data/pokemon/palettes.asm, a row per species after the first.*)

Scale5(v) == (510 * v + 31) \div 62

\* The lines before i that open or close a condition.
Conditions(source, i) == SelectSeq(SubSeq(source, 1, i - 1), LAMBDA l : l.k \in {"if", "endc"})

\* palettes.py: the last condition decides, and any ENDC ends it.
InBlue(source, i) ==
  LET before == Conditions(source, i) IN before # <<>> /\ Last(before).k = "if" /\ Last(before).version = "BLUE"

Rgb8(color) == Column(color, Scale5)

PaletteRows(source) ==
  SelectSeq([i \in DOMAIN source |-> i], LAMBDA i : source[i].k = "rgb" /\ ~InBlue(source, i))

SourcePalettes(source) ==
  LET rows == PaletteRows(source)
      Named(name) == {i \in ToSet(rows) : source[i].name = name}
      names == {source[i].name : i \in ToSet(rows)}
      mons == Lines(source, "mon")
  IN [palettes |-> [n \in names |-> Column(source[CHOOSE i \in Named(n) : \A j \in Named(n) : j <= i].colors, Rgb8)],
      pokemon |-> [s \in {mons[i].species : i \in DOMAIN mons} \ {"MISSINGNO"} |->
                     mons[CHOOSE i \in DOMAIN mons : mons[i].species = s].pal]]

\* rgbasm: a condition that does not hold for Red hides what stands in it.
ColorWord(color) == LowHigh(color[1] + 32 * color[2] + 1024 * color[3])

AssemblePalettes(source) ==
  LET Step(c, l) ==
        CASE l.k = "if" -> [c EXCEPT !.hidden = l.version # "RED"]
          [] l.k = "endc" -> [c EXCEPT !.hidden = FALSE]
          [] l.k = "rgb" /\ ~c.hidden -> [c EXCEPT !.rom = @ \o FlattenSeq(Column(l.colors, ColorWord))]
          [] OTHER -> c
  IN FoldLeft(Step, [hidden |-> FALSE, rom |-> <<>>], source).rom

AssembleMonPalettes(source) == Column(Lines(source, "mon"), LAMBDA l : IndexOf(PaletteOrder, l.pal) - 1)

ExtractPalettes(rom, monRom) ==
  LET Color(value) == <<Scale5(value % 32), Scale5((value \div 32) % 32), Scale5((value \div 1024) % 32)>>
  IN [palettes |-> [n \in ToSet(PaletteOrder) |->
        [c \in 1..4 |-> Color(Word(rom, 8 * (IndexOf(PaletteOrder, n) - 1) + 2 * c - 1))]],
      pokemon |-> [s \in ToSet(DexSpecies) |-> PaletteOrder[1 + monRom[1 + IndexOf(DexSpecies, s)]]]]

\* Conditions do not nest, Red has each palette at its place, and each species its row.
PalettesAssemble(source) ==
  LET conditions == Conditions(source, Len(source) + 1)
      red == SelectSeq(source, LAMBDA l : l.k = "rgb" /\ l.version # "BLUE")
  IN /\ \A i \in DOMAIN conditions : conditions[i].k = (IF i % 2 = 1 THEN "if" ELSE "endc")
     /\ Len(conditions) % 2 = 0
     /\ \A i \in DOMAIN source : source[i].k = "rgb" =>
          LET before == Conditions(source, i)
          IN source[i].version = (IF before = <<>> THEN "ANY" ELSE IF Last(before).k = "if" THEN Last(before).version ELSE "ANY")
     /\ Column(red, LAMBDA l : l.name) = PaletteOrder
     /\ Column(Lines(source, "mon"), LAMBDA l : l.species) = <<"MISSINGNO">> \o DexSpecies

PalettesAgreeOn(source) ==
  PalettesAssemble(source) =>
    ExtractPalettes(AssemblePalettes(source), AssembleMonPalettes(source)) = SourcePalettes(source)

-----------------------------------------------------------------------------
(* data/pokemon/dex_entries.asm: pointers in the order of the species, and *)
(* the entries; an entry that is no species of the Pokédex has no text_far.*)

DexEntry(kind, height, weight, text) ==
  [kind |-> kind, heightFt |-> height[1], heightIn |-> height[2], weight |-> weight, text |-> text]

\* pokemon.py: the pointers until the first entry, and the last entry of each label.
ParseDexEntries(source) ==
  LET entries == Lines(source, "entry")
      pointers == SelectSeq([i \in DOMAIN source |-> i],
                            LAMBDA i : source[i].k = "pointer" /\ \A j \in 1..i : source[j].k # "entry")
      Body(label) ==
        LET named == {i \in DOMAIN entries : entries[i].label = label}
            e == entries[CHOOSE i \in named : \A j \in named : j <= i]
        IN DexEntry(e.kind, e.height, e.weight, e.text)
  IN [i \in {n \in DOMAIN pointers : n <= Len(SpeciesOrder)} |-> Body(source[pointers[i]].label)]

AssembleDexEntry(e) ==
  StringBytes(e.kind) \o e.height \o LowHigh(e.weight) \o (IF e.text = "none" THEN <<0>> ELSE <<23, 1, 64, 2>>) \o <<80>>

AssembleDex(source) ==
  LET entries == Lines(source, "entry")
      bodies == Column(entries, AssembleDexEntry)
      At(label) == 2 * Len(Lines(source, "pointer"))
                     + Start(bodies, CHOOSE i \in DOMAIN entries : entries[i].label = label)
  IN FlattenSeq(Column(Lines(source, "pointer"), LAMBDA l : LowHigh(At(l.label)))) \o FlattenSeq(bodies)

HasFarText(byte) == byte = 23

\* _dex_entry: the text is the one the manifest has for the species.
ReadDexEntry(rom, i, text) ==
  LET kind == ReadString(rom, Word(rom, 2 * i - 1), 32)
  IN IF kind = Invalid THEN Invalid
     ELSE IF ~HasFarText(rom[kind.at + 4]) THEN Invalid
     ELSE DexEntry(kind.text, Bytes(rom, kind.at, 2), Word(rom, kind.at + 2), text)

\* Every label has one entry, and every pointer, above them, one of the labels.
DexAssembles(source) ==
  LET entries == Lines(source, "entry")
  IN /\ \A i \in DOMAIN source : source[i].k = "pointer" =>
          /\ \E j \in DOMAIN entries : entries[j].label = source[i].label
          /\ \A j \in 1..i : source[j].k = "pointer"
     /\ IsInjective(Column(entries, LAMBDA l : l.label))
     /\ Len(Lines(source, "pointer")) = Len(SpeciesOrder)

DexAgreesOn(source) ==
  DexAssembles(source) =>
    \A i \in DOMAIN SpeciesOrder : SpeciesOrder[i] \in ToSet(DexSpecies) =>
      LET known == ParseDexEntries(source)[i]
      IN ReadDexEntry(AssembleDex(source), i, known.text) = (IF known.text = "none" THEN Invalid ELSE known)
=============================================================================
