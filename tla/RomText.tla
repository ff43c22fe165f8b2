-------------------------------- MODULE RomText --------------------------------
(***************************************************************************)
(* Dialogue: a stream of text commands under each label.  The ROM decoder  *)
(* (tools/build_rom_data.py) runs the commands, and takes what a command   *)
(* would print at run time from the manifest; tools/extract/text.py reads  *)
(* the macros.  A text is the sequence of what its pieces show.            *)
(***************************************************************************)
EXTENDS RomBytes

\* The lines of constants/charmap.asm, with what text.EXPANSIONS makes of each.
CONSTANT Charmap   \* a sequence of [spelling, byte, shown]

Separator == [text |-> <<>>, next |-> <<"\n">>, line |-> <<"\n">>, cont |-> <<"{scroll}">>, para |-> <<"{page}">>, page |-> <<"{page}">>]
SeparatorByte == [text |-> 0, next |-> 78, line |-> 79, cont |-> 85, para |-> 81, page |-> 73]
Command == [text_ram |-> 1, text_bcd |-> 2, text_decimal |-> 9]
EndByte == [done |-> <<87>>, prompt |-> <<88>>, dex |-> <<95, 80>>, text_end |-> <<80>>]

\* Commands of the game that the ROM decoder does not run, with what the source reader makes of
\* each: two of them end a text, two show nothing.
OtherCommand == [text_low |-> <<5>>, text_promptbutton |-> <<6>>, text_asm |-> <<8>>, text_pause |-> <<10>>,
                 text_dots |-> <<12, 3>>, text_waitbutton |-> <<13>>, text_far |-> <<23, 0, 64, 1>>]
Token == [text_ram |-> "RAM", text_bcd |-> "NUM", text_decimal |-> "NUM", text_dots |-> "DOTS",
          text_asm |-> "ASM", text_far |-> "FAR"]
EndMacros == DOMAIN EndByte \cup {"text_promptbutton", "text_waitbutton"}

Glyph(spelling) == CHOOSE g \in ToSet(Charmap) : g.spelling = spelling

-----------------------------------------------------------------------------
(* The assembler: macros/scripts/text.asm.                                 *)

\* An address of two bytes, and for numbers one more on how to print them.
AssembleText(l) ==
  CASE l.k \in DOMAIN Separator -> <<SeparatorByte[l.k]>> \o Column(l.glyphs, LAMBDA g : Glyph(g).byte)
    [] l.k = "text_start" -> <<0>>
    [] l.k \in DOMAIN Command -> <<Command[l.k], 0, 192>> \o (IF l.k = "text_ram" THEN <<>> ELSE <<195>>)
    [] l.k \in DOMAIN EndByte -> EndByte[l.k]
    [] l.k \in DOMAIN OtherCommand -> OtherCommand[l.k]

\* Where a stream stands after a line: between commands, in a string, over, or broken, when the
\* game itself would print a command as a glyph; "unknown" once it met a command that the ROM
\* decoder does not know, or one that prints after the end.
After(state, l) ==
  LET closed == l.glyphs # <<>> /\ Last(l.glyphs) = "@"
      opened == IF closed THEN "command" ELSE "string"
  IN CASE l.k = "text" /\ state = "command" -> opened
       [] l.k \in DOMAIN Separator \ {"text"} /\ state = "string" -> opened
       [] l.k = "text_start" /\ state = "command" -> "string"
       [] l.k \in DOMAIN Command /\ state = "command" -> "command"
       [] l.k = "text_end" /\ state = "command" -> "over"
       [] l.k \in {"done", "prompt", "dex"} /\ state = "string" -> "over"
       [] state = "command" \/ (state = "over" /\ l.k \in DOMAIN Command) -> "unknown"
       [] state \in {"over", "unknown"} -> state
       [] OTHER -> "broken"

StreamEnd(block) == FoldLeft(After, "command", block)

StringEnds == {80, 87, 88, 95}

\* A stream does not run on into the next text; only "@", and only at its end, closes a string.
Streams(block) ==
  /\ StreamEnd(block) \in {"over", "unknown"}
  /\ \A i \in DOMAIN block : \A j \in DOMAIN block[i].glyphs :
       Glyph(block[i].glyphs[j]).byte \in StringEnds => block[i].glyphs[j] = "@" /\ j = Len(block[i].glyphs)

-----------------------------------------------------------------------------
(* tools/extract/text.py.                                                  *)

DecodeString(glyphs) ==
  Column(SelectSeq(glyphs, LAMBDA g : Glyph(g).shown # ""), LAMBDA g : Glyph(g).shown)

\* Each text until a macro that ends it; a label without its underscore is no label here.
ParseTextFile(source) ==
  FoldLeft(LAMBDA parsed, l :
             IF l.k = "label" /\ l.far
             THEN [label |-> l.name, texts |-> (l.name :> <<>>) @@ parsed.texts]
             ELSE IF parsed.label = "none" \/ l.k = "label" THEN parsed
             ELSE CASE l.k \in DOMAIN Separator ->
                         [parsed EXCEPT !.texts[parsed.label] = @ \o Separator[l.k] \o DecodeString(l.glyphs)]
                    [] l.k \in DOMAIN Token -> [parsed EXCEPT !.texts[parsed.label] = Append(@, Token[l.k] \o l.arg)]
                    [] l.k \in EndMacros -> [parsed EXCEPT !.label = "none"]
                    [] OTHER -> parsed,
           [label |-> "none", texts |-> <<>>], source).texts

-----------------------------------------------------------------------------
(* tools/make_rom_manifest.py: every label, and what its commands print.   *)

TextLabels(source) == Column(Lines(source, "label"), LAMBDA l : l.name)

DynamicText(block) ==
  Column(SelectSeq(block, LAMBDA l : l.k \in DOMAIN Command), LAMBDA l : <<Command[l.k], Token[l.k] \o l.arg>>)

\* The first spelling of a byte is what it decodes to.
CharmapOf(byte) ==
  LET first == CHOOSE i \in DOMAIN Charmap : Charmap[i].byte = byte /\ \A j \in 1..i - 1 : Charmap[j].byte # byte
  IN Charmap[first].shown

-----------------------------------------------------------------------------
(* tools/build_rom_data.py.                                                *)

TextGlyph(byte) ==
  CASE byte = 75 -> "{_CONT}"
    [] byte = 76 -> "{SCROLL}"
    [] byte = 240 -> "YEN"
    [] byte = 109 -> "{COLON}"
    [] OTHER -> CharmapOf(byte)

EndsText(byte) == byte # 80

\* The string at a position, and where the stream goes on; nowhere once the text is over.
ReadGlyphs(rom, at) ==
  LET stop == CHOOSE i \in at..Len(rom) : rom[i] \in StringEnds /\ \A j \in at..i - 1 : rom[j] \notin StringEnds
      shown == Column(SubSeq(rom, at, stop - 1), TextGlyph)
  IN [out |-> SelectSeq(shown, LAMBDA g : g # ""), at |-> stop + 1, over |-> EndsText(rom[stop])]

DecodeTextCommands(rom, at, substitutions) ==
  LET Step(c) ==
        LET command == rom[c.at]
            string == ReadGlyphs(rom, c.at + 1)
        IN CASE command = 80 -> [c EXCEPT !.done = TRUE]
             [] command = 0 ->
                  [c EXCEPT !.out = @ \o string.out, !.at = string.at, !.done = string.over]
             [] command \in {1, 2, 9} ->
                  IF c.pending = <<>> \/ c.pending[1][1] # command THEN [c EXCEPT !.out = Invalid, !.done = TRUE]
                  ELSE [c EXCEPT !.out = Append(@, c.pending[1][2]), !.pending = Tail(@),
                                 !.at = @ + 1 + (IF command = 1 THEN 2 ELSE 3)]
             [] OTHER -> [c EXCEPT !.out = Invalid, !.done = TRUE]
      end == Scan([at |-> at, done |-> FALSE, out |-> <<>>, pending |-> substitutions], Step, Len(rom))
  IN IF end.pending # <<>> THEN Invalid ELSE end.out

TextsFromRom(source) ==
  LET blocks == Blocks(source)
      streams == Column(blocks, LAMBDA block : FlattenSeq(Column(block, AssembleText)))
      labels == TextLabels(source)
  IN [name \in ToSet(labels) |->
       DecodeTextCommands(FlattenSeq(streams), Start(streams, IndexOf(labels, name)),
                          DynamicText(blocks[IndexOf(labels, name)]))]

TextsAssemble(source) ==
  /\ source # <<>> => source[1].k = "label"
  /\ IsInjective(TextLabels(source))
  /\ \A block \in ToSet(Blocks(source)) : Streams(block)

\* The ROM decoder refuses a text with a command it does not know, which the source reader takes;
\* every other text that both pipelines name is the same.
TextsAgreeOn(source) ==
  TextsAssemble(source) => \A b \in DOMAIN Blocks(source) :
    LET name == TextLabels(source)[b]
    IN IF StreamEnd(Blocks(source)[b]) = "unknown" THEN TextsFromRom(source)[name] = Invalid
       ELSE name \in DOMAIN ParseTextFile(source) => ParseTextFile(source)[name] = TextsFromRom(source)[name]
=============================================================================
