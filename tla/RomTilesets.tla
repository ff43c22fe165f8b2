------------------------------ MODULE RomTilesets ------------------------------
(***************************************************************************)
(* The tilesets: a header row each, and lists of tile ids that end with a  *)
(* terminator and may share their tails: one list falls through into the   *)
(* next, several labels name the same list.  tools/build_rom_data.py       *)
(* follows the pointers; tools/extract/tilesets.py follows the labels.     *)
(*                                                                         *)
(* Every line of the source names its file.  A list of warp tiles has the  *)
(* name of its tileset, as in pokered, and stands for its own pointer.     *)
(***************************************************************************)
EXTENDS RomBytes

Terminator == [coll |-> 255, warp |-> 255, door |-> 0]

Ascending(tiles) == SortSeq(tiles, <)

Present(tiles) == SelectSeq(tiles, LAMBDA v : v # 255)

-----------------------------------------------------------------------------
(* The assembler, with the list macros of data/tilesets.                   *)

Emitted(l) ==
  CASE l.k = "list" -> Append(l.tiles, Terminator[l.file])
    [] l.k = "db" -> l.tiles
    [] OTHER -> <<>>

AssembleFile(lines) == FlattenSeq(Column(lines, Emitted))

Label(lines, name) == CHOOSE i \in DOMAIN lines : lines[i].k = "label" /\ lines[i].name = name

IsLabelled(lines, name) == \E i \in DOMAIN lines : lines[i].k = "label" /\ lines[i].name = name

Address(lines, name) == 1 + Len(AssembleFile(SubSeq(lines, 1, Label(lines, name) - 1)))

AssembleHeader(h) == h.counters \o <<h.grass, h.animation>>

\* One header a tileset, one list a label, and the lists that are pointed to.  A list of
\* warp or door tiles with no tiles of its own is the last of its file, as pokered has it.
TilesetsAssemble(source) ==
  LET headers == Lines(source, "tileset")
      doors == Lines(source, "dbw")
  IN /\ Len(headers) = Len(TilesetOrder)
     /\ \A i, j \in DOMAIN headers : headers[i].name = headers[j].name => i = j
     /\ \A file \in DOMAIN Terminator : LET lines == InFile(source, file) IN
          /\ \A i, j \in DOMAIN lines : lines[i].k = "label" /\ lines[i] = lines[j] => i = j
          /\ \A i \in DOMAIN lines : lines[i].k \in {"label", "db"} =>
               \E j \in DOMAIN lines : j > i /\ lines[j].k = "list"
          /\ \A i \in DOMAIN lines : lines[i].k = "list" /\ lines[i].tiles = <<>> =>
               file = "coll" \/ ~\E j \in DOMAIN lines : j > i /\ lines[j].k \in {"label", "list"}
     /\ \A i \in DOMAIN headers : \A file \in {"coll", "warp"} :
          IsLabelled(InFile(source, file), headers[i].name)
     /\ \A i \in DOMAIN doors : IsLabelled(InFile(source, "door"), doors[i].name)

-----------------------------------------------------------------------------
(* tools/extract/tilesets.py.                                              *)

\* A label waits for the next list; the lists have no tails in common here.
ParseCollision(lines) ==
  FoldLeft(LAMBDA parsed, l :
             IF l.k = "label" THEN [parsed EXCEPT !.pending = @ \cup {l.name}]
             ELSE [colls |-> [name \in parsed.pending |-> l.tiles] @@ parsed.colls, pending |-> {}],
           [colls |-> <<>>, pending |-> {}], lines).colls

\* A list is open from its label until a line of the macro; bytes go to every open list.
ParseTileIdLists(lines) ==
  FoldLeft(LAMBDA parsed, l :
             IF l.k = "label"
             THEN [parsed EXCEPT !.lists = (l.name :> <<>>) @@ @, !.open = @ \cup {l.name}]
             ELSE IF l.tiles = <<>> THEN parsed
             ELSE [lists |-> [name \in DOMAIN parsed.lists |->
                                IF name \in parsed.open THEN parsed.lists[name] \o l.tiles
                                ELSE parsed.lists[name]],
                   open |-> IF l.k = "list" THEN {} ELSE parsed.open],
           [lists |-> <<>>, open |-> {}], lines).lists

\* The door table names tilesets by their constants; its last word on one counts.
ParseDoorTiles(source) ==
  LET lists == ParseTileIdLists(SelectSeq(InFile(source, "door"), LAMBDA l : l.k # "dbw"))
  IN FoldLeft(LAMBDA doors, l : (l.const :> lists[l.name]) @@ doors, <<>>, Lines(source, "dbw"))

TilesetsFromAsm(source) ==
  LET colls == ParseCollision(InFile(source, "coll"))
      warps == ParseTileIdLists(InFile(source, "warp"))
      doors == ParseDoorTiles(source)
      headers == Lines(source, "tileset")
  IN [i \in DOMAIN TilesetOrder |->
       LET h == headers[i]
           door == IF TilesetOrder[i] \in DOMAIN doors THEN doors[TilesetOrder[i]] ELSE <<>>
       IN [walkable |-> Ascending(colls[h.name]), counterTiles |-> Present(h.counters),
           grassTile |-> Present(<<h.grass>>), doorTiles |-> Ascending(door),
           warpTiles |-> ToSet(warps[h.name]), animation |-> h.animation]]

-----------------------------------------------------------------------------
(* tools/build_rom_data.py.                                                *)

\* The table of doors: an id and a pointer each, until 0xFF.
AssembleDoorTable(source) ==
  LET Row(l) == <<IndexOf(TilesetOrder, l.const) - 1>> \o LowHigh(Address(InFile(source, "door"), l.name))
  IN Append(FlattenSeq(Column(Lines(source, "dbw"), Row)), 255)

DoorRows(table) == {at \in 1..Len(table) : at % 3 = 1 /\ at < EndOf(table, 1, 255)}

CountingRow(rows) == CHOOSE at \in rows : \A other \in rows : other <= at

DoorList(source, index) ==
  LET table == AssembleDoorTable(source)
      rows == {at \in DoorRows(table) : table[at] = index}
  IN IF rows = {} THEN <<>>
     ELSE ReadTerminated(AssembleFile(InFile(source, "door")), Word(table, CountingRow(rows) + 1), 0)

TilesetsFromRom(source) ==
  LET List(file, name) ==
        ReadTerminated(AssembleFile(InFile(source, file)), Address(InFile(source, file), name), 255)
      headers == Lines(source, "tileset")
  IN [i \in DOMAIN TilesetOrder |->
       LET row == AssembleHeader(headers[i])
       IN [walkable |-> Ascending(List("coll", headers[i].name)), counterTiles |-> Present(SubSeq(row, 1, 3)),
           grassTile |-> Present(<<row[4]>>), doorTiles |-> Ascending(DoorList(source, i - 1)),
           warpTiles |-> ToSet(List("warp", headers[i].name)), animation |-> row[5]]]

TilesetsAgreeOn(source) ==
  TilesetsAssemble(source) => TilesetsFromRom(source) = TilesetsFromAsm(source)
=============================================================================
