-------------------------------- MODULE RomMaps --------------------------------
(***************************************************************************)
(* A map of the game three times: as the bytes its asm files assemble to,  *)
(* as tools/build_rom_data.py decodes them with the names the manifest     *)
(* kept, and as tools/extract/maps.py reads them from the files.           *)
(*                                                                         *)
(* The source is the sequence of the lines of the map's header, object,    *)
(* toggle and block files.  Its three pieces of ROM (header, objects,      *)
(* blocks) are found by pointers, which are left out.                      *)
(***************************************************************************)
EXTENDS RomBytes

CONSTANTS MapWidth, MapHeight, TextNames

Direction == <<"north", "south", "west", "east">>
DirectionBit == [north |-> 3, south |-> 2, west |-> 1, east |-> 0]
MovementCode == [WALK |-> 254, STAY |-> 255]
RangeCode == [ANY_DIR |-> 0, UP_DOWN |-> 1, LEFT_RIGHT |-> 2, BOULDER_MOVEMENT_BYTE_2 |-> 16,
              DOWN |-> 208, UP |-> 209, LEFT |-> 210, RIGHT |-> 211, NONE |-> 255]

CodeName(code, v) == CHOOSE name \in DOMAIN code : code[name] = v

Plain == [kind |-> "none"]   \* an object with nothing to give and nobody to fight

-----------------------------------------------------------------------------
(* The assembler: macros/scripts/maps.asm of pokered, which is not under   *)
(* test here.                                                              *)

MapCode(map) == IF map = "LAST_MAP" THEN 255 ELSE IndexOf(MapOrder, map) - 1

\* A party may be given by the name of its number.
PartyCode(party) == party.number

AssembleConnection(c) ==
  LET encoded == Modulo256(-2 * c.offset)
      across == IF c.direction = "north" THEN 2 * MapHeight - 1
                ELSE IF c.direction = "west" THEN 2 * MapWidth - 1 ELSE 0
  IN <<MapCode(c.map), 0, 0, 0, 0, 0, 0>>
       \o (IF c.direction \in {"north", "south"} THEN <<across, encoded>> ELSE <<encoded, across>>)
       \o <<0, 0>>

AssembleWarp(w) == <<w.y, w.x, w.destWarp - 1, MapCode(w.destMap)>>

AssembleSign(s) == <<s.y, s.x, IndexOf(TextNames, s.text)>>

AssembleObject(o) ==
  LET text == IndexOf(TextNames, o.text)
  IN <<IndexOf(SpriteOrder, o.sprite), Modulo256(o.y + 4), Modulo256(o.x + 4),
       MovementCode[o.movement], RangeCode[o.range]>>
       \o CASE o.extra.kind = "none" -> <<text>>
            [] o.extra.kind = "item" -> <<128 + text, IndexOf(ItemOrder, o.extra.item)>>
            [] o.extra.kind = "trainer" -> <<64 + text, 200, PartyCode(o.extra.party)>>
            [] o.extra.kind = "pokemon" -> <<64 + text, IndexOf(SpeciesOrder, o.extra.pokemon), o.extra.level>>

Border(source) == IF Lines(source, "border") = <<>> THEN 0 ELSE Last(Lines(source, "border")).block

BlockFile(source) == [i \in DOMAIN Lines(source, "block") |-> Lines(source, "block")[i].block]

\* The macros refuse a second connection to a side, or one out of order.
MapAssembles(source) ==
  LET c == Lines(source, "connection")
  IN \A i, j \in DOMAIN c : i < j => DirectionBit[c[i].direction] > DirectionBit[c[j].direction]

AssembleMap(source) ==
  LET connections == Lines(source, "connection")
      flags == {DirectionBit[connections[i].direction] : i \in DOMAIN connections}
      Counted(k, Row(_)) == <<Len(Lines(source, k))>> \o FlattenSeq(Column(Lines(source, k), Row))
  IN [header |-> <<0, MapHeight, MapWidth, 0, 0, 0, 0, 0, 0, FoldSet(LAMBDA b, n : n + 2^b, 0, flags)>>
                   \o FlattenSeq(Column(connections, AssembleConnection)),
      objects |-> <<Border(source)>> \o Counted("warp", AssembleWarp)
                    \o Counted("sign", AssembleSign) \o Counted("object", AssembleObject),
      blocks |-> BlockFile(source)]

-----------------------------------------------------------------------------
(* tools/extract/maps.py.                                                  *)

ParseHeader(source) ==
  LET c == Lines(source, "connection")
  IN [d \in {c[i].direction : i \in DOMAIN c} |->
       LET last == CHOOSE i \in DOMAIN c : c[i].direction = d /\ \A j \in DOMAIN c : c[j].direction = d => j <= i
       IN [map |-> c[last].map, offset |-> c[last].offset]]

ParseWarps(source) ==
  Column(Lines(source, "warp"), LAMBDA w : [x |-> w.x, y |-> w.y, destMap |-> w.destMap, destWarp |-> w.destWarp])

ParseSigns(source) == Column(Lines(source, "sign"), LAMBDA s : [x |-> s.x, y |-> s.y, text |-> s.text])

\* The names exported in the file go to the objects in their order.
ObjectName(source, i) ==
  LET names == Lines(source, "name") IN IF i \in DOMAIN names THEN names[i].name ELSE "none"

\* toggleable_objects.asm has one last word on each name.
Hidden(source, name) ==
  LET toggles == SelectSeq(source, LAMBDA l : l.k = "toggle" /\ l.name = name)
  IN toggles # <<>> /\ Last(toggles).state = "OFF"

ParseObjects(source) ==
  LET lines == Lines(source, "object")
  IN [i \in DOMAIN lines |->
       [index |-> i, x |-> lines[i].x, y |-> lines[i].y, sprite |-> lines[i].sprite,
        movement |-> lines[i].movement, range |-> lines[i].range, text |-> lines[i].text,
        extra |-> lines[i].extra, name |-> ObjectName(source, i), hidden |-> Hidden(source, ObjectName(source, i))]]

\* A file that is too short is padded, one that is too long stops the extraction.
ReadBlk(source) ==
  LET raw == BlockFile(source)
  IN raw \o [i \in 1..(MapWidth * MapHeight - Len(raw)) |-> Border(source)]

MapFromAsm(source) ==
  IF Len(BlockFile(source)) > MapWidth * MapHeight THEN Invalid
  ELSE [tileset |-> TilesetOrder[1], width |-> MapWidth, height |-> MapHeight,
        blocks |-> ReadBlk(source), borderBlock |-> Border(source), connections |-> ParseHeader(source),
        warps |-> ParseWarps(source), signs |-> ParseSigns(source), objects |-> ParseObjects(source)]

\* make_rom_manifest.py: what assembly erases.
MapMetadata(source) ==
  [blockLength |-> Len(BlockFile(source)),
   signTexts |-> Column(ParseSigns(source), LAMBDA s : s.text),
   objects |-> Column(ParseObjects(source), LAMBDA o :
                 [text |-> o.text, extra |-> o.extra, name |-> o.name, hidden |-> o.hidden])]

-----------------------------------------------------------------------------
(* tools/build_rom_data.py.                                                *)

MapId(v) == CASE v = 255 -> "LAST_MAP"
              [] v < Len(MapOrder) -> MapOrder[v + 1]
              [] OTHER -> Invalid

\* One side after the other; a side that is not flagged takes no bytes.
DecodeConnections(header) ==
  LET Side(cursor, d) ==
        LET encoded == SignedByte(header[cursor.at + (IF d \in {"north", "south"} THEN 8 ELSE 7)])
        IN IF ~Bit(header[10], DirectionBit[d]) THEN cursor
           ELSE [at |-> cursor.at + 11,
                 ok |-> cursor.ok /\ encoded % 2 = 0 /\ MapId(header[cursor.at]) # Invalid,
                 found |-> (d :> [map |-> MapId(header[cursor.at]), offset |-> (-encoded) \div 2]) @@ cursor.found]
      end == FoldLeft(Side, [at |-> 11, ok |-> header[10] < 16, found |-> <<>>], Direction)
  IN IF end.ok THEN end.found ELSE Invalid

DecodeWarp(row) == [x |-> row[2], y |-> row[1], destMap |-> MapId(row[4]), destWarp |-> row[3] + 1]

\* What the text byte says of the object, which the manifest has to confirm.
Payload(text) == IF Bit(text, 7) THEN "item" ELSE IF Bit(text, 6) THEN "foe" ELSE "none"

PayloadLength == [item |-> 1, foe |-> 2, none |-> 0]

DecodeExtra(rom, at, extra) ==
  CASE extra.kind = "trainer" ->
         [extra EXCEPT !.party = IF @.named THEN @ ELSE [named |-> FALSE, number |-> rom[at + 1]]]
    [] extra.kind = "pokemon" -> [extra EXCEPT !.level = rom[at + 1]]
    [] OTHER -> extra

DecodeObject(rom, cursor, spec) ==
  LET row == Bytes(rom, cursor.at, 6)
      payload == Payload(row[6])
      known == /\ row[1] \in DOMAIN SpriteOrder
               /\ \E m \in DOMAIN MovementCode : MovementCode[m] = row[4]
               /\ \E r \in DOMAIN RangeCode : RangeCode[r] = row[5]
               /\ spec.extra.kind \in [item |-> {"item"}, foe |-> {"trainer", "pokemon"}, none |-> {"none"}][payload]
  IN IF ~cursor.ok \/ ~known THEN [cursor EXCEPT !.ok = FALSE]
     ELSE [at |-> cursor.at + 6 + PayloadLength[payload], ok |-> TRUE,
           found |-> Append(cursor.found,
             [index |-> Len(cursor.found) + 1, x |-> row[3] - 4, y |-> row[2] - 4,
              sprite |-> SpriteOrder[row[1]], movement |-> CodeName(MovementCode, row[4]),
              range |-> CodeName(RangeCode, row[5]), text |-> spec.text,
              extra |-> DecodeExtra(rom, cursor.at + 6, spec.extra),
              name |-> spec.name, hidden |-> spec.hidden])]

MapFromRom(rom, spec) ==
  LET o == rom.objects
      Rows(at, length) == [i \in 1..o[at] |-> Bytes(o, at + 1 + (i - 1) * length, length)]
      signsAt == 3 + 4 * o[2]
      objectsAt == signsAt + 1 + 3 * o[signsAt]
      signs == Rows(signsAt, 3)
      objects == FoldLeft(LAMBDA cursor, s : DecodeObject(o, cursor, s),
                          [at |-> objectsAt + 1, ok |-> TRUE, found |-> <<>>], spec.objects)
      connections == DecodeConnections(rom.header)
      blocks == Bytes(rom.blocks, 1, spec.blockLength)
      matches == /\ <<rom.header[3], rom.header[2]>> = <<MapWidth, MapHeight>>
                 /\ rom.header[1] < Len(TilesetOrder)
                 /\ connections # Invalid
                 /\ \A i \in DOMAIN Rows(2, 4) : DecodeWarp(Rows(2, 4)[i]).destMap # Invalid
                 /\ o[signsAt] = Len(spec.signTexts)
                 /\ o[objectsAt] = Len(spec.objects)
  IN IF ~matches \/ ~objects.ok \/ spec.blockLength > MapWidth * MapHeight THEN Invalid
     ELSE [tileset |-> TilesetOrder[rom.header[1] + 1], width |-> MapWidth, height |-> MapHeight,
           blocks |-> blocks \o [i \in 1..(MapWidth * MapHeight - spec.blockLength) |-> o[1]],
           borderBlock |-> o[1], connections |-> connections,
           warps |-> Column(Rows(2, 4), DecodeWarp),
           signs |-> [i \in DOMAIN signs |-> [x |-> signs[i][2], y |-> signs[i][1], text |-> spec.signTexts[i]]],
           objects |-> objects.found]

MapsAgreeOn(source) ==
  MapAssembles(source) => MapFromRom(AssembleMap(source), MapMetadata(source)) = MapFromAsm(source)
=============================================================================
