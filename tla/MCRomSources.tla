----------------------------- MODULE MCRomSources -----------------------------
(* Two names of each kind, and the lines that have something to get wrong. *)
EXTENDS RomSources

McMaps == <<"PALLET", "ROUTE">>
McTilesets == <<"INDOORS">>
McSprites == <<"BALL", "OAK">>
McSpecies == <<"MISSINGNO", "EEVEE", "MEW">>
McDex == <<"EEVEE", "MEW">>
McItems == <<"POTION", "STONE">>
McMoves == <<"POUND", "CUT">>
McTexts == <<"T1", "T2">>
McTypes == <<"NORMAL", "FIRE">>
McMachines == <<"CUT", "FLASH", "POUND">>

Draft(t, begun, lines, room) == [table |-> t, begun |-> begun, lines |-> lines, room |-> room]

Connections == [k : {"connection"}, direction : {"north", "west", "east"}, map : {"ROUTE"}, offset : {-3, 0, 5}]

Object(movement, range, extra) ==
  [k |-> "object", sprite |-> "OAK", x |-> 0, y |-> 3, movement |-> movement, range |-> range, text |-> "T2", extra |-> extra]

Objects ==
  {Object("WALK", "UP_DOWN", Plain), Object("STAY", "LEFT", [kind |-> "item", item |-> "STONE"]),
   Object("STAY", "NONE", [kind |-> "trainer", party |-> [named |-> TRUE, number |-> 1]]),
   Object("STAY", "RIGHT", [kind |-> "trainer", party |-> [named |-> FALSE, number |-> 2]]),
   Object("STAY", "RIGHT", [kind |-> "pokemon", pokemon |-> "MEW", level |-> 70])}

MapLines ==
  Objects
    \cup [k : {"warp"}, x : {1}, y : {2}, destMap : {"LAST_MAP", "PALLET"}, destWarp : {2}]
    \cup [k : {"sign"}, x : {1}, y : {2}, text : {"T2"}]
    \cup [k : {"border", "block"}, block : {7}]

Names == [k : {"name"}, name : {"FIRST", "SECOND"}] \cup [k : {"toggle"}, name : {"FIRST"}, state : {"ON", "OFF"}]

Header == [k |-> "tileset", file |-> "headers", name |-> "House", counters |-> <<24, 255, 25>>, grass |-> 255, animation |-> 1]
LabelIn(file, name) == [k |-> "label", file |-> file, name |-> name]
ListIn(file, tiles) == [k |-> "list", file |-> file, tiles |-> tiles]
Collision == <<LabelIn("coll", "House"), ListIn("coll", <<3, 0>>)>>
Warps == <<LabelIn("warp", "House"), ListIn("warp", <<5>>)>>

CollisionLines == {LabelIn("coll", "House"), LabelIn("coll", "Gate"), ListIn("coll", <<>>), ListIn("coll", <<7, 0>>)}
WarpLines == {LabelIn("warp", "House"), LabelIn("warp", "Gate"), ListIn("warp", <<>>), ListIn("warp", <<7, 7>>),
              [k |-> "db", file |-> "warp", tiles |-> <<3>>]}
DoorLines == {LabelIn("door", "A"), LabelIn("door", "B"), ListIn("door", <<>>), ListIn("door", <<7, 2>>)}
               \cup [k : {"dbw"}, file : {"door"}, const : {"INDOORS"}, name : {"A", "B"}]

MoveRow(id, accuracy) ==
  [k |-> "move", id |-> id, effect |-> 0, power |-> 40, type |-> "FIRE", accuracy |-> accuracy, pp |-> 35]
Move == MoveRow("POUND", 85)
MoveLines ==
  {[k |-> "label"], [k |-> "end"], [k |-> "subanim", tileset |-> 2, delay |-> 6, sound |-> 255, sub |-> 251]}
    \cup [k : {"effect"}, effect : {216, 248, 251}, sound : {254}]

WildLines == [k : {"def"}, kind : {"grass", "water"}, rate : {0, 25}]
               \cup [k : {"slot"}, level : {1}, species : {"MEW"}] \cup {[k |-> "end"]}
Slot == [k |-> "slot", level |-> 4, species |-> "EEVEE"]
Grass == <<[k |-> "def", kind |-> "grass", rate |-> 9], Slot, Slot, [k |-> "end"]>>

EvosLines ==
  {[k |-> "label"], [k |-> "zero"], [k |-> "learn", level |-> 3, move |-> "CUT"],
   [k |-> "evolve", method |-> "ITEM", item |-> "STONE", level |-> 1, species |-> "MEW"],
   [k |-> "evolve", method |-> "TRADE", item |-> "none", level |-> 2, species |-> "EEVEE"]}

Mon(level) == [level |-> level, species |-> "EEVEE"]
TrainerLines ==
  {[k |-> "label"], [k |-> "party", mixed |-> FALSE, members |-> <<Mon(9)>>],
   [k |-> "party", mixed |-> FALSE, members |-> <<Mon(9), Mon(9)>>],
   [k |-> "party", mixed |-> TRUE, members |-> <<Mon(3), Mon(4)>>]}

StatsLines ==
  [k : {"stats"}, species : {"EEVEE", "MEW"}, stats : {<<45, 49, 65, 45, 255>>}, types : {<<"FIRE", "FIRE">>, <<"NORMAL", "FIRE">>},
   catchRate : {45}, baseExp : {64}, size : {5, 7}, moves : {<<"CUT", NoMove, "POUND", NoMove>>}, growth : {3},
   machines : {<<>>, <<"CUT", "POUND">>}]

McCharmap == <<[spelling |-> "@", byte |-> 80, shown |-> ""], [spelling |-> "A", byte |-> 128, shown |-> "A"],
               [spelling |-> "<COLON>", byte |-> 109, shown |-> "{COLON}"], [spelling |-> ":", byte |-> 109, shown |-> ":"],
               [spelling |-> "YEN", byte |-> 240, shown |-> "YEN"], [spelling |-> "<LINE>", byte |-> 79, shown |-> "\n"],
               [spelling |-> "<PARA>", byte |-> 81, shown |-> "{page}"], [spelling |-> "<CONT>", byte |-> 85, shown |-> "{scroll}"],
               [spelling |-> "<PAGE>", byte |-> 73, shown |-> "{page}"], [spelling |-> "<NEXT>", byte |-> 78, shown |-> "\n"],
               [spelling |-> "<_CONT>", byte |-> 75, shown |-> "{_CONT}"], [spelling |-> "<SCROLL>", byte |-> 76, shown |-> "{SCROLL}"]>>

TextLabel(name, far) == [k |-> "label", name |-> name, far |-> far, glyphs |-> <<>>, arg |-> ""]
TextLine(k, glyphs) == [k |-> k, glyphs |-> glyphs, arg |-> ""]
TextLines ==
  {TextLabel("T2", TRUE), TextLine("text", <<"A", "<COLON>">>), TextLine("text", <<"YEN", "@">>), TextLine("para", <<"A">>),
   TextLine("text_start", <<>>), TextLine("done", <<>>), TextLine("text_end", <<>>), TextLine("dex", <<>>),
   [k |-> "text_ram", glyphs |-> <<>>, arg |-> "wName"], [k |-> "text_bcd", glyphs |-> <<>>, arg |-> "wMoney"]}

CommandLines ==
  [k : DOMAIN OtherCommand, glyphs : {<<>>}, arg : {"wName"}]
    \cup {TextLine("next", <<"A", "<SCROLL>">>), TextLine("page", <<"<_CONT>">>), TextLine("text", <<"A", "@">>),
          TextLine("text_start", <<>>), TextLine("prompt", <<>>), TextLine("text_end", <<>>),
          [k |-> "text_decimal", glyphs |-> <<>>, arg |-> "wMoney"]}

McSheetTiles == <<2, 3>>
McEffects == {216, 254}
McMisc == <<"SHOWPIC_ANIM">>

Dbsprite(tile, ypx) == [k |-> "dbsprite", file |-> "frames", xtile |-> 31, ytile |-> 2, xpx |-> 7, ypx |-> ypx, tile |-> tile, attrs |-> {"xflip", "prio"}]
Count(n) == [k |-> "count", file |-> "frames", count |-> n]
Subanim(type, n) == [k |-> "subanim", file |-> "subanims", type |-> type, count |-> n]
FrameAt(block, coord) == [k |-> "frame", file |-> "subanims", block |-> block, coord |-> coord, mode |-> 4]
Frame(block) == FrameAt(block, 176)
Play(tileset, delay, sub) == [k |-> "play", file |-> "anims", tileset |-> tileset, delay |-> delay, sound |-> "CUT", sub |-> sub]
SpecialEffect(effect, sound) == [k |-> "effect", file |-> "anims", effect |-> effect, sound |-> sound]
Effect(sound) == SpecialEffect(216, sound)
EndAnim == [k |-> "end", file |-> "anims"]

FrameFile == <<LabelIn("frames", "F0"), Count(1), Dbsprite(1, 0)>>
SubanimFile == <<LabelIn("subanims", "S0"), Subanim("ENEMY", 1), Frame(0)>>
AnimFile == <<LabelIn("anims", "A0"), Play(0, 6, 0), EndAnim>>

FrameLines == {LabelIn("frames", "F1"), Count(1), Count(2), Dbsprite(1, 7), Dbsprite(2, 0)}
SubanimLines == {LabelIn("subanims", "S1"), Subanim("COORDFLIP", 1), Subanim("NORMAL", 2), Frame(0), Frame(1), FrameAt(1, 177)}
AnimLines == {LabelIn("anims", "A1"), Play(1, 63, 0), Play(0, 0, 0), Play(0, 1, 1), Effect("CUT"), Effect("NO_MOVE"), EndAnim,
              Play(0, 65, 0), Effect("SHOWPIC_ANIM"), SpecialEffect(217, "POUND")}

Tile(Gray(_, _)) == [y \in 1..8 |-> [x \in 1..8 |-> Gray(x, y)]]
WhiteTile == Tile(LAMBDA x, y : 255)
RingTile == Tile(LAMBDA x, y : IF x \in {2, 6} \/ y \in {3, 8} THEN 0 ELSE 255)
SlopeTile == Tile(LAMBDA x, y : 85 * (((x * y) + x) % 4))
HalfTile == Tile(LAMBDA x, y : IF x < 4 THEN 0 ELSE 255)
TilesOf(tiles) == [i \in DOMAIN tiles |-> [k |-> "tile", tile |-> tiles[i]]]
Picture(k, tiles) == [k : {k}, tile : tiles]

Match(attacker, defender, effect) == [k |-> "match", attacker |-> attacker, defender |-> defender, effect |-> effect]
TypeLines ==
  {Match("NORMAL", "FIRE", "SUPER_EFFECTIVE"), Match("FIRE", "NORMAL", "NOT_VERY_EFFECTIVE"), Match("FIRE", "FIRE", "NO_EFFECT"),
   [k |-> "typelabel"]} \cup [k : {"name"}, glyphs : {<<"A">>, <<"A", "YEN">>}]

McPalettes == <<"LOGO", "MON">>
Red == <<31, 29, 0>>
Blue == <<4, 18, 31>>
Rgb(name, version, colors) == [k |-> "rgb", name |-> name, version |-> version, colors |-> colors]
IfDef(version) == [k |-> "if", version |-> version]
EndC == [k |-> "endc"]
MonRow(species, pal) == [k |-> "mon", species |-> species, pal |-> pal]
MonRows == <<MonRow("MISSINGNO", "MON"), MonRow("EEVEE", "LOGO"), MonRow("MEW", "MON")>>
RgbRed == Rgb("LOGO", "RED", <<Red, Blue, Blue, Red>>)
RgbBlue == Rgb("LOGO", "BLUE", <<Blue, Red, Blue, Red>>)
RgbMon == Rgb("MON", "ANY", <<Blue, Red, Red, Red>>)

Entries ==
  [k : {"entry"}, label : {"Eevee", "Mew", "Other"}, kind : {<<>>, <<"A">>}, height : {<<5, 11>>, <<255, 0>>},
   weight : {44, 1760}, text : {"none", "T1"}]
Pointer(label) == [k |-> "pointer", label |-> label]

McIcons == <<"MON", "BALL">>
McSheets ==
  <<[label |-> "OakSprite", across |-> 2, tiles |-> [i \in 1..24 |-> IF i % 5 = 0 THEN SlopeTile ELSE RingTile]],
    [label |-> "NurseSprite", across |-> 2, tiles |-> [i \in 1..16 |-> IF i % 2 = 0 THEN SlopeTile ELSE WhiteTile]],
    [label |-> "BallSprite", across |-> 2, tiles |-> <<RingTile, SlopeTile, HalfTile, WhiteTile>>]>>

McDrafts ==
  <<Draft("maps", <<>>, Connections, 3),
    Draft("maps", <<>>, MapLines, 4),
    Draft("maps", <<Object("STAY", "NONE", Plain)>>, Names \cup {Object("WALK", "ANY_DIR", Plain)}, 4),
    Draft("tilesets", <<Header>> \o Warps, CollisionLines, 5),
    Draft("tilesets", <<Header>> \o Collision, WarpLines, 5),
    Draft("tilesets", <<Header>> \o Collision \o Warps, DoorLines, 5),
    Draft("moves", <<[k |-> "label"], [k |-> "end"]>>, {MoveRow(id, accuracy) : id \in {"POUND", "CUT"}, accuracy \in 0..100}, 1),
    Draft("moves", <<Move>>, MoveLines, 5),
    Draft("moves", <<Move, MoveRow("CUT", 100), [k |-> "label"]>>, MoveLines, 5),
    Draft("items", <<>>, [k : {"item"}, price : {0, 98, 12345}, key : BOOLEAN], 4),
    Draft("items", [i \in 1..8 |-> [k |-> "item", price |-> 200, key |-> i = 8]], [k : {"item"}, price : {999999}, key : BOOLEAN], 9),
    Draft("items", <<>>, [k : {"tm"}, move : {"CUT"}, price : {0, 5, 15}], 5),
    Draft("wild", <<>>, WildLines, 6),
    Draft("wild", Grass, WildLines, 4),
    Draft("evos", <<[k |-> "label"]>>, EvosLines, 6),
    Draft("trainers", <<>>, TrainerLines, 6),
    Draft("stats", <<>>, StatsLines, 3),
    Draft("texts", <<TextLabel("T1", TRUE)>>, TextLines, 4),
    Draft("texts", <<TextLabel("T1", TRUE), TextLine("text", <<"@">>), [k |-> "text_ram", glyphs |-> <<>>, arg |-> "wName"], TextLine("text_end", <<>>)>>, TextLines, 4),
    Draft("texts", <<TextLabel("T1", TRUE)>>, CommandLines, 4),
    Draft("anims", SubanimFile \o AnimFile, FrameLines, 5),
    Draft("anims", FrameFile \o FrameFile \o AnimFile, SubanimLines, 5),
    Draft("anims", FrameFile \o SubanimFile, AnimLines, 5),
    Draft("types", <<>>, TypeLines, 5),
    Draft("palettes", MonRows \o <<IfDef("RED"), RgbRed, EndC>>, {IfDef("BLUE"), EndC, RgbBlue, RgbMon}, 5),
    Draft("palettes", MonRows \o <<IfDef("BLUE"), RgbBlue, EndC, IfDef("RED"), RgbRed, EndC, RgbMon>>, {EndC, RgbMon, RgbBlue}, 2),
    Draft("palettes", <<Rgb("LOGO", "ANY", <<Red, Blue, Red, Blue>>), RgbMon>>, [k : {"mon"}, species : ToSet(McSpecies), pal : ToSet(McPalettes)], 3),
    Draft("dex", <<Pointer("Other"), Pointer("Eevee"), Pointer("Mew")>>, Entries \cup {Pointer("Mew")}, 2),
    Draft("pictures", <<>>, Picture("tile", {WhiteTile, RingTile, SlopeTile, HalfTile}), 2),
    Draft("pictures", TilesOf(<<WhiteTile, SlopeTile>>), Picture("tile", {RingTile, WhiteTile, SlopeTile}), 2),
    Draft("pictures", TilesOf(<<RingTile, WhiteTile, SlopeTile, RingTile, WhiteTile>>), Picture("tile", {HalfTile}), 1),
    Draft("sheets", <<>>, [k : {"sheet"}, label : {"OakSprite", "NurseSprite", "BallSprite"}, tiles : {4, 12}], 2),
    Draft("icons", TilesOf(<<SlopeTile, RingTile, SlopeTile>>), Picture("tile", {RingTile, HalfTile}) \cup [k : {"icon"}, icon : {"MON", "BALL"}], 4),
    Draft("fonts", <<[k |-> "main", tile |-> HalfTile], [k |-> "extra", tile |-> SlopeTile], [k |-> "dex", tile |-> RingTile]>>,
          Picture("main", {WhiteTile}) \cup Picture("extra", {RingTile, SlopeTile}) \cup Picture("dex", {SlopeTile, HalfTile}), 3)>>
=============================================================================
