------------------------------ MODULE RomSources ------------------------------
(***************************************************************************)
(* A source file as it is written, line by line, and what                  *)
(* tools/verify_rom_data.py asks of it at any moment: that the data read   *)
(* from the ROM it assembles to are the data read from the file itself.    *)
(*                                                                         *)
(* A draft says which table is being written, what stands there already,   *)
(* the lines that may be added, and how many of them.                      *)
(***************************************************************************)
EXTENDS RomMaps, RomTilesets, RomTables, RomSpecies, RomText, RomBattleAnims, RomCharts, RomArtwork

CONSTANT Drafts

VARIABLES draft, table, source

sourceVars == <<draft, table, source>>

SourcesInit ==
  /\ draft \in DOMAIN Drafts
  /\ table = Drafts[draft].table
  /\ source = Drafts[draft].begun

AddLine ==
  /\ Len(source) < Len(Drafts[draft].begun) + Drafts[draft].room
  /\ \E l \in Drafts[draft].lines : source' = Append(source, l)
  /\ UNCHANGED <<draft, table>>

SourcesSpec == SourcesInit /\ [][AddLine]_sourceVars

-----------------------------------------------------------------------------
\* extract_maps finds what maps.py reads: connections on the sides their bits name, with their
\* offsets; warps, signs and objects at their coordinates; blocks padded where a file is short.
MapsAgree == table = "maps" => MapsAgreeOn(source)

\* extract_tilesets finds what tilesets.py reads, shared tails and labels included.
TilesetsAgree == table = "tilesets" => TilesetsAgreeOn(source)

\* extract_moves finds what moves.py reads: the percentages a byte cannot hold exactly, and
\* whether an animation of mixed two- and three-byte rows shakes or flashes the screen.
MovesAgree == table = "moves" => MovesAgreeOn(source)

\* extract_items finds what items.py reads: digits, flags and prices, each at its place.
ItemsAgree == table = "items" => ItemsAgreeOn(source)

\* extract_encounters finds what encounters.py reads, where one of the tables may be missing.
WildAgrees == table = "wild" => WildAgreeOn(source)

\* extract_pokemon finds the evolutions and learnsets pokemon.py reads, one after the other.
EvosMovesAgree == table = "evos" => EvosMovesAgreeOn(source)

\* extract_trainers finds the parties trainers.py reads, of one level or of several.
TrainersAgree == table = "trainers" => TrainersAgreeOn(source)

\* extract_pokemon finds the base stats pokemon.py reads: types once, moves without the holes.
StatsAgree == table = "stats" => StatsAgreeOn(source)

\* extract_text prints what text.py reads under every label both know; it refuses the commands
\* that text.py shows as nothing, as a token or as an end.
TextsAgree == table = "texts" => TextsAgreeOn(source)

\* extract_battle_anims finds what battle_anims.py does, and both refuse a reference that leads
\* nowhere.  Only battle_anims.py refuses a wrong count, or a delay beyond its bits; only
\* extract_battle_anims a sound that is no move's.
AnimsAgree == table = "anims" => AnimsAgreeOn(source)

\* extract_type_chart finds what type_chart.py reads, a shared name once.
ChartAgrees == table = "types" => ChartAgreesOn(source)

\* extract_palettes finds the colours palettes.py reads for Red, and those of each species.
PalettesAgree == table = "palettes" => PalettesAgreeOn(source)

\* _dex_entry finds what pokemon.py reads, and refuses an entry without a far text.
DexAgrees == table = "dex" => DexAgreesOn(source)

\* Every encoding of a battle picture shows the picture, matted; a stream cut short is refused.
PicturesAgree == table = "pictures" => PicturesAgreeOn(source)

\* extract_sprites shows the sheets sprites.py converts, whose length the table may cut.
SheetsAgree == table = "sheets" => SheetsAgreeOn(source)

\* extract_icons shows the icons icons.py assembles, of an odd or even number of species.
IconsAgree == table = "icons" => IconsAgreeOn(source)

\* extract_font shows the ink font.py does, the Pokédex's tiles in their place.
FontsAgree == table = "fonts" => FontsAgreeOn(source)

\* verify_rom_data.py on records and texts: what the game is played with.
RecordsAgree ==
  /\ MapsAgree /\ TilesetsAgree /\ MovesAgree /\ ItemsAgree /\ WildAgrees
  /\ EvosMovesAgree /\ TrainersAgree /\ StatsAgree /\ TextsAgree /\ ChartAgrees /\ DexAgrees

\* verify_rom_data.py on pictures, colours and animations: what the game shows.
ArtAgrees ==
  AnimsAgree /\ PalettesAgree /\ PicturesAgree /\ SheetsAgree /\ IconsAgree /\ FontsAgree

\* The ROM says what the disassembly says.
SourcesAgree == RecordsAgree /\ ArtAgrees
=============================================================================
