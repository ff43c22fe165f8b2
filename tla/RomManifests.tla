----------------------------- MODULE RomManifests -----------------------------
(***************************************************************************)
(* The manifests an import reads its addresses from: Red's is generated    *)
(* from a pokered checkout (tools/make_rom_manifest.py), Blue's and        *)
(* Yellow's are derived from the shipped Red one and a symbol file         *)
(* (tools/make_blue_manifest.py, tools/make_yellow_manifest.py).           *)
(*                                                                         *)
(* A symbol is a name and a place; Blue has Red's places except for some   *)
(* map headers.  A checkout may be edited and its symbol file rebuilt      *)
(* between any two of the tools.                                           *)
(***************************************************************************)
EXTENDS Naturals, FiniteSets

CONSTANTS
  DirectSymbols, \* DIRECT_SYMBOLS and FIELD_ASSET_SYMBOLS
  OmittedIntro,  \* OMIT_INTRO_SYMBOLS
  ExtraSymbols,  \* YELLOW_EXTRA_SYMBOLS
  ExtraLabels,   \* YELLOW_EXTRA_TEXT_LABELS
  ExtraSongs,    \* the headers only Yellow has
  Aliases,       \* SYMBOL_ALIASES: Red's name |-> Yellow's, or Dropped
  MapRenames,    \* MAP_LABEL_RENAMES, as names of headers
  Dropped,
  BlueMoved,     \* the map headers at another place in Blue
  Trees,         \* the checkouts of a version: labels, headers, pointers, songs of the maps,
                 \* headers of music, symbols, presets
  MaxTreeEdits,      \* bound: how often a checkout changes
  None

Versions == {"red", "blue", "yellow"}

\* There is a checkout of each version with all the symbols.  Blue has Red's places but for its
\* maps: its music is where Red's is.  The symbol file of a Yellow checkout, which
\* links, has the headers its maps play.
ASSUME TreesAssumption ==
  /\ \A v \in Versions : \E t \in Trees[v] : t.presets = "swapped" /\ \A u \in Trees[v] : u.symbols \subseteq t.symbols
  /\ \A t \in Trees["red"] : t.music \cap BlueMoved = {}
  /\ \A t \in Trees["yellow"] : t.songs \subseteq t.symbols

VARIABLES trees, treeEdits, manifests

manifestVars == <<trees, treeEdits, manifests>>

Place(version, name) ==
  CASE name = "MewBaseStats" /\ version = "yellow" -> <<"yellow", "BaseStats", 150>>
    [] version = "blue" /\ name \notin BlueMoved -> <<"red", name>>
    [] OTHER -> <<version, name>>

Placed(version, names) == [n \in names |-> Place(version, n)]

-----------------------------------------------------------------------------
\* embedded_symbols
Wanted(m) == DirectSymbols \cup m.labels \cup m.headers

GenerateRed ==
  LET tree == trees["red"]
      headers == tree.music \cap tree.symbols
      m == [sha |-> "red", labels |-> tree.labels, headers |-> tree.headers, songs |-> tree.songs \cap headers,
            music |-> Placed("red", headers), symbols |-> Placed("red", Wanted(tree))]
  IN IF Wanted(tree) \subseteq tree.symbols THEN m ELSE None

\* Blue has Red's names, at the places of its own symbol file.
DeriveBlue(red) ==
  LET tree == trees["blue"]
  IN IF DOMAIN red.symbols \subseteq tree.symbols /\ tree.presets = "swapped"
     THEN [red EXCEPT !.sha = "blue", !.symbols = Placed("blue", DOMAIN red.symbols)]
     ELSE None

\* The name in Yellow of a symbol of Red's.
Target(name) ==
  LET alias == IF name \in DOMAIN Aliases THEN Aliases[name] ELSE name
  IN IF alias \in DOMAIN MapRenames THEN MapRenames[alias] ELSE alias

DroppedNames == {n \in DOMAIN Aliases : Aliases[n] = Dropped} \cup OmittedIntro

\* Red's names that Yellow has too; those it has not are silently left out.
Carried(red, tree) ==
  LET kept == DOMAIN red.symbols \ DroppedNames
  IN ({Target(n) : n \in kept \ {"MewBaseStats"}} \cap tree.symbols) \cup (kept \cap {"MewBaseStats"})

\* Mutant of Own: the labels added by hand are not looked for.
OwnFiles(tree) == tree.labels \cup tree.headers
\* Every label and header of Yellow's own texts and maps must be found; what its scripts point
\* at is taken where it is.
Own(tree) == tree.labels \cup ExtraLabels \cup tree.headers
Found(tree) == Own(tree) \cup (tree.pointers \cap tree.symbols) \cup ExtraSymbols

\* Red's headers go to the places of Yellow's symbols, where there are some.
RemapAudio(red, tree) ==
  LET headers == DOMAIN red.music \cup (IF "Music_IntroBattle" \in DOMAIN red.music THEN {"Music_YellowIntro"} ELSE {})
      Old(n) == IF n \in DOMAIN red.music THEN red.music[n] ELSE red.music["Music_IntroBattle"]
  IN [n \in headers \cup ExtraSongs |-> IF n \in tree.symbols THEN Place("yellow", n) ELSE Old(n)]

\* Each SystemExit of the derivation.
YellowStops(red, tree) ==
  \/ ~ tree.songs \subseteq DOMAIN red.music
  \/ ~ {"CryData"} \cup ExtraSongs \cup Own(tree) \cup ExtraSymbols \subseteq tree.symbols
  \/ "MewBaseStats" \in DOMAIN red.symbols /\ "BaseStats" \notin tree.symbols
  \/ tree.presets # "swapped"

DeriveYellow(red) ==
  LET tree == trees["yellow"]
  IN IF YellowStops(red, tree) THEN None
     ELSE [sha |-> "yellow", labels |-> tree.labels \cup ExtraLabels, headers |-> tree.headers, songs |-> tree.songs,
           music |-> RemapAudio(red, tree), symbols |-> Placed("yellow", Carried(red, tree) \cup Found(tree))]

-----------------------------------------------------------------------------
\* A tool that stops writes no manifest.
Ship(version, m) ==
  /\ m # None
  /\ manifests' = [manifests EXCEPT ![version] = m]
  /\ UNCHANGED <<trees, treeEdits>>

MakeRed    == Ship("red", GenerateRed)
MakeBlue   == manifests["red"] # None /\ Ship("blue", DeriveBlue(manifests["red"]))
MakeYellow == manifests["red"] # None /\ Ship("yellow", DeriveYellow(manifests["red"]))

EditTree ==
  /\ treeEdits < MaxTreeEdits
  /\ \E v \in Versions : \E tree \in Trees[v] \ {trees[v]} : trees' = [trees EXCEPT ![v] = tree]
  /\ treeEdits' = treeEdits + 1
  /\ UNCHANGED manifests

Whole(version) ==
  CHOOSE t \in Trees[version] : t.presets = "swapped" /\ \A u \in Trees[version] : u.symbols \subseteq t.symbols

ManifestsInit ==
  /\ \E v \in Versions : \E tree \in Trees[v] : trees = [[u \in Versions |-> Whole(u)] EXCEPT ![v] = tree]
  /\ treeEdits = 0
  /\ manifests = [v \in Versions |-> None]

ManifestsNext == MakeRed \/ MakeBlue \/ MakeYellow \/ EditTree

-----------------------------------------------------------------------------
\* Every manifest is of its version's ROM and knows the labels and headers it lists, whatever
\* the Red manifest it comes from was made of; only Yellow's may lack what extractors ask for.
ManifestsComplete ==
  \A v \in Versions : LET m == manifests[v] IN
    m # None => /\ m.sha = v
                /\ m.labels \cup m.headers \subseteq DOMAIN m.symbols
                /\ m.songs \subseteq DOMAIN m.music
                /\ v # "yellow" => DirectSymbols \subseteq DOMAIN m.symbols

\* No address of another version stays in a manifest: neither under a name Yellow renames nor
\* in the music a map plays.
PlacesFit ==
  \A v \in Versions : LET m == manifests[v] IN
    m # None => /\ m.symbols = Placed(v, DOMAIN m.symbols)
                /\ \A song \in m.songs : m.music[song] = Place(v, song)

\* What an import can rely on.
ManifestsFit == ManifestsComplete /\ PlacesFit
=============================================================================
