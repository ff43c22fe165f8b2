-------------------------- MODULE ModKitTranslation --------------------------
(***************************************************************************)
(* `modkit translation`, tools/modkit.py of gen1recomp: a translation mod  *)
(* is scaffolded once and refreshed whenever the engine or the dataset has *)
(* changed its texts, while a translator fills in the catalogs under lang/ *)
(* by hand.  The command reads every catalog it finds before it writes the *)
(* first one, writes each file in place, and may be killed in between.     *)
(*                                                                         *)
(* A catalog is the set of its lines.  A key is a number, in the order in  *)
(* which keys are written; whether a line has a translation is all that is *)
(* kept of its text.  A file that a killed command was writing ends        *)
(* somewhere: a catalog may then lack its closing brace, or end within a   *)
(* character, and any other file is of no use.                             *)
(***************************************************************************)
EXTENDS Naturals, Sequences, FiniteSets

CONSTANTS
  Labels,       \* labels of script text
  Literals,     \* texts in the engine's source
  FixtureKeys,  \* those of the ROM-free dataset in tests/fixture_data
  MaxRuns,      \* bound: how often the command is started
  MaxCrashes,   \* bound: how often it is killed
  MaxChanges    \* bound: changes of the engine's or the dataset's texts

Key == Labels \cup Literals

ASSUME KeysAreOrdered == Key \subseteq Nat /\ FixtureKeys \subseteq Labels

VARIABLES
  imported,   \* whether the player's own dataset has been imported
  texts,      \* the keys the imported dataset and the engine have at present
  lang,       \* the lines of each catalog
  onDisk,     \* the catalogs that exist
  closed,     \* those with their closing brace: the others are a syntax error to Lua
  garbled,    \* those that end within a character, and do not decode
  hand,       \* the files a refresh leaves to the author
  cmd,        \* the running command: what it read, and the files it has yet to write
  safe,       \* history: keys filled in, known to every run since, and cut off by none
  runs, crashes, changes

translationFiles == <<lang, onDisk, closed, garbled, hand>>
translationVars == <<imported, texts, translationFiles, cmd, safe, runs, crashes, changes>>

Catalog == {"dialogue", "strings"}
KeysOf == [dialogue |-> Labels, strings |-> Literals]
HandFile == {"manifest.json", "main.lua", "lang/font.lua"}
\* The order in which a command writes its files.
WriteOrder == <<"dialogue", "strings", "manifest.json", "main.lua", "lang/font.lua">>


\* How a line reads: the form the generator writes; Lua of another form (single quotes,
\* no comma), which the game runs all the same; or a comment of the ORPHANED block.
Line == [key : Key, form : {"entry", "other", "parked"}, done : BOOLEAN]

Idle == [on |-> FALSE, exists |-> FALSE, todo |-> {},
         keys |-> [c \in Catalog |-> {}], done |-> [c \in Catalog |-> {}]]

-----------------------------------------------------------------------------
(* What the command harvests and what the game applies.                    *)

Base == IF imported THEN "imported" ELSE "fixture"

DatasetKeys(base) == IF base = "imported" THEN texts["dialogue"] ELSE FixtureKeys

EngineStrings == texts["strings"]

Vocabulary == [c \in Catalog |-> IF c = "strings" THEN EngineStrings ELSE DatasetKeys(Base)]

CatalogFile(keys) == [key : keys, form : {"entry"}, done : {FALSE}]

\* The filled-in lines the line scan recognises; a missing file has no lines.
ReadCatalog(file) == {l.key : l \in {k \in file : k.form = "entry" /\ k.done}}

\* Fills the fresh catalog with what was read, and parks what has no line in it.
MergeCatalog(keys, done) ==
  {[key |-> k, form |-> "entry", done |-> k \in done] : k \in keys}
    \cup {[key |-> k, form |-> "parked", done |-> TRUE] : k \in done \ keys}

\* Mutant of NewCatalog: every run starts afresh.
Afresh(keys, done) == CatalogFile(keys)
NewCatalog(keys, done) == IF done = {} THEN CatalogFile(keys) ELSE MergeCatalog(keys, done)

\* Whether the game loads the mod and runs its main.lua.
Loads == \A f \in {"manifest.json", "main.lua"} : hand[f] \in {"made", "edited"}

\* What main.lua's catalog() returns: every filled-in entry that is Lua, or nothing at all.
Applied(c) ==
  IF Loads /\ c \in closed THEN {l.key : l \in {k \in lang[c] : k.form # "parked" /\ k.done}} ELSE {}

\* Translations a reader of the file can still find; those that are parked.
Held(file) == {l.key : l \in {k \in file : k.done}}
Parked(file) == {l.key : l \in {k \in file : k.form = "parked"}}

\* The prefixes of a catalog that a command killed while writing it may leave: some of its
\* entries, or all of them with the brace and some of the parked lines.
WithoutBrace(file) == {{l \in file : l.form # "parked" /\ l.key < n} : n \in Key} \cup {{l \in file : l.form # "parked"}}
WithBrace(file)    == {{l \in file : l.form # "parked" \/ l.key < n} : n \in Key}

-----------------------------------------------------------------------------
(* The command.                                                            *)

\* A folder with nothing in it, left by a run killed at once, is as good as none.
Exists == onDisk # {} \/ \E f \in HandFile : hand[f] # "none"

\* The folder is there, or this is the first time: read the texts and the old catalogs.  A
\* catalog that does not decode stops the command before it has written anything.
Translation(refresh) ==
  /\ ~cmd.on
  /\ runs < MaxRuns
  /\ Exists => refresh
  /\ garbled = {}
  /\ cmd' = [on |-> TRUE, exists |-> Exists, keys |-> Vocabulary,
             done |-> [c \in Catalog |-> ReadCatalog(lang[c])],
             todo |-> Catalog \cup HandFile]
  /\ safe' = [c \in Catalog |-> safe[c] \cap Vocabulary[c]]
  /\ runs' = runs + 1
  /\ UNCHANGED <<translationFiles, imported, texts, crashes, changes>>

Did(path) == cmd' = [cmd EXCEPT !.todo = @ \ {path}]

Turn(path) ==
  /\ cmd.on /\ path \in cmd.todo
  /\ \A i, j \in DOMAIN WriteOrder : WriteOrder[j] = path /\ i < j => WriteOrder[i] \notin cmd.todo

WriteCatalog(c) ==
  /\ Turn(c)
  /\ lang' = [lang EXCEPT ![c] = NewCatalog(cmd.keys[c], cmd.done[c])]
  /\ onDisk' = onDisk \cup {c} /\ closed' = closed \cup {c}
  /\ Did(c)
  /\ UNCHANGED <<imported, texts, garbled, hand, safe, runs, crashes, changes>>

\* Mutant of Remade: a refresh writes everything anew.
Overwritten(file) == "made"
\* Mutant of Remade: a refresh leaves out what a killed run had not come to.
LeftAlone(file) == IF cmd.exists THEN file ELSE "made"
\* What becomes of a file of the author's.
Remade(file) == IF cmd.exists /\ file # "none" THEN file ELSE "made"

\* emit(..., overwrite=not exists): a refresh only makes what is missing.
Emit(f) ==
  /\ Turn(f)
  /\ hand' = [hand EXCEPT ![f] = Remade(@)]
  /\ Did(f)
  /\ UNCHANGED <<imported, texts, lang, onDisk, closed, garbled, safe, runs, crashes, changes>>

Finish ==
  /\ cmd.on /\ cmd.todo = {}
  /\ cmd' = Idle
  /\ UNCHANGED <<translationFiles, imported, texts, safe, runs, crashes, changes>>

\* Killed while it writes catalog c, which keeps a prefix of what was to be written and may
\* end within a character.
TearCatalog(c) ==
  /\ Turn(c)
  /\ LET body == NewCatalog(cmd.keys[c], cmd.done[c])
     IN  \/ lang' \in {[lang EXCEPT ![c] = part] : part \in WithoutBrace(body)} /\ closed' = closed \ {c}
         \/ lang' \in {[lang EXCEPT ![c] = part] : part \in WithBrace(body)} /\ closed' = closed \cup {c}
  /\ garbled' \in {garbled, garbled \cup {c}}
  /\ onDisk' = onDisk \cup {c}
  /\ safe' = [safe EXCEPT ![c] = @ \cap ReadCatalog(lang'[c])]
  /\ UNCHANGED hand

\* Killed while it writes one of the other files, which is there from then on.
TearFile(f) ==
  /\ Turn(f) /\ Remade(hand[f]) # hand[f]
  /\ hand' = [hand EXCEPT ![f] = "torn"]
  /\ UNCHANGED <<lang, onDisk, closed, garbled, safe>>

\* Killed in the middle of a file, or between two.
Crash ==
  /\ cmd.on /\ crashes < MaxCrashes
  /\ \/ UNCHANGED <<translationFiles, safe>>
     \/ \E c \in Catalog : TearCatalog(c)
     \/ \E f \in HandFile : TearFile(f)
  /\ cmd' = Idle
  /\ crashes' = crashes + 1
  /\ UNCHANGED <<imported, texts, runs, changes>>

-----------------------------------------------------------------------------
(* The translator, and what changes under him.                             *)

\* He fills in an empty entry, in the form it has or in another that Lua reads.  An
\* entry filled in behind the back of a running command is his own risk.
Fill(c, k, form) ==
  /\ LET empty == [key |-> k, form |-> "entry", done |-> FALSE]
     IN /\ empty \in lang[c]
        /\ lang' = [lang EXCEPT ![c] = (@ \ {empty}) \cup {[key |-> k, form |-> form, done |-> TRUE]}]
  /\ safe' = [safe EXCEPT ![c] = IF form = "entry" /\ ~cmd.on THEN @ \cup {k} ELSE @]
  /\ UNCHANGED <<imported, texts, onDisk, closed, garbled, hand, cmd, runs, crashes, changes>>

\* He takes a translation, parked or not, away.
Remove(c, k) ==
  /\ k \in Held(lang[c])
  /\ lang' = [lang EXCEPT ![c] = {l \in @ : l.key # k}]
  /\ safe' = [safe EXCEPT ![c] = @ \ {k}]
  /\ UNCHANGED <<imported, texts, onDisk, closed, garbled, hand, cmd, runs, crashes, changes>>

\* The author edits a file, or writes himself what a killed command has left of it.
EditByHand(f) ==
  /\ hand[f] \in {"made", "torn"}
  /\ hand' = [hand EXCEPT ![f] = "edited"]
  /\ UNCHANGED <<imported, texts, lang, onDisk, closed, garbled, cmd, safe, runs, crashes, changes>>

\* The translator mends the end of a catalog.
Mend(c) ==
  /\ c \in garbled \/ c \in onDisk \ closed
  /\ closed' = closed \cup {c} /\ garbled' = garbled \ {c}
  /\ UNCHANGED <<imported, texts, lang, onDisk, hand, cmd, safe, runs, crashes, changes>>

\* A new engine version, or another ROM: some texts go, others come.
TextsChange(c, k) ==
  /\ changes < MaxChanges
  /\ texts' = [texts EXCEPT ![c] = IF k \in @ THEN @ \ {k} ELSE @ \cup {k}]
  /\ changes' = changes + 1
  /\ UNCHANGED <<translationFiles, imported, cmd, safe, runs, crashes>>

DatasetChanges ==
  /\ changes < MaxChanges
  /\ imported' = ~imported
  /\ changes' = changes + 1
  /\ UNCHANGED <<translationFiles, texts, cmd, safe, runs, crashes>>

-----------------------------------------------------------------------------
TranslationInit ==
  /\ imported \in BOOLEAN
  /\ texts = KeysOf
  /\ lang = [c \in Catalog |-> {}] /\ onDisk = {} /\ closed = {} /\ garbled = {}
  /\ hand = [f \in HandFile |-> "none"]
  /\ cmd = Idle
  /\ safe = [c \in Catalog |-> {}]
  /\ runs = 0 /\ crashes = 0 /\ changes = 0

TranslationNext ==
  \/ \E refresh \in BOOLEAN : Translation(refresh)
  \/ \E c \in Catalog : WriteCatalog(c)
  \/ \E f \in HandFile : Emit(f)
  \/ Finish
  \/ Crash
  \/ \E c \in Catalog, k \in Key : \E form \in {"entry", "other"} : Fill(c, k, form)
  \/ \E c \in Catalog, k \in Key : Remove(c, k)
  \/ \E f \in HandFile : EditByHand(f)
  \/ \E c \in Catalog : Mend(c)
  \/ \E c \in Catalog : \E k \in KeysOf[c] : TextsChange(c, k)
  \/ DatasetChanges

TranslationSpec == TranslationInit /\ [][TranslationNext]_translationVars

-----------------------------------------------------------------------------
\* Every variable keeps its type; a catalog has at most one live line for a key.
TranslationTypeOK ==
  /\ imported \in BOOLEAN
  /\ texts \in [Catalog -> SUBSET Key] /\ safe \in [Catalog -> SUBSET Key]
  /\ onDisk \subseteq Catalog /\ closed \subseteq onDisk /\ garbled \subseteq onDisk
  /\ lang \in [Catalog -> SUBSET Line]
  /\ \A c \in Catalog : \A k, l \in lang[c] : k.key = l.key => k = l
  /\ hand \in [HandFile -> {"none", "torn", "made", "edited"}]
  /\ cmd \in [on : BOOLEAN, exists : BOOLEAN, todo : SUBSET (Catalog \cup HandFile),
              keys : [Catalog -> SUBSET Key], done : [Catalog -> SUBSET Key]]
  /\ runs \in 0..MaxRuns /\ crashes \in 0..MaxCrashes /\ changes \in 0..MaxChanges

\* "keeping every translation you have already written" (the guide the command itself
\* writes): what was filled in as the catalog has it, whose key no run has missed, and what
\* no kill has cut off, is in the catalog at every moment, in the form the next refresh
\* reads: through every refresh, change of dataset and edit, through a crash in any
\* other file, and in front of the cut of a catalog that is a syntax error until then.
KnownWorkStays == \A c \in Catalog : safe[c] \subseteq ReadCatalog(lang[c])

\* "A refresh must never clobber hand-edited prose or a tuned manifest", whether it
\* is the first refresh or the one that repairs a scaffold that was killed halfway.
HandworkStays == [][\A f \in HandFile : hand[f] = "edited" => hand'[f] = "edited"]_translationVars

\* A command that has written its last file leaves a mod that works, also when a run before
\* it was killed: every file is there, with an end; no translation it had read for a key of
\* the day has become an empty entry; and what is safe is applied by the game.  Only a file
\* of the author's that a kill has torn is skipped by every refresh: then a first run, which
\* finds nothing torn, is the only one that promises a whole mod.
FinishedIsWhole ==
  cmd.on /\ cmd.todo = {} =>
    /\ \A f \in HandFile : hand[f] # "none" /\ (hand[f] = "torn" => cmd.exists)
    /\ onDisk = Catalog /\ closed = Catalog /\ garbled = {}
    /\ \A c \in Catalog : \A k \in cmd.done[c] \cap cmd.keys[c] :
         [key |-> k, form |-> "entry", done |-> FALSE] \notin lang[c]
    /\ Loads => \A c \in Catalog : safe[c] \subseteq Applied(c)

\* docs/new-features.md:376-377: a refresh parks orphaned translations rather than
\* dropping them.  So what is parked is found in the catalog after every later write.
ParkedStaysFound ==
  [][\A c \in Catalog :
       cmd.on /\ cmd'.on /\ cmd.todo \ cmd'.todo = {c} => Parked(lang[c]) \subseteq Held(lang'[c])]_translationVars
=============================================================================
