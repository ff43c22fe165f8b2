------------------------------ MODULE RomImport ------------------------------
(***************************************************************************)
(* tools/build_rom_data.py: an import reads a manifest and a ROM, refuses  *)
(* what does not fit, empties the generated directories if it is told to,  *)
(* and extracts the datasets it is asked for in a fixed order, a dataset's *)
(* pictures before its table.  It may be killed between any two steps.     *)
(***************************************************************************)
EXTENDS RomManifests

CONSTANTS
  Datasets,    \* the datasets, in the order build goes through them
  Pictured,    \* those with pictures under assets/generated
  AskedBy,     \* the direct symbols each of them looks up
  Arguments,   \* the command lines: version, manifest or None, rom, clean, only
  Garbled,     \* what is read at an address of another version
  MaxImports   \* bound: how many imports are begun

Extracted == {Datasets[i] : i \in DOMAIN Datasets}

\* One dataset is extracted before another.
Before(d, e) == \E i, j \in DOMAIN Datasets : i < j /\ Datasets[i] = d /\ Datasets[j] = e

\* DATASETS names each dataset once; the overworld sheets are among them before the icons, and
\* both are drawn.
ASSUME DatasetsAssumption ==
  /\ DOMAIN Datasets \subseteq Nat
  /\ \A i, j \in DOMAIN Datasets : Datasets[i] = Datasets[j] => i = j
  /\ Pictured \subseteq Extracted /\ {"sprites", "icons"} \subseteq Pictured
  /\ Before("sprites", "icons")

\* A symbol that an extractor names outright is one of DIRECT_SYMBOLS.
ASSUME AskedByAssumption == \A d \in Extracted \ {"text", "maps"} : AskedBy[d] \subseteq DirectSymbols

\* The choices of --version and --only; --manifest is one of the three files.
ASSUME ArgumentsAssumption ==
  /\ None \notin Arguments /\ None \notin Versions
  /\ \A args \in Arguments :
       args.version \in Versions /\ args.manifest \in Versions \cup {None} /\ args.only \subseteq Extracted

VARIABLES
  stage,    \* "idle", "cleaning", "building", or how the last import ended
  run,      \* its arguments, None before the first, and its manifest
  todo,     \* the datasets it has still to extract
  drawn,    \* the pictures of the one that is due are written
  tables,   \* dataset |-> the version its table in data/generated is from, or None
  pictures, \* dataset |-> the version its pictures are from, or None
  imports

importVars == <<stage, run, todo, drawn, tables, pictures, imports>>

Busy == stage \in {"cleaning", "building"}

\* resolve_manifest_path, load_manifest: the explicit path, or the shipped one of --version.
ManifestFor(args) == manifests[IF args.manifest = None THEN args.version ELSE args.manifest]

\* Mutant of Refused: the hash of the ROM is not looked at.
RefusedUnread(args) == ManifestFor(args) = None
\* version_for_manifest and RomImage
Refused(args) ==
  LET m == ManifestFor(args)
  IN \/ m = None
     \/ args.manifest = None /\ m.sha # args.version
     \/ args.rom # m.sha

\* What an extractor looks up; the intro is looked for before it is read.
Needs(d, m) ==
  CASE d = "text" -> m.labels
    [] d = "maps" -> m.headers
    [] OTHER -> AskedBy[d] \ (OmittedIntro \ DOMAIN m.symbols)

Begin(args) ==
  /\ ~Busy /\ imports < MaxImports
  /\ imports' = imports + 1
  /\ run' = [args |-> args, manifest |-> ManifestFor(args)]
  /\ drawn' = FALSE
  /\ IF Refused(args) THEN stage' = "refused" /\ todo' = {}
     ELSE /\ stage' = IF args.clean THEN "cleaning" ELSE "building"
          /\ todo' = args.only
  /\ UNCHANGED <<tables, pictures>>

\* Mutant of Clean: the pictures go first.
CleanPicturesFirst ==
  /\ stage = "cleaning"
  /\ LET left == {d \in DOMAIN tables : tables[d] # None}
         drawings == {d \in Pictured : pictures[d] # None}
     IN \/ /\ \E d \in drawings : pictures' = [pictures EXCEPT ![d] = None]
           /\ UNCHANGED <<stage, tables>>
        \/ /\ drawings = {}
           /\ tables' = [d \in DOMAIN tables |-> None]
           /\ stage' = "building"
           /\ UNCHANGED pictures
  /\ UNCHANGED <<run, todo, drawn, imports>>
\* shutil.rmtree of the tables, then of the pictures, file by file.
Clean ==
  /\ stage = "cleaning"
  /\ LET left == {d \in DOMAIN tables : tables[d] # None}
         drawings == {d \in Pictured : pictures[d] # None}
     IN \/ /\ \E d \in left : tables' = [tables EXCEPT ![d] = None]
           /\ UNCHANGED <<stage, pictures>>
        \/ /\ left = {}
           /\ \E d \in drawings : pictures' = [pictures EXCEPT ![d] = None]
           /\ UNCHANGED <<stage, tables>>
        \/ /\ left \cup drawings = {}
           /\ stage' = "building"
           /\ UNCHANGED <<tables, pictures>>
  /\ UNCHANGED <<run, todo, drawn, imports>>

\* The first of those that are still to be extracted.
Due(d) == d \in todo /\ \A e \in todo \ {d} : Before(d, e)

\* What the ROM has at the places the manifest gives.
Read(d) ==
  IF \A n \in Needs(d, run.manifest) : run.manifest.symbols[n] = Place(run.args.rom, n)
  THEN run.args.rom ELSE Garbled

\* A symbol the dataset looks up is missing.
Lacking(d) == ~ Needs(d, run.manifest) \subseteq DOMAIN run.manifest.symbols

Draw(d) ==
  /\ stage = "building" /\ Due(d) /\ ~drawn
  /\ ~Lacking(d)
  /\ drawn' = TRUE
  /\ pictures' = [p \in Pictured |-> IF p = d THEN Read(d) ELSE pictures[p]]
  /\ UNCHANGED <<stage, run, todo, tables, imports>>

WriteTable(d) ==
  /\ stage = "building" /\ Due(d) /\ drawn
  /\ tables' = [tables EXCEPT ![d] = Read(d)]
  /\ todo' = todo \ {d}
  /\ drawn' = FALSE
  /\ UNCHANGED <<stage, run, pictures, imports>>

\* "required symbol ... is missing" ends the import where it stands, perhaps among the pictures.
Fail(d) ==
  /\ stage = "building" /\ Due(d) /\ ~drawn /\ Lacking(d)
  /\ stage' = "failed"
  /\ pictures' \in {pictures, [p \in Pictured |-> IF p = d THEN run.args.rom ELSE pictures[p]]}
  /\ UNCHANGED <<run, todo, drawn, tables, imports>>

Complete ==
  /\ stage = "building" /\ todo = {}
  /\ stage' = "done"
  /\ UNCHANGED <<run, todo, drawn, tables, pictures, imports>>

\* The process is killed, or the disk is full.
Kill ==
  /\ Busy
  /\ stage' = IF stage = "cleaning" THEN "half clean" ELSE "killed"
  /\ UNCHANGED <<run, todo, drawn, tables, pictures, imports>>

ImportInit ==
  /\ ManifestsInit
  /\ stage = "idle" /\ run = [args |-> None, manifest |-> None] /\ todo = {} /\ drawn = FALSE /\ imports = 0
  /\ tables = [d \in Extracted |-> None]
  /\ pictures = [d \in Pictured |-> None]

ImportNext ==
  \/ ManifestsNext /\ UNCHANGED importVars
  \/ /\ UNCHANGED manifestVars
     /\ \/ \E args \in Arguments : Begin(args)
        \/ \E d \in Extracted : Draw(d) \/ WriteTable(d) \/ Fail(d)
        \/ Clean \/ Complete \/ Kill

ImportSpec == ImportInit /\ [][ImportNext]_<<manifestVars, importVars>>

-----------------------------------------------------------------------------
ImportTypeOK ==
  /\ stage \in {"idle", "cleaning", "building", "refused", "failed", "half clean", "killed", "done"}
  /\ run.args = None <=> stage = "idle"
  /\ todo \subseteq Extracted
  /\ tables \in [Extracted -> Versions \cup {Garbled, None}]
  /\ pictures \in [Pictured -> Versions \cup {Garbled, None}]
  /\ drawn => stage \in {"building", "killed"} /\ todo # {}

\* What is there changes only under an import whose ROM has the hash of its manifest, so that
\* one that is refused leaves everything as it was, with --clean too.
RefusedTouchesNothing ==
  [][<<tables, pictures>>' # <<tables, pictures>> => run.args.rom = run.manifest.sha]_<<manifestVars, importVars>>

\* An import that says it is done has written every dataset it was asked for from its ROM,
\* and after --clean there is nothing else.
DoneIsWhole ==
  stage = "done" =>
    /\ \A d \in run.args.only : tables[d] = run.args.rom /\ (d \in Pictured => pictures[d] = run.args.rom)
    /\ run.args.clean => \A d \in Extracted \ run.args.only : tables[d] = None

\* Wherever an import stops, a table has its pictures; after --clean they are of one version,
\* and the icons find the overworld sheets they name if all was asked for.
TablesHavePictures ==
  /\ \A d \in Pictured : tables[d] # None => pictures[d] # None
  /\ stage \in {"building", "failed", "killed", "done"} /\ run.args.clean =>
       /\ \A d \in Pictured : tables[d] # None => tables[d] = pictures[d]
       /\ run.args.only = Extracted /\ tables["icons"] # None => pictures["sprites"] = tables["icons"]

\* Only an import of Yellow stops for want of a symbol.
RedAndBlueComplete == stage = "failed" => run.args.rom = "yellow"

\* What an import leaves behind, however it ends.
ImportIsWhole == DoneIsWhole /\ TablesHavePictures /\ RedAndBlueComplete
=============================================================================
