------------------------------ MODULE ModKitPack ------------------------------
(***************************************************************************)
(* The gates of tools/modkit.py: scaffold, validate, lint and pack over    *)
(* one mod directory, while its author edits it and the player's dataset   *)
(* comes and goes.                                                         *)
(*                                                                         *)
(* A file is what the rules can tell of it, its kind, and its version; a   *)
(* directory holds at most one file of each kind.  pack checks, lists,     *)
(* hashes and zips the directory in four passes.                           *)
(***************************************************************************)
EXTENDS Naturals, FiniteSets

CONSTANTS
  Kind,      \* the kinds of file the author may write
  MaxEdits,  \* bound: changes to the mod and to the machine
  MaxPacks   \* bound: packages made

KnownKinds == {
  "script",     \* Lua against the mod API
  "reach",      \* Lua that requires an engine module
  "typo",       \* Lua that patches an id which the vanilla data lacks
  "dangling",   \* Lua whose records refer to nothing
  "recipe",     \* transforms.lua, which may speak of the player's cache
  "cacheRef",   \* another script that names the generated trees
  "table",      \* Lua named like a generated module: lang/font.lua
  "dump",       \* such a module with the vanilla keys
  "shadow",     \* a file below assets/generated or data/generated
  "patch",      \* a ROM image or ROM-hack patch
  "bank",       \* a blob the size of ROM banks, or programs.bin
  "copy",       \* art identical to a file of the cache
  "near",       \* art the perceptual hash takes for a recolour
  "doc",        \* README.md and whatever else no rule looks at
  "hidden" }    \* .git, .github, .gitkeep, editor folders

ASSUME KindsAreKnown == Kind \subseteq KnownKinds

VARIABLES
  manifest,   \* the fields of manifest.json that the rules read
  files,      \* the version of each file; 0 is no file
  env,        \* what the machine has: the imported dataset, luajit, Pillow
  job,        \* the running pack: its pass, its list and what it has hashed and zipped
  package,    \* the .modpkg on disk: its entries, whether pack.json is among them and
              \* what that records; and, for the properties, the machine it was made on
              \* and whether nothing was changed meanwhile
  touched,    \* history: something was changed since pack began
  edits, packs

packVars == <<manifest, files, env, job, package, touched, edits, packs>>

Profile == {"content", "overhaul", "total_conversion", "translation"}
Permission == {"network", "engine_internals"}
Github == {"none", "slug", "malformed"}

Manifest == [ok : BOOLEAN, permissions : SUBSET (Permission \cup {"unheard of"}),
             github : Github, transforms : BOOLEAN, api : {1, 2}]
NoManifest == [ok |-> FALSE, permissions |-> {}, github |-> "none", transforms |-> FALSE, api |-> 1]

Has(tool) == tool \in env

Present == {k \in Kind : files[k] > 0}

\* Mutant of ModFiles: .git and .github are not left out.
Everything == Present
\* mod_files: what a package would carry.
ModFiles == Present \ {"hidden"}

-----------------------------------------------------------------------------
(* Findings.  Each rule is a set of <<rule, severity>>.                    *)

Error(rule) == {<<rule, "error">>}
Warn(rule) == {<<rule, "warn">>}

CheckManifest == IF manifest.ok THEN {} ELSE Error("MK001")

CheckGithub == IF manifest.github = "malformed" THEN Error("MK001") ELSE {}

CheckPermissions == IF manifest.permissions \subseteq Permission THEN {} ELSE Error("MK005")

\* The loader runs for real: over the imported dataset a stray patch is an error, over
\* the fixture it is only a note, and a dangling reference is fatal for api 2 alone.
\* An unknown permission has been named already.
RunLoader ==
  IF ~Has("luajit") THEN Error("MK100")
  ELSE (IF "typo" \in ModFiles /\ Has("dataset") THEN Error("MK103") ELSE {})
         \cup (IF "dangling" \in ModFiles
                 THEN IF manifest.api = 2 THEN Error("MK102") ELSE Warn("MK102") ELSE {})

CheckRequires ==
  IF "reach" \in ModFiles /\ "engine_internals" \notin manifest.permissions THEN Warn("MK006") ELSE {}

\* The rule a file of this kind meets first in lint_dir, which goes on to the next file
\* with the first error; CacheIndex is empty when nothing has been imported.
LintFile(k) ==
  CASE k = "shadow" -> Error("MK301")
    [] k = "cacheRef" -> Error("MK301")
    [] k = "recipe" -> IF manifest.transforms THEN {} ELSE Error("MK301")
    [] k = "patch" -> Error("MK303")
    [] k = "bank" -> Error("MK304")
    [] k = "copy" -> IF Has("dataset") THEN Error("MK302") ELSE {}
    [] k = "near" -> IF ~Has("dataset") \/ ~Has("Pillow") THEN {}
                     ELSE IF manifest.transforms THEN Warn("MK302") ELSE Error("MK302")
    [] k \in {"table", "dump"} ->
         IF ~Has("dataset") THEN Warn("MK305")
         ELSE IF ~Has("luajit") THEN Error("MK100")
         ELSE IF k = "dump" THEN Error("MK305") ELSE {}
    [] OTHER -> {}

\* Mutant of LintDir: art is not compared with the cache.
LintTexts == UNION {LintFile(k) : k \in ModFiles \ {"copy", "near"}}
LintDir == UNION {LintFile(k) : k \in ModFiles}

ValidateFindings ==
  IF manifest.ok THEN CheckGithub \cup CheckPermissions \cup RunLoader \cup CheckRequires \cup LintDir
                 ELSE CheckManifest

\* Mutant of PackFindings: require is not looked at.
PackWithoutRequires ==
  IF manifest.ok THEN CheckPermissions \cup RunLoader \cup LintDir ELSE CheckManifest
PackFindings ==
  IF manifest.ok THEN CheckPermissions \cup RunLoader \cup CheckRequires \cup LintDir
                 ELSE CheckManifest

LintFindings == CheckManifest \cup LintDir

\* report: the exit code.
Exit(findings, strict) ==
  IF \E f \in findings : strict \/ f[2] = "error" THEN 1 ELSE 0

-----------------------------------------------------------------------------
(* Commands that write into the mod.                                       *)

NoPack == [pass |-> "none", list |-> {}, hashed |-> [k \in Kind |-> 0], zipped |-> [k \in Kind |-> 0]]
NoPackage == [entries |-> [k \in Kind |-> 0], records |-> [k \in Kind |-> 0], meta |-> FALSE,
              quiet |-> FALSE, env |-> {}]

Templates(profile) ==
  CASE profile = "total_conversion" -> {"script", "doc", "hidden", "recipe"}
    [] profile = "translation" -> {"script", "doc", "hidden", "table"}
    [] OTHER -> {"script", "doc", "hidden"}

\* Without --force only where there is no mod yet; with it over whatever is there.
Scaffold(profile, github, force) ==
  /\ job.pass = "none"
  /\ force \/ (Present = {} /\ manifest = NoManifest)
  /\ github # "malformed"
  /\ profile = "translation" => github = "none" /\ Present = {} /\ manifest = NoManifest
  /\ Templates(profile) \subseteq Kind
  /\ manifest' = [ok |-> TRUE, permissions |-> {}, github |-> github,
                  transforms |-> profile = "total_conversion", api |-> 2]
  /\ files' = [k \in Kind |-> IF k \in Templates(profile) THEN 1 ELSE files[k]]
  /\ UNCHANGED <<env, job, package, touched, edits, packs>>

\* set-github normalises what it is given and refuses what it cannot.
SetGithub ==
  /\ job.pass = "none" /\ manifest.ok
  /\ manifest' = [manifest EXCEPT !.github = "slug"]
  /\ UNCHANGED <<files, env, job, package, touched, edits, packs>>

\* add-release-workflow writes .github/workflows/release.yml, which no package carries.
AddReleaseWorkflow ==
  /\ job.pass = "none" /\ manifest.ok /\ "hidden" \in Kind
  /\ files' = [files EXCEPT !["hidden"] = 1]
  /\ UNCHANGED <<manifest, env, job, package, touched, edits, packs>>

-----------------------------------------------------------------------------
(* The author and the machine, at any time.                                *)

Edit == /\ edits < MaxEdits
        /\ edits' = edits + 1
        /\ touched' = TRUE

\* A second version of a file matters only to a pack that has seen the first.
Save(k) ==
  /\ Edit
  /\ files[k] = 0 \/ (files[k] = 1 /\ job.pass # "none")
  /\ files' = [files EXCEPT ![k] = @ + 1]
  /\ UNCHANGED <<manifest, env, job, package, packs>>

Delete(k) ==
  /\ Edit
  /\ files[k] > 0
  /\ files' = [files EXCEPT ![k] = 0]
  /\ UNCHANGED <<manifest, env, job, package, packs>>

\* One field at a time.
EditManifest ==
  /\ Edit
  /\ \/ \E ok \in BOOLEAN : manifest' = [manifest EXCEPT !.ok = ok]
     \/ \E p \in {{}, {"engine_internals"}, {"unheard of"}} : manifest' = [manifest EXCEPT !.permissions = p]
     \/ \E g \in Github : manifest' = [manifest EXCEPT !.github = g]
     \/ manifest' = [manifest EXCEPT !.transforms = ~@]
     \/ \E a \in {1, 2} : manifest' = [manifest EXCEPT !.api = a]
  /\ UNCHANGED <<files, env, job, package, packs>>

MachineChanges ==
  /\ Edit
  /\ \E has \in {"dataset", "luajit", "Pillow"} :
       env' = IF has \in env THEN env \ {has} ELSE env \cup {has}
  /\ UNCHANGED <<manifest, files, job, package, packs>>

-----------------------------------------------------------------------------
(* pack.                                                                   *)

\* Any finding refuses the package, warnings too.
PackBegins ==
  /\ job.pass = "none" /\ packs < MaxPacks
  /\ PackFindings = {}
  /\ job' = [NoPack EXCEPT !.pass = "list"]
  /\ touched' = FALSE
  /\ packs' = packs + 1
  /\ UNCHANGED <<manifest, files, env, package, edits>>

List ==
  /\ job.pass = "list"
  /\ job' = [job EXCEPT !.pass = "hash", !.list = ModFiles]
  /\ UNCHANGED <<manifest, files, env, package, touched, edits, packs>>

\* A listed file that has gone meanwhile ends the command: open raises.
Stops == /\ job' = NoPack
         /\ UNCHANGED <<manifest, files, env, touched, edits, packs>>

Hash ==
  /\ job.pass = "hash"
  /\ IF job.list \subseteq Present
       THEN /\ job' = [job EXCEPT !.pass = "zip", !.hashed = [k \in Kind |-> IF k \in job.list THEN files[k] ELSE 0]]
            /\ package' = package
            /\ UNCHANGED <<manifest, files, env, touched, edits, packs>>
       ELSE Stops /\ UNCHANGED package

\* Mutant of Zip: a file that has gone is left out.
ZipWhatIsThere(k) ==
  /\ job.pass = "zip" /\ k \in job.list
  /\ job' = [job EXCEPT !.list = @ \ {k}, !.zipped[k] = files[k]]
  /\ UNCHANGED <<manifest, files, env, package, touched, edits, packs>>
\* The archive is opened anew and gets one entry after the other; when one cannot be
\* read the archive is closed with the entries it has.
Zip(k) ==
  /\ job.pass = "zip" /\ k \in job.list
  /\ IF k \in Present
       THEN /\ job' = [job EXCEPT !.list = @ \ {k}, !.zipped[k] = files[k]]
            /\ package' = package
            /\ UNCHANGED <<manifest, files, env, touched, edits, packs>>
       ELSE Stops /\ package' = [NoPackage EXCEPT !.entries = job.zipped]

\* pack.json goes in last.
Seal ==
  /\ job.pass = "zip" /\ job.list = {}
  /\ package' = [entries |-> job.zipped, records |-> job.hashed, meta |-> TRUE,
                 quiet |-> ~touched, env |-> env]
  /\ Stops

-----------------------------------------------------------------------------
PackInit ==
  /\ manifest = NoManifest
  /\ files = [k \in Kind |-> 0]
  /\ env \in SUBSET {"dataset", "luajit", "Pillow"}
  /\ job = NoPack
  /\ package = NoPackage
  /\ touched = FALSE
  /\ edits = 0 /\ packs = 0

PackNext ==
  \/ \E profile \in Profile, github \in {"none", "slug"}, force \in BOOLEAN : Scaffold(profile, github, force)
  \/ SetGithub
  \/ AddReleaseWorkflow
  \/ \E k \in Kind : Save(k)
  \/ \E k \in Kind : Delete(k)
  \/ EditManifest
  \/ MachineChanges
  \/ PackBegins
  \/ List
  \/ Hash
  \/ \E k \in Kind : Zip(k)
  \/ Seal

PackSpec == PackInit /\ [][PackNext]_packVars

-----------------------------------------------------------------------------
\* Every variable keeps its type.
PackTypeOK ==
  /\ manifest \in Manifest
  /\ files \in [Kind -> 0..2]
  /\ job.pass \in {"none", "list", "hash", "zip"}
  /\ job.list \subseteq Kind \ {"hidden"}
  /\ {job.hashed, job.zipped, package.entries, package.records} \subseteq [Kind -> 0..2]

\* An archive that has its pack.json has every file it records, and when nobody wrote
\* into the mod meanwhile each one as it was hashed.  A pack that fails on the way
\* leaves an archive without pack.json.
PackageIsWhole ==
  package.meta =>
    /\ {k \in Kind : package.entries[k] > 0} = {k \in Kind : package.records[k] > 0}
    /\ package.quiet => package.entries = package.records

\* The gate's purpose: a package made undisturbed, on a machine that has the dataset to
\* compare with and the tools to compare, holds nothing made from the ROM.
ShippedIsClean ==
  package.meta /\ package.quiet /\ package.env = {"dataset", "luajit", "Pillow"} =>
    \A k \in {"cacheRef", "dump", "shadow", "patch", "bank", "copy", "near"} \cap Kind :
      package.entries[k] = 0

\* pack runs validate --strict: whatever it completes undisturbed, validate --strict
\* passes at that moment, but for the github field, which pack does not look at.
PackMeansValid ==
  [][~package.meta /\ package'.meta /\ package'.quiet =>
       Exit(ValidateFindings \ CheckGithub, TRUE) = 0]_packVars

\* What a package promises the one who installs it.
PackageIsFit == PackageIsWhole /\ ShippedIsClean
=============================================================================
