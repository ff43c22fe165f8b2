-------------------------------- MODULE MCParts --------------------------------
(* Small instances of parts that share no state, one at a time: the line     *)
(* framing, modkit's gates and its translation command, the import with its  *)
(* manifests, the development server's proxy, the migration runner, and two  *)
(* players who trade.  `part` says which part a behaviour is about; the      *)
(* others stay as they begin.                                                *)
EXTENDS JsonLineFraming, ModKitPack, ModKitTranslation, RomImport, DevServer, MigrationRunner, LinkTrade

VARIABLE part

framingVars == vars
romVars == <<manifestVars, importVars>>
partsVars == <<part, framingVars, packVars, translationVars, romVars, proxyVars, migrationVars, tradeVars>>

PartsInit ==
  /\ part \in {"framing", "pack", "translation", "import", "proxy", "migration", "trade"}
  /\ Init            /\ (part = "framing" \/ (lines = <<>> /\ transport = "tcp"))
  /\ PackInit        /\ (part = "pack" \/ env = {})
  /\ TranslationInit /\ (part = "translation" \/ imported)
  /\ ImportInit      /\ (part = "import" \/ trees = [v \in Versions |-> Whole(v)])
  /\ ProxyInit
  /\ MigrationInit
  /\ IF part = "trade" THEN TradeInit
     ELSE pairing = "same" /\ modified = FALSE /\ relay = FALSE /\ party = [s \in Player |-> <<"shared">>] /\ JustPaired

Turns(p, Step, others) == part = p /\ Step /\ UNCHANGED <<part, others>>

PartsNext ==
  \/ Turns("framing", Next, <<packVars, translationVars, romVars, proxyVars, migrationVars, tradeVars>>)
  \/ Turns("pack", PackNext, <<framingVars, translationVars, romVars, proxyVars, migrationVars, tradeVars>>)
  \/ Turns("translation", TranslationNext, <<framingVars, packVars, romVars, proxyVars, migrationVars, tradeVars>>)
  \/ Turns("import", ImportNext, <<framingVars, packVars, translationVars, proxyVars, migrationVars, tradeVars>>)
  \/ Turns("proxy", ProxyNext, <<framingVars, packVars, translationVars, romVars, migrationVars, tradeVars>>)
  \/ Turns("migration", MigrationNext, <<framingVars, packVars, translationVars, romVars, proxyVars, tradeVars>>)
  \/ Turns("trade", TradeNext, <<framingVars, packVars, translationVars, romVars, proxyVars, migrationVars>>)

PartsSpec == PartsInit /\ [][PartsNext]_partsVars

\* Each part's variables keep their types and the bounds of its buffers.
PartsTypeOK ==
  CASE part = "framing"     -> FramingTypeOK
    [] part = "pack"        -> PackTypeOK
    [] part = "translation" -> TranslationTypeOK
    [] part = "import"      -> ImportTypeOK
    [] part = "proxy"       -> ProxyTypeOK
    [] part = "migration"   -> MigrationTypeOK
    [] part = "trade"       -> TradeTypeOK

-----------------------------------------------------------------------------
\* Two messages, one with a character beyond ASCII, a blank line, a line that is not JSON and
\* one of no known type.
McLines == {<<"b", "nl">>, <<"a", "lead", "cont", "b", "nl">>, <<"nl">>, <<"a", "bad", "nl">>, <<"odd", "nl">>}

\* A kind of file for most of the rules, and one that no rule and no package knows.
McKind == {"script", "hidden", "doc", "reach", "dangling", "recipe", "table", "dump", "patch", "near"}

\* A few symbols of each kind: found everywhere, renamed, dropped, missing from Yellow.
McDirect == {"BaseStats", "MewBaseStats", "SpriteTable", "TypeEffects", "FightIntro", "CryData"}
McAsked == [sprites |-> {"SpriteTable"}, icons |-> {"SpriteTable"}, field |-> {"TypeEffects", "FightIntro"}]
McAliases == [SlowbroText |-> "ElectrodeText", LastMonText |-> Dropped]
McRenames == [TradeHouse_h |-> "MelaniesHouse_h"]

RedTree ==
  [labels |-> {"OakText", "SlowbroText", "LastMonText"}, headers |-> {"PalletTown_h", "TradeHouse_h"}, pointers |-> {},
   songs |-> {"Music_Pallet"}, music |-> {"Music_Pallet", "Music_IntroBattle"}, presets |-> "swapped",
   symbols |-> McDirect \cup {"OakText", "SlowbroText", "LastMonText", "PalletTown_h", "TradeHouse_h",
                              "Music_Pallet", "Music_IntroBattle"}]
YellowTree ==
  [labels |-> {"OakText", "ElectrodeText"}, headers |-> {"PalletTown_h", "MelaniesHouse_h"},
   pointers |-> {"ChanseyText"}, songs |-> {"Music_Pallet"}, music |-> {}, presets |-> "swapped",
   symbols |-> (McDirect \ {"MewBaseStats", "FightIntro"})
     \cup {"OakText", "ElectrodeText", "MelanieText", "ChanseyText", "PalletTown_h", "MelaniesHouse_h",
           "TitlePikachu", "Music_Pallet", "Music_YellowIntro", "Music_GBPrinter"}]
Without(tree, names) == {tree} \cup {[tree EXCEPT !.symbols = @ \ {n}] : n \in names}
Unswapped(tree) == [tree EXCEPT !.presets = "same"]
McTrees ==
  [red |-> Without(RedTree, {"OakText", "TypeEffects"}),
   blue |-> Without(RedTree, {"TradeHouse_h"}) \cup {Unswapped(RedTree)},
   yellow |-> Without(YellowTree, {"TypeEffects", "ElectrodeText", "BaseStats", "ChanseyText"}) \cup {Unswapped(YellowTree)}]

McDatasets == <<"maps", "sprites", "icons", "text", "field">>
AllDatasets == {McDatasets[i] : i \in DOMAIN McDatasets}
McArgs(version, given, rom, clean, only) ==
  [version |-> version, manifest |-> given, rom |-> rom, clean |-> clean, only |-> only]
\* Each version's own ROM, part of the datasets, an explicit manifest, and ROMs that do not fit.
McArguments ==
  {McArgs(v, None, v, v # "red", AllDatasets) : v \in Versions}
    \cup {McArgs("yellow", None, "yellow", FALSE, AllDatasets),
          McArgs("yellow", None, "yellow", FALSE, {"text"}), McArgs("blue", None, "blue", TRUE, {"icons"}),
          McArgs("red", "yellow", "yellow", TRUE, {"text", "icons"}),
          McArgs("red", None, "yellow", TRUE, AllDatasets), McArgs("blue", None, "other", TRUE, {"text"})}

\* A Pokémon the other game does not know before one it shares, and one it shares before one
\* it rebuilds otherwise.
McParties == {<<"unknown", "shared">>, <<"shared", "differs">>}
=============================================================================
