CONSTANTS
  Lines <- McLines
  MaxLines = 3
  MaxBufferBytes = 6
  MaxPayload = 6
  Kind <- McKind
  MaxEdits = 2
  MaxPacks = 1
  Labels = {1}
  FixtureKeys = {}
  Literals = {2}
  MaxRuns = 3
  MaxCrashes = 1
  MaxChanges = 2
  None = None
  Dropped = Dropped
  Garbled = Garbled
  DirectSymbols <- McDirect
  OmittedIntro = {"FightIntro"}
  ExtraSymbols = {"TitlePikachu"}
  ExtraLabels = {"MelanieText"}
  ExtraSongs = {"Music_GBPrinter"}
  Aliases <- McAliases
  MapRenames <- McRenames
  BlueMoved = {"TradeHouse_h"}
  Trees <- McTrees
  MaxTreeEdits = 1
  Datasets <- McDatasets
  Pictured = {"sprites", "icons", "field"}
  AskedBy <- McAsked
  Arguments <- McArguments
  MaxImports = 2
  Room = 2
  Chunk = 2
  MaxBytes = 3
  Runner = {r1, r2}
  r1 = r1
  r2 = r2
  LastScript = 2
  MaxScriptEdits = 1
  MaxTroubles = 2
  Absent = Absent
  Unset = Unset
  Parties <- McParties
SPECIFICATION PartsSpec
INVARIANTS
  PartsTypeOK
  HandledAsWritten
  PackageIsFit
  KnownWorkStays
  FinishedIsWhole
  ManifestsFit
  ImportIsWhole
  StreamArrives
  LedgerIsTrue
  LinkIsFair
PROPERTIES
  PackMeansValid
  HandworkStays
  RefusedTouchesNothing
CHECK_DEADLOCK FALSE
