CONSTANTS
  Invalid = Invalid
  MapOrder <- McMaps
  TilesetOrder <- McTilesets
  SpriteOrder <- McSprites
  SpeciesOrder <- McSpecies
  DexOrder <- McDex
  ItemOrder <- McItems
  MoveOrder <- McMoves
  TextNames <- McTexts
  TypeOrder <- McTypes
  Machines <- McMachines
  MapWidth = 2
  MapHeight = 1
  Slots = 2
  Charmap <- McCharmap
  SheetTiles <- McSheetTiles
  Effects <- McEffects
  BaseCoords = 177
  MiscAnims <- McMisc
  Sheets <- McSheets
  IconOrder <- McIcons
  GlyphsPerRow = 2
  PaletteOrder <- McPalettes
  DexSpecies <- McDex
  Drafts <- McDrafts
SPECIFICATION SourcesSpec
INVARIANTS
  SourcesAgree
CHECK_DEADLOCK FALSE
