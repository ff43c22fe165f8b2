------------------------------ MODULE RomArtwork ------------------------------
(***************************************************************************)
(* The pictures tools/verify_rom_data.py compares: battle pictures,        *)
(* overworld sheets, party icons and the fonts.  A line of a picture is    *)
(* one more 8x8 tile of its PNG.                                           *)
(***************************************************************************)
EXTENDS RomPictures, FiniteSets

Tiles(source, k) == Column(Lines(source, k), LAMBDA l : l.tile)

-----------------------------------------------------------------------------
\* Battle pictures are square; the compressor keeps the shortest of five encodings, and none
\* decodes to another picture, unless the first plane ended in a packet and the second begins
\* with one.  A stream cut short is refused.
Encodings == ({0, 1, 2} \X {0, 1}) \ {<<0, 0>>}

Carries(tiles, width, e) ==
  LET data == Graphics2bpp(Transposed(tiles, width))
      Plane(n) == [i \in 1..(width * width * 8) |-> data[(2 * i) - 1 + n]]
      first == CompressPlane(Plane(e[2]), width)
      second == [i \in DOMAIN first |-> IF e[1] = 0 THEN Plane(1 - e[2])[i] ELSE Plane(1 - e[2])[i] ^^ Plane(e[2])[i]]
  IN /\ Last(GroupsOf(first, width)) # 0
     /\ GroupsOf(IF e[1] = 1 THEN second ELSE CompressPlane(second, width), width)[1] # 0

PicturesAgreeOn(source) ==
  LET tiles == Tiles(source, "tile")
  IN /\ \A width \in {w \in 1..3 : w * w = Len(tiles)}, e \in Encodings :
          LET bits == Compressed(tiles, width, e[1], e[2])
          IN \/ Carries(tiles, width, e)
             \/ /\ CompressedPic(bits) = ConvertImage(GrayOf(tiles, width), "matte")
                /\ DecompressPic(Front(bits)) = Invalid
     /\ \A across \in {w \in 1..Len(tiles) : Len(tiles) % w = 0} :
          LET high == Len(tiles) \div across
          IN /\ ColumnsToRows(Graphics2bpp(ByColumns(tiles, across)), across, high, 16) = Graphics2bpp(tiles)
             /\ Decode2bpp(Graphics2bpp(tiles), 8 * across, 8 * high, TRUE) = ConvertImage(GrayOf(tiles, across), "color0")

-----------------------------------------------------------------------------
\* data/sprites/sprites.asm names a sheet of gfx/sprites.asm and its tiles, half of a walker's.
SheetOf(label) == Sheets[CHOOSE i \in DOMAIN Sheets : Sheets[i].label = label]
AtlasOf(sheet) == GrayOf(sheet.tiles, sheet.across)

SpriteDef(picture) ==
  IF picture = Invalid THEN Invalid
  ELSE [picture |-> picture, frames |-> Height(picture) \div 16, walker |-> Height(picture) \div 16 >= 6]

SourceSprite(l) == SpriteDef(ConvertImage(AtlasOf(SheetOf(l.label)), "color0"))

SpriteGraphics == [i \in DOMAIN Sheets |-> Graphics2bpp(Sheets[i].tiles)]

SheetRow(l) ==
  LowHigh(Start(SpriteGraphics, CHOOSE i \in DOMAIN Sheets : Sheets[i].label = l.label)) \o <<(l.tiles * 16) % 256, 1>>

\* sprite_metadata
SpriteSize(label) == [width |-> Width(AtlasOf(SheetOf(label))), height |-> Height(AtlasOf(SheetOf(label)))]

ReadPicture(at, size) ==
  Decode2bpp(Bytes(FlattenSeq(SpriteGraphics), at, (size.width * size.height) \div 4), size.width, size.height, TRUE)

\* A walker's row counts the standing frames only.
StoredTwice(height) == height \div 16 >= 6

\* The length in the table wins over the atlas, if both halves it stands for come to it.
ExtractSprite(rom, i, label) ==
  LET at == (4 * (i - 1)) + 1
      half == rom[at + 2]
      size == SpriteSize(label)
      Whole(height) == half * (IF StoredTwice(height) THEN 2 ELSE 1)
      length == Whole(size.height)
      height == IF (size.width * size.height) \div 4 = length THEN size.height ELSE (length * 4) \div size.width
  IN IF (length * 4) % size.width # 0 \/ Whole(height) # length THEN Invalid
     ELSE SpriteDef(ReadPicture(Word(rom, at), [size EXCEPT !.height = height]))

\* The bike's and the surfer's sheets stand outside the table and have no length in it.
ExtractRide(label) ==
  SpriteDef(ReadPicture(Start(SpriteGraphics, CHOOSE i \in DOMAIN Sheets : Sheets[i].label = label), SpriteSize(label)))

SheetsAgreeOn(source) ==
  LET lines == Lines(source, "sheet")
      rom == FlattenSeq([i \in DOMAIN lines |-> SheetRow(lines[i])])
      Fits(l) == Len(SheetOf(l.label).tiles) = l.tiles * (IF Len(SheetOf(l.label).tiles) >= 24 THEN 2 ELSE 1)
  IN /\ \A i \in DOMAIN lines :
          LET read == ExtractSprite(rom, i, lines[i].label)  known == SourceSprite(lines[i])
          IN IF Fits(lines[i]) THEN read = known
             ELSE read = Invalid \/ IsPrefix(read.picture, known.picture) \/ IsPrefix(known.picture, read.picture)
     /\ \A i \in DOMAIN Sheets : ExtractRide(Sheets[i].label) = SourceSprite([label |-> Sheets[i].label])

-----------------------------------------------------------------------------
\* The icons: a nybble per species, and columns of two left halves whose right halves mirror them.
Mirrored(picture) == [y \in DOMAIN picture |-> picture[y] \o Reverse(picture[y])]

SourceIcons(source) ==
  [byDex |-> Column(Lines(source, "icon"), LAMBDA l : l.icon),
   picture |-> IF Len(Tiles(source, "tile")) # 4 THEN Invalid
               ELSE ConvertImage(Mirrored(GrayOf(Tiles(source, "tile"), 1)), "color0")]

ExtractIcons(rom, count, frames) ==
  LET values == Nybbles(rom, count)
      half == Decode2bpp(frames[1] \o frames[2], 8, 32, TRUE)
  IN [byDex |-> [i \in DOMAIN values |-> NameOf(IconOrder, values[i] + 1)],
      picture |-> IF half = Invalid THEN Invalid ELSE Mirrored(half)]

IconsAgreeOn(source) ==
  LET icons == SourceIcons(source).byDex
      column == Graphics2bpp(Tiles(source, "tile"))
      Frame(n) == SubSeq(column, (32 * n) - 31, IF 32 * n <= Len(column) THEN 32 * n ELSE Len(column))
  IN Len(column) <= 64 =>
       ExtractIcons(PackNybbles([i \in DOMAIN icons |-> IndexOf(IconOrder, icons[i]) - 1]), Len(icons), <<Frame(1), Frame(2)>>)
         = SourceIcons(source)

-----------------------------------------------------------------------------
\* The fonts: ink on nothing, and the first two tiles of the extra sheet from the Pokédex's.
Ink(gray) == Repaint(gray, LAMBDA v : IF v < 128 THEN 3 ELSE Clear)

Patched(extra, dex) == [y \in DOMAIN extra |-> [x \in DOMAIN extra[y] |-> IF x <= 16 /\ y <= 8 THEN dex[y][x] ELSE extra[y][x]]]

\* The tile of a sheet, whatever its width: convert_font crops the patches one by one.
Patches(dex) == <<dex[1], dex[2]>>

SourceFonts(main, extra, dex) ==
  <<Ink(GrayOf(main, GlyphsPerRow)), Patched(Ink(GrayOf(extra, GlyphsPerRow)), Ink(GrayOf(Patches(dex), 2)))>>

Dark(shade) == IF shade >= 2 THEN 3 ELSE Clear

ExtractFonts(mainRaw, extraRaw, dexRaw, height) ==
  LET main == Decode1bpp(mainRaw, 8 * GlyphsPerRow, height, TRUE)
      extra == Decode2bpp(extraRaw, 8 * GlyphsPerRow, height, FALSE)
      dex == Decode2bpp(Bytes(dexRaw, 1, 32), 16, 8, FALSE)
  IN <<main, Patched(Repaint(extra, Dark), Repaint(dex, Dark))>>

\* A sheet of the font has one bit a pixel, the others two.
FontsAgreeOn(source) ==
  LET main == Tiles(source, "main")  extra == Tiles(source, "extra")  dex == Tiles(source, "dex")
      Whole == Len(extra) = Len(main) /\ Len(main) > 0 /\ Len(main) % GlyphsPerRow = 0 /\ Len(dex) >= 2
  IN Whole =>
       ExtractFonts(Graphics1bpp(main), Graphics2bpp(extra), Graphics2bpp(dex), 8 * (Len(main) \div GlyphsPerRow))
         = SourceFonts(main, extra, dex)
=============================================================================
