SPECIFICATION ServicesSpec
CONSTANTS
  Size = 4
  Values = {120, 250}
  XResolution = 8
  YResolution = 9
  Pitch = 9
  BitsPerPixel = 4
  GlyphWidth = 2
  GlyphHeight = 3
  WordBits = 3
  CoordinateRange = 65536
  FontFile <- MCFontFile
  Colors <- MCColors
  Mixed <- MCMixed
  Corners <- MCCorners
  Thicknesses = {0, 1, 2, 4}
  Images <- MCImages
  Strings <- MCStrings
  Dumps <- MCDumps
  \* Bytes and nibbles of one bit: addresses of four bits, the top one in the
  \* place of the drive number.
  ByteBase = 2
  NibbleBase = 2
  DiskAddresses = {1, 2, 9}
  MaxSectors = 2
  MaxCalls = 2
  DriveNumbers = {128, 129}
  Counters = {0, 1, 2}
  Frequencies <- MCFrequencies
  Keys <- MCKeys
  Callbacks = {1}
  \* Pages of six units and a header of two; a page counter that ends after two
  \* pages; requests smaller than a header, of a page without it, of more than a
  \* page, of too many pages.
  VMM_PAGE_SIZE = 6
  HeaderSize = 2
  ByteModulus = 3
  malloc_vaddr = 6
  InitSizes = {5, 13}
  Sizes = {1, 4, 8, 17}
  MaxPages = 4
CHECK_DEADLOCK FALSE
INVARIANTS
  GrownIsLast
