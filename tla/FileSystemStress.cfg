SPECIFICATION ImageSpec
CONSTANTS
  MaxFiles = 3
  MAX_BLOCK = 8
  Names = {a, b}
  NoName = NoName
  Chunks = {x, y}
  Blank = Blank
  Words <- MCWords
  MaxSize = 2
  Depth = 2
  Stress = {"crash", "full", "stray"}
SYMMETRY MCSymmetry
INVARIANTS
  ImageHoldsFiles
  CrashKeepsFiles
PROPERTIES
  FilesKept
  OnlyRmdirLoses
CHECK_DEADLOCK FALSE
