SPECIFICATION Spec
CONSTANTS
  MAX_BLOCK = 9
  Names = {a, b}
  NoName = NoName
  Chunks = {x, y}
  Blank = Blank
  Words <- MCWords
  MaxSize = 3
  Depth = 2
  Stress = {}
SYMMETRY MCSymmetry
INVARIANTS
  TypeOK
  TreeSound
PROPERTIES
  ImplementsDirectoryTree
