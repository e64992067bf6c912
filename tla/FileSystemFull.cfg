SPECIFICATION Spec
CONSTANTS
  MAX_BLOCK = 8
  Names = {a}
  NoName = NoName
  Chunks = {x, y}
  Blank = Blank
  Words <- MCWords
  MaxSize = 2
  Depth = 1
  Stress = {"full", "bare"}
PROPERTY ReturnTellsEffect
CHECK_DEADLOCK FALSE
