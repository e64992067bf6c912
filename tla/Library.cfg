SPECIFICATION Spec
CONSTANTS
  Formats <- MCFormats
  IntHalf = 16
  LongHalf = 64
  Paths <- MCPaths
  Texts <- MCTexts
  Code <- MCCode
  Room = 4
  HeapStart = 6
  HeapSize = 25
  PageSize = 4
  EntrySize = 1
  MostPages = 3
INVARIANTS
  PrintsFormat
  TokensAreNames
  StringsRight
  HeapSound
\* A call ends, and a call of the allocator may hang.
CHECK_DEADLOCK FALSE
