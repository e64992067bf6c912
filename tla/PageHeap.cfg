SPECIFICATION FairSpec
CONSTANTS
  NumPages = 4
  Gap = 2
  Requests <- MCRequests
INVARIANTS
  TypeOK
  FlagsEncodeLive
  FreePagesZero
PROPERTIES
  SearchRight
  CallsEnd
  ImplementsBlockStore
\* A call that clears behind the table stops the machine.
CHECK_DEADLOCK FALSE
