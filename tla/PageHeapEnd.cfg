SPECIFICATION Spec
CONSTANTS
  NumPages = 4
  Gap = 2
  Requests <- MCRequests
INVARIANT BlocksInHeap
CHECK_DEADLOCK FALSE
