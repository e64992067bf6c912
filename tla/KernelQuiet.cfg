SPECIFICATION FairSpec
CONSTANTS
  N = 3
  KernelTicks = FALSE
  KernelIrqs = FALSE
  LoadMayFail = FALSE
  Callers <- MCCallers
  MaxNest = 2
INVARIANTS
  TypeOK
  FramesBalanced
PROPERTIES
  EveryProcessRuns
  ImplementsRoundRobin
