SPECIFICATION Spec
CONSTANTS
  N = 2
  KernelTicks = TRUE
  KernelIrqs = TRUE
  LoadMayFail = TRUE
  Callers <- MCCallers
  MaxNest = 2
INVARIANTS
  LockHandOff
  StopsOnlyIfDisturbed
\* The hart stops at an illegal instruction or a page fault.
CHECK_DEADLOCK FALSE
