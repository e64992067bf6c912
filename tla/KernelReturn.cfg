SPECIFICATION Spec
CONSTANTS
  N = 2
  KernelTicks = FALSE
  KernelIrqs = FALSE
  LoadMayFail = FALSE
  Callers <- MCCallers
  MaxNest = 2
PROPERTY ReturnsWhereHandlerSaid
CHECK_DEADLOCK FALSE
