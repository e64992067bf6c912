CONSTANTS
  Days <- AllDays
  MaxTyped = 2
SPECIFICATION Spec
INVARIANTS
  TypeOK
  SwitchKeepsContext
  HangsOnlyIfDisturbed
  EchoedInOrder
PROPERTIES
  InterruptInvisible
  LoopLives
  TickServed
CHECK_DEADLOCK FALSE
