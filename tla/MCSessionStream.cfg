CONSTANTS
  MaxOut = 4
  ReadMax = 1
  PendingCap = 1
  EmitChunk = 1
  FlowHigh = 1
  ScrollCap = 3
  ScrollSlack = 0
  QueueCap = 2
  CarryMax = 1
  MaxReloads = 1
SPECIFICATION Spec
INVARIANTS
  ExitAfterFlush
  BoundedMemory
  DebtIsInFlight
  ScreenContiguous
PROPERTIES
  PendingDrains
  ExitFollowsClose
CHECK_DEADLOCK FALSE
