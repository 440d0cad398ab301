CONSTANTS
  BusyHold = 1
  DoneMin = 2
  DoneQuiet = 2
  HookStale = 3
  Grain = 2
  ActTime = 1
  MaxStops = 2
SPECIFICATION Spec
INVARIANTS
  DonePerStop
  NoticesAreRight
PROPERTIES
  DoneNeedsOutput
  WaitingIsAsked
  RunningEnds
CHECK_DEADLOCK FALSE
