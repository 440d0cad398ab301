CONSTANTS
  MaxItems = 2
  Folded <- FoldedItems
  Hooked = TRUE
  ScreenEnters = 2
  HookEnters = 2
  MaxSaves = 2
  MaxActs <- FewActs
SPECIFICATION Spec
INVARIANTS
  NothingLost
PROPERTIES
  HookIsRight
  OneDelivery
  PastedOnce
  DeliveryEnds
CHECK_DEADLOCK FALSE
