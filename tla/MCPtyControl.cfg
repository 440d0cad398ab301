CONSTANTS
  Sessions = {a, b}
  Devices = {p, q}
  Sizes = {0, 1, 3}
  FirstSize = 3
  Narrow = 2
  Wide = 2
  MaxConns = 2
  MaxLive = 2
  MaxServers = 2
SPECIFICATION Spec
INVARIANT
  DesktopSizeKept
PROPERTY HoldsEnd
CHECK_DEADLOCK FALSE
