CONSTANTS
  Sessions = {a, b}
  NoSession = NoSession
  TapCap = 1
  TailCap = 2
  NetCap = 2
  ReqCap = 1
  MaxOut = 3
  MaxDrops = 1
SPECIFICATION Spec
PROPERTIES
  ScreenIsWindow
  PhoneCatchesUp
CHECK_DEADLOCK FALSE
