SPECIFICATION Spec
CONSTANTS
 MaxCalls = 2
 MaxChanges = 1
INVARIANTS StoppedIsQuiet
PROPERTIES Reconnects RevokedIsTold
CHECK_DEADLOCK FALSE
