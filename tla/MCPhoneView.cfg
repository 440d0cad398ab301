SPECIFICATION ViewSpec
CONSTANTS
 s1 = s1
 s2 = s2
 Sessions = {s1, s2}
 First = {s1}
 MaxConns = 2
 MaxReqs = 1
 MaxUp = 1
 MaxEv = 2
 MaxDown = 1
 MaxActs = 3
 MaxOthers = 1
 
PROPERTIES LateCreateStays NoPingPong
CHECK_DEADLOCK FALSE
