SPECIFICATION PairingSpec
CONSTANTS
    Phones = {p1, p2}
    CodeMaxFails = 3
    PairMaxFails = 2
    Plans <- PairingPlans
INVARIANTS
    OneDevicePerCode
    ShownCodeWorks
PROPERTIES
    CodeIsKept
    PairingIsSeen
CHECK_DEADLOCK FALSE
