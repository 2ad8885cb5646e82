SPECIFICATION Spec
CONSTANTS
    R = 2
    Horizon = 5
    M5Minutes = 2
    Missing = Missing
    Shapes <- MCShapes
    Extremes <- MCExtremes
    Evidences <- MCEvidences
CHECK_DEADLOCK FALSE
INVARIANTS
    TypeOK
    PairsAreExactlyThePaths
    TighterExitsFirst
    ProtectionIsEarned
    DNeverStarves
PROPERTIES
    NothingIsBackdated
    GateOfEIsDecided
