SPECIFICATION Spec
CONSTANTS
    None = None
    Gold = Gold
    Silver = Silver
    Given = Given
    A = A
    B = B
    C = C
    LastInstant = 1
    Top = 6
    Worlds <- MCWorlds
CHECK_DEADLOCK FALSE
INVARIANTS
    EstablishedIsTrue
    RefusalIsTrue
    FloorsAreTrue
    SelectionIsTrue
