SPECIFICATION Spec
CONSTANTS
    Duration <- MCDuration
    TimeframeOrder <- MCOrder
    Openings <- MCOpenings
    Shapes <- MCShapes
    Profiles <- MCProfiles
    Deliveries <- MCDeliveries
    Conditions <- MCConditions
    LastCandle = 10
    MaxReports = 2
CHECK_DEADLOCK FALSE
INVARIANTS
    KnownAsPublished
    ClaimsAreTrue
