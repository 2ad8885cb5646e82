SPECIFICATION Spec
CONSTANTS
  polA = polA
  polB = polB
  r1 = r1
  r2 = r2
  Request = {r1, r2}
  Key = {k1}
  Policy = {polA}
  PolicyId <- SameIds
  InitialVerdicts = {"allow"}
  MaxRegistrations = 2
  MaxEdits = 1
PROPERTIES
  RevokedNeverRuns
  EveryRequestAnswered
  ReservationsDrain
  ImplementsPromise
