SPECIFICATION Spec
CONSTANTS
  polA = polA
  polB = polB
  r1 = r1
  r2 = r2
  Request = {r1, r2}
  Key = {k1}
  Policy = {polA, polB}
  PolicyId <- OwnIds
  InitialVerdicts = {"allow", "deny"}
  MaxRegistrations = 2
  MaxEdits = 1
SYMMETRY RequestSymmetry
INVARIANTS
  TypeOK
  ReservationsBalance
  RunsWhatWasAuthorised
  ResultMatchesTask
  RunsUnderSnapshotPolicy
