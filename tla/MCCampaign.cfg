SPECIFICATION Spec
CONSTANTS
  Arms <- MCArms
  Profiles = {"full"}
  MaxScore = 4
  Floor = 1
  Tolerance = 1
  MaxGen = 2
  MaxRuns = 3
INVARIANTS
  TypeOK
  AcceptedIntact
  RegressionBounded
  PairsAreLogged
PROPERTY
  GenerationsChained
CHECK_DEADLOCK FALSE
