SPECIFICATION Spec
CONSTANTS
  MaxEdits = 4
  MaxSizing = 4
  MaxSpice = 6
  MaxGens = 3
  MaxRetrievals = 2
  SizingSteps = 1
  Warmup = 1
  QueryInterval = 1
  PvtCorners = 2
  Patience = 2
  MaxFailures = 3
  MaxDecisions = 14
  Rewards <- MCRewards
  AcceptReward = 1
  Modes <- MCModes
INVARIANT
  ReportedIsVerified
CHECK_DEADLOCK FALSE
