\* The budgets and limits of configs/experiments/smoke_test.yaml.
SPECIFICATION Spec
CONSTANTS
  MaxEdits = 4
  MaxSizing = 6
  MaxSpice = 8
  MaxGens = 2
  MaxRetrievals = 3
  SizingSteps = 3
  Warmup = 2
  QueryInterval = 3
  PvtCorners = 2
  Patience = 2
  MaxFailures = 3
  MaxDecisions = 25
  Rewards <- MCRewards
  AcceptReward = 1
  Modes <- MockOnly
INVARIANT
  GeneratorFailureHandled
CHECK_DEADLOCK FALSE
