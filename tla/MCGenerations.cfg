SPECIFICATION Spec
CONSTANTS
  Specs = {"s1", "s2", "s3"}
  JobLists <- MCJobLists
  Yield <- MCYield
  Measured <- MCMeasured
  MaxLaunches = 4
INVARIANTS
  TypeOK
  LedgerIsHarvested
  CrashCostsOneRun
  PublishedIsLearned
PROPERTIES
  PublicationOrder
