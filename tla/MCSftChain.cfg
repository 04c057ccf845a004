SPECIFICATION Spec
CONSTANTS
  Examples = 3
  Family <- MCFamily
  Target <- MCTarget
  Known = {"s1", "s2"}
  QueueRows <- MCRows
  FamilyCap = 1
  SpecCap = 1
  Jobs <- MCJobs
  MaxGen = 2
  MaxRuns = 4
INVARIANTS
  TypeOK
  PromotedIntact
  FamilyShare
PROPERTIES
  ActiveIsEarned
