SPECIFICATION Spec
CONSTANTS
  PerBranch = 16
  FarDistance = 2
  Arms <- MCArms
INVARIANTS
  TypeOK
  NeverExceeded
  OverrunBounded
  DeliveredIsMeasured
  NeverDeliversWorse
PROPERTIES
  RecoveryIsBankFunded
CHECK_DEADLOCK FALSE
