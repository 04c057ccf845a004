SPECIFICATION Spec
CONSTANTS
  Jobs <- MCJobs
  Yields <- MCYields
  Lengths = {1, 2}
  Frozen = FALSE
  MinPairs = 2
  MinExamples = 1
  MinEval = 1
  MinSeeds = 2
  Threshold = 1
  MaxLaunches = 2
  MaxGen = 1
INVARIANT
  ProposerIsLoaded
