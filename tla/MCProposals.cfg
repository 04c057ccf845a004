SPECIFICATION Spec
CONSTANTS
    Structures = {"s1m", "s2m", "s2r", "s3r"}
    StageCount <- MCStages
    Comp <- MCComp
    Invalid = "invalid"
    Deepest = 3
    GainClasses = {1, 3}
    Demands = {"low", "extreme"}
    ProposalBudget <- MCBudget
    TargetK = 3
    AttemptCap = 5
    MinRound = 2
    MaxRounds = 3
    LadderLength = 5
    Floors = {2}
    StallStops = {2, 5}
INVARIANTS
    TypeOK
    AttemptsWithinCap
    SelectionSucceeds
    VerdictSurvivesScreen
    OneShotTargets
CHECK_DEADLOCK FALSE
