SPECIFICATION Spec
CONSTANTS
    Modes = {"one_root_cc"}
    Pools <- MCDistinct
    Graphs = {"a", "b", "c"}
    EditTypes = {1, 2}
    EditOf <- MCEditOf
    TotalSims = 5
    MaxDepth = 3
    MaxChildren = 2
    MaxExpansions = 4
INVARIANT ChallengerIsAnother
CHECK_DEADLOCK FALSE
