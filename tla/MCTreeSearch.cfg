SPECIFICATION Spec
CONSTANTS
    Modes = {"one_root", "one_root_cc", "per_seed", "per_seed_pv", "portfolio"}
    Pools <- MCPools
    Graphs = {"a", "b", "c"}
    EditTypes = {1, 2}
    EditOf <- MCEditOf
    TotalSims = 5
    MaxDepth = 3
    MaxChildren = 2
    MaxExpansions = 4
INVARIANTS
    TypeOK
    PrimaryIsSearched
    SelectsTwo
CHECK_DEADLOCK FALSE
