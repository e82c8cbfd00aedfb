CONSTANTS
    Hash = {"a", "b", "c", "d"}
    MaxLeaves = 6
SPECIFICATION ProofSpec
INVARIANTS
    PathReachesNode
    RootCommits
CHECK_DEADLOCK FALSE
