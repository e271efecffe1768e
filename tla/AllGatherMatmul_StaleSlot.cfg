SPECIFICATION Spec
CONSTANTS
    RankSize = 2
    Cores = 1
    Launches = 2
INVARIANTS
    ReadsGatheredRows
