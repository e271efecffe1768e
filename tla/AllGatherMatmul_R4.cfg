SPECIFICATION Spec
CONSTANTS
    RankSize = 4
    Cores = 1
    Launches = 1
INVARIANTS
    ReadsGatheredRows
    MultipliesWholeA
PROPERTIES
    Completion
