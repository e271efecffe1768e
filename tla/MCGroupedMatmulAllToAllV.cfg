\* The kernel ends, so the cores may stop.
SPECIFICATION Spec
CONSTANTS
    RankSize = 2
    Cores = 2
    CoreLoops <- BusyAndIdle
    ReverseDepth = 2
CHECK_DEADLOCK FALSE
INVARIANTS
    TypeOK
    SendsMultiplied
    DealtOutEvenly
    CopiesAllSent
    LeavesNoFlagSet
PROPERTIES
    Completion
