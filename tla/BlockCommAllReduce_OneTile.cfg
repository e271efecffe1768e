\* The call returns, so the system may stop.
SPECIFICATION Spec
CONSTANTS
    RankSize = 8
    CoreLoops = 1
    SplitPaths = {TRUE}
CHECK_DEADLOCK FALSE
INVARIANTS
    TypeOK
    NoOverwriteWhileRead
    ReadsTargetsGroup
PROPERTIES
    ImplementsAllReduce
    Termination
