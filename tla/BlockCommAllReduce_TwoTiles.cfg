\* The call returns, so the system may stop.
SPECIFICATION Spec
CONSTANTS
    RankSize = 4
    CoreLoops = 2
    SplitPaths = {FALSE}
CHECK_DEADLOCK FALSE
PROPERTIES
    ImplementsAllReduce
