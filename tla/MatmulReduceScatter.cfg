\* The launches end: the cores may stop.
SPECIFICATION Spec
CONSTANTS
    RankSize = 2
    Cores = 2
    Launches = 2
    Paddings = {FALSE, TRUE}
CHECK_DEADLOCK FALSE
INVARIANTS
    TypeOK
    MultipliesPadded
    ReducesStored
    NoOverwriteWhenPadded
PROPERTIES
    Completion
