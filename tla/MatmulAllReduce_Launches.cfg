\* The launches end: the cores may stop.
SPECIFICATION Spec
CONSTANTS
    Cores = 1
    CocLoop = 3
    Launches = 2
    ReverseDepth = 2
    Paddings = {FALSE, TRUE}
    Prompts = {FALSE, TRUE}
CHECK_DEADLOCK FALSE
INVARIANTS
    TypeOK
    LeavesNoFlagSet
    ReadsStoredBlock
    PhasesAlternate
PROPERTIES
    PromptCompletion
