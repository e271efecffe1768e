\* The launches end: the cores may stop.
SPECIFICATION Spec
CONSTANTS
    Cores = 1
    CocLoop = 2
    Launches = 2
    ReverseDepth = 2
    Paddings = {FALSE}
    Prompts = {FALSE}
CHECK_DEADLOCK FALSE
PROPERTIES
    Completion
