\* The streams end, so the core may stop.
SPECIFICATION Spec
CONSTANTS
    Programs <- AllPrograms
    PipeLimit = 2
    FlagLimit = 3
CHECK_DEADLOCK FALSE
INVARIANTS
    FlagsHold
    NoRace
    ReadsInOrder
    Drained
    DeliversResults
PROPERTIES
    Termination
