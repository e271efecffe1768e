\* A cube core sets the flag for its two vector cores.
\* A kernel ends after its last round, so it may stop: no deadlock check.
SPECIFICATION FairSpec
CONSTANTS
    Setters = {aic}
    Waiters = {aiv0, aiv1}
    ReverseDepth = 15
    FlagLimit = 15
    Rounds = 29
CHECK_DEADLOCK FALSE
INVARIANTS
    TypeOK
    NoFreeze
    DrainedAtEnd
PROPERTIES
    Completion
    ImplementsHandshake
