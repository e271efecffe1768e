\* Two cube cores: half of B is padded by vector cores that a core does not
\* wait for.
SPECIFICATION Spec
CONSTANTS
    RankSize = 2
    Cores = 2
    Launches = 2
INVARIANTS
    MultipliesPaddedB
