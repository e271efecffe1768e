\* A job ends when its pieces are done.
SPECIFICATION Spec
CONSTANTS
    C0_NUM_PER_FRACTAL = 4
    STRIDE_LIMIT = 64
    MAX_REPEAT = 3
    Align = 4
    ComputeLength = 24
    L2_TILE_THRESHOLD = 160
INVARIANTS
    ElementsInPlace
    StaysInBuffer
    AllReducePiecesFit
PROPERTY
    PiecesDisjoint
CHECK_DEADLOCK FALSE
