SPECIFICATION Spec
CONSTANTS
    Frames = 4
    FrameSize = 20
    Damages <- AllDamages
    ChunkSizes = {10, 16, 44}
    PRELUDE_SIZE = 12
    MIN_MESSAGE_SIZE = 16
    MAX_MESSAGE_SIZE = 64
    DEFAULT_MAX_BUFFER_SIZE = 64
    DEFAULT_MAX_ERRORS = 5
INVARIANTS TypeOK LosesOnlyDamaged DecodedInOrder BacklogOnlyAfterError StoppedTakesChunks
CHECK_DEADLOCK FALSE
