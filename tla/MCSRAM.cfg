CONSTANTS
    NUM_CACHE_LINE_PER_SET = 2
    NUM_TAG = 3
    BLOCK = 2
    HEADER = 1
    BYTES = 3
    MAX_TIME = 4
    Data = {1}
    Program <- ProgramByTag
SPECIFICATION Spec
INVARIANTS
    TypeOK
    UniqueTags
    CleanLinesMatchMemory
PROPERTIES
    FlatButForReplacement
CHECK_DEADLOCK FALSE
