CONSTANTS
    Name = {"sum", "bias"}
    OtherSection = {".text.startup"}
    MaxSymbols = 4
    MAX_SYMBOL_MAP_LENGTH = 3
    SourceSymbols <- EmittedTables
SPECIFICATION Spec
INVARIANTS
    TypeOK
    OneBestCandidate
    StrongDefinitionsKept
    RefusalHasACause
    ResolvedIsPlaced
PROPERTIES
    EntriesOnlyImprove
CHECK_DEADLOCK FALSE
