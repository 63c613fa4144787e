CONSTANTS
    BASE = 100
    Name = {"sum", "bias", "main", "sum_bias"}
    OtherSection = {".text.startup"}
    MAX_SYMBOL_MAP_LENGTH = 6
    MAX_ELF_FILE_LENGTH = 15
    MAX_INSTRUCTION_CHAR = 2
    INST_SIZE = 3
    DATA_SIZE = 1
    SourceSymbols <- SymbolTables
    LinkInputs <- Inputs
    NUM_FILES = 2
    Objects <- ObjectsAfter
    Text <- TextIn
    Meant <- MeantBy
    Damage <- DamageOf
SPECIFICATION LinkerSpec
INVARIANTS
    ObjectsAreRead
    OutputReadsBack
    MergedInPlace
    ReferencesReachTheirSymbol
    FailureHasACause
CHECK_DEADLOCK FALSE
