CONSTANTS
    NUM_PROCESSOR = 4
    Values = {0, 1, 2}
    InitialMemory = 2
SPECIFICATION Spec
INVARIANTS
    TypeOK
    CheckState
    ValuesAgree
PROPERTIES
    OnlyExclusiveEvictionLoses
    ImplementsCell
