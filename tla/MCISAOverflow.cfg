CONSTANTS
    Register = {"rax", "rdx", "rdi", "rsi", "rsp", "rbp"}
    NoRegister = "no register"
    HALF = 32
    UINT_BITS = 8
    FRACTION_BITS = 3
    BIAS = 7
    WORD_BYTES = 1
    MAX_INSTRUCTION_CHAR = 1
    Summands = {0, 1, 2, 13, 31, 32, 33, 40, 62, 63}
    Counts = {0, 1, 2, 3, 4, 5, 6, 7, 8}
    Stack = 58
    Corners = {0, 1, 2, 3, 15, 16, 30, 31, 32, 33, 34, 48, 61, 62, 63}
    Chars = {" ", "-", "0", "x", "9", "a", "z"}
    MAX_NUMBER_CHAR = 1
    Styles <- AllStyles
    Boots <- AllBoots
SPECIFICATION AsmSpec
PROPERTIES
    SubOverflowAsCommented
CHECK_DEADLOCK FALSE
