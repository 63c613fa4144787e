CONSTANTS
    MAX_NUM_PHYSICAL_PAGE = 2
    NUM_PAGE = 5
    NoTable = {5}
    Content = {0, 1, 2, 3, 4, 5, 6}
    Written = {6}
    Zeros = 0
    PageImage <- ImageByPage
SPECIFICATION Spec
INVARIANTS
    TypeOK
    ReverseMapping
PROPERTIES
    SlotLostOnlyToFreeFrame
    PagesMoveThroughFiles
    ContentLossHasACause
CHECK_DEADLOCK FALSE
