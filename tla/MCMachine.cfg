CONSTANTS
    NUM_CACHE_LINE_PER_SET = 2
    MAX_NUM_PHYSICAL_PAGE = 3
    NUM_PAGE = 4
    BYTES = 4
    WORD_BYTES = 2
    INT_BYTES = 1
    HEADER = 1
    MAX_TIME = 4
    Stores = {13}
    Texts = {2}
    TextPages = {1}
    Images <- ImageByPage
SPECIFICATION MCSpec
INVARIANTS
    SmallWordsAreLoaded
    StoresLandWhole
PROPERTIES
    BytesReachTheirPage
    PagesSurviveTranslation
CHECK_DEADLOCK FALSE
