SPECIFICATION Spec
CONSTANTS
    Yin <- Syllables
    Zhi <- Characters
    NoPin <- Unpinned
    TsiYin <- Dictionary
    RefCount <- Uses
    ChooseZhi <- Alone
    Readings <- AnyPin
    MaxLen = 5
    MaxPinned = 4
CHECK_DEADLOCK FALSE
INVARIANTS
    TypeOK
    SegmentsTile
    WordsUsable
    PinsShown
PROPERTY Returns
