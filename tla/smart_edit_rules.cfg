SPECIFICATION Spec
CONSTANTS
    Yin <- Syllables
    Zhi <- Characters
    NoPin <- Unpinned
    TsiYin <- Dictionary
    RefCount <- Uses
    ChooseZhi <- Alone
    Readings <- AnyPin
    MaxLen = 5
    MaxPinned = 0
CHECK_DEADLOCK FALSE
PROPERTY RulesDecide
