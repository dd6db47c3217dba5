SPECIFICATION Spec
CONSTANTS
    Yin <- Syllables
    Zhi <- Characters
    NoPin = NoPin
    NoText = NoText
    Readings <- Zhis
    TsiYin <- Dictionary
    TMP_BUFFER = 5
    Clients <- AnyClient
    MaxYin = 3
INVARIANTS
    TypeOK
    PinsMatchSyllables
    ChoicesFit
    NoFault
PROPERTY EditsAreLocal
\* A write where there is no memory ends the process.
CHECK_DEADLOCK FALSE
