SPECIFICATION Spec
CONSTANTS
    YinZhiTable <- MCYinZhiTable
    NoEntry = NoEntry
    Beyond <- MCBeyond
    NoYin = NoYin
    Clashes <- MCClashes
INVARIANTS
    TypeOK
    TypedIsComposed
    ReadsBack
