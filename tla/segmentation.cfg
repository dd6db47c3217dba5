\* Every short line, segmented by each of the three methods with each dictionary.
\* The run ends when the line is segmented, or memory is damaged.
CONSTANTS
    Lines <- MCLines
    Dictionaries <- MCDictionaries
    MaxTsiLen = 3
    CharRef <- MCCharRef
SPECIFICATION Spec
INVARIANTS ChunksAreTheLine WordsTileChunk LongestWordKept
PROPERTY LineSegmented
CHECK_DEADLOCK FALSE
