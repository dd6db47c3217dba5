\* The user's words: learned, added by hand, listed, with crashes and failing writes.
CONSTANTS
    MaxTsiLen = 3
    CharRef <- MCCharRef
    Texts <- MCTexts
    PrimaryReadings <- MCPrimaryReadings
    PrepList <- MCPrepList
    Evals <- MCEvals
    MaxRefCnt = 2
SPECIFICATION Spec
INVARIANTS TypeOK StoredIsListed YinRecordsSound LearnedIsNew
