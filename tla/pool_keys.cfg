SPECIFICATION Spec
CONSTANTS
    DBNames = {n1}
    FlagSets <- AllKinds
    Handles = {h1, h2, h3, h4}
    DBs = {d1, d2, d3, d4}
    Closed = Closed
    Free = Free
SYMMETRY Symmetric
INVARIANTS
    TypeOK
    PoolConsistent
    PrivateDBOwned
    NoUseAfterClose
    HarmNeedsLoss
    RefCountExact
    ClosedAfterLastClose
PROPERTY ImplementsSharing
