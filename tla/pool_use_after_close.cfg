SPECIFICATION Spec
CONSTANTS
    DBNames = {n1, n2}
    FlagSets <- OneSharedKind
    Handles = {h1, h2, h3, h4}
    DBs = {d1, d2, d3, d4}
    Closed = Closed
    Free = Free
INVARIANT HeldHandleUsable
