SPECIFICATION Spec
CONSTANTS
    Names = {n1, n2}
    Apps = {a1}
    Handles = {h1, h2, h3}
    DBs = {d1, d2, d3}
    Closed = Closed
    Free = Free
    Null = Null
    Junk = Junk
    DeleteArgs <- PairedDeletes
    MaxLen = 3
INVARIANTS
    PrependKeepsPairs
