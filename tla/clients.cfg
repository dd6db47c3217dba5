SPECIFICATION Spec
CONSTANTS
    Zero = Zero
    Settings <- OneSetting
    Values = {v0}
    Default = v0
    Null = Null
    Ids = {i1, i2, i3}
    Contexts = {c1, c2, c3}
INVARIANTS
    ListsPartitionContexts
    OneContextPerClient
PROPERTIES
    ImplementsClientTable
    FreeReturns
