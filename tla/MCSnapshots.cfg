\* The snapshots of a chain of three blocks, one client's view, one restart.
SPECIFICATION Spec
CONSTANTS
    None = None
    g = g
    a = a
    b1 = b1
    Block <- MCBlock
    Genesis = g
    Parent <- MCParent
    User = {u}
    ConfirmDepth = 1
    MaxAsks = 1
    MaxRestarts = 1
INVARIANTS
    DumpIsItsBlock
    HeldStays
PROPERTIES
    EveryAskEnds
CHECK_DEADLOCK FALSE
