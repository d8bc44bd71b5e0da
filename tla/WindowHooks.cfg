CONSTANTS
    w1 = w1
    w2 = w2
    Windows = {w1, w2}
    h1 = h1
    h2 = h2
    h3 = h3
    Hooks = {h1, h2, h3}
    own1 = own1
    OwnProcs = {own1}
    Null = Null
    MaxDepth = 3
SPECIFICATION Spec
SYMMETRY Symmetry
INVARIANTS
    TypeOK
    ChainSound
    ProceduresInOrder
    DeadIsForgotten
PROPERTIES
    HookedForwardsSafely
CHECK_DEADLOCK FALSE
