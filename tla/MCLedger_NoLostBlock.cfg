CONSTANTS
    b1 = b1  b2 = b2  b3 = b3
    Builders = {b1, b2}
    SO_BLOCK_SIZE = 2
    SO_REGISTRY_SIZE = 2
    MaxInFlight = 2
    Empty = Empty
SPECIFICATION Spec
CHECK_DEADLOCK FALSE
INVARIANT NoLostBlock
