CONSTANTS
    b1 = b1  b2 = b2  b3 = b3
    Builders = {b1, b2, b3}
    SO_BLOCK_SIZE = 2
    SO_REGISTRY_SIZE = 2
    MaxInFlight = 3
    Empty = Empty
SPECIFICATION FairSpec
CHECK_DEADLOCK FALSE
INVARIANTS IInv NoHoles GapOnlyWhileCopying LostOnlyByCollision ConfirmedAtRest FullOnlyWhenFull
PROPERTIES AppendsUntilCollision BuilderTerminates
