CONSTANTS
    t1 = t1  t2 = t2  t3 = t3
    c1 = c1  c2 = c2  c3 = c3
    Tx = {t1, t2, t3}
    Cell = {c1, c2, c3}
    Null = Null
    None = None
    Length = 5
    MaxBalance = 4
    MaxMoves = 1
    Width = 128
    Number = {0, 1, 3, 101, 128, 130}
    NUM_PARAMETERS = 4
    Default <- DefaultMC
    Wide <- WideMC
    SO_BLOCK_SIZE = 2
    SO_REGISTRY_SIZE = 2
    MaxInFlight = 3
    b1 = b1  b2 = b2  b3 = b3
    Builders = {b1, b2, b3}
SPECIFICATION PartsSpec
SYMMETRY ListsSymmetry
CHECK_DEADLOCK FALSE
INVARIANTS ListsSound FirstTwoRight Admissible
PROPERTIES ListsSpec JourneyFates
