CONSTANTS
    b1 = b1  b2 = b2  b3 = b3
    Builders = {b1, b2}
    SO_BLOCK_SIZE = 2
    SO_REGISTRY_SIZE = 2
    MaxInFlight = 2
    Empty = Empty
    u1 = u1  u2 = u2  n1 = n1  x1 = x1
    User = {u1, u2}
    Node = {n1, x1}
    FirstExtra = x1
    SO_BUDGET_INIT = 10
    Amount = 2
    Rewards = {1, 2}
    Stray = {0, 13}
SPECIFICATION AccountsSpec
SYMMETRY Symmetry
CONSTRAINT StillExact
CHECK_DEADLOCK FALSE
INVARIANTS TotalConserved RewardLostOnlyByOverlap
