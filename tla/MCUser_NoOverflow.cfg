CONSTANTS
    SO_BUDGET_INIT = 3
    SO_REWARD = 50
    SO_RETRY = 2
    Width = 32
    MaxDraw = 2
    MaxClock = 3
    MaxPayments = 0
    MaxSignals = 1
    MaxOverwritten = 0
SPECIFICATION Spec
CHECK_DEADLOCK FALSE
INVARIANT NoOverflow
