CONSTANTS
    SO_BUDGET_INIT = 3
    SO_REWARD = 50
    SO_RETRY = 2
    Width = 32
    MaxDraw = 2
    MaxClock = 2
    MaxPayments = 1
    MaxSignals = 1
    MaxOverwritten = 1
SPECIFICATION FairSpec
CHECK_DEADLOCK FALSE
INVARIANTS TypeOK InsolventOnlyIfDisturbed OutgoingKept FinalBalance
PROPERTIES DeadStaysDead EndsWhenInterrupted
