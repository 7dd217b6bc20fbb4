CONSTANTS
    u1 = u1  u2 = u2  n1 = n1  x1 = x1  b1 = b1
    User = {u1, u2}
    Node = {n1}
    Extra = {x1}
    Builder = {b1}
    Listener = Listener
    Master = Master
    SimSec = {0, 2}
SPECIFICATION FairSpec
CHECK_DEADLOCK FALSE
INVARIANTS ChildrenFirst NobodyLeft TableOnce QueueOutlivesUse MasterInv
PROPERTY Ends
