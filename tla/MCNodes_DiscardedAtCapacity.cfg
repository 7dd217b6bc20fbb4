CONSTANTS
    t1 = t1  t2 = t2  t3 = t3
    Tx = {t1, t2}
    SO_NODES_NUM = 1
    SO_FRIENDS_NUM = 1
    SO_HOPS = 0
    SO_BLOCK_SIZE = 3
    SO_TP_SIZE = 4
    ForwardEvery = 1
    QueueBytes = 144
    MaxForkFailures = 0
    NoPid = NoPid
SPECIFICATION Spec
CHECK_DEADLOCK FALSE
PROPERTY DiscardedAtCapacity
