CONSTANTS
    t1 = t1  t2 = t2  t3 = t3
    Tx = {t1, t2, t3}
    SO_NODES_NUM = 2
    SO_FRIENDS_NUM = 1
    SO_HOPS = 1
    SO_BLOCK_SIZE = 3
    SO_TP_SIZE = 4
    ForwardEvery = 1
    QueueBytes = 144
    MaxForkFailures = 1
    NoPid = NoPid
SPECIFICATION Spec
SYMMETRY TxSymmetry
CHECK_DEADLOCK FALSE
INVARIANTS OnePlace KnowsItsIndex FriendsReady NothingLostOnReceive NodesInv
PROPERTY FateSpec
