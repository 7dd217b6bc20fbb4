-------------------------------- MODULE MCParts --------------------------------
(* The parts on small instances. *)
EXTENDS Parts, TLC

\* The defaults of the program, to scale, and its unsigned longs.
DefaultMC ==
    [SO_NODES_NUM |-> 3, SO_FRIENDS_NUM |-> 1, SO_TP_SIZE |-> 4, SO_REWARD |-> 1,
     SO_MIN_TRANS_GEN_NSEC |-> 1, SO_MAX_TRANS_GEN_NSEC |-> 2,
     SO_MIN_TRANS_PROC_NSEC |-> 1, SO_MAX_TRANS_PROC_NSEC |-> 2]

WideMC == {"SO_MIN_TRANS_GEN_NSEC", "SO_MAX_TRANS_GEN_NSEC",
           "SO_MIN_TRANS_PROC_NSEC", "SO_MAX_TRANS_PROC_NSEC"}

\* The allocators may return any free cell, and transactions are alike.
ListsSymmetry == Permutations(Tx) \cup Permutations(Cell)

===============================================================================
