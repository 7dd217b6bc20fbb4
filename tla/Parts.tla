--------------------------------- MODULE Parts ---------------------------------
(***************************************************************************)
(* Parts of the system that can be looked at by themselves, side by side:  *)
(* a node's pool, a user's list, the search of print.c, the parser of      *)
(* conf.txt, and the journeys of transactions into the ledger.  The first  *)
(* state chooses which of them runs; the others stay in a first state of   *)
(* theirs.                                                                 *)
(***************************************************************************)
EXTENDS TransPool

CONSTANTS
    Length, MaxBalance, MaxMoves,              \* Significant
    Default, Wide, Width, Number,              \* Parameters
    NUM_PARAMETERS,
    Builders, SO_BLOCK_SIZE, SO_REGISTRY_SIZE, \* Ledger
    MaxInFlight

VARIABLES
    part,
    userHeap, userAllocated, userHead, removed,
    balance, i, place, rank, moves,
    par, lines, erange, done, zeroed,
    ledger, status, semLedger, pc, at, todo, sigint, killed,
    pending, blocks, discarded, carries

poolVars    == vars
listVars    == <<userHeap, userAllocated, userHead, removed>>
ranksVars   == <<balance, i, place, rank, moves>>
confVars    == <<par, lines, erange, done, zeroed>>
ledgerVars  == <<ledger, status, semLedger, pc, at, todo, sigint, killed>>
journeyVars == <<pending, blocks, discarded, carries>>
parts       == <<part, poolVars, listVars, ranksVars, confVars, ledgerVars, journeyVars>>

Outgoing == INSTANCE OutgoingList WITH
    heap <- userHeap, allocated <- userAllocated, head <- userHead

Ranks == INSTANCE Significant WITH Nobody <- None

Conf == INSTANCE Parameters

Journeys == INSTANCE Journey WITH Empty <- None

ASSUME RanksAssumption == {Length, MaxBalance} \subseteq Nat

\* The parameters that are corrected exist, the defaults, which are not
\* corrected when there is no file, agree with each other and are not 0 where
\* that matters, and an unsigned int tells a pool larger than a block.
ASSUME ConfAssumption ==
    /\ {"SO_TP_SIZE", "SO_FRIENDS_NUM", "SO_NODES_NUM", "SO_REWARD",
        "SO_MIN_TRANS_GEN_NSEC", "SO_MAX_TRANS_GEN_NSEC",
        "SO_MIN_TRANS_PROC_NSEC", "SO_MAX_TRANS_PROC_NSEC"} \subseteq Conf!Name
    /\ Default \in [Conf!Name -> Nat] /\ Conf!Consistent(Default)
    /\ \A name \in Conf!Divisors : Default[name] # 0
    /\ SO_BLOCK_SIZE \in Nat /\ Width \in Nat
    /\ SO_BLOCK_SIZE + 1 < Width /\ 100 < Width
    /\ Number \subseteq Nat

ASSUME JourneyAssumption ==
    /\ SO_BLOCK_SIZE \in Nat /\ SO_BLOCK_SIZE >= 2
    /\ SO_REGISTRY_SIZE \in Nat \ {0}
    /\ MaxInFlight \in Nat \ {0}
    /\ None \notin Builders

PartsInit ==
    /\ part \in {"pool", "list", "ranks", "conf", "journey"}
    /\ Init /\ Outgoing!Init /\ Conf!Init /\ Ranks!Init /\ Journeys!JourneyInit
    /\ part # "ranks" => balance = [e \in 1 .. Length |-> 0]

PartsNext ==
    /\ UNCHANGED part
    /\ \/ /\ part = "pool" /\ Next
          /\ UNCHANGED <<listVars, ranksVars, confVars, ledgerVars, journeyVars>>
       \/ /\ part = "list" /\ Outgoing!Next
          /\ UNCHANGED <<poolVars, ranksVars, confVars, ledgerVars, journeyVars>>
       \/ /\ part = "ranks" /\ Ranks!Next
          /\ UNCHANGED <<poolVars, listVars, confVars, ledgerVars, journeyVars>>
       \/ /\ part = "conf" /\ Conf!Next
          /\ UNCHANGED <<poolVars, listVars, ranksVars, ledgerVars, journeyVars>>
       \/ /\ part = "journey" /\ Journeys!JourneyNext
          /\ UNCHANGED <<poolVars, listVars, ranksVars, confVars>>

PartsSpec == PartsInit /\ [][PartsNext]_parts

-------------------------------------------------------------------------------
\* The properties of the parts.

\* The cells allocated are those of the pool's list and of the user's list:
\* nothing leaks, and nothing freed is reached; and nodes.c counts the pool's
\* right (ListOwnsCells of each, SizeIsLength).
ListsSound == ListOwnsCells /\ SizeIsLength /\ Outgoing!ListOwnsCells

\* Both lists are the TxLists they stand for: the pool gives back what it was
\* given in its order (pool.c), the user's list the oldest of what it is asked
\* for (lklist.c).
ListsSpec == FifoSpec /\ Outgoing!OutgoingSpec

\* print_most_significant_processes gets its first two ranks right.
FirstTwoRight == Ranks!FirstTwoRight

\* parse_parameters leaves parameters that agree with each other, of which
\* there are no friends or nodes only where the file left 0 of them.
Admissible == Conf!Admissible

\* What get_balance finds in the ledger is what Fates promises the users.
JourneyFates == Journeys!FateSpec

===============================================================================
