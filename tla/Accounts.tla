-------------------------------- MODULE Accounts -------------------------------
(***************************************************************************)
(* The balances of users and nodes, in shared memory beside the ledger,    *)
(* and the table the master prints of them at the end.  Builders add their *)
(* rewards to their node's balance while it runs; on SIGINT users and      *)
(* nodes compute theirs anew from the ledger, and so does a builder that   *)
(* is still running, which has the handler and the pid of its node; and    *)
(* the master prints when its own children have ended.                     *)
(*                                                                         *)
(* A block holds transactions between two users, which never pay           *)
(* themselves; the sums are those of whole numbers throughout.  A user     *)
(* that ends as it should has the budget plus what the ledger it sees adds *)
(* to it (FinalBalance of User); one that goes astray has anything.  An    *)
(* extra node is there from the start.                                     *)
(***************************************************************************)
EXTENDS Ledger, FiniteSetsExt

CONSTANTS
    User, Node,        \* the users, and the nodes ...
    FirstExtra,        \* ... of which this one was spawned by the listener
    SO_BUDGET_INIT,    \* what a user starts with
    Amount,            \* of every transaction
    Rewards,           \* the rewards a block's transactions may have
    Stray              \* bound: what a user that goes astray may leave behind

ASSUME AccountsAssumption ==
    /\ IsFiniteSet(User) /\ IsFiniteSet(Node) /\ IsFiniteSet(Builders)
    /\ FirstExtra \in Node
    /\ {SO_BUDGET_INIT, Amount} \cup Rewards \cup Stray \subseteq Nat
    /\ User \cap Node = {} /\ User \cap Builders = {} /\ Node \cap Builders = {}

VARIABLES
    mined,    \* mined[b]: whose builder b is, and what its transactions are
    balance,  \* the balances in usersPID and nodesPID
    held,     \* a balance a builder or a handler has read and not yet stored
    stage,    \* how far each process is with the balances
    late      \* has shared memory changed after somebody's last look at it?

accounts == <<balance, held, stage, late>>
all      == <<vars, mined, accounts>>

Process == User \cup Node \cup Builders

\* Whose balance a process writes: a builder has its node's pid.
Entry(p) == IF p \in Builders THEN mined[p].node ELSE p

\* Somebody has computed a final balance.
SomebodyRead == \E p \in Process : stage[p] \in {"read", "ended"}

AccountsInit ==
    /\ Init
    /\ mined \in [Builders -> [node : Node, from : User, to : User, reward : Rewards]]
    /\ \A b \in Builders : mined[b].from # mined[b].to
    /\ balance = [p \in User \cup Node |-> 0]
    /\ held = [p \in Node \cup Builders |-> 0]
    /\ stage = [p \in Process |-> "runs"]
    /\ late = FALSE

-------------------------------------------------------------------------------
(* The builders. *)

\* Mutant: the loop does not stop before the last slot.
SumRewardPast(b) == SO_BLOCK_SIZE * mined[b].reward

\* What sum_reward returns: the rewards of all slots but the first.
SumReward(b) == (SO_BLOCK_SIZE - 1) * mined[b].reward

ForkBuilder(b) ==
    /\ stage[mined[b].node] = "runs"
    /\ Fork(b)
    /\ stage' = [stage EXCEPT ![b] = "load"]
    /\ UNCHANGED <<mined, balance, held, late>>

\* balance += sum, in new_block, is a load ...
Load(b) ==
    /\ Running(b) /\ stage[b] = "load"
    /\ held' = [held EXCEPT ![b] = balance[mined[b].node]]
    /\ stage' = [stage EXCEPT ![b] = "store"]
    /\ UNCHANGED <<vars, mined, balance, late>>

\* Mutant: the balance is set to the sum.
AddedAlone(b) == SumReward(b)

Added(b) == held[b] + SumReward(b)

\* ... and a store: the semaphore keeps nobody out.
Store(b) ==
    /\ Running(b) /\ stage[b] = "store"
    /\ balance' = [balance EXCEPT ![mined[b].node] = Added(b)]
    /\ stage' = [stage EXCEPT ![b] = "insert"]
    /\ late' = (late \/ SomebodyRead)
    /\ UNCHANGED <<vars, mined, held>>

\* insert_block_in_ledger.
Insert(b) ==
    /\ stage[b] = "insert"
    /\ Builder(b)
    /\ late' = (late \/ (SomebodyRead /\ ledger' # ledger))
    /\ UNCHANGED <<mined, balance, held, stage>>

\* The listener spawns another extra node, but resets the first one's balance.
Reset ==
    /\ ~sigint
    /\ balance' = [balance EXCEPT ![FirstExtra] = 0]
    /\ late' = (late \/ SomebodyRead)
    /\ UNCHANGED <<vars, mined, held, stage>>

-------------------------------------------------------------------------------
(* SIGINT. *)

InterruptAll ==
    /\ Interrupt
    /\ UNCHANGED <<mined, accounts>>

\* The blocks get_balance walks: it stops at the first that is not visible.
Seen == {i \in Index : \A k \in 0 .. i : Visible(k)}

\* The transactions in them, as pairs of an index and a slot.
Transactions ==
    {t \in Seen \X (Slot \ {0}) : ledger[t[1]][t[2]] # Empty}

\* What the ledger has done to user u.
Net(u) ==
    MapThenSumSet(LAMBDA t : LET m == mined[ledger[t[1]][t[2]]]
                             IN  CASE m.to = u   -> Amount
                                   [] m.from = u -> -(Amount + m.reward)
                                   [] OTHER      -> 0,
                  Transactions)

\* A user's handler, run to its end without a SIGUSR1 in it: on SIGINT, or
\* earlier if it has run out of retries.
UserEnds(u) ==
    /\ u \in User /\ stage[u] = "runs"
    /\ balance' = [balance EXCEPT ![u] = SO_BUDGET_INIT + Net(u)]
    /\ stage' = [stage EXCEPT ![u] = "ended"]
    /\ UNCHANGED <<vars, mined, held, late>>

\* The other ways in which a user may end, or not even begin.  SIGINT comes
\* before it is spawned (master.c:443), or before it handles the signal
\* (users.c:157): its entry is what it was.  It is not yet listed: the handler
\* writes in front of the array (users.c:327, 348).  SIGUSR1 comes inside that
\* handler, or SIGINT inside a list operation: what is added back is not what
\* was deducted.  Or it dies of a division by zero (users.c:76) or of writing
\* to (FILE *)2 (users.c:266).
UserAstray(u) ==
    /\ u \in User /\ stage[u] = "runs"
    /\ \E n \in Stray : balance' = [balance EXCEPT ![u] = n]
    /\ stage' = [stage EXCEPT ![u] = "astray"]
    /\ UNCHANGED <<vars, mined, held, late>>

\* The sum of all rewards in the ledger to node n, gaps or not.
AccurateBalance(n) ==
    MapThenSumSet(LAMBDA i : SumReward(ledger[i][0]),
                  {i \in Index : Visible(i) /\ mined[ledger[i][0]].node = n})

\* The handler of a node, of a builder at work, or of one that sleeps before it
\* exits or has found the ledger full, reads ...
HandlerReads(p) ==
    /\ sigint
    /\ \/ p \in Node /\ stage[p] = "runs" /\ UNCHANGED vars
       \/ p \in Builders /\ Killed(p)
       \/ /\ p \in Builders /\ stage[p] = "insert" /\ pc[p] \in {"done", "full"}
          /\ UNCHANGED vars
    /\ held' = [held EXCEPT ![p] = AccurateBalance(Entry(p))]
    /\ stage' = [stage EXCEPT ![p] = "read"]
    /\ UNCHANGED <<mined, balance, late>>

\* ... and stores.
HandlerStores(p) ==
    /\ stage[p] = "read"
    /\ balance' = [balance EXCEPT ![Entry(p)] = held[p]]
    /\ stage' = [stage EXCEPT ![p] = "ended"]
    /\ UNCHANGED <<vars, mined, held, late>>

\* wait tells the master that it has no child left, and it prints the table:
\* it knows of no builder and of no extra node.
Prints ==
    /\ sigint
    /\ \A p \in (User \cup Node) \ {FirstExtra} : stage[p] \in {"ended", "astray"}

AccountsNext ==
    \/ \E b \in Builders : ForkBuilder(b) \/ Load(b) \/ Store(b) \/ Insert(b)
    \/ Reset \/ InterruptAll
    \/ \E p \in Process :
          UserEnds(p) \/ UserAstray(p) \/ HandlerReads(p) \/ HandlerStores(p)

AccountsSpec == AccountsInit /\ [][AccountsNext]_all

-------------------------------------------------------------------------------

\* A block has been copied in part.
HalfWritten ==
    \E b \in Builders : pc[b] = "copy" /\ todo[b] # Slot

\* Money is neither made nor lost: when the table is printed, the balances sum
\* up to the users' budgets, unless shared memory changed after somebody had
\* computed a final balance, the first extra node has not done so yet, two
\* builders collided, a block was left half written, or a user ended without
\* its handler's work done, or not done undisturbed.  These, and neither
\* rounding nor the nodes' formula, are behind "il bilancio totale ... e'
\* leggermente diverso" (README.md:107).
TotalConserved ==
    Prints =>
        \/ MapThenSumSet(LAMBDA p : balance[p], User \cup Node)
              = SO_BUDGET_INIT * Cardinality(User)
        \/ late \/ stage[FirstExtra] # "ended" \/ Collision \/ HalfWritten
        \/ \E u \in User : stage[u] = "astray"

\* As long as the nodes run, the balance of one of the first nodes is the sum
\* of what its builders have added, though nothing keeps them apart: a reward
\* is lost only where two of them loaded the same balance.
RewardLostOnlyByOverlap ==
    ~SomebodyRead =>
        \A n \in Node \ {FirstExtra} :
            LET Of(stages) == {b \in Builders : mined[b].node = n /\ stage[b] \in stages}
            IN  \/ balance[n] = MapThenSumSet(SumReward, Of({"insert"}))
                \/ \E b, c \in Of({"store", "insert"}) : b # c /\ held[b] = held[c]

===============================================================================
