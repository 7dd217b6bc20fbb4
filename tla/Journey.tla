-------------------------------- MODULE Journey --------------------------------
(***************************************************************************)
(* The way of a transaction from its user into the ledger: what nodes and  *)
(* master promise (TxFate, which Nodes implements) and the block builders  *)
(* (Ledger), each of which is forked with a batch.  new_block puts the     *)
(* batch into the slots behind the reward, in its order.                   *)
(***************************************************************************)
EXTENDS Ledger

CONSTANT Tx    \* the transactions

VARIABLES
    pending,   \* sent, and neither in a batch nor given up
    blocks,    \* the batches that builders were forked with
    discarded, \* given up by nodes or master
    carries    \* what each builder has in the slots of its block

journey == <<vars, pending, blocks, discarded, carries>>

Sent == INSTANCE TxFate WITH BatchSize <- SO_BLOCK_SIZE - 1

\* The slots of transactions.
Carried == Slot \ {0}

JourneyInit ==
    /\ Init
    /\ Sent!Init
    /\ carries = [b \in Builders |-> <<>>]

\* Users send, nodes pass on and give up.
Travel ==
    /\ \/ \E t \in Tx : Sent!Send(t)
       \/ \E lost \in SUBSET pending : Sent!Discard(lost)
    /\ UNCHANGED <<vars, carries>>

\* Mutant: the transactions a builder was forked with stay in the pool.
LeaveInPool(batch) ==
    batch \subseteq pending /\ UNCHANGED <<pending, blocks, discarded>>

\* The node takes the transactions out of its pool (fill_buffer, main).
TakeFromPool(batch) == Sent!Build(batch)

\* A node forks a builder, which copies the batch it is forked with (new_block).
ForkWithBatch(b) ==
    /\ Fork(b)
    /\ \E batch \in [Carried -> pending] :
          /\ \A j, k \in Carried : batch[j] = batch[k] => j = k
          /\ TakeFromPool({batch[j] : j \in Carried})
          /\ carries' = [carries EXCEPT ![b] = batch]

\* Builders go on, and SIGINT comes.
Write ==
    /\ Interrupt \/ \E b \in Builders : Builder(b) \/ Killed(b)
    /\ UNCHANGED <<pending, blocks, discarded, carries>>

JourneyNext == Travel \/ Write \/ \E b \in Builders : ForkWithBatch(b)

JourneySpec == JourneyInit /\ [][JourneyNext]_journey

-------------------------------------------------------------------------------
(* What becomes of a transaction. *)

\* get_balance gets as far as index i.
Reached(i) == \A k \in Index : k <= i => Visible(k)

\* Where get_balance finds transaction t.
Places(t) ==
    {p \in Index \X Carried :
        LET writer == ledger[p[1]][p[2]]
        IN  Reached(p[1]) /\ writer # Empty /\ carries[writer][p[2]] = t}

\* Another builder has written over transaction t, or t was given up.
Lost(t) ==
    \/ t \in discarded
    \/ \E b \in Builders, j \in Carried :
          Copied(b, j) /\ carries[b][j] = t /\ ledger[at[b]][j] # b

FateOf(t) ==
    CASE Places(t) = {}                       -> IF Lost(t) THEN "lost" ELSE "pending"
      [] \E p \in Places(t) : Places(t) = {p} -> "confirmed"
      [] OTHER                                -> "twice"

Fate == INSTANCE Fates WITH fate <- [t \in Tx |-> FateOf(t)]

\* What get_balance finds, whenever it looks: each transaction once at most, at
\* its place until another block is written over it, and never again after
\* that, nor once a node has given it up.
FateSpec == Fate!Spec

===============================================================================
