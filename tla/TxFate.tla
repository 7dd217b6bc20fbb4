-------------------------------- MODULE TxFate ---------------------------------
(***************************************************************************)
(* What the nodes, together with the master, promise of a transaction that *)
(* a user has sent: it stays pending until it becomes part of one block,   *)
(* with a full batch of others, or is given up; and nothing happens to it  *)
(* after that.                                                             *)
(***************************************************************************)
EXTENDS FiniteSets, Naturals

CONSTANTS
    Tx,          \* the transactions
    BatchSize    \* how many of them a block takes

VARIABLES
    pending,     \* sent, and neither in a block nor given up
    blocks,      \* the batches that became blocks
    discarded    \* given up

vars == <<pending, blocks, discarded>>

Init == pending = {} /\ blocks = {} /\ discarded = {}

Send(t) ==
    /\ t \notin pending \cup (UNION blocks) \cup discarded
    /\ pending' = pending \cup {t}
    /\ UNCHANGED <<blocks, discarded>>

Build(batch) ==
    /\ batch \subseteq pending
    /\ Cardinality(batch) = BatchSize
    /\ blocks' = blocks \cup {batch}
    /\ pending' = pending \ batch
    /\ UNCHANGED discarded

Discard(lost) ==
    /\ lost \subseteq pending
    /\ pending' = pending \ lost
    /\ discarded' = discarded \cup lost
    /\ UNCHANGED blocks

Next ==
    \/ \E t \in Tx : Send(t)
    \/ \E s \in SUBSET pending : Build(s) \/ Discard(s)

Spec == Init /\ [][Next]_vars

===============================================================================
