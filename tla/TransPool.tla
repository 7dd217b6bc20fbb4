------------------------------- MODULE TransPool -------------------------------
(***************************************************************************)
(* A node's transaction pool (src/utils/pool.c): a singly linked list of   *)
(* malloc'ed cells with a head and a tail pointer, and the size its user,  *)
(* nodes.c, keeps beside it.                                               *)
(*                                                                         *)
(* remove_from_pool reads the next pointer of a cell it has just freed.    *)
(* free leaves that word of the cell as it was (the allocator's own links  *)
(* are in the first two words, next is the eighth), and nothing allocates  *)
(* in between, so the read returns the old pointer.                        *)
(***************************************************************************)
EXTENDS Integers, FiniteSets

CONSTANTS
    Tx,       \* the transactions
    Cell,     \* bound: the memory malloc may return (it never fails here)
    Null,     \* the NULL pointer
    None      \* remove_from_pool's ERROR

ASSUME TransPoolAssumption ==
    /\ IsFiniteSet(Cell)
    /\ Null \notin Cell
    /\ None \notin Tx

VARIABLES
    heap,        \* what each cell holds, freed cells included
    allocated,   \* the cells malloc has returned and free has not taken back
    head, tail,  \* the pointers of struct pool
    size,        \* its size field
    taken        \* what the last call took out

vars == <<heap, allocated, head, tail, size, taken>>

Init ==
    /\ heap \in [Cell -> {[tx |-> None, next |-> Null]}]
    /\ allocated = {}
    /\ head = Null
    /\ tail = Null
    /\ size = 0
    /\ taken = None

\* Mutant: the last cell is not linked to the new one.
Unlinked(c, t) == [heap EXCEPT ![c] = [tx |-> t, next |-> Null]]

\* The cell's own fields are set first, then the last cell is linked to it.
Linked(c, t) ==
    LET filled == [heap EXCEPT ![c] = [tx |-> t, next |-> Null]]
    IN  IF tail = Null THEN filled ELSE [filled EXCEPT ![tail].next = c]

\* add_to_pool, and the caller's size++.
AddToPool(t) ==
    \E c \in Cell \ allocated :
        /\ allocated' = allocated \cup {c}
        /\ heap' = Linked(c, t)
        /\ tail' = c
        /\ head' = IF head = Null THEN c ELSE head
        /\ size' = size + 1
        /\ taken' = None

\* remove_from_pool with nothing to remove; the callers leave size alone.
RemoveFromEmpty ==
    /\ head = Null
    /\ taken' = None
    /\ UNCHANGED <<heap, allocated, head, tail, size>>

\* Mutant: tail is not reset when the last transaction goes.
TailKept == tail

\* remove_from_pool resets tail with head.
TailAfterRemove == IF heap[head].next = Null THEN Null ELSE tail

\* Mutant: the caller does not count the transaction removed.
SizeKept == size

\* The callers' size--.
SizeAfterRemove == size - 1

\* remove_from_pool, and the caller's size--.
RemoveFromPool ==
    /\ head # Null
    /\ taken' = heap[head].tx
    /\ allocated' = allocated \ {head}
    /\ head' = heap[head].next
    /\ tail' = TailAfterRemove
    /\ size' = SizeAfterRemove
    /\ UNCHANGED heap

Next ==
    \/ \E t \in Tx : AddToPool(t)
    \/ RemoveFromEmpty
    \/ RemoveFromPool

Spec == Init /\ [][Next]_vars

-------------------------------------------------------------------------------

\* Types of the variables.
TypeOK ==
    /\ heap \in [Cell -> [tx : Tx \cup {None}, next : Cell \cup {Null}]]
    /\ allocated \in SUBSET Cell
    /\ head \in Cell \cup {Null}
    /\ tail \in Cell \cup {Null}
    /\ size \in 0 .. Cardinality(Cell)
    /\ taken \in Tx \cup {None}

\* The pointer reached after k steps along the list.
Walk[k \in 0 .. Cardinality(Cell)] ==
    IF k = 0 THEN head
    ELSE IF Walk[k - 1] = Null THEN Null ELSE heap[Walk[k - 1]].next

Steps == {k \in 0 .. Cardinality(Cell) : Walk[k] # Null}

\* The cells on the list are exactly those allocated, each once, and tail is
\* the last of them: nothing leaks and no freed cell is ever linked.
ListOwnsCells ==
    /\ {Walk[k] : k \in Steps} = allocated
    /\ Cardinality(Steps) = Cardinality(allocated)
    /\ tail = IF Steps = {} THEN Null ELSE Walk[Cardinality(Steps) - 1]

\* The size nodes.c compares with SO_TP_SIZE and SO_BLOCK_SIZE is the length
\* of the list.
SizeIsLength == size = Cardinality(Steps)

\* The pool is a first-in-first-out list.
Contents == [i \in 1 .. Cardinality(Steps) |-> heap[Walk[i - 1]].tx]

Fifo == INSTANCE TxList WITH list <- Contents

FifoSpec == Fifo!PoolSpec

===============================================================================
