------------------------------ MODULE OutgoingList -----------------------------
(***************************************************************************)
(* A user's list of outgoing transactions (src/utils/lklist.c): a singly   *)
(* linked list with a head pointer only.  send_transaction adds to its end *)
(* and get_balance removes what it finds in the ledger.  Transactions are  *)
(* told apart by what compare_transactions compares, the timestamp, the    *)
(* amount and the receiver; the list may hold two equal ones.              *)
(*                                                                         *)
(* As in pool.c a cell's next pointer is read just after it was freed, and *)
(* free leaves that word unchanged.                                        *)
(***************************************************************************)
EXTENDS Integers, FiniteSets

CONSTANTS
    Tx,       \* the transactions
    Cell,     \* bound: the memory malloc may return (it never fails here)
    Null,     \* the NULL pointer
    None      \* nothing was removed

VARIABLES
    heap,        \* what each cell holds, freed cells included
    allocated,   \* the cells in use
    head,        \* outGoingTransactions
    removed      \* what the last find_and_remove removed

vars == <<heap, allocated, head, removed>>

Init ==
    /\ heap \in [Cell -> {[tx |-> None, next |-> Null]}]
    /\ allocated = {}
    /\ head = Null
    /\ removed = None

\* The pointer reached after k steps along the list.
Walk[k \in 0 .. Cardinality(Cell)] ==
    IF k = 0 THEN head
    ELSE IF Walk[k - 1] = Null THEN Null ELSE heap[Walk[k - 1]].next

Steps == {k \in 0 .. Cardinality(Cell) : Walk[k] # Null}

\* new_node for the first transaction.
NewNode(t) ==
    /\ head = Null
    /\ \E c \in Cell \ allocated :
          /\ heap' = [heap EXCEPT ![c] = [tx |-> t, next |-> Null]]
          /\ allocated' = allocated \cup {c}
          /\ head' = c
    /\ removed' = None

\* push walks to the last cell and links a new one to it.
Push(t) ==
    /\ head # Null
    /\ \E k \in Steps, c \in Cell \ allocated :
          /\ heap[Walk[k]].next = Null
          /\ heap' = [heap EXCEPT ![c] = [tx |-> t, next |-> Null], ![Walk[k]].next = c]
          /\ allocated' = allocated \cup {c}
    /\ removed' = None
    /\ UNCHANGED head

\* find_and_remove on an empty list, or without a match.
NotFound(t) ==
    /\ \A k \in Steps : heap[Walk[k]].tx # t
    /\ removed' = None
    /\ UNCHANGED <<heap, allocated, head>>

\* Mutant: some match instead of the first.
AnyMatch(k, t) == heap[Walk[k]].tx = t

\* The cell find_and_remove stops at.
FirstMatch(k, t) ==
    /\ heap[Walk[k]].tx = t
    /\ \A j \in Steps : j < k => heap[Walk[j]].tx # t

\* Mutant: the previous cell still points to the one removed.
StillLinked(k) == heap

\* The previous cell's next becomes that of the cell removed.
Unlinked(k) == [heap EXCEPT ![Walk[k - 1]].next = heap[Walk[k]].next]

\* find_and_remove unlinks the first match, after freeing it.
FindAndRemove(t) ==
    \E k \in Steps :
        /\ FirstMatch(k, t)
        /\ allocated' = allocated \ {Walk[k]}
        /\ removed' = t
        /\ IF k = 0
           THEN head' = heap[head].next /\ UNCHANGED heap
           ELSE heap' = Unlinked(k) /\ UNCHANGED head

Next == \E t \in Tx : NewNode(t) \/ Push(t) \/ NotFound(t) \/ FindAndRemove(t)

Spec == Init /\ [][Next]_vars

-------------------------------------------------------------------------------

\* Types of the variables.
TypeOK ==
    /\ heap \in [Cell -> [tx : Tx \cup {None}, next : Cell \cup {Null}]]
    /\ allocated \in SUBSET Cell
    /\ head \in Cell \cup {Null}
    /\ removed \in Tx \cup {None}

\* The cells on the list are exactly those in use, each once.
ListOwnsCells ==
    /\ {Walk[k] : k \in Steps} = allocated
    /\ Cardinality(Steps) = Cardinality(allocated)

\* The list keeps the order in which transactions were sent, and removes one
\* transaction, the oldest equal one, for each one found in the ledger.
Contents == [i \in 1 .. Cardinality(Steps) |-> heap[Walk[i - 1]].tx]

Abstract == INSTANCE TxList WITH list <- Contents, taken <- removed

OutgoingSpec == Abstract!OutgoingSpec

===============================================================================
