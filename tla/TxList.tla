-------------------------------- MODULE TxList --------------------------------
(***************************************************************************)
(* A list of transactions as its users see it: what the linked lists of    *)
(* pool.c and lklist.c implement.                                          *)
(***************************************************************************)
EXTENDS Sequences, SequencesExt

CONSTANTS
    Tx,      \* the transactions it may hold
    None     \* the answer when there is nothing to take

VARIABLES
    list,    \* its transactions, the oldest first
    taken    \* the transaction the last operation took out, or None

vars == <<list, taken>>

Init == list = <<>> /\ taken = None

Add(t) ==
    /\ list' = Append(list, t)
    /\ taken' = None

\* Take the oldest transaction.
TakeHead ==
    IF list = <<>>
    THEN taken' = None /\ UNCHANGED list
    ELSE taken' = Head(list) /\ list' = Tail(list)

\* Take the oldest transaction equal to t.
Take(t) ==
    IF Contains(list, t)
    THEN taken' = t /\ list' = RemoveFirst(list, t)
    ELSE taken' = None /\ UNCHANGED list

\* What a pool may do, and what a list of outgoing transactions may.
PoolSpec == Init /\ [][TakeHead \/ \E t \in Tx : Add(t)]_vars
OutgoingSpec == Init /\ [][\E t \in Tx : Add(t) \/ Take(t)]_vars

===============================================================================
