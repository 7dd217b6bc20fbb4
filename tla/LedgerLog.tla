------------------------------ MODULE LedgerLog -------------------------------
(***************************************************************************)
(* What the ledger promises: a sequence of at most SO_REGISTRY_SIZE        *)
(* consecutive blocks to which blocks are only ever appended, each once.   *)
(* Ledger is shown to implement it until two block builders have chosen    *)
(* the same index.                                                         *)
(***************************************************************************)
EXTENDS Integers, Sequences

CONSTANTS
    Builders,          \* the blocks that may be appended
    SO_REGISTRY_SIZE   \* the capacity of the ledger, in blocks

VARIABLE log

Init == log = <<>>

AppendBlock(b) ==
    /\ \A p \in DOMAIN log : log[p] # b
    /\ Len(log) < SO_REGISTRY_SIZE
    /\ log' = Append(log, b)

Next == \E b \in Builders : AppendBlock(b)

Spec == Init /\ [][Next]_log

===============================================================================
