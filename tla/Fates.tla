--------------------------------- MODULE Fates ---------------------------------
(***************************************************************************)
(* What the users may rely on (get_balance in users.c): a transaction they *)
(* send is not yet in the ledger they read, or it is there once, or it     *)
(* will never be there again.  Journey, nodes and builders together, is    *)
(* shown to implement it, and User to assume no more of the others.        *)
(***************************************************************************)

CONSTANT Tx     \* the transactions

VARIABLE fate   \* of each, sent or not

Init == fate = [t \in Tx |-> "pending"]

\* What may become of a transaction from one moment to the next.
Turns ==
    {<<"pending", "confirmed">>, <<"pending", "lost">>, <<"confirmed", "lost">>}

\* Any number of transactions may become visible, or lost, at the same time.
Next == \A t \in Tx : fate'[t] = fate[t] \/ <<fate[t], fate'[t]>> \in Turns

Spec == Init /\ [][Next]_fate

===============================================================================
