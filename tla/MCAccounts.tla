------------------------------- MODULE MCAccounts ------------------------------
(* Accounts on small instances. *)
EXTENDS Accounts, TLC

\* Builders and users are interchangeable: no liveness is checked.
Symmetry == Permutations(Builders) \cup Permutations(User)

\* Nothing more is said of the balances once shared memory has changed after a
\* look at it, or a user has gone astray: such states are checked, but not those
\* that follow them.
StillExact == ~late /\ \A u \in User : stage[u] # "astray"

===============================================================================
