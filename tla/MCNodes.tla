-------------------------------- MODULE MCNodes --------------------------------
(* Nodes on small instances. *)
EXTENDS Nodes

\* Transactions are interchangeable (used where no liveness is checked).
TxSymmetry == Permutations(Tx)

===============================================================================
