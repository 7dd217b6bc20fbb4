------------------------------- MODULE MCLedger -------------------------------
(* Ledger on small instances. *)
EXTENDS Ledger, TLC

\* Builders are interchangeable (used where no liveness is checked).
BuilderSymmetry == Permutations(Builders)

===============================================================================
