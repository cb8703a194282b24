------------------------------ MODULE MCLedger ------------------------------
(* Small instances of Ledger for TLC. *)
EXTENDS Ledger, TLC

(* No action and no property tells two calls or two refunds apart. *)
Symmetry == Permutations(Call) \cup Permutations(RefundId)
=============================================================================
