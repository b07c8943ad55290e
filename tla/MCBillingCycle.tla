--------------------------- MODULE MCBillingCycle ---------------------------
(* Symmetry for the TLC runs of BillingCycle. *)
EXTENDS BillingCycle, TLC

RowSymmetry == Permutations(Payment) \cup Permutations(Evidence) \cup Permutations(CashKey)
=============================================================================
