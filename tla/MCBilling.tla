----------------------------- MODULE MCBilling -----------------------------
(* Small instances of Billing: see the .cfg files that use it. *)
EXTENDS Billing, TLC

PaymentSymmetry == Permutations(Payments)

=============================================================================
