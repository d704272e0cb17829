---------------------------- MODULE MCBillingBin ----------------------------
(* Small instances of BillingBin: see the .cfg files that use it. *)
EXTENDS BillingViews, TLC

PaymentSymmetry == Permutations(Payments)

=============================================================================
