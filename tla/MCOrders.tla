------------------------------ MODULE MCOrders ------------------------------
(* Instances of Orders.tla for TLC. *)
EXTENDS Orders

OneProject == 1..1
TwoIds == 1..2

=============================================================================
