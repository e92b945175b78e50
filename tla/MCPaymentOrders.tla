--------------------------- MODULE MCPaymentOrders ---------------------------
(* Instances of PaymentOrders for TLC. *)
EXTENDS PaymentOrders
=============================================================================
