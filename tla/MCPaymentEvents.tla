-------------------------- MODULE MCPaymentEvents ---------------------------
(* One order, two checkouts one after the other, two overlapping invocations. *)
EXTENDS PaymentEvents
=============================================================================
