------------------------------ MODULE MCBilling ------------------------------
(* Billing alone, against what the documentation says of late events.        *)
EXTENDS Billing
=============================================================================
