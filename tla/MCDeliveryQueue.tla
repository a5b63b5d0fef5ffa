--------------------------- MODULE MCDeliveryQueue ---------------------------
(* TLC instance of DeliveryQueue.                                          *)
EXTENDS DeliveryQueue, TLC

Symmetry == Permutations(Attempts) \cup Permutations(Workers) \cup Permutations(Tokens)
=============================================================================
