---------------------------- MODULE MCSendAttempt ----------------------------
(* TLC instance of SendAttempt: model values for the identifiers, and their *)
(* symmetries.                                                             *)
EXTENDS SendAttempt, TLC

Symmetry == Permutations(Attempts) \cup Permutations(Workers)
=============================================================================
