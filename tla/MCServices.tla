----------------------------- MODULE MCServices -----------------------------
(* The services on small sets of users, keys, addresses, mails and requests. *)
EXTENDS Services
=============================================================================
