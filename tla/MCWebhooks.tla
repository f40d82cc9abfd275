----------------------------- MODULE MCWebhooks -----------------------------
(***************************************************************************)
(* Instances of Webhooks for TLC.                                          *)
(***************************************************************************)
EXTENDS Webhooks, TLC

CONSTANTS e1, e2, w1, w2, w3, r1, r2

Symmetry == Permutations(Deliveries)
=============================================================================
