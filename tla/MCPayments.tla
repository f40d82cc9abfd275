----------------------------- MODULE MCPayments -----------------------------
(***************************************************************************)
(* Instances of Payments for TLC: every settlement mode, a refund in one   *)
(* part and in two, a request above and one at zero.                       *)
(***************************************************************************)
EXTENDS Payments, TLC

CONSTANTS p1, p2, d1, d2

MCCharges == [amount : {2}, fee : {0, 1, 3}, mode : SettlementModes]

\* Statuses named by the status steps of the built-in scenarios
BuiltInTargets == {"pending", "processing", "requires_action", "successful"}

Symmetry == Permutations(Payments) \cup Permutations(Disputes)
=============================================================================
