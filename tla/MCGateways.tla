----------------------------- MODULE MCGateways -----------------------------
(***************************************************************************)
(* Two merchants' requests, alike, against one row of one provider.        *)
(***************************************************************************)
EXTENDS Gateways, TLC

CONSTANTS a, b

TwoCallers == {a, b}
Alike == Permutations(TwoCallers)
=============================================================================
