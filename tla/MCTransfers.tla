----------------------------- MODULE MCTransfers -----------------------------
(***************************************************************************)
(* Instances of Transfers for TLC: payouts with a fee that is and is not   *)
(* returned, transfers between two balances in both directions, and Wise   *)
(* transfers, which have no fee.                                           *)
(***************************************************************************)
EXTENDS Connect, TLC

CONSTANTS acc, r1, r2

Payout(from, amount, fee, refundable, status) ==
    [amount |-> amount, fee |-> fee, feeRefundable |-> refundable,
     reserve |-> TRUE, from |-> from, to |-> Bank, status |-> status]
Move(from, to, amount) ==
    [amount |-> amount, fee |-> 0, feeRefundable |-> TRUE, reserve |-> TRUE,
     from |-> from, to |-> to, status |-> "successful"]
Wise(amount) ==
    [amount |-> amount, fee |-> 0, feeRefundable |-> TRUE, reserve |-> FALSE,
     from |-> Platform, to |-> Bank, status |-> "pending"]

MCKinds ==
    {Payout(Platform, 2, 1, TRUE, "pending"),
     Payout(Platform, 1, 1, FALSE, "processing"),
     Payout(acc, 1, 0, TRUE, "pending"),
     Move(Platform, acc, 2), Move(acc, Platform, 1), Wise(2)}

Alike == Permutations(Requests)

MCTerms == [amount : {3}, fee : {1}, mode : {"direct", "forwarded"}, account : {acc}]
=============================================================================
