----------------------------- MODULE MCPayouts -----------------------------
EXTENDS Payouts, Sequences

CONSTANTS q, v

MCPrice == <<1, 1>>
MCNone == <<>>
MCOne == <<1>>
MCAsks == {[kind |-> "payout", ref |-> 21, quote |-> q, amount |-> 1],
           [kind |-> "conversion", ref |-> 0, quote |-> v, amount |-> 1]}
=============================================================================
