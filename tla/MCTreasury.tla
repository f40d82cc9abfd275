----------------------------- MODULE MCTreasury -----------------------------
EXTENDS Treasury

Forwarded(n, fee, cut) == [amount |-> n, fee |-> fee, cut |-> cut, currency |-> "EUR",
                           mode |-> "forwarded", collector |-> "account"]

MCSales == <<Forwarded(3, 2, 1)>>
MCRefundOf == <<1>>
MCDisputeOf == <<1>>
MCRate == <<1, 2>>
=============================================================================
