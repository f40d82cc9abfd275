------------------------------ MODULE Promise ------------------------------
(***************************************************************************)
(* What any provider promises the merchant about one payment or payout,    *)
(* in the words the merchant is shown: it is open until it is paid or      *)
(* ends, it is paid at most once, and what is over stays over, except that *)
(* money which was paid may come back.                                     *)
(***************************************************************************)
EXTENDS Naturals

VARIABLES
    answer,   \* what the merchant is shown
    payments  \* how often money moved for it

Answer == {"none", "open", "paid", "ended", "returned"}

PromiseInit == answer = "none" /\ payments = 0

Ask == answer = "none" /\ answer' = "open" /\ UNCHANGED payments

Pay == answer = "open" /\ payments = 0 /\ answer' = "paid" /\ payments' = 1

End == answer = "open" /\ answer' = "ended" /\ UNCHANGED payments

\* A paid one is given back; a payout may come back before it arrived.
Return ==
    answer \in {"open", "paid"} /\ answer' = "returned" /\ UNCHANGED payments

PromiseNext == Ask \/ Pay \/ End \/ Return

PromiseSpec == PromiseInit /\ [][PromiseNext]_<<answer, payments>>
=============================================================================
