------------------------------ MODULE MCBilling ------------------------------
(***************************************************************************)
(* Periods and retries scaled down: the second retry falls after the next  *)
(* renewal, as the third of the code's does for a weekly plan.             *)
(***************************************************************************)
EXTENDS Billing

Offsets == <<1, 3>>
=============================================================================
