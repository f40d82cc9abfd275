-------------------------------- MODULE Wise --------------------------------
(***************************************************************************)
(* Wise's transfers: created without a reserve, funded from a balance by   *)
(* a second request (whose debit Transfers models), cancelled while they   *)
(* have not been sent, and moved on by the simulation endpoints.           *)
(***************************************************************************)
EXTENDS Gateway

TRANSFER_TO_WISE(s) ==
    CASE s \in {"created", "pending"} -> "incoming_payment_waiting"
      [] s = "processing" -> "processing"
      [] s = "successful" -> "outgoing_payment_sent"
      [] s = "failed" -> "bounced_back"
      [] s = "cancelled" -> "cancelled"
      [] s = "reversed" -> "funds_refunded"

\* The customer's transaction id is both the key and the reference.
WiseCreateTransfer(t) ==
    ServeKeyed(t, Lookup \o Create("payout", "pending") \o Store)

WiseFund(t) ==
    row.status = "pending" /\ ServeOn("payout", t, To("processing"))

WiseCancel(t) ==
    row.status \notin {"successful", "reversed"}
    /\ ServeOn("payout", t, To("cancelled"))

\* Every simulated status is reached from pending by way of processing.
WiseSimulate(t, target) ==
    ServeOn("payout", t,
        IF target = "processing" THEN Unless(target)
        ELSE When({"pending"}, "processing") \o Unless(target))

WiseRoute(t) ==
    \/ WiseCreateTransfer(t) \/ WiseFund(t) \/ WiseCancel(t)
    \/ \E target \in {"processing", "successful", "failed", "reversed"} :
          WiseSimulate(t, target)
=============================================================================
