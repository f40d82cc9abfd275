------------------------------ MODULE Paystack ------------------------------
(***************************************************************************)
(* Paystack's transactions: initialised and paid on a page, or charged     *)
(* directly and followed through PIN and OTP, and its refunds, which a job *)
(* settles and which may ask the merchant for details.                     *)
(***************************************************************************)
EXTENDS Gateway

toPaystackStatus(s) ==
    CASE s \in {"created", "pending"} -> "pending"
      [] s \in {"processing", "authorized"} -> "processing"
      [] s = "requires_action" -> "ongoing"
      [] s \in {"successful", "partially_refunded"} -> "success"
      [] s = "failed" -> "failed"
      [] s \in {"cancelled", "expired"} -> "abandoned"
      [] s = "refunded" -> "reversed"

RefundOutcome == {"successful", "failed", "needs_attention"}

\* A reference is made up when the merchant gives none, so a request that is
\* repeated is only known by its key.
PaystackInitialize(t) ==
    LET program == CreateWith("pending", {"expires", "fresh"})
    IN  ServeNew(t, program) \/ ServeKeyed(t, WithKey(program))

\* A channel that parks waits for the payer, and its outcome is queued too.
PaystackCharge(t, o) ==
    \E s \in {"requires_action", "processing"} :
        ServeNew(t, CreateWith("pending", {"expires"}) \o To(s)
                      \o Enqueue("simulate", o))

\* charge_authorization and partial_debit
chargeStoredAuthorization(t, o) ==
    ServeNew(t, Create("payment", "pending") \o Apply(o))

PaystackSubmitPin(t) ==
    ServeIn({"requires_action"}, t, Apply("authentication_failed"))

PaystackSubmitOtp(t, right) ==
    ServeIn({"requires_action"}, t,
            Apply(IF right THEN "success" ELSE "authentication_failed"))

PaystackPay(t, o) ==
    \E s \in {"requires_action", "processing"} :
        ServeOn("payment", t, To(s) \o Enqueue("simulate", o))

PaystackRefund(t, outcome) ==
    ServeOn("payment", t, Refund \o Enqueue("refund", outcome))

\* The details a refund asked for: it is settled with them.
PaystackRetryRefund(t, outcome) ==
    refund = "needs_attention" /\ ServeOn("payment", t,
        RefundTo("processing") \o
        RefundTo(IF outcome = "failed" THEN "failed" ELSE "successful"))

PaystackTransfer(t) == ServeNew(t, Create("payout", "pending"))

PaystackRoute(t) ==
    \/ PaystackInitialize(t) \/ PaystackSubmitPin(t) \/ PaystackTransfer(t)
    \/ \E right \in BOOLEAN : PaystackSubmitOtp(t, right)
    \/ \E o \in Outcomes :
          \/ PaystackCharge(t, o) \/ chargeStoredAuthorization(t, o)
          \/ PaystackPay(t, o)
    \/ \E outcome \in RefundOutcome :
          PaystackRefund(t, outcome) \/ PaystackRetryRefund(t, outcome)
=============================================================================
