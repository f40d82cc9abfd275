------------------------------- MODULE Stripe -------------------------------
(***************************************************************************)
(* Stripe's PaymentIntents, Charges and Checkout Sessions.  A declined     *)
(* intent may be confirmed again; one of manual capture stops at           *)
(* authorized; a session may start a subscription.                         *)
(***************************************************************************)
EXTENDS Gateway

toStripeStatus(s) ==
    CASE s \in {"created", "failed"} -> "requires_payment_method"
      [] s = "pending" -> "requires_confirmation"
      [] s \in {"processing", "requires_action"} -> s
      [] s = "authorized" -> "requires_capture"
      [] s \in {"successful", "refunded", "partially_refunded"} -> "succeeded"
      [] s \in {"cancelled", "expired"} -> "canceled"

\* A manual capture is decided when the intent is made.
confirmPayment(manual, o) ==
    Resume("processing") \o
    IF manual /\ o = "success" THEN To("authorized") ELSE Enqueue("simulate", o)

StripeCreateIntent(t, manual) ==
    LET new  == CreateWith("created", IF manual THEN {"manual"} ELSE {})
        paid == new \o To("pending")
    IN  \E program \in {new, paid} \cup
                        {paid \o confirmPayment(manual, o) : o \in Outcomes} :
            ServeNew(t, program)

\* With new card details, or with those it has
StripeConfirm(t, o) ==
    \E details \in {Resume("pending"), <<>>} :
        ServeRead(t,
            details \o Read \o confirmPayment("manual" \in row.flags, o))

\* simulator.capture, of an intent or of a charge
capture == Require({"authorized"}) \o To("processing") \o To("successful")

StripeCapture(t) == ServeIn({"authorized"}, t, capture)

StripeCancel(t) == ServeOn("payment", t, To("cancelled"))

\* A charge that needs a step-up cannot have one.
StripeCharge(t, o) ==
    \/ ServeNew(t, Create("payment", "pending") \o Apply(o) \o
           IF o = "authentication_required"
           THEN Apply("authentication_failed") ELSE <<>>)
    \/ o = "success" /\ ServeNew(t, Create("payment", "pending")
           \o To("processing") \o To("authorized"))

StripeSession(t) == ServeNew(t, CreateWith("created", {"expires"}))

StripeExpireSession(t) ==
    row.status # "successful" /\ ServeOn("payment", t, To("expired"))

\* The page of a session, which in subscription mode starts the subscription
StripePaySession(t, o) ==
    \E subscribes \in BOOLEAN :
        ServeOn("payment", t,
            To("pending") \o Read \o confirmPayment(FALSE, o) \o
            IF subscribes THEN Flag("subscribed") ELSE <<>>)

StripeRefund(t) == ServeOn("payment", t, Refund \o RefundTo("successful"))

StripeRoute(t) ==
    \/ StripeCapture(t) \/ StripeCancel(t) \/ StripeSession(t)
    \/ StripeExpireSession(t) \/ StripeRefund(t)
    \/ \E o \in Outcomes :
          \/ StripeConfirm(t, o) \/ StripeCharge(t, o) \/ StripePaySession(t, o)
    \/ \E manual \in BOOLEAN : StripeCreateIntent(t, manual)
=============================================================================
