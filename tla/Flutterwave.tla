---------------------------- MODULE Flutterwave ----------------------------
(***************************************************************************)
(* Flutterwave's two API generations.  In v3 a second charge under the     *)
(* same reference continues the first; in v4 the scenario key of the       *)
(* request says what happens.                                              *)
(***************************************************************************)
EXTENDS Gateway

toFlutterwaveStatus(s) ==
    CASE s \in {"created", "pending", "processing", "requires_action",
                "authorized"} -> "pending"
      [] s \in {"successful", "refunded", "partially_refunded"} -> "successful"
      [] s \in {"failed", "cancelled", "expired"} -> "failed"

toFlutterwaveTransferStatus(s) ==
    CASE s = "successful" -> "SUCCESSFUL"
      [] s \in {"failed", "cancelled"} -> "FAILED"
      [] s = "reversed" -> "REVERSED"
      [] OTHER -> "NEW"

-----------------------------------------------------------------------------
\* v3
FlwPayments(t) == ServeNew(t, Create("payment", "pending"))

\* chargeCard, when the card asks for a PIN, an address or 3-D Secure
FlwParkCard(t) ==
    row.kind # "payout" /\ Serve(t, Ensure("pending") \o Unless("requires_action"))

\* chargeCard, with what was asked for, or an OTP
FlwAuthorizeCard(t, o) ==
    row.kind # "payout" /\ Serve(t, Ensure("pending") \o Apply(Stepped(o)))

\* chargeCard, for a card that asks nothing: whatever the payment's status
FlwChargeCard(t, o) ==
    row.kind # "payout" /\ Serve(t, Ensure("pending") \o Enqueue("simulate", o))

\* chargeRail
FlwChargeWallet(t) ==
    \/ ServeNew(t, Create("payment", "pending") \o To("requires_action"))
    \/ ServeNew(t, Create("payment", "pending") \o Apply("declined"))

FlwChargeRail(t, o) ==
    ServeNew(t, Create("payment", "pending") \o Enqueue("simulate", o))

FlwValidate(t, o) == ServeIn({"requires_action"}, t, Apply(Stepped(o)))

FlwRefund(t) == ServeOn("payment", t, Refund \o RefundTo("successful"))

FlwTransfer(t) == ServeNew(t, Create("payout", "pending"))

FlwTokenized(t) ==
    ServeNew(t, Create("payment", "pending") \o Apply("success"))

FlwPay(t, o) ==
    ServeOn("payment", t, To("processing") \o Enqueue("simulate", o))

\* The 3-D Secure page
FlwPage3ds(t) == ServeIn({"requires_action"}, t, Apply("success"))

-----------------------------------------------------------------------------
\* v4
FlwV4Charge(t, o) ==
    \/ ServeNew(t, Create("payment", "pending"))  \* an unknown scenario
    \/ ServeNew(t, Create("payment", "pending") \o To("requires_action"))
    \/ ServeNew(t, Create("payment", "pending") \o Apply(o))

\* The PIN of a card that falls over to 3-D Secure is taken once.
FlwV4Pin(t) ==
    "pin" \notin row.flags /\ ServeIn({"requires_action"}, t, Flag("pin"))

\* The authorization, or the redirect page
FlwV4Authorize(t, o) == ServeIn({"requires_action"}, t, Apply(o))

FlwV4Transfer(t) ==
    \E rest \in {To("successful"), To("failed"),
                 To("processing") \o To("reversed")} :
        ServeNew(t, Create("payout", "pending") \o rest)

FlwRoute(t) ==
    \/ FlwPayments(t) \/ FlwParkCard(t) \/ FlwChargeWallet(t)
    \/ FlwRefund(t) \/ FlwTransfer(t) \/ FlwTokenized(t) \/ FlwPage3ds(t)
    \/ FlwV4Pin(t) \/ FlwV4Transfer(t)
    \/ \E o \in Outcomes :
          \/ FlwAuthorizeCard(t, o) \/ FlwChargeCard(t, o)
          \/ FlwChargeRail(t, o) \/ FlwValidate(t, o) \/ FlwPay(t, o)
          \/ FlwV4Charge(t, o) \/ FlwV4Authorize(t, o)
=============================================================================
