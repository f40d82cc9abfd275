------------------------------ MODULE HostApi ------------------------------
(***************************************************************************)
(* The control API a developer steers payments with, whatever provider     *)
(* they belong to.                                                         *)
(***************************************************************************)
EXTENDS Gateway

\* With "immediate", only the last hop of the outcome is made.
HostSimulate(t, o) ==
    LET path == PLANS[o]
    IN  \/ ServeRead(t, Apply(o))
        \/ ServeRead(t, Read \o Unless(path[Len(path)]))

HostMove(t, s) == ServeOn("payment", t, To(s))

HostCapture(t) ==
    ServeIn({"authorized"}, t, To("processing") \o To("successful"))

HostAuthenticate(t, approved) ==
    ServeIn({"requires_action"}, t,
            Apply(IF approved THEN "success" ELSE "authentication_failed"))

HostRefund(t) ==
    \/ ServeOn("payment", t, Refund)
    \/ ServeOn("payment", t, Refund \o RefundTo("successful"))

HostSettleTransfer(t, s) ==
    ServeOn("payout", t, To("processing") \o To(s))

HostRoute(t) ==
    \/ HostCapture(t) \/ HostRefund(t)
    \/ \E o \in Outcomes : HostSimulate(t, o)
    \/ \E s \in {"cancelled", "expired", "authorized"} : HostMove(t, s)
    \/ \E approved \in BOOLEAN : HostAuthenticate(t, approved)
    \/ \E s \in {"successful", "failed"} : HostSettleTransfer(t, s)
=============================================================================
