------------------------------- MODULE Tingg -------------------------------
(***************************************************************************)
(* Tingg's checkout, where every charge request queues an outcome of its   *)
(* own and the first to fire decides, and its payouts, whose transaction   *)
(* id is the key of a retry.                                               *)
(***************************************************************************)
EXTENDS Gateway

toTinggStatus(s) ==
    CASE s \in {"successful", "refunded", "partially_refunded"} -> "183"
      [] s \in {"failed", "cancelled", "expired"} -> "180"
      [] OTHER -> "130"

toBeepStatus(s) ==
    CASE s \in {"created", "pending"} -> "139"
      [] s = "processing" -> "148"
      [] s = "successful" -> "183"
      [] s \in {"failed", "cancelled", "reversed"} -> "180"

\* postCharge: opens the checkout if it was still new when it was loaded.
postCharge(o) == When({"created"}, "pending") \o Enqueue("simulate", o)

TinggExpressRequest(t) == ServeNew(t, CreateWith("pending", {"expires"}))

TinggRequest(t) == ServeNew(t, CreateWith("created", {"expires"}))

TinggCheckoutCharge(t, o) ==
    ServeNew(t, CreateWith("created", {"expires"}) \o postCharge(o))

\* charge/request, and the hosted page
TinggCharge(t, o) ==
    ServeIn({"created", "pending", "requires_action"}, t, postCharge(o))

\* Nothing settles it: the merchant does, through the control API.
TinggRefund(t) == ServeOn("payment", t, Refund)

\* postPayment: the record that makes a repeat a retry is put after the
\* transfer is created, and the job that settles it after the record.
TinggPostPayment(t, o) ==
    row.kind # "payment" /\ ServeKeyed(t,
        Lookup \o Create("payout", "pending") \o Store \o Enqueue("settle", o))

TinggRoute(t) ==
    \/ TinggExpressRequest(t) \/ TinggRequest(t) \/ TinggRefund(t)
    \/ \E o \in Outcomes : TinggCheckoutCharge(t, o) \/ TinggCharge(t, o)
    \/ \E o \in {"successful", "failed"} : TinggPostPayment(t, o)
=============================================================================
