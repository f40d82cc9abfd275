------------------------------ MODULE QuiddPay ------------------------------
(***************************************************************************)
(* QuiddPay's sessions.  What the payer tries is an attempt, a record kept *)
(* beside the payment: it is written after the payment moved, by whoever   *)
(* moved it, from the copy that request loaded.                            *)
(***************************************************************************)
EXTENDS Gateway

toQuiddpaySessionStatus(s) ==
    CASE s \in {"created", "pending"} -> "open"
      [] s \in {"processing", "requires_action", "authorized"} -> "pending"
      [] s \in {"successful", "refunded", "partially_refunded"} -> "success"
      [] s \in {"failed", "cancelled"} -> "failed"
      [] s = "expired" -> "expired"

toQuiddpayPayoutStatus(s) ==
    CASE s \in {"created", "pending"} -> "requested"
      [] s = "successful" -> "paid"
      [] s = "reversed" -> "returned"
      [] OTHER -> s

\* Not isFinalized
Payable ==
    {s \in PaymentStatus : toQuiddpaySessionStatus(s) \in {"open", "pending"}}

QuiddSession(t) == ServeNew(t, CreateWith("pending", {"expires"}))

\* The rail's instructions go out, then the attempt is on record.
startAttempt(rail) ==
    To(IF rail = "momo" THEN "requires_action" ELSE "processing") \o Begin(rail)

QuiddStartAttempt(t, rail) ==
    ServeIn(Payable, t, NonePending \o startAttempt(rail))

\* Mutant: the attempt is marked before the wallet has answered
settleByInstrumentEarly(i, o) ==
    Put(i, IF Stepped(o) = "success" THEN "paid" ELSE "failed") \o Apply(Stepped(o))

\* The wallet answers, and the attempt says what became of the payment.
settleByInstrument(i, o) == Apply(Stepped(o)) \o Put(i, "seen")

QuiddAuthorize(t, i, o) ==
    attempt[i].rail = "momo"
    /\ ServeIn({"requires_action"}, t, settleByInstrument(i, o))

\* The hosted page: prompt and PIN in one request
QuiddPayPage(t, rail, o) ==
    ServeIn(Payable, t, startAttempt(rail) \o
        IF rail = "momo" THEN settleByInstrument(0, o) ELSE <<>>)

\* The simulator of a test attempt.  A pending outcome puts the attempt back
\* as it was loaded.
applyTestOutcome(i, outcome) ==
    CASE outcome = "paid" -> Apply("success") \o Put(i, "paid")
      [] outcome = "failed" -> Apply("declined") \o Put(i, "failed")
      [] outcome = "expired" -> To("expired") \o Put(i, "expired")
      [] outcome = "cancelled" ->
            Apply("authentication_failed") \o Put(i, "cancelled")
      [] outcome = "reversed" -> Apply("declined") \o Put(i, "reversed")
      [] outcome = "manual_review" -> Put(i, "manual_review")
      [] outcome = "pending" -> Put(i, attempt[i].status)

QuiddSimulate(t, i, outcome) ==
    ServeIn(Payable, t, applyTestOutcome(i, outcome))

\* A payout is paid at once; its client reference makes a repeat a replay.
QuiddPayout(t) ==
    ServeNew(t, Create("payout", "pending") \o To("successful"))

QuiddCancelPayout(t) ==
    row.status \in {"pending", "processing"}
    /\ ServeOn("payout", t, To("cancelled"))

QuiddRoute(t) ==
    \/ QuiddSession(t) \/ QuiddPayout(t) \/ QuiddCancelPayout(t)
    \/ \E rail \in Rail :
          \/ QuiddStartAttempt(t, rail)
          \/ \E o \in Outcomes : QuiddPayPage(t, rail, o)
    \/ \E i \in DOMAIN attempt :
          \/ \E o \in Outcomes : QuiddAuthorize(t, i, o)
          \/ \E outcome \in AttemptStatus : QuiddSimulate(t, i, outcome)
=============================================================================
