------------------------------ MODULE Gateways ------------------------------
(***************************************************************************)
(* The adapters side by side: one row, of one of the providers, its        *)
(* routes, the control API and the scheduler.                              *)
(***************************************************************************)
EXTENDS Kora, Flutterwave, Tingg, WeWire, QuiddPay, Paystack, Stripe,
        Wise, HostApi

Providers == {"kora", "flutterwave", "tingg", "wewire", "quiddpay",
              "paystack", "stripe", "wise"}

CONSTANTS
    Modelled,   \* bound: the providers a check is about
    Steered     \* bound: those whose rows the control API moves too
ASSUME ModelledAssumption == Steered \subseteq Modelled /\ Modelled \subseteq Providers

Init == provider \in Modelled /\ GatewayInit

Route(t) ==
    \/ provider = "kora" /\ KoraRoute(t)
    \/ provider = "flutterwave" /\ FlwRoute(t)
    \/ provider = "tingg" /\ TinggRoute(t)
    \/ provider = "wewire" /\ WeWireRoute(t)
    \/ provider = "quiddpay" /\ QuiddRoute(t)
    \/ provider = "paystack" /\ PaystackRoute(t)
    \/ provider = "stripe" /\ StripeRoute(t)
    \/ provider = "wise" /\ WiseRoute(t)
    \/ provider \in Steered /\ HostRoute(t)

Next == GatewayNext \/ \E t \in Callers : Route(t)

\* The server keeps running the handlers it started, and its scheduler.
Fairness ==
    /\ WF_vars(Claim) /\ WF_vars(RunJob)
    /\ \A t \in Tasks : WF_vars(GatewayStep(t))

Spec == Init /\ [][Next]_vars

FairSpec == Spec /\ Fairness

-----------------------------------------------------------------------------
\* The provider's own word for the status of a row
Word(p, r) ==
    CASE r.kind = "none" -> "none"
      [] r.kind = "payment" ->
          (CASE p = "kora" -> toKoraStatus(r.status)
             [] p = "flutterwave" -> toFlutterwaveStatus(r.status)
             [] p = "tingg" -> toTinggStatus(r.status)
             [] p = "wewire" -> toWewireStatus(r.status)
             [] p = "quiddpay" -> toQuiddpaySessionStatus(r.status)
             [] p = "paystack" -> toPaystackStatus(r.status)
             [] p = "stripe" -> toStripeStatus(r.status))
      [] r.kind = "payout" ->
          (CASE p = "kora" -> toKoraTransferStatus(r.status)
             [] p = "flutterwave" -> toFlutterwaveTransferStatus(r.status)
             [] p = "tingg" -> toBeepStatus(r.status)
             [] p = "wewire" -> toWewireTransferStatus(r.status)
             [] p = "quiddpay" -> toQuiddpayPayoutStatus(r.status)
             [] p = "wise" -> TRANSFER_TO_WISE(r.status)
             [] OTHER -> r.status)

\* What a word tells the merchant
Tells(word) ==
    CASE word = "none" -> "none"
      [] word \in {"success", "successful", "SUCCESSFUL", "succeeded", "183",
                   "paid", "outgoing_payment_sent"} -> "paid"
      [] word \in {"failed", "FAILED", "180", "expired", "cancelled",
                   "CANCELLED", "canceled", "abandoned", "bounced_back"} -> "ended"
      [] word \in {"reversed", "REVERSED", "returned", "funds_refunded"} -> "returned"
      [] OTHER -> "open"

Answered == Tells(Word(provider, row))

\* The adapters implement the promise: whatever the requests, the jobs and
\* the deaths in between, the words a merchant reads go the way Promise says.
Promised == INSTANCE Promise WITH answer <- Answered, payments <- past.collected

PromiseKept == Promised!PromiseSpec

\* At a provider whose charges a job decides, a charge under way has its
\* outcome queued or claimed, or the handler that will queue or make it still
\* at work: however requests and jobs interleave, a later charge's job is not
\* lost to the end of an earlier one.  Excepted are a death (the job is not
\* queued in the transition's transaction) and an intent confirmed again after
\* a decline, whose new job the old one's cleanup may cancel.
DecidedByJob == {"paystack", "stripe"}

WillDecide(t) ==
    \E i \in DOMAIN task[t].todo :
        task[t].todo[i].op \in {"enqueue", "to", "hop", "resume"}

OutcomeIsDriven ==
    provider \in DecidedByJob /\ row.kind = "payment"
    /\ row.status = "processing" /\ deaths = 0 /\ ~ past.retried =>
        \/ \E i \in DOMAIN jobs : jobs[i].kind = "simulate"
        \/ \E i \in DOMAIN batch : batch[i].job.kind = "simulate"
        \/ \E t \in Tasks : WillDecide(t)

\* Liveness: an outcome that was queued is played and the row does not stay
\* as it was, over deaths too where only jobs move a row that was charged.
\* Elsewhere a page that starts the charge again makes the job before it fail
\* on the status it had read, and then the page's own job must not be lost; a
\* declined intent confirmed again is excepted as above.
ChargedByJobsOnly == {"tingg", "wewire"}

OutcomeArrives ==
    (\E i \in DOMAIN jobs : jobs[i].kind \in {"simulate", "settle"})
        ~> \/ row.status \notin {"created", "pending", "processing"}
           \/ deaths > 0 /\ provider \notin ChargedByJobsOnly
           \/ past.retried

\* A request repeated after its answer was stored creates nothing.
KeyedOnce == ~ past.repeated

\* Of the attempts at a QuiddPay session at most one is paid, and only if the
\* payment was collected, whoever answers for which attempt in which order.
\* Rows, jobs and attempts keep their types.
PaidAttemptOnce ==
    LET paid == {i \in DOMAIN attempt : attempt[i].status = "paid"}
    IN  /\ TypeOK
        /\ Cardinality(paid) <= 1
        /\ paid # {} => past.collected = 1
=============================================================================
