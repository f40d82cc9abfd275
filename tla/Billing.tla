------------------------------- MODULE Billing -------------------------------
(***************************************************************************)
(* Bachs billing of one subscription after its checkout: the renewal job   *)
(* that opens and collects an invoice each period and queues its           *)
(* successor, the retries of an invoice that failed, their exhaustion, and *)
(* the requests of the API and the portal.  Jobs and requests hold the     *)
(* subscription's lock; the control API moves the core row without it.     *)
(* Every step is a statement or a transaction of its own, and the process  *)
(* may die between two of them.                                            *)
(***************************************************************************)
EXTENDS StateMachines, Sequences, Sums

CONSTANTS
    Period,       \* length of a billing cycle
    RetryOffsets, \* of the retries, from the first failure
    Recoveries,   \* what accounts do when they run out: "cancel", "unpaid"
    Prices,       \* what plans cost
    MaxTime,      \* bound: last instant a renewal happens, after the requests
    MaxEvents     \* bound: requests, tools and deaths of the process, in all

ASSUME PeriodAssumption == Period \in Nat \ {0}
ASSUME RetryAssumption ==
    /\ RetryOffsets \in Seq(Nat \ {0}) /\ RetryOffsets # <<>>
    /\ \A i \in 1..Len(RetryOffsets) - 1 : RetryOffsets[i] < RetryOffsets[i + 1]
ASSUME RecoveryAssumption == Recoveries \subseteq {"cancel", "unpaid"} /\ Recoveries # {}
ASSUME PricesAssumption == Prices \subseteq Nat \ {0} /\ Prices # {}
ASSUME BillingBounds == MaxTime \in Nat /\ MaxEvents \in Nat

VARIABLES
    now,      \* the clock
    core,     \* status of the engine's subscription
    stored,   \* the Bachs record beside it
    card,     \* the card it points at
    credit,   \* the customer's credit balance
    invoices, \* the engine's invoices, with their Bachs records
    jobs,     \* the queued jobs, in the order they were queued
    running,  \* the job the scheduler has in hand
    handler,  \* who holds the lock, what it has left to do and has read
    past      \* history: events so far, deaths, credit given, and whether a tool
              \* cut a handler short (crossed) or ended a recovery (strayed)

tables == <<core, stored, card, credit, invoices>>
billingVars == <<now, tables, jobs, running, handler, past>>

Null == -1
LastTime == MaxTime + RetryOffsets[Len(RetryOffsets)]
Cards == {"succeeds", "declines", "gone"}

Invoice ==
    [status : InvoiceStatus, kind : {"cycle", "proration"}, start : Int,
     amount : Nat, applied : Nat,
     record : BOOLEAN, retries : Nat, next : Int,  \* the Bachs record
     charged : Nat]                                \* history: times paid for

NoJob == [kind |-> "none", at |-> 0, due |-> 0, invoice |-> 0, retry |-> 0, first |-> 0]
Free == [todo |-> <<>>, by |-> "none", at |-> 0,
         invoice |-> 0, retry |-> 0, first |-> Null, extra |-> 0]

BillingTypeOK ==
    /\ now \in 0..LastTime
    /\ core \in SubscriptionStatus
    /\ stored \in [next : Int, trialEnd : Int, anchor : Int, cycles : Nat,
                   start : Int, end : Int, billed : BOOLEAN, ending : BOOLEAN,
                   owing : BOOLEAN, exhausted : BOOLEAN, price : Prices,
                   deferred : Nat]
    /\ card \in Cards /\ credit \in Int
    /\ invoices \in Seq(Invoice)
    /\ past \in [events : 0..MaxEvents, deaths : 0..MaxEvents, granted : Nat,
                 crossed : BOOLEAN, strayed : BOOLEAN]

RenewJob(due, at) == [NoJob EXCEPT !.kind = "renew", !.at = at, !.due = due]
RetryJob(i, retry, first, at) ==
    [NoJob EXCEPT !.kind = "retry", !.at = at, !.invoice = i,
                  !.retry = retry, !.first = first]

\* periodBoundary: always from the anchor
periodBoundary(anchor, k) == anchor + Period * k

\* A checkout started it, with a trial or with its first period paid.
BillingInit ==
    /\ now = 0
    /\ \E trial \in BOOLEAN, price \in Prices :
          /\ core = IF trial THEN "trialing" ELSE "active"
          /\ stored = [next |-> Period, trialEnd |-> IF trial THEN Period ELSE Null,
                       anchor |-> IF trial THEN Period ELSE 0,
                       cycles |-> IF trial THEN 0 ELSE 1,
                       start |-> 0, end |-> Period, billed |-> ~ trial,
                       ending |-> FALSE, owing |-> FALSE, exhausted |-> FALSE,
                       price |-> price, deferred |-> 0]
    /\ card \in Cards \ {"gone"} /\ credit = 0
    /\ invoices = <<>>
    /\ jobs = <<RenewJob(Period, Period)>>
    /\ running = [job |-> NoJob, begun |-> FALSE, cancelled |-> FALSE]
    /\ handler = Free
    /\ past = [events |-> 0, deaths |-> 0, granted |-> 0,
               crossed |-> FALSE, strayed |-> FALSE]

Ended(status) == status \in {"cancelled", "completed"}

\* subscriptionStatusOf
statusOf(at) ==
    CASE Ended(core) -> "canceled"
      [] ~ Ended(core) /\ (stored.owing \/ core = "attention") ->
            IF stored.exhausted THEN "unpaid" ELSE "past_due"
      [] OTHER -> IF core = "trialing" \/ stored.trialEnd > at
                  THEN "trialing" ELSE "active"

Owes(at) == statusOf(at) \in {"past_due", "unpaid"}

\* The share of a period still ahead, rounded half up
prorate(amount, remaining, period) ==
    IF period <= 0 \/ remaining <= 0 THEN 0
    ELSE IF remaining >= period THEN amount
    ELSE (amount * remaining * 2 + period) \div (2 * period)

-----------------------------------------------------------------------------
\* The steps a handler is made of
Step(op)     == <<[op |-> op, to |-> "any", n |-> 0]>>
To(status)   == <<[op |-> "core", to |-> status, n |-> 0]>>
Bill(i, s)   == <<[op |-> "bill", to |-> s, n |-> i]>>
Unattempt(i) == <<[op |-> "unattempt", to |-> "any", n |-> i]>>

Holds == handler.todo # <<>>
Current == Head(handler.todo)
At(op) == Holds /\ Current.op = op

\* What is left to do; the lock is given back by the handler that is done.
Goes(rest) ==
    handler' = IF rest = <<>> THEN Free ELSE [handler EXCEPT !.todo = rest]
Onward == Goes(Tail(handler.todo))
\* The handler returns, or a call of it throws.
Stops == handler' = Free

\* #end: the record, the jobs, what is still owed, and then the core row
endSubscription == Step("endRecord") \o Step("cancelGroup") \o Step("writeOff") \o To("cancelled")

\* #raiseInvoice and #collectFirst
raiseInvoice(kind) ==
    (IF kind = "cycle" THEN Step("carry") ELSE <<>>)
        \o <<[op |-> "createInvoice", to |-> kind, n |-> 0]>>
        \o Step("record") \o Step("spend") \o Step("attempt")

\* Mutant: the next renewal is queued only when this one was collected
renewThenSchedule ==
    IF core = "trialing" THEN Step("advance") \o To("active") ELSE Step("advance")

\* The period moves on, in #renew, before anything is charged for it.
renewing ==
    Step("advance") \o (IF core = "trialing" THEN To("active") ELSE <<>>)
        \o Step("scheduleRenewal")

\* #renew, once the record and the row are read
renew(due) ==
    IF stored.next # due \/ Ended(core) THEN <<>>
    ELSE IF stored.ending \/ core = "non_renewing" THEN endSubscription
    ELSE IF core = "attention" THEN Step("skip") \o Step("scheduleRenewal")
    ELSE renewing \o raiseInvoice("cycle")

\* Mutant: a retry does not ask whether the invoice was paid meanwhile
RetryStillAny(i, n) == TRUE

\* Not paid meanwhile, and this retry did not run before
RetryStill(i, n) ==
    invoices[i].status = "failed" /\ invoices[i].record /\ invoices[i].retries = n - 1

\* #retry
retry(i, n) ==
    IF Ended(core) \/ ~ RetryStill(i, n) THEN <<>>
    ELSE Step("attempt")
         \o IF n >= Len(RetryOffsets) THEN Step("exhaust") ELSE <<>>

\* An invoice that was paid for, or had nothing to pay
settled(i) == Unattempt(i) \o Bill(i, "success") \o Step("recovered")

\* ... or was refused: counted, owed, past due, and tried again
refused(i) ==
    Step("count")
        \o (IF invoices[i].status = "failed" THEN Bill(i, "pending") ELSE <<>>)
        \o Bill(i, "failed") \o Step("owe") \o Step("scheduleRetry")

-----------------------------------------------------------------------------
\* #load and the job's own checks, under the lock, at the job's instant
Dispatch ==
    /\ At("dispatch")
    /\ LET j == running.job
           program == IF j.kind = "renew" THEN renew(j.due)
                      ELSE retry(j.invoice, j.retry)
       IN  handler' = IF program = <<>> THEN Free
                      ELSE [handler EXCEPT !.todo = program, !.invoice = j.invoice,
                                           !.retry = j.retry, !.first = j.first]
    /\ UNCHANGED <<now, tables, jobs, running, past>>

\* The record is written.
WriteRecord ==
    LET due  == stored.next
        ends == due = stored.trialEnd
        base == IF ends THEN due ELSE stored.anchor
        k    == IF ends THEN 1 ELSE stored.cycles + 1
    IN  /\ Holds
        /\ \/ /\ Current.op = "advance"
              /\ stored' = [stored EXCEPT
                    !.anchor = base, !.cycles = k, !.start = due,
                    !.end = periodBoundary(base, k), !.next = periodBoundary(base, k),
                    !.billed = TRUE]
           \/ /\ Current.op = "skip"
              /\ LET next == periodBoundary(stored.anchor, stored.cycles + 1)
                 IN  stored' = [stored EXCEPT
                        !.cycles = @ + 1, !.start = due, !.end = next,
                        !.next = next, !.billed = FALSE]
           \/ /\ Current.op = "endRecord"
              /\ stored' = [stored EXCEPT !.owing = FALSE, !.next = Null]
           \/ Current.op = "undo" /\ stored' = [stored EXCEPT !.ending = FALSE]
           \/ Current.op = "exhausted" /\ stored' = [stored EXCEPT !.exhausted = TRUE]
        /\ Onward
        /\ UNCHANGED <<now, core, card, credit, invoices, jobs, running, past>>

\* transitionSubscription
transitionSubscription ==
    /\ At("core")
    /\ IF assertSubscriptionTransition(core, Current.to)
       THEN core' = Current.to /\ Onward
       ELSE Stops /\ UNCHANGED core
    /\ UNCHANGED <<now, stored, card, credit, invoices, jobs, running, past>>

\* #enqueue: never before the instant it is queued at
enqueue(j) ==
    jobs' = Append(jobs, [j EXCEPT !.at = IF @ < handler.at THEN handler.at ELSE @])

\* Mutant: retries are counted from the last failure
nextAttemptDrifting ==
    IF handler.retry < Len(RetryOffsets)
    THEN handler.at + RetryOffsets[handler.retry + 1] ELSE Null

\* The next try, counted from the first failure
nextAttempt ==
    IF handler.retry < Len(RetryOffsets)
    THEN (IF handler.first = Null THEN handler.at ELSE handler.first)
            + RetryOffsets[handler.retry + 1]
    ELSE Null

Schedule ==
    /\ Holds
    /\ \/ Current.op = "scheduleRenewal" /\ enqueue(RenewJob(stored.next, stored.next))
       \/ /\ Current.op = "scheduleRetry"
          /\ IF nextAttempt = Null THEN UNCHANGED jobs
             ELSE enqueue(RetryJob(handler.invoice, handler.retry + 1,
                     IF handler.first = Null THEN handler.at ELSE handler.first,
                     nextAttempt))
    /\ Onward
    /\ UNCHANGED <<now, tables, running, past>>

\* The job in hand runs on, but is not taken up again after a death.
cancelGroup ==
    /\ At("cancelGroup")
    /\ jobs' = <<>>
    /\ running' = [running EXCEPT !.cancelled = TRUE]
    /\ Onward
    /\ UNCHANGED <<now, tables, past>>

-----------------------------------------------------------------------------
\* What a plan change left to be paid with the next cycle goes on its invoice.
carryProration ==
    /\ At("carry")
    /\ stored' = [stored EXCEPT !.deferred = 0]
    /\ handler' = [handler EXCEPT !.todo = Tail(@), !.extra = stored.deferred]
    /\ UNCHANGED <<now, core, card, credit, invoices, jobs, running, past>>

\* createInvoice: the credit there is comes off the total.
createInvoice ==
    LET cycle    == Current.to = "cycle"
        subtotal == handler.extra + IF cycle THEN stored.price ELSE 0
        applied  == IF credit <= 0 THEN 0
                    ELSE IF credit < subtotal THEN credit ELSE subtotal
    IN  /\ At("createInvoice")
        /\ invoices' = Append(invoices,
              [status |-> "pending", kind |-> Current.to, start |-> stored.start,
               amount |-> subtotal - applied, applied |-> applied,
               record |-> FALSE, retries |-> 0, next |-> Null, charged |-> 0])
        /\ handler' = [handler EXCEPT !.todo = Tail(@), !.extra = 0,
                          !.invoice = Len(invoices'), !.retry = 0, !.first = Null]
        /\ UNCHANGED <<now, core, stored, card, credit, jobs, running, past>>

\* The Bachs records of an invoice, and the credit's ledger
WriteInvoice ==
    LET i == handler.invoice
    IN  /\ Holds
        /\ \/ /\ Current.op = "record"
              /\ invoices' = [invoices EXCEPT ![i].record = TRUE, ![i].next = handler.at]
              /\ UNCHANGED credit
           \/ /\ Current.op = "spend"
              /\ credit' = credit - invoices[i].applied
              /\ UNCHANGED invoices
           \/ /\ Current.op = "unattempt"
              /\ invoices' = [invoices EXCEPT ![Current.n].next = Null]
              /\ UNCHANGED credit
           \/ /\ Current.op = "count"
              /\ invoices' = [invoices EXCEPT ![i].retries = handler.retry,
                                              ![i].next = nextAttempt]
              /\ UNCHANGED credit
        /\ Onward
        /\ UNCHANGED <<now, core, stored, card, jobs, running, past>>

transitionInvoice ==
    LET i == Current.n
    IN  /\ At("bill")
        /\ IF assertInvoiceTransition(invoices[i].status, Current.to)
           THEN invoices' = [invoices EXCEPT ![i].status = Current.to] /\ Onward
           ELSE Stops /\ UNCHANGED invoices
        /\ UNCHANGED <<now, core, stored, card, credit, jobs, running, past>>

Paid(i) == [invoices EXCEPT ![i].charged = @ + 1]

\* #attempt: the card is charged with nobody there, unless credit covered it
\* all.  What was to follow a refusal only is dropped when it is paid.
attempt ==
    LET i == handler.invoice
    IN  /\ At("attempt")
        /\ IF invoices[i].amount = 0 THEN Goes(settled(i)) /\ UNCHANGED invoices
           ELSE IF card = "succeeds" THEN Goes(settled(i)) /\ invoices' = Paid(i)
           ELSE Goes(refused(i) \o Tail(handler.todo)) /\ UNCHANGED invoices
        /\ UNCHANGED <<now, core, stored, card, credit, jobs, running, past>>

\* #recovered: past due no longer, and whatever else is owed
recovered ==
    /\ At("recovered")
    /\ IF Ended(core) \/ (core # "attention" /\ ~ stored.owing)
       THEN Stops /\ UNCHANGED stored
       ELSE /\ stored' = [stored EXCEPT !.owing = FALSE, !.exhausted = FALSE]
            /\ Goes(IF core = "attention" THEN To("active") ELSE <<>>)
    /\ UNCHANGED <<now, core, card, credit, invoices, jobs, running, past>>

\* Owed from here on; a schedule to end moves onto the record, because the
\* row cannot go from non_renewing to attention.
owe ==
    /\ At("owe")
    /\ IF Ended(core) THEN Onward /\ UNCHANGED stored
       ELSE /\ stored' = [stored EXCEPT !.owing = TRUE,
                             !.ending = @ \/ core = "non_renewing"]
            /\ Goes((IF core \in {"non_renewing", "trialing"} THEN To("active") ELSE <<>>)
                    \o (IF core = "attention" THEN <<>> ELSE To("attention"))
                    \o Tail(handler.todo))
    /\ UNCHANGED <<now, core, card, credit, invoices, jobs, running, past>>

\* #exhaust: the last retry failed.
exhaust ==
    /\ At("exhaust")
    /\ \E recovery \in Recoveries :
          Goes(Bill(handler.invoice, "uncollectible")
               \o IF recovery = "cancel" THEN endSubscription ELSE Step("exhausted"))
    /\ UNCHANGED <<now, tables, jobs, running, past>>

\* What is still owed when it ends is never collected: one invoice after the
\* other, which only the holder of the lock moves.
writeOff ==
    LET owed == {i \in DOMAIN invoices : invoices[i].status \in {"failed", "pending"}}
        i    == CHOOSE i \in owed : \A k \in owed : i <= k
    IN  /\ At("writeOff")
        /\ IF owed = {} THEN Onward
           ELSE Goes(Unattempt(i) \o Bill(i, "uncollectible") \o handler.todo)
        /\ UNCHANGED <<now, tables, jobs, running, past>>

\* #retryNow: the last invoice owed, outside the schedule
retryNow ==
    LET owed == {i \in DOMAIN invoices : invoices[i].status \in {"failed", "uncollectible"}}
        i    == CHOOSE i \in owed : \A k \in owed : k <= i
    IN  /\ At("retryNow")
        /\ IF owed = {} \/ ~ invoices[i].record \/ card = "gone"
           THEN Stops /\ UNCHANGED invoices
           ELSE IF card = "succeeds" THEN Goes(settled(i)) /\ invoices' = Paid(i)
           ELSE /\ Goes(IF invoices[i].status = "failed"
                        THEN Bill(i, "pending") \o Bill(i, "failed") ELSE <<>>)
                /\ UNCHANGED invoices
        /\ UNCHANGED <<now, core, stored, card, credit, jobs, running, past>>

HandlerStep ==
    \/ Dispatch \/ WriteRecord \/ transitionSubscription \/ Schedule
    \/ cancelGroup \/ carryProration \/ createInvoice \/ WriteInvoice
    \/ transitionInvoice \/ attempt \/ recovered \/ owe \/ exhaust \/ writeOff
    \/ retryNow

-----------------------------------------------------------------------------
\* A request that got the lock and was not refused
Serve(program) ==
    /\ ~ Holds
    /\ now < MaxTime /\ past.events < MaxEvents
    /\ handler' = IF program = <<>> THEN Free
                  ELSE [Free EXCEPT !.todo = program, !.by = "api", !.at = now]
    /\ UNCHANGED <<now, core, invoices, running>>

Counted == past' = [past EXCEPT !.events = @ + 1]

assertModifiable == statusOf(now) # "canceled"

cancel(atPeriodEnd) ==
    /\ assertModifiable
    /\ IF atPeriodEnd
       THEN Serve(<<>>) /\ stored' = [stored EXCEPT !.ending = TRUE]
       ELSE Serve(endSubscription) /\ UNCHANGED stored
    /\ Counted
    /\ UNCHANGED <<card, credit, jobs>>

undoCancel ==
    /\ assertModifiable
    /\ stored.ending \/ core = "non_renewing"
    /\ Serve(Step("undo") \o IF core = "non_renewing" THEN To("active") ELSE <<>>)
    /\ Counted
    /\ UNCHANGED <<stored, card, credit, jobs>>

\* changePaymentMethod, and recoverWithCard of the portal
changeCard(c, portal) ==
    /\ IF portal THEN Owes(now) ELSE assertModifiable
    /\ card' = c
    /\ Serve(IF portal \/ core = "attention" THEN Step("retryNow") ELSE <<>>)
    /\ Counted
    /\ UNCHANGED <<stored, credit, jobs>>

\* moveTrial to an instant ahead
extendTrial(to) ==
    /\ assertModifiable /\ ~ Owes(now)
    /\ to > now
    /\ Serve(Step("cancelGroup") \o <<[op |-> "trial", to |-> "any", n |-> to]>>
             \o Step("scheduleRenewal"))
    /\ Counted
    /\ UNCHANGED <<stored, card, credit, jobs>>

\* ... and to now, which bills the first period
endTrial ==
    /\ statusOf(now) = "trialing"
    /\ Serve(Step("cancelGroup") \o <<[op |-> "trial", to |-> "now", n |-> now]>>
             \o Step("renewNow"))
    /\ Counted
    /\ UNCHANGED <<stored, card, credit, jobs>>

MoveTrial ==
    /\ Holds
    /\ \/ /\ Current.op = "trial"
          /\ stored' = [stored EXCEPT !.trialEnd = Current.n, !.next = Current.n,
                           !.end = IF Current.to = "now" THEN @ ELSE Current.n]
          /\ Onward
       \/ /\ Current.op = "renewNow"
          /\ handler' = IF renew(stored.next) = <<>> THEN Free
                        ELSE [handler EXCEPT !.todo = renew(stored.next)]
          /\ UNCHANGED stored
    /\ UNCHANGED <<now, core, card, credit, invoices, jobs, running, past>>

\* A trial, or a period begun while recovery ran, was not paid for.
prorating == statusOf(now) # "trialing" /\ stored.billed


changePlan(price, behaviour) ==
    LET left(amount) == IF prorating
                        THEN prorate(amount, stored.end - now, stored.end - stored.start)
                        ELSE 0
        net == left(price) - left(stored.price)
        due == behaviour = "invoice_now" /\ net > 0
        off == net < 0 /\ behaviour # "none"
    IN  /\ assertModifiable /\ ~ Owes(now)
        /\ price # stored.price
        /\ ~ Holds /\ now < MaxTime /\ past.events < MaxEvents
        /\ stored' = [stored EXCEPT !.price = price,
                         !.deferred = IF behaviour = "next_cycle" /\ net > 0
                                      THEN @ + net ELSE @]
        /\ handler' = IF due \/ off
                      THEN [Free EXCEPT !.by = "api", !.at = now,
                               !.extra = IF due THEN net ELSE -net,
                               !.todo = IF due THEN raiseInvoice("proration")
                                        ELSE Step("grant")]
                      ELSE Free
        /\ Counted
        /\ UNCHANGED <<now, core, card, credit, invoices, jobs, running>>

grantCredit ==
    /\ At("grant")
    /\ credit' = credit + handler.extra
    /\ past' = [past EXCEPT !.granted = @ + handler.extra]
    /\ Stops
    /\ UNCHANGED <<now, core, stored, card, invoices, jobs, running>>

Requests ==
    \/ \E atPeriodEnd \in BOOLEAN : cancel(atPeriodEnd)
    \/ undoCancel
    \/ \E c \in {"succeeds", "declines"}, portal \in BOOLEAN : changeCard(c, portal)
    \/ extendTrial(now + 1)
    \/ endTrial
    \/ \E price \in Prices, behaviour \in {"invoice_now", "next_cycle", "none"} :
          changePlan(price, behaviour)

-----------------------------------------------------------------------------
\* POST /subscriptions/:id/disable, whoever holds the lock
Tool ==
    /\ past.events < MaxEvents
    /\ past' = [past EXCEPT !.events = @ + 1, !.crossed = @ \/ Holds,
                            !.strayed = @ \/ core = "attention"]
    /\ \E s \in {"non_renewing", "cancelled"} :
          assertSubscriptionTransition(core, s) /\ core' = s
    /\ UNCHANGED <<now, stored, card, credit, invoices, jobs, running, handler>>

\* isUsable: the card is removed, or past its expiry month.
\* Bound: not while a handler runs, which reads it once.
CardLapses ==
    /\ card # "gone" /\ ~ Holds
    /\ card' = "gone"
    /\ UNCHANGED <<now, core, stored, credit, invoices, jobs, running, handler, past>>

\* Bound: time does not pass while a handler runs
Tick ==
    /\ now < LastTime /\ ~ Holds
    /\ now' = now + 1
    /\ UNCHANGED <<tables, jobs, running, handler, past>>

\* The first of the due jobs; bound: no renewal after MaxTime
Due == {i \in DOMAIN jobs : jobs[i].at <= now /\ (jobs[i].kind = "renew" => jobs[i].at <= MaxTime)}

Without(i) == [k \in 1..Len(jobs) - 1 |-> IF k < i THEN jobs[k] ELSE jobs[k + 1]]

Claim ==
    /\ running.job = NoJob /\ Due # {}
    /\ LET i == CHOOSE i \in Due : \A k \in Due :
                    \/ jobs[i].at < jobs[k].at
                    \/ jobs[i].at = jobs[k].at /\ i <= k
       IN  /\ running' = [job |-> jobs[i], begun |-> FALSE, cancelled |-> FALSE]
           /\ jobs' = Without(i)
    /\ UNCHANGED <<now, tables, handler, past>>

\* Its handler gets the lock.
Begin ==
    /\ running.job # NoJob /\ ~ running.begun
    /\ ~ Holds
    /\ running' = [running EXCEPT !.begun = TRUE]
    /\ handler' = [Free EXCEPT !.todo = Step("dispatch"), !.by = "job",
                               !.at = running.job.at]
    /\ UNCHANGED <<now, tables, jobs, past>>

\* The job is completed or failed: it has one attempt.
Finish ==
    /\ running.begun
    /\ handler.by # "job"
    /\ running' = [job |-> NoJob, begun |-> FALSE, cancelled |-> FALSE]
    /\ UNCHANGED <<now, tables, jobs, handler, past>>

\* The handler and the lock go with the process; the job in hand is ready
\* again when its lease has run out.
Die ==
    /\ past.events < MaxEvents
    /\ past' = [past EXCEPT !.events = @ + 1, !.deaths = @ + 1]
    /\ handler' = Free
    /\ running' = [job |-> NoJob, begun |-> FALSE, cancelled |-> FALSE]
    /\ jobs' = IF running.job # NoJob /\ ~ running.cancelled
               THEN <<running.job>> \o jobs ELSE jobs
    /\ UNCHANGED <<now, tables>>

BillingNext ==
    \/ HandlerStep \/ MoveTrial \/ grantCredit
    \/ Requests \/ Tool \/ CardLapses
    \/ Tick \/ Claim \/ Begin \/ Finish \/ Die

Fairness ==
    /\ WF_billingVars(HandlerStep \/ MoveTrial \/ grantCredit)
    /\ WF_billingVars(Claim) /\ SF_billingVars(Begin) /\ WF_billingVars(Finish) /\ WF_billingVars(Tick)

BillingSpec == BillingInit /\ [][BillingNext]_billingVars /\ Fairness

-----------------------------------------------------------------------------
\* An invoice is paid for once however often it is retried, by the schedule,
\* by a new card or from the portal, once more per death at most; what is
\* marked paid was paid for; and credit is spent as often as it comes off an
\* invoice.  Rows keep their types.
PaidForOnce ==
    /\ BillingTypeOK
    /\ \A i \in DOMAIN invoices :
          /\ invoices[i].charged <= 1 + past.deaths
          /\ invoices[i].status = "success" /\ invoices[i].amount > 0 =>
                invoices[i].charged > 0
    /\ credit >= 0
    /\ ~ Holds /\ past.deaths = 0 =>
          credit = past.granted
                       - SumTo([i \in DOMAIN invoices |-> invoices[i].applied],
                               Len(invoices))

\* All the jobs there are, the one in hand included
Jobs == {jobs[k] : k \in DOMAIN jobs} \cup (IF running.begun THEN {} ELSE {running.job})

\* A subscription that goes on is driven: the job of its next renewal is
\* queued, and an invoice that failed is owed and has the job of the retry it
\* advertises, until the tries run out; unless a death or a tool cut a handler
\* short, or a tool ended a recovery.
GoesOn ==
    ~ Holds /\ past.deaths = 0 /\ ~ past.crossed /\ ~ Ended(core) =>
        /\ \E j \in Jobs : j.kind = "renew" /\ j.due = stored.next
        /\ ~ past.strayed =>
              \A i \in DOMAIN invoices :
                 invoices[i].status = "failed" =>
                    /\ stored.owing
                    /\ \E j \in Jobs : /\ j.kind = "retry" /\ j.invoice = i
                                       /\ j.retry = invoices[i].retries + 1
                                       /\ j.at = invoices[i].next

PastDue == statusOf(now) = "past_due"

\* What is owed is paid, written off or given up in the end: nobody is past
\* due for ever, unless a death or a tool cut a handler short.
RecoveryEnds == PastDue ~> ~ PastDue \/ past.deaths > 0 \/ past.crossed
=============================================================================
