---------------------------- MODULE Subscriptions ----------------------------
(***************************************************************************)
(* Recurring billing of one subscription: the job handlers that raise its  *)
(* invoices, charge them and schedule the next cycle, and the routes that  *)
(* create, stop, resume and cancel it or move its trial meanwhile.  Each   *)
(* step is one transaction or one statement; a request, the scheduler or a *)
(* death of the process may come between any two.                          *)
(*                                                                         *)
(* A route reads the subscription and writes it in one step.  Left out:    *)
(* amounts, items and prorations, the trial warning (it changes nothing),  *)
(* a missing plan or instrument, invoices paid by hand, and Bachs, which   *)
(* bills by jobs of its own.                                               *)
(***************************************************************************)
EXTENDS StateMachines, Sequences, FiniteSets, Bags

CONSTANTS
    Requests,     \* concurrent requests
    NoDate,       \* null for dates
    Interval,     \* length of a billing period
    Lead,         \* how long before the debit an invoice is raised
    Limits,       \* invoice limits; 0 is none
    MaxTime,      \* bound: last instant
    MaxRequests,  \* bound: requests
    MaxCrashes    \* bound: deaths of the process

ASSUME IntervalAssumption == Interval \in Nat \ {0} /\ Lead \in Nat
ASSUME LimitsAssumption == Limits \subseteq Nat
ASSUME SubscriptionBounds ==
    MaxTime \in Nat /\ MaxRequests \in Nat /\ MaxCrashes \in Nat

VARIABLES
    now,       \* the clock's own instant
    sub,       \* the subscription; status "none" before it is created
    invoice,   \* its invoices, in the order they were raised
    jobs,      \* bag of its queued jobs
    runner,    \* where the scheduler is in a job
    request,   \* where each request is
    late,      \* history: charges made after the subscription had ended
    requests,  \* bound: requests so far
    crashes    \* bound: deaths so far

vars == <<now, sub, invoice, jobs, runner, request, late, requests, crashes>>

Time == 0..MaxTime
Dates == 0..(MaxTime + Interval)
Ended == {"completed", "cancelled"}

SubscriptionRow == [status : SubscriptionStatus \cup {"none"},
                    next : Dates \cup {NoDate},
                    limit : Limits, count : Nat]
InvoiceRow == [status : InvoiceStatus, period : Dates, charges : Nat]
JobRow == [kind : {"invoice", "charge"}, dueAt : Dates, runAt : Time]
RunnerRow == [pc : {"idle", "read", "convert", "find", "raise", "pay",
                    "close", "attention", "drop", "advance",
                    "complete", "cancel", "date", "invoice", "charge", "finish"},
              job : JobRow,
              held : BOOLEAN,           \* its row is still leased
              seen : SubscriptionRow,   \* the subscription as it was read
              row : Nat]                \* its invoice
RequestRow == [pc : {"idle", "cancel", "invoice", "charge"}, dueAt : Dates]

TypeOK ==
    /\ now \in Time
    /\ sub \in SubscriptionRow
    /\ invoice \in Seq(InvoiceRow)
    /\ BagToSet(jobs) \subseteq JobRow
    /\ runner \in RunnerRow
    /\ request \in [Requests -> RequestRow]
    /\ late \in Nat
    /\ requests \in 0..MaxRequests
    /\ crashes \in 0..MaxCrashes

NoSubscription(limit) ==
    [status |-> "none", next |-> NoDate, limit |-> limit, count |-> 0]

\* The scheduler between two jobs
Resting == [pc |-> "idle", job |-> [kind |-> "charge", dueAt |-> 0, runAt |-> 0],
            held |-> FALSE, seen |-> NoSubscription(sub.limit), row |-> 0]

Answered == [pc |-> "idle", dueAt |-> 0]

Init ==
    /\ now = 0
    /\ \E limit \in Limits : sub = NoSubscription(limit)
    /\ runner = Resting
    /\ invoice = <<>>
    /\ jobs = EmptyBag
    /\ request = [r \in Requests |-> Answered]
    /\ late = 0
    /\ requests = 0
    /\ crashes = 0

-----------------------------------------------------------------------------
\* The instant the process reads: a job in hand sees, and shows, its own.
Clock == IF runner.pc = "idle" THEN now ELSE runner.job.runAt

\* The jobs with one more, if it runs in bounded time
Queued(j) == IF j.runAt <= MaxTime THEN jobs (+) SetToBag({j}) ELSE jobs

\* #scheduleCycle: an invoice ahead of the debit, if there is time ...
InvoiceQueued(dueAt) ==
    IF dueAt - Lead > Clock
    THEN Queued([kind |-> "invoice", dueAt |-> dueAt, runAt |-> dueAt - Lead])
    ELSE jobs

\* ... and the debit, at once if it was due before.
ChargeQueued(dueAt) ==
    Queued([kind |-> "charge", dueAt |-> dueAt,
            runAt |-> IF dueAt > Clock THEN dueAt ELSE Clock])

LimitReached(row) == row.limit > 0 /\ row.count >= row.limit

Moved(to, next) == [sub EXCEPT !.status = to, !.next = next]

-----------------------------------------------------------------------------
\* The runner goes on at a step of the job it has, or ends it: a handler
\* that throws fails its job, which has one attempt.
At(pc) == runner' = [runner EXCEPT !.pc = pc]

\* What is left to do needs nothing but the job.
Only(pc) == runner' = [Resting EXCEPT !.pc = pc, !.job = runner.job, !.held = runner.held]

Rest == UNCHANGED <<now, request, requests, crashes>>

StartJob(j) ==
    /\ runner.pc = "idle"
    /\ BagIn(j, jobs)
    /\ j.runAt <= now
    /\ jobs' = jobs (-) SetToBag({j})
    /\ runner' = [runner EXCEPT !.pc = "read", !.job = j, !.held = TRUE]
    /\ UNCHANGED <<sub, invoice, late>> /\ Rest

\* Both handlers read the subscription and stop at one that does not renew.
ReadSubscription ==
    /\ runner.pc = "read"
    /\ runner' = [runner EXCEPT
                    !.seen = sub,
                    !.pc = IF ~ isRenewable(sub.status) THEN "finish"
                           ELSE IF runner.job.kind = "charge" /\ sub.status = "trialing"
                                THEN "convert" ELSE "find"]
    /\ UNCHANGED <<sub, invoice, jobs, late>> /\ Rest

\* Mutant: a trial goes on after its first debit was due
ConvertNever ==
    /\ runner.pc = "convert"
    /\ At("find")
    /\ UNCHANGED <<sub, invoice, jobs, late>> /\ Rest

\* The end of a trial is its first billing date.
Convert ==
    /\ runner.pc = "convert"
    /\ IF assertSubscriptionTransition(sub.status, "active")
       THEN /\ sub' = Moved("active", runner.seen.next)
            /\ runner' = [runner EXCEPT !.pc = "find", !.seen = sub']
       ELSE Only("finish") /\ UNCHANGED sub
    /\ UNCHANGED <<invoice, jobs, late>> /\ Rest

ForPeriod == {i \in DOMAIN invoice : invoice[i].period = runner.job.dueAt}

\* Mutant: an invoice raised ahead of the debit is not found by it
FindForInvoice ==
    /\ runner.pc = "find"
    /\ runner' = [runner EXCEPT
                    !.pc = IF LimitReached(runner.seen) THEN "complete" ELSE "raise"]
    /\ UNCHANGED <<sub, invoice, jobs, late>> /\ Rest

\* #invoiceForPeriod, then #completeIfLimitReached
FindInvoice ==
    /\ runner.pc = "find"
    /\ IF ForPeriod # {}
       THEN IF runner.job.kind = "charge"
            THEN runner' = [runner EXCEPT !.row = CHOOSE i \in ForPeriod : TRUE,
                                          !.pc = "pay"]
            ELSE Only("finish")
       ELSE IF LimitReached(runner.seen) THEN Only("complete") ELSE At("raise")
    /\ UNCHANGED <<sub, invoice, jobs, late>> /\ Rest

NewInvoice == [status |-> "pending", period |-> runner.job.dueAt, charges |-> 0]

\* createInvoice counts the invoice with its row; the debit reads the
\* subscription again.
RaiseInvoice ==
    /\ runner.pc = "raise"
    /\ invoice' = Append(invoice, NewInvoice)
    /\ sub' = [sub EXCEPT !.count = @ + 1]
    /\ IF runner.job.kind = "charge"
       THEN runner' = [runner EXCEPT !.row = Len(invoice'), !.seen = sub', !.pc = "pay"]
       ELSE Only("finish")
    /\ UNCHANGED <<jobs, late>> /\ Rest

\* Mutant: renewals have references of their own
UnusedAlways(i) == TRUE

\* The reference of a renewal names its invoice, and is used once.
Unused(i) == invoice[i].charges = 0

ChargeInvoice ==
    /\ runner.pc = "pay"
    /\ IF Unused(runner.row)
       THEN /\ invoice' = [invoice EXCEPT ![runner.row].charges = @ + 1]
            /\ late' = IF sub.status \in Ended THEN late + 1 ELSE late
            /\ At("close")
       ELSE Only("finish") /\ UNCHANGED <<invoice, late>>
    /\ UNCHANGED <<sub, jobs>> /\ Rest

\* The instrument behind the subscription decides whether it was paid.
CloseInvoice(paid) ==
    LET to == IF paid THEN "success" ELSE "failed"
    IN  /\ runner.pc = "close"
        /\ IF assertInvoiceTransition(invoice[runner.row].status, to)
           THEN /\ invoice' = [invoice EXCEPT ![runner.row].status = to]
                /\ IF paid THEN Only("advance") ELSE At("attention")
           ELSE Only("finish") /\ UNCHANGED invoice
        /\ UNCHANGED <<sub, jobs, late>> /\ Rest

\* #moveToAttention, with the status and the date as they were read: a date
\* cleared then is cleared again, and the jobs with it.
MoveToAttention ==
    LET seen == runner.seen
        moves == assertSubscriptionTransition(sub.status, "attention")
    IN  /\ runner.pc = "attention"
        /\ CASE seen.status = "attention" -> Only("advance") /\ UNCHANGED sub
             [] seen.status # "attention" /\ moves ->
                    /\ sub' = Moved("attention", seen.next)
                    /\ Only(IF seen.next = NoDate THEN "drop" ELSE "advance")
             [] OTHER -> Only("finish") /\ UNCHANGED sub
        /\ UNCHANGED <<invoice, jobs, late>> /\ Rest

\* #advanceToNextCycle reads the subscription again ...
Advance ==
    /\ runner.pc = "advance"
    /\ Only(CASE ~ isRenewable(sub.status) -> "finish"
              [] isRenewable(sub.status) /\ LimitReached(sub) -> "complete"
              [] OTHER -> "date")
    /\ UNCHANGED <<sub, invoice, jobs, late>> /\ Rest

\* ... and writes the next date, whatever the status has become.
SetNextDate ==
    /\ runner.pc = "date"
    /\ sub' = [sub EXCEPT !.next = runner.job.dueAt + Interval]
    /\ At("invoice")
    /\ UNCHANGED <<invoice, jobs, late>> /\ Rest

EnqueueInvoice ==
    /\ runner.pc = "invoice"
    /\ jobs' = InvoiceQueued(runner.job.dueAt + Interval)
    /\ At("charge")
    /\ UNCHANGED <<sub, invoice, late>> /\ Rest

EnqueueCharge ==
    /\ runner.pc = "charge"
    /\ jobs' = ChargeQueued(runner.job.dueAt + Interval)
    /\ Only("finish")
    /\ UNCHANGED <<sub, invoice, late>> /\ Rest

Complete ==
    /\ runner.pc = "complete"
    /\ IF assertSubscriptionTransition(sub.status, "completed")
       THEN sub' = Moved("completed", NoDate) /\ At("cancel")
       ELSE Only("finish") /\ UNCHANGED sub
    /\ UNCHANGED <<invoice, jobs, late>> /\ Rest

\* cancelGroup takes the job in hand too, if it is still leased.  What was
\* claimed with it runs nevertheless.
cancelGroup ==
    \E claimed \in SUBSET {j \in BagToSet(jobs) : runner.pc # "idle" /\ j.runAt <= now} :
        jobs' = [j \in claimed |-> jobs[j]]

CancelOwnGroup ==
    /\ runner.pc \in {"drop", "cancel"}
    /\ cancelGroup
    /\ runner' = [runner EXCEPT !.pc = IF @ = "drop" THEN "advance" ELSE "finish",
                                !.held = FALSE]
    /\ UNCHANGED <<sub, invoice, late>> /\ Rest

Finish ==
    /\ runner.pc = "finish"
    /\ runner' = Resting
    /\ UNCHANGED <<sub, invoice, jobs, late>> /\ Rest

-----------------------------------------------------------------------------
\* A request takes its next step, or begins.
Going(r, pc, dueAt) == request' = [request EXCEPT ![r] = [pc |-> pc, dueAt |-> dueAt]]
Begins(r) ==
    /\ request[r].pc = "idle"
    /\ requests < MaxRequests
    /\ requests' = requests + 1

\* createSubscription: the first debit is at the start, or at the end of a
\* trial.
CreateSubscription(r, first, trialing) ==
    /\ Begins(r)
    /\ sub.status = "none"
    /\ first >= Clock
    /\ trialing => first > Clock
    /\ sub' = [sub EXCEPT !.status = IF trialing THEN "trialing" ELSE "active",
                          !.next = first]
    /\ Going(r, "invoice", first)
    /\ UNCHANGED <<now, invoice, jobs, runner, late, crashes>>

\* Paystack's disable, the control API's, and cancellation: no date is left.
Stop(r, to) ==
    /\ Begins(r)
    /\ sub.status # "none"
    /\ assertSubscriptionTransition(sub.status, to)
    /\ sub' = Moved(to, NoDate)
    /\ Going(r, "cancel", 0)
    /\ UNCHANGED <<now, invoice, jobs, runner, late, crashes>>

\* Stripe's cancel_at_period_end keeps the date, and so the jobs.
CancelAtPeriodEnd(r) ==
    /\ Begins(r)
    /\ sub.status = "active"
    /\ sub' = Moved("non_renewing", sub.next)
    /\ UNCHANGED <<now, invoice, jobs, runner, request, late, crashes>>

\* Paystack's enable starts over at once.
Enable(r) ==
    /\ Begins(r)
    /\ sub.status # "none"
    /\ assertSubscriptionTransition(sub.status, "active")
    /\ sub' = Moved("active", Clock)
    /\ Going(r, "invoice", Clock)
    /\ UNCHANGED <<now, invoice, jobs, runner, late, crashes>>

\* Stripe's goes on from the date there was.
Resume(r) ==
    LET next == IF sub.next = NoDate THEN Clock ELSE sub.next
    IN  /\ Begins(r)
        /\ sub.status = "non_renewing"
        /\ sub' = Moved("active", next)
        /\ Going(r, "invoice", next)
        /\ UNCHANGED <<now, invoice, jobs, runner, late, crashes>>

\* Stripe moves the end of a trial, and the date with it, and schedules again.
\* An end in the past is now.
MoveTrial(r, trialEnd) ==
    /\ Begins(r)
    /\ sub.status = "trialing"
    /\ trialEnd >= Clock
    /\ sub' = [sub EXCEPT !.next = trialEnd]
    /\ Going(r, "invoice", trialEnd)
    /\ UNCHANGED <<now, invoice, jobs, runner, late, crashes>>

VoidInvoice(r, i) ==
    /\ Begins(r)
    /\ assertInvoiceTransition(invoice[i].status, "void")
    /\ invoice' = [invoice EXCEPT ![i].status = "void"]
    /\ UNCHANGED <<now, sub, jobs, runner, request, late, crashes>>

\* cancelGroup, after the transition has committed
CancelGroup(r) ==
    /\ request[r].pc = "cancel"
    /\ cancelGroup
    /\ runner' = [runner EXCEPT !.held = FALSE]
    /\ Going(r, "idle", 0)
    /\ UNCHANGED <<now, sub, invoice, late, requests, crashes>>

\* start: the first cycle's two jobs
StartInvoice(r) ==
    /\ request[r].pc = "invoice"
    /\ jobs' = InvoiceQueued(request[r].dueAt)
    /\ Going(r, "charge", request[r].dueAt)
    /\ UNCHANGED <<now, sub, invoice, runner, late, requests, crashes>>

StartCharge(r) ==
    /\ request[r].pc = "charge"
    /\ jobs' = ChargeQueued(request[r].dueAt)
    /\ Going(r, "idle", 0)
    /\ UNCHANGED <<now, sub, invoice, runner, late, requests, crashes>>

\* Time that passes under a job shows only after it.
Elapse ==
    /\ runner.pc = "idle"
    /\ now < MaxTime
    /\ now' = now + 1
    /\ UNCHANGED <<sub, invoice, jobs, runner, request, late, requests, crashes>>

\* The process dies.  The job in hand is queued again once its lease runs
\* out, unless it was cancelled meanwhile; requests are cut short.
Crash ==
    /\ crashes < MaxCrashes
    /\ crashes' = crashes + 1
    /\ jobs' = IF runner.pc # "idle" /\ runner.held
               THEN jobs (+) SetToBag({runner.job}) ELSE jobs
    /\ runner' = Resting
    /\ request' = [r \in Requests |-> Answered]
    /\ UNCHANGED <<now, sub, invoice, late, requests>>

RunJob ==
    \/ \E j \in BagToSet(jobs) : StartJob(j)
    \/ ReadSubscription
    \/ Convert
    \/ FindInvoice
    \/ RaiseInvoice
    \/ ChargeInvoice
    \/ \E paid \in BOOLEAN : CloseInvoice(paid)
    \/ MoveToAttention
    \/ Advance
    \/ SetNextDate
    \/ EnqueueInvoice
    \/ EnqueueCharge
    \/ Complete
    \/ CancelOwnGroup
    \/ Finish

GoOn(r) == CancelGroup(r) \/ StartInvoice(r) \/ StartCharge(r)

Next ==
    \/ RunJob
    \/ \E r \in Requests :
          \/ \E first \in Time, trialing \in BOOLEAN :
                CreateSubscription(r, first, trialing)
          \/ \E to \in {"non_renewing", "cancelled"} : Stop(r, to)
          \/ CancelAtPeriodEnd(r)
          \/ Enable(r)
          \/ Resume(r)
          \/ \E trialEnd \in Time : MoveTrial(r, trialEnd)
          \/ \E i \in DOMAIN invoice : VoidInvoice(r, i)
          \/ GoOn(r)
    \/ Elapse
    \/ Crash

Spec == Init /\ [][Next]_vars

\* The scheduler goes on with the job it has and takes the next that is due,
\* requests go on, and time passes.
Fairness ==
    /\ WF_vars(RunJob)
    /\ WF_vars(Elapse)
    /\ \A r \in Requests : WF_vars(GoOn(r))

FairSpec == Spec /\ Fairness

-----------------------------------------------------------------------------
\* Billed as agreed.  No period is billed twice: it has one invoice, charged by renewals at most
\* once, over jobs queued twice by resumed or moved subscriptions and over
\* deaths between any two steps of a renewal (subscriptions.ts
\* handleInvoiceJob, "An invoice already raised for this period means the job
\* ran twice"; the reference of a renewal).  And a limited subscription raises
\* no more invoices than its limit, whichever of its jobs raise them (engine.ts
\* createInvoice: "the invoice_limit check can never double-count a retried
\* job").  One that has ended is charged once more at the most, by the renewal
\* under way, whatever jobs were left behind (handleChargeJob).  Rows keep
\* their types.
BilledAsAgreed ==
    /\ TypeOK
    /\ \A i, k \in DOMAIN invoice :
         /\ invoice[i].period = invoice[k].period => i = k
         /\ invoice[i].charges <= 1
    /\ sub.count = Len(invoice)
    /\ sub.limit > 0 => Len(invoice) <= sub.limit
    /\ late <= 1

\* A trial with a debit queued converts or is left: it is not forgotten over
\* moved dates, stale jobs and deaths (state-machine.ts isRenewable: "a trial
\* that stopped being scheduled would silently never convert").
TrialConverts ==
    sub.status = "trialing" /\ (\E j \in BagToSet(jobs) : j.kind = "charge")
        ~> sub.status # "trialing"
=============================================================================
