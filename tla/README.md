# PayBox in TLA+

PayBox is a local payment sandbox: one Node process that plays nine payment
providers over one SQLite database, one virtual clock and one job scheduler.
This directory models the parts of it whose correctness depends on the order in
which things happen: requests, jobs, scenarios, rulings, tools, manual retries
and deaths of the process all change the same rows, and every `await` is a place
where another of them may run.

Every definition is translated from `src/`; `PROJECT.json` ("map") gives the
lines each one stands for, and its "hazards" say where the code could go wrong
and which properties would tell.

## The system

```
 HTTP request ─▶ provider adapter ─┐
 CLI, control API ─────────────────┼─▶ PaymentEngine ─▶ storage (one transaction)
 scenario runner, simulator ───────┘       │ after the commit
                                           ├─▶ jobs.enqueue / cancelGroup
                                           └─▶ event bus ─▶ webhook dispatcher ─▶ row + job
                                                        └─▶ Bachs completion, treasury
 clock.onChange, poll timer ─▶ Scheduler ─▶ handlers (expiry, settlement, renewal, delivery)
```

| Component | State | Operations | What is hard |
|---|---|---|---|
| Payment engine (`core/engine.ts`) | payments, refunds, disputes, ledger entries, events | create, the one transition path, refund, dispute, resolve | the refund total over refunds in flight; who is credited per settlement mode; a settled payment re-opened; two rulings on a dispute |
| State machines (`core/state-machine.ts`) | none | legality of a status change, with `retry` and `reversal` escape hatches | hatches that re-open what was terminal |
| Transfers and balances (`engine.ts`) | transfers, ledger entries | create with a check of funds, settle, release, reverse in part | money reserved, released and reversed by different callers |
| Scheduler, clock, jobs (`core/time`, `storage.ts`) | jobs table, clock, the instant override | enqueue, cancel, claim, lease, run, retry, drain | a process-wide instant held across awaits; leases; deaths |
| Webhook dispatcher (`webhooks/dispatcher.ts`) | delivery rows, endpoints | fan-out, attempt, ladder, manual retry, replay | a row read before a request and written after it |
| Simulator and scenarios (`simulator`) | jobs | drive a payment's status | may act after a page, a request or a refund moved the row |
| Subscriptions, invoices (`simulator/subscriptions.ts`, `engine.ts`) | subscriptions, invoices, jobs | renew, dun, cancel, void | one renewal is six transactions |
| Splits, onboarding, platform fee (`engine.ts`) | shares, subaccounts, fees given back | charge for an account, forward its share, reverse it, return the fee, onboard, reject | a fee and a share of one charge given back by different requests |
| Idempotency (`api/idempotency.ts`, adapters' keys) | recorded responses | look up, record | the gap between the two |
| Adapters of Kora, Flutterwave, Tingg, WeWire, QuiddPay, Paystack, Stripe, Wise (`providers/*`) | adapter records beside the engine's rows | routes as short programs of engine calls, hosted pages, their own words for a status | two requests on one row between each other's calls; an old job's cleanup and a new charge; a job that finds a row moved |
| Bachs checkout (`bachs/routes-checkout.ts`) | sessions, payments, jobs, keyed locks | page, test controls, finalisation, closing job, completion work | a session that closes while it is paid; completion begun by three callers and cut off by a death |
| Bachs billing (`bachs/billing.ts`) | subscription records, invoices, jobs, the subscription's lock | renew, retry, exhaust, cancel, undo, change plan, move a trial | a handler of many steps, and tools that do not hold its lock |
| Bachs treasury, disputes, refunds (`bachs/treasury.ts`, `disputes.ts`) | the treasury's ledger entries, disputes, refund holds | sweep, hold, release, charge a fee, rule | movements worked out from rows that change outside the lock |
| Bachs payouts, conversions, schedules (`bachs/treasury.ts`, `routes-money-out.ts`) | payouts, quotes, conversions, schedules, claims | request, run a schedule, convert, advance | a run of many writes, a death between any two, a setting saved meanwhile |
| Storage, bus, shared, config, dashboard, CLI | tables, listeners | statements, publication, presentation | statements are atomic; publication happens after commit |

## Modules

| Module | Models | Notes |
|---|---|---|
| `StateMachines` | the transition tables and their assert functions | functions from status to sets; no state |
| `Sums` | a fold over the first rows of a table | a recursive function, so that it can be proved about |
| `Payments` | payments, refunds, disputes and the ledger | one action per engine transaction |
| `Transfers` | transfers, their ledger entries, Wise funding | one action per engine transaction; funding is three |
| `Connect` | charges of connected accounts, refunds, fees given back, onboarding | EXTENDS `Transfers` and composes the two over one ledger; holds the specification |
| `Scheduler` | clock, jobs table, poll, drains, leases, death | one action per statement or handler |
| `Webhooks` | publication, delivery rows and their jobs, attempts, manual retries | one action per statement or request |
| `Subscriptions` | the engine's subscription, its invoices and renewal jobs, trials, stopping and resuming | one action per transaction, statement or route |
| `Treasury` | the sweep of Bachs' collections, fees, refund holds and disputes into pots | one action per transaction under the lock; rows change outside it |
| `Payouts` | Bachs' payouts by request and schedule, quotes, conversions, advance jobs, settings | one action per write of a request or a run |
| `Gateway` | what every adapter is made of: programs of engine calls, jobs, the scheduler's batch, deaths | one action per engine call |
| `Kora`, `Flutterwave`, `Tingg`, `WeWire`, `QuiddPay`, `Paystack`, `Stripe`, `Wise` | the routes, jobs and status words of one adapter | each EXTENDS `Gateway`: one action per route, which starts its program |
| `HostApi` | the control API's moves, whatever the provider | EXTENDS `Gateway` |
| `Promise` | what a provider promises the merchant about one payment or payout | the abstract specification |
| `Gateways` | the adapters side by side | composes the above and implements `Promise` by a refinement mapping |
| `Checkout` | a Bachs session: page, finalisation, closing job, completion work, locks | one action per statement of a handler |
| `Billing` | a Bachs subscription after its checkout: renewals, retries, exhaustion, requests | one action per statement of a handler |
| `MC*` | the instances TLC checks | constants only |
| `PaymentsProofs`, `ConnectProofs`, `SchedulerProofs`, `WebhooksProofs`, `PayoutsProofs`, `SubscriptionsProofs`, `GatewaysProofs`, `CheckoutProofs` | lemmas and theorems | checked by tlapm |

`Payments`, `Transfers` and `Billing` share `StateMachines` and `Sums`; `Connect` adds to
the pots of `Transfers` what charges, refunds and fees move, and which transfers
an account's flags allow; `Subscriptions`,
`Gateway` and `Checkout` use `StateMachines`. `Payments` treats the
job handlers and routes as an environment that calls its operations in any
order; `Gateway` and the adapters are that environment, row by row. `Scheduler`
treats handlers as an environment that may enqueue work, and the other modules
treat the scheduler as a fair source of job runs, which is what `Scheduler`
shows it to be (`EveryJobEnds`).

### How state and actions correspond to the code

*Payments.* `payment`, `refund`, `dispute` are the rows; a row with status
`"none"` has not been inserted. `balance` is, per payment, the net of the ledger
entries of it and of its refunds, for the platform and for the connected account.
`collected` counts the success credits of a payment and `reopened` the uses of
the reversal hatch. `charge.mode` says which branch of `transitionPayment`
writes the ledger: `platform`, `direct` (the account is credited and pays a fee)
or `forwarded` (the platform is credited and a share moves on). A transaction of
the engine is one action: SQLite runs one at a time on one connection, and
whatever throws inside one rolls back, which is why guards that throw are
conjuncts. A refund over HTTP is a `CreateRefund` and later a
`TransitionRefund`, as in the code.

*Transfers.* `transfer` holds rows, `moved` the net of the ledger entries each
transfer wrote in each pot, `deposited` the net of all other entries of a pot.
`reserved` is the metadata flag `paybox_reserved`, `source` the payment a
transfer names. `funding` is the program counter of a Wise funding request
between its check, its debit and its move.

*Connect.* `charge` holds payment rows that involve an account: the terms they
were made on, how much was refunded, how much of the platform's fee was given
back (`feeRefunded`) and how much of that was paid across (`feeMoved`).
`account` holds the flags of subaccounts. A reversal that also asks for the fee
is two transactions: `returning` is the set of charges between them. Which
refunds a payment allows is what `Payments` is about; here they only debit.

*Scheduler.* `now` is the clock's own instant and `override` the instant `at()`
set. `worker["serial"]` is the promise chain of ticks and drains, the callers
are `POST /time` requests, which move the clock, wait for the chain and then
drain by themselves. `job` is the table. A claim, a completion or a reclaim is
one statement. `left` counts the ticks a drain still has, which its cap bounds.
`Crash` drops every task and the override and keeps the table and the clock.
`Reuse` lets the id of a row that ended and that no task holds stand for a new
row, so that a few ids carry work without end. Four variables only record:
`begun` how often a handler was entered, `scopes` the tasks inside `at()` in the
order they entered it, `crossed` that one left before one that entered after it,
`overrun` the jobs whose lease ran out under a batch that held them.

*Webhooks.* `publish` follows an event from its transaction to the last row and
job of its fan-out, `task` follows the scheduler and each manual request from
the read of a row to the record of its outcome. A verdict is what a response is
taken for: delivered, retry, stop.

*Subscriptions.* `sub` and `invoice` are rows, `jobs` the bag of queued jobs,
`runner` the handler in hand between two of its awaits: what it has read
(`seen`), the invoice it works on (`row`) and whether its own job is still leased
(`held`), so that a `cancelGroup` that hits it is not undone by a death. `request`
is a route between its transaction and the `cancelGroup` or `start` that follows.
While a job is in hand the clock shows its instant, so time that passes
meanwhile shows after it. `late` counts charges made after the subscription ended.

*Treasury.* `collected`, `refund` and `dispute` are the rows, which requests,
tools and jobs change at any time; `ledger` is the bag of entries the treasury
wrote. `task` is a handler inside `exclusive`: the stage of the sweep it is in
and the movements it has worked out and not written yet. `route` is a refund
request before it reaches the lock, `event` a refund's event between its commit
and its listener, `losing` and `escalating` the two dispute operations that
check first and write later. `off` is a history: the fees a death cut short
between their two parts, and the holds an escalation overtook. What
`SweptLedgerMatchesRows` excepts is named by the step that went wrong, never by
the sums it then compares.

*Payouts.* `call` is a request's payout or conversion between its writes, `run`
the schedule or advance job in hand, `claim` the reference a collection is held
for, `sjob` and `ajob` the queued jobs, `post` a settings request, `wake` the
in-memory handlers about to queue an instant run.

*Gateway and the adapters.* A request is a program, `task[t].todo`: a sequence
of engine calls, each one action (`DoMove`, `DoRefund`, `DoEnqueue`, ...), with
`seen` the status it has read and `note` the attempt it works on. A step that
throws ends the program, one that is tolerated goes on, as in the route. `jobs`
is what is queued for the row, `batch` what `claimDue` took and the scheduler
has not finished, so that a job cancelled while it is claimed still runs, as in
the code. `record` is the stored answer to an idempotency key, `attempt` what
QuiddPay keeps beside its payment. An adapter module has one action per route.

*Promise.* Its two variables are read off the detailed state: `answer` is what
the provider's own word for the status (`Word`, the `to…Status` functions of
each adapter) tells a merchant (`Answered`), `payments` is how often money was
collected or sent.

*Checkout.* `session`, `payment` and `made` are rows: the stored checkout, its
payment and what the completion work has made so far, in the order it makes it.
`task` is what a handler has left to do, `lock` and `filling` the two keyed
locks, `running` the job in hand and `jobs` how many of a kind are queued;
`lapsed` says that `expires_at` has passed.

*Billing.* `core` is the engine's status of the subscription, `stored` the Bachs
record beside it, `invoices` the engine's invoices with their Bachs records.
`handler` holds the subscription's lock: its steps are a program as in
`Gateway`; `running` is the job in hand. A tool moves `core` without the lock.

## Runs

| Run | Question | Bounds, and why they are enough |
|---|---|---|
| `payments_refunds` | Do refunds, rulings, retries and reversals in every order keep the arithmetic? | one payment of 2 in three modes with a fee below, and above it; three refund rows (two that fill the payment and one too many); one dispute; one reversal. Payments only meet in the ledger, where they add |
| `transfers` | Is money spent once and returned once, does the ledger agree with the rows, and does an account that gave its share back gain nothing more? | two transfer rows of every kind (payout with a returned or a kept fee, moves both ways, Wise); two interchangeable funding requests on the same or different rows; one charge of 3 with a fee of 1, direct or forwarded, and refunds of 1 and 3 of it and of its fee, so that a partial one divides; a deposit of 2; one account that onboards and is rejected |
| `scheduler_serial` | Does the poll alone, over a death, run each job when due, as often as it may, to its end? | two jobs in a batch of two, two attempts, a lease of one instant, one death, flowing time |
| `scheduler_callers` | With `POST /time` draining beside the poll: are claims exclusive, ends final and the clock given back, and does every drain end? | two ids that stand for any number of rows, batches of one, two attempts, a lease of one instant that runs out under either task on a flowing clock, a cap of two ticks: scopes that nest and scopes that cross, a job in both batches, a cancelled row revived and a drain cut off with work still due are all reached |
| `webhooks` | Is the ladder kept, is final final, is no delivery forgotten? | one event, one manual retry or replay, three attempts, an endpoint toggled at will, one death |
| `subscriptions` | Is a period billed once, the limit kept, an ended subscription left alone, a trial ended? | a limit of two, periods two apart with invoices one ahead, three instants (a second period, and a second chain beside it), three requests (create, stop, resume), one death |
| `treasury` | Is every movement written once, and does a sweep nothing disturbs leave the ledger as the rows say? | one foreign sale with a fee in two parts and a share passed on, one refund and one dispute of it, two handlers, the tools, one death: movements of different rows only meet in a pot, where they add; an exchange rate of 1/2 makes rounding show |
| `payouts` | Is a collection paid out once and does a quote move money once? | one collection, a requested payout and a conversion on quotes of their own, two references for scheduled runs, three schedule jobs, daily and instant, one death or settings request |
| `gateways` | Do eight adapters show what `Promise` allows, and is a charge under way driven? | two interchangeable callers, three outcomes of an instrument, two queued jobs, three requests in all; the control API acts on the four adapters without a job per charge |
| `gateways_deaths` | Is a repeated request answered from its record, and does a queued outcome arrive? | one caller beside the scheduler, one death at any step, four requests |
| `checkout` | Does a session end once, close in time and deliver what was paid for, once and whole? | a session that saves a card, starts a subscription, starts a trial or only sets up; one request beside the scheduler, one tool, one death |
| `billing` | Is an invoice paid once, the chain of renewals and retries unbroken, nobody past due for ever? | periods of two, retries one and three after the failure (the second falls behind the next renewal), two plans, both recoveries, renewals up to instant four (two periods after the first), two events (requests, tools and deaths) |

`CHECK_DEADLOCK FALSE` is set where the system really may stop: a payment that
is refunded, a transfer that ended, deliveries that are final, a session that is
closed, a subscription that ended. The scheduler's fair runs keep deadlock
checking on: the poll never stops.

Counters (`MaxReopens`, `MaxManual`, `MaxRequests`, `MaxCrashes`, `MaxDeaths`,
`MaxTools`, `MaxEvents`, `MaxFaults`, `MaxVersion`, `MaxJobs`, `MaxAttempts`,
`MaxTime`, `MaxRunAt`) are guards of the actions they bound, are named in the
module, and leave room for a mutant of the code to break every property the run
checks. `MaxIterations` of `Scheduler` is the code's own cap on a drain, 1,000
there and 2 in the runs; with `ReuseIds` due work never runs out, so the cap is
what ends a drain. `Crash` of `Scheduler` also waits until the leases it leaves can run out
before `MaxTime`; otherwise the end of bounded time would look like a job that
never runs. `Subscriptions` drops a job due after `MaxTime`, and `TrialConverts`
speaks of queued ones. `Payouts` stops drawing references when `AutoRefs` is
used up. In `Billing` no time passes while a handler runs and a card does not
lapse under one, a trial is moved by one instant, and requests come before
`MaxTime`, so that what they start has time to end.

The type invariant of a module is a conjunct of one of its properties: `NeverEarly`
(Scheduler), `NeverOverdrawn` (Connect, with that of Transfers), `LadderKept` (Webhooks),
`BilledAsAgreed` (Subscriptions), `EachMovementOnce` (Treasury),
`CollectionPaidOnce` (Payouts), `PaidAttemptOnce` (Gateway), `OneEnding`
(Checkout), `PaidForOnce` (Billing). That of `Payments` is proved.
The theorems prove those of the first four, of `Payouts`, of `Gateway`, of `Checkout` and
of `Billing` as well.

### Fairness

`Scheduler`: weak fairness of the poll's tick and of each started task (a
`setInterval` keeps firing and a promise goes on), of real time where the clock
flows, and strong fairness of a queued drain and of a caller that waits for the
chain, because the chain is first-in first-out and a poll may be ahead of it
every time one looks. Requests, cancellations, clock changes and deaths have no
fairness. `Webhooks`: weak fairness of each started task (an attempt has a
timeout) and of publication, strong fairness of `StartJob` per delivery, since
the table is claimed oldest first and no job can be overtaken for ever.
`Subscriptions`: weak fairness of the runner (the poll takes the jobs that are
due one after another), of requests under way and of time; routes and deaths
have none. `Gateways`: weak fairness of `Claim`, `RunJob` and of each started
program; requests are bounded, so the poll is not overtaken for ever. `Checkout`:
weak fairness of handlers and of the lapse of time, strong fairness of the poll,
which may have to wait for a lock that is given in the order it was asked for.
`Billing`: weak fairness of handlers, claims and time, strong fairness of
beginning a claimed job, which waits for the subscription's lock. `Payouts`: weak
fairness of calls and the run, strong fairness of each job that stays due.
`Payments`, `Connect` and `Treasury` state safety only: nothing obliges a
caller to settle anything.

## What the runs found

Where the code does something other than its documentation or comments say, the
properties above state what holds and except the case; the exceptions are:

*Payments, transfers.*
- A refund that cannot settle. `totalRefunded` counts refunds in flight. The
  first of two refunds that cover a payment makes it `refunded` when it settles,
  and the second can then never settle, because its settlement would move the
  payment from `refunded` to `refunded` (`docs/payment-lifecycle.md:53`, `:127`).
- A Wise debit that is never returned: the debit, the status check and the move
  are separate transactions, and a move that is refused leaves the debit.
- The onboarding page of an account that was rejected before it was used still
  completes and gives its flags back, though `engine.ts:2919` says a rejected
  account "can neither charge nor be paid out"; it stays inactive.
- A fee may be given back before its charge has settled (`refundPlatformFee` never
  asks), and one given back in full before the share is reversed stays with the
  account: `ReversedGainsNothing` speaks of what follows the reversal.
- `#feeRefundShare` takes the newest transfer that names the payment, so one made
  by hand stands in for the forwarded share; the property excepts it.

*Scheduler, webhooks.*
- `at()` promises a scoped view of time (`clock.ts:86`). `POST /time` drains
  outside the chain that serialises ticks (`scheduler.ts:49`), so the poll and it
  can be inside `at()` at once, and a scope that ends before one opened inside it
  restores an instant that is over. From then on the process reads the instant of
  some past job, later scopes restore that one, and work that falls due after it
  is not claimed until the process is started again. `ScopedClock` says that
  nothing but such a crossing does this.
- With a second task, a job whose lease ran out while it was in hand is claimed
  and run again, and the write of one run may undo the end the other gave the
  row. `ClaimIsExclusive` and `FinishedIsFinal` except these jobs (`overrun`).
- A row that is cancelled after it was claimed is run all the same, and its retry
  makes the row ready again (`storage.ts:1892`), though "Nothing should still be
  scheduled for a subscription that has stopped" (`engine.ts:2379`).
- Under a frozen clock a job that was claimed when the process died waits: its
  lease is compared with a virtual now that does not move.
- A manual retry and a scheduled attempt number theirs from the same read
  (`dispatcher.ts:402`), so two requests leave one recorded attempt.

*Subscriptions.*
- Moving the end of a trial queues a second debit and leaves the first, which
  converts the trial, and bills it, when it fires.

*Adapters.*
- A declined Stripe intent confirmed again queues a job that the cleanup of the
  declined charge may cancel (`engine.ts:495`): the intent stays `processing`.
  `OutcomeIsDriven` and `OutcomeArrives` except it (`past.retried`).
- Two requests with one idempotency key that are both in flight both find no
  record and both create. `KeyedOnce` speaks of repeats after an answer.

*Checkout.*
- The closing job completes a trial whose process died after the link without
  scheduling its renewal (`routes-checkout.ts:1446` against `billing.ts:418`).
- The control API moving a payment under the closing job makes that job fail; it
  has one attempt, so the session stays open.
- A death between accepting an underpayment and moving the variance loses the
  variance; one inside `saveCard` leaves a default card without an authorization
  (`cards.ts:182`); one between `put(engineId)` and `subscriptions.update`
  (`billing.ts:409`) leaves a subscription that later steps repair.
- `chooseAmount` asks neither for a price of the payer's choice nor for an amount
  not yet set (`routes-checkout.ts:969`), so any session without a charge can be
  given one, zero included, and is then complete without a payment. A subscription
  ended so is never started, and no property speaks of it.
- A Stripe session of mode `subscription` starts its subscription though its
  payment is declined.

*Treasury, payouts.*
- A dispute hold of zero makes every later sweep throw (`treasury.ts:361`).
- A forwarded fee of two parts is two transactions, and a payment with one of them
  counts as charged (`treasury.ts:254-260`): a death between the two leaves the
  second part uncharged for good, though `treasury.ts:186` says a crash loses
  nothing and `:306-309` that the fee comes off once per collection.
- Escalating a warning puts its record before its row (`disputes.ts:208-222`). A
  sweep between the two sets aside the warning's amount, and none corrects it when
  the row gets the dispute's. `SweptLedgerMatchesRows` compares every hold and
  every fee to the cent and excepts these two; without either exception TLC breaks it.
- A death after a daily run and before it queues its successor ends the schedule
  (`treasury.ts:926`).

*Billing.*
- A tool makes a past-due subscription `non_renewing`; undone, it is `active` though
  it still owes, and the next renewal raises a second invoice (`billing.ts:510`: "no
  new invoice while one is still owed"). Paying one then clears what is owed while the
  other stays failed, and a moved trial would cancel its retries. This takes a tool
  and two requests, one event more than the bound of `billing`: TLC shows it with
  `MaxEvents = 3`, and the proof does not go through without the condition `strayed`
  that `GoesOn` puts on its part about retries.
- A tool that moves the core row under a handler makes the handler's own
  transition throw, and the retry it would have queued is never queued.
- A death between an invoice's record and `scheduleRenewal` loses the renewal; one
  between a charge and the invoice's transition charges again. `PaidForOnce` and
  `GoesOn` except these.
- An upgrade without proration followed by a downgrade credits money that was
  never paid.

## What is proved

`PaymentsProofs` proves, for every set of payments and disputes, every number of
refund rows, every set of charges and requested amounts and every status a
scenario may name:

| Theorem | Property |
|---|---|
| `TypeCorrect` | `TypeOK` |
| `NoOverRefund` | `RefundsWithinAmount` |
| `AmountRefundedIsSound` | `AmountRefundedCovers` |
| `CreditedOnce` | `CollectedOncePerReversal` |
| `DisputeRefundsOnce` | `DisputeRefundedOnce` |
| `SettlementsAreFinal` | `SettlementIsFinal` |
| `LedgerBalances` | `LedgerReconciles`, when no scenario names a refund status |

All but the last follow from one inductive invariant, `IInv` (theorem
`Invariance`). The properties are not inductive by themselves. `RowsOwned` adds
that a row without a refund is empty and every other one belongs to a payment,
with an amount that is a natural number, which `assertRefundable` gives and the
sums need. `CreditsUsed` adds that a payment whose status is not a settled one
has spent every credit it was given: without it a second success could follow an
unspent one. The refund arithmetic rests on lemmas about `SumTo`, at the head
of the module (each module of proofs holds those it needs): it is a number, it is monotone, changing one row changes it by the
difference, and a sum of parts is bounded by a sum of wholes. For the ledger
`LedgerInv` adds the books of each payment (what both sides hold is its amount
times its collections, less its settled refunds) and that whatever is settled or
refunded was collected. A scenario that names `refunded` sets the status with no
refund and no ledger entry, hence the condition `NoRefundSteps`.

`ConnectProofs`, for any pots, kinds of transfer, charges, amounts and rows:

| Theorem | Property |
|---|---|
| `MoneySpentOnce` | `NeverOverdrawn` |
| `LedgerAgrees` | `LedgerMatchesRows` |
| `NothingAfterReversal` | `ReversedGainsNothing` |

`NeverOverdrawn` compares a pot with what is reserved in it, so its invariant has
to say what every row holds: `RowSound` (a reserved row holds exactly the entries
it stands for; a Wise row never more than zero, and at least its amount once it
is committed) and `RequestSound` (a funding request past its debit left that
debit there, unless the row is over). Then every step changes one row and
`SumToUpdate` does the rest. `SourcesExist` keeps the charge a share names;
`Proportion` bounds the part of a fee a partial refund gives back. Assumed are
the module's `PotsAssumption`, `KindsAssumption`, `MoneyAssumption` and
`TermsAssumption`, and that there is a row.

`SchedulerProofs`, for any jobs, instants, batch sizes, leases of any length,
attempts and deaths:

| Theorem | Property |
|---|---|
| `NothingRunsEarly` | `NeverEarly`, with any drains beside the chain |
| `ClaimsAreExclusive` | `ClaimIsExclusive`, with any drains beside the chain |
| `EndsAreFinal` | `FinishedIsFinal`, with any drains beside the chain |
| `ScopesNest` | `ScopedClock`, with any drains beside the chain |
| `RunsAreCounted` | `RunsOncePerCrash`, for `Callers = {}` |

`ClockInv` says that no instant anywhere (an override, a saved one, a claimed
job's) is ahead of the clock. `ClaimInv` adds that a worker has a batch only
while it works on it (`BatchShape`) and that a place in a batch is its job's only
one, the row still leased or since cancelled, unless the lease ran out under it
(`Alone`): `ClockInv` is needed there, because the instant a reclaim compares
with is a scoped one, and being no later than the clock's own it finds no lease
expired that is not. `ScopeInv` adds to `ClockInv` that, until scopes cross, the
open ones are those of the running workers, each saved the instant of the one
below it, and the override is that of the last (`Nested`). `RunsAreCounted` is
about the chain alone, since two tasks may run one job twice (see above), and
`scheduler_serial` checks it so: `ChainInv` adds the shape of the chain
(`ChainShape`), that the rows of its batch are as the claim left them (`Held`),
so that short leases do no harm because the chain reclaims only between batches,
and the account of entries: an attempt not yet begun has one in hand
(`Accounted`).

`WebhooksProofs`, for any events, endpoints, rows, requests and ladders:

| Theorem | Property |
|---|---|
| `LadderIsKept` | `LadderKept` |
| `OpenStaysDriven` | `OpenIsDriven` |
| `FinalStaysQuiet` | `FinalIsQuiet` |

The invariant is `TypeOK`, `RowsExist` (whatever is in hand or queued is about a
row), `AllDriven` and `Untouched`: before the first manual request a row climbs
its ladder (`Climbing`), the sends made exceed the attempts recorded by one for
the send not recorded yet and by one per death, and a task about to send has
read the row as it is. `TasksAssumption` says that the scheduler is no request
and that no row is called `NoDelivery`.

`PayoutsProofs`, for any requests, quotes, collections and what they leave in the
balance, settings, jobs and crashes:

| Theorem | Property |
|---|---|
| `CollectionsPaidOnce` | `CollectionPaidOnce` |
| `QuotesMoveMoneyOnce` | `QuoteMovesMoneyOnce` |

Neither is inductive. A payout is created several writes after its collections
were chosen, outside the treasury lock, so `RunInv` says what the run relies on
at each of them: while it claims, no live payout holds any of its collections
and its reference has no payout; when it pays it holds them all and asks for
what they are owed; and it gives them back only while there is still no payout.
`QuoteInv` says that a quote names what it moved, and that a caller about to
move money on one has spent it and is the first: the caller is alone under the
lock (`LockHeld`), and a refusal may give the quote back because nothing moved.
After a death the claims and the spent quotes stay: a claim for a payout that is
not there counts for nothing, and a quote spent for nothing is never given back.
Both directions need the references of runs, the references asked for and the
requests to be told apart (`RefsAssumption`): a run draws its reference at random
(`treasury.ts:1076`) and a conversion has an identifier of its own. `Room` keeps the schedule's version in its bound, for which
`BoundAssumption` is there.

`SubscriptionsProofs`, for any requests, limits, lengths of periods and deaths:

| Theorem | Property |
|---|---|
| `BilledOnce` | `BilledAsAgreed` |

A renewal is several transactions, and requests and deaths come between them.
`ReadHolds` says why that is safe: the scheduler runs one job at a time, and only
its handler raises invoices, so what it read of the limit, the count and the
period's invoices still holds when it raises its own. `LastCharge` is about the
end: a handler past its last look at the subscription may still charge one that
was ended meanwhile, but after that charge nothing that could charge again is
under way, and whoever reads the row stops, since no transition leads out of an
end (`EndIsFinal`). `JobsOK` keeps what is queued within the time there is. Assumed
are `IntervalAssumption`, `LimitsAssumption` and `SubscriptionBounds`.

`GatewaysProofs`, for any providers modelled and steered, callers, outcomes,
requests, jobs and deaths:

| Theorem | Property |
|---|---|
| `PromiseIsKept` | `PromiseKept`: the adapters implement `Promise` |
| `KeyedCreatesOnce` | `KeyedOnce` |
| `AttemptPaidOnce` | `PaidAttemptOnce`, the types of `Gateways` with it |
| `OutcomesDriven` | `OutcomeIsDriven`, of Paystack's and Stripe's charges |

The programs of requests are of no fixed length, so the proof is about the calls
they are made of. `Calls(p, k)` is what provider `p` may ask of a row of kind
`k`: rows start in a status shown as open, only Stripe resumes what failed, only
Flutterwave's and Wise's payouts are given back, only payments are refunded, and
what is queued can be run. One lemma per adapter (`KoraTaken`, ... `HostTaken`)
proves that every route takes up a program made of such calls; one lemma per
call (`CreateKeeps`, `MoveKeeps`, ...) that the call, of whichever program, keeps
the invariant and is a step of `Promise` or changes nothing it shows.
`PaymentWord` and `PayoutWord` say what each adapter's word for a status tells
the merchant, and `PaymentTale` and `PayoutTale` that whatever the engine's
tables allow is then a step of the promise. Of the rest of the invariant,
`NothingYet` says that before the row exists every program starts by creating it
or by asking for the answer on record, `Unpaid` that what is shown as open was
not paid, and `LateAsks` that a request that came after its answer was stored has
still to ask for it. `Picks` gives the jobs that stay queued as a set of
sequences of one member, where `SelectSeq` would be a recursive operator of the
library, out of the prover's reach.

`OutcomesDriven` takes an invariant of its own, `Driven`, about the shape of the
programs at work. `Leads`: a program that moves the row to "processing" queues the
outcome or makes it in its very next call, and no row is created there. `Cancels`:
a program that cancels the row's jobs is at work only when the row has ended
(`Over`), so no job is lost while it is still to decide. Then, while a charge is
under way and no process died, its job waits (`Waits`) or a task `Drives` it: it is
about to queue the outcome, or plays the plan of one and has read, or will read
next, that the row is still "processing". The last part is needed because a handler
that plays a plan stops when what it read has changed (`When`); without it the job
could begin, read and leave the charge to nobody. One lemma per route of the two
adapters (`PaystackBegins`, `StripeBegins`, `HostBegins`) proves the shape of the
programs, one per call (`MoveDrives`, `EnqueueDrives`, `CancelDrives`, ...) that the
call keeps the charge driven, and `ClaimDrives` and `RunJobDrives` that the
scheduler does. TLC checked `Driven` with every outcome and a death, 2 million
states, before it was proved.

An attempt at a QuiddPay session is written after the payment moved, from what the
same handler saw of it, so `AttemptPaidOnce` follows a handler from one to the
other. A program that is to mark an attempt has the mark last, behind the move it
waits for: to "failed" if it writes what it saw, from "processing" to "successful"
if it writes "paid" (`Distant`). As it goes on, it has either seen "processing"
with "successful" next, or has made its move and has nothing left but to cancel
jobs and to mark (`Settles`). The engine's tables let a payment succeed once, and a
handler whose move they refuse stops: so whoever is about to mark an attempt
as paid is the one that collected the payment, there is no second, and before it
none is marked (`MarkedOnce`). `AfterCall` and `AfterHop` say what is left of such a
program after a call, and `CreateMarks`, `MoveMarks`, `AttemptMarks`, ... that each
call keeps `MarkedOnce`. `Bounded` keeps the bounds, which `TypeOK` states. TLC
checked all parts of this invariant on QuiddPay and Stripe side by side, and on
QuiddPay with a death, before it was proved.

`CheckoutProofs`, for any callers, kinds of session, tools and deaths:

| Theorem | Property |
|---|---|
| `OneEndingHolds` | `OneEnding`, the types of `Checkout` with it |
| `FulfilledWholeHolds` | `FulfilledWhole` |
| `VarianceOnceHolds` | `VarianceOnce` |
| `OnItsWaySettlesHolds` | `OnItsWaySettles` |

All four follow from one inductive invariant, `IInv` (theorem
`CheckoutInvariant`). A handler of `Checkout` is a program that grows as it runs:
it looks at the session and puts what follows before what is left. The proof
takes the programs apart first. The steps of every handler come in one order
(`Rank`: the lock and the row, the decision, the method, a move that resumes, one
that ends, what is told, the completion work), so a program is known by the set
of steps it has left (`Programs`: each is `Ranked`), and `NextGoes` restates every
action of the specification as a step from one set to another (`GoNext`). What
follows speaks of sets only. The parts of `IInv` say what may be left, beside which
rows:

- `Shaped`, `Named`: what cannot be left beside what. No handler publishes or
  fulfils before it has moved, and whoever names a method has its move left.
- `Locked`: every step but moving, telling and fulfilling is left only to the task
  that holds the session's lock, and what a job does only to the poll.
- `Sold`: who pays has a payment, and who needs one has a session that asks
  for it. `Told`: what was told agrees with the payment's status.
- `Filled`: one task at a time does the completion work; what it has still to do,
  with what is on record, makes the whole (`Makings`); and nothing is made twice,
  because a step is left only where its row is not there.
- `Earned`: what is fulfilled was paid for, or is free and open; whoever expires the
  session has seen no subscription linked, and none is linked under it.
- `Varied`: the difference of what arrived was moved, or one task owes it, and then
  only one.
- `Way`: a payment that the sandbox will settle has somebody who does it (`Driven`): a
  queued job, the job in hand, or the caller who is about to queue it. The closing
  job's second run (`grace`) finds none of these.

None is enough alone. `Sold` needs `Earned` and `Way` to know when the session may
close, `Told` needs `Sold`, `Filled` needs `Sold` and `Earned` for the completion work
that may begin, `Earned` needs `Filled` and `Told`, and `Way` needs what `Shaped` and
`Named` say about the order of moves; all need `Locked`. A
death empties every program and drops the locks; `Filled` and `Earned` survive it
because they speak of rows, `Varied` and `Way` do not claim to (the properties
except it). TLC checked `IInv` as an invariant of the instance of `checkout`,
575,863 states, before it was proved. Assumed are `ModesAssumption`, `TasksAssumption` (the scheduler is no
caller and nobody is called `None`) and `CheckoutBounds`.

The second half of `PaymentsProofs` is about `Billing`, for any period, retry
offsets that grow, recovery settings, prices, and number of requests, tools and
deaths; the two components share the lemmas about sums:

| Theorem | Property |
|---|---|
| `PaidOnce` | `PaidForOnce`, the types of `Billing` with it |
| `BillingGoesOn` | `GoesOn` |

Both follow from one inductive invariant, `BillInv`. A handler of `Billing` is a
program of steps, some of which put others before what is left. As in
`CheckoutProofs` the proof knows a program by the words it has left (`Said`), but
here some words only make sense beside others: `Ordered` says what may come after
a word (the table `Later`), `Linked` what a word is always followed by, so that a
handler in the middle of anything is known to finish it. One lemma per fragment of
a program (`SettledSays`, `RefusedSays`, `EndSays`, `RaiseSays`, `RenewSays`, ...)
gives its words; `Joined` puts fragments together. The parts of `BillInv` say:

- `JobsWell`, `Timed`: every retry, queued or under way, is at its offset from the
  first failure, and the last one is followed by exhaustion.
- `Standings`: every move of an invoice that a program still has to make is legal.
  Hence no handler stops halfway on its own account, whatever a tool or a death
  left behind.
- `ChargedOnce`: an invoice that is not paid, and that no program is about to mark
  paid, was charged no more often than the process died: an attempt is made only on
  such an invoice, and marks it paid in the same program.
- `CreditOK`: the balance is what was granted less what came off invoices, but for
  the one invoice whose credit is still to be spent.
- `MovesOK`, `OwingOK`: while the process lives and no tool crossed a handler, the
  moves of the row are legal too, and what the record says is owed the row shows as
  past due.
- `Renews`: the next renewal is queued, or in hand and not yet read, or the program
  at work will queue it or end the subscription.
- `FailingOK`, `RetriesOK`: only the last invoice can be failing, so recovery
  forgets none; and the retry it advertises is queued, in hand, or about to be.

`GoesOn` needs all of them: a renewal that stopped on an illegal move of the row
would lose its successor, and a second failing invoice would lose its retries when
the first is paid. A step that only drops the first word of the program, as most
do, is covered by one lemma for each part (`DropsTimed`, `DropsStandings`, ...);
then there is one lemma per action. `Taken` and `Served` are about a program that
begins, `FirstDue` and `TakenOut` about the queue, `ClaimStep` and `BeginStep` about
a job between the queue and its handler. A death empties the program and puts the
job in hand back: what speaks of a process that lives says nothing from there on,
and the rest survives because it speaks of rows. TLC checked `BillInv` on the
instance of `billing` before it was proved. Assumed are `PeriodAssumption`,
`RetryAssumption`, `RecoveryAssumption`, `PricesAssumption` and `BillingBounds`.

Only model-checked: liveness (`EveryJobEnds`, `DrainsEnd`, `DeliveryEnds`,
`TrialConverts`, `OutcomeArrives`, `SessionCloses`, `PaidIsFulfilled`,
`RecoveryEnds`), which the prover cannot do; `EachMovementOnce` and `SweptLedgerMatchesRows` of `Treasury`,
which sum what is in a bag of movements, an induction over data.

## Not modelled, and the plan

1. `References`: `createPayment`'s look-up of a reference outside its transaction.
2. Notices: the payload of each provider's event against the row it is about.
3. An abstract ledger (a book of deposits and withdrawals that never goes below
   zero) and `Transfers` shown to implement it by a refinement mapping.
4. QuiddPay's test outcome `amount_mismatch` (`routes.ts:970`) apart from
   `manual_review`: both leave the payment pending and the attempt open, and
   differ in the attempt's word only.
5. Stored cards (a Stripe card's code is derived from card and customer and is
   unique, `authorization.ts:75`, and stays when the card is detached) and setup
   intents, drafts and hand-built invoices, splits over
   several accounts (Paystack checks their total and adds a share in separate
   statements).
6. Proofs: of `Treasury` what does not rest on sums over bags.

Left out for good: request and response shapes of the adapters, signatures,
identifiers, currencies and rates, pricing, storage mapping and migrations, the
dashboard and the command line. They are data or presentation; nothing about
the order of events depends on them. They are also most of the source: the
serialisers, schemas, rendered pages, catalogues and mappers outweigh the
routes, and the map names only lines whose control a definition translates.
