------------------------- MODULE SubscriptionsProofs -------------------------
(***************************************************************************)
(* Proofs about Subscriptions, for any requests, limits, lengths of        *)
(* periods, and deaths.                                                    *)
(***************************************************************************)
EXTENDS Subscriptions, TLAPS

-----------------------------------------------------------------------------
\* The statuses a row goes through, the places a runner can be at, and those
\* where it has read the subscription, may still charge for it, or works for
\* a debit
Statuses == SubscriptionStatus \cup {"none"}
Places == {"idle", "read", "convert", "find", "raise", "pay", "close", "attention",
           "drop", "advance", "complete", "cancel", "date", "invoice", "charge",
           "finish"}
HasRead == {"convert", "find", "raise"}
MayCharge == HasRead \cup {"pay"}
Debiting == {"convert", "pay", "close", "attention", "drop", "advance", "date",
             "invoice", "charge"}

\* What is queued can be done: a debit falls within the time there is.
Doable == {j \in JobRow : j.kind = "charge" => j.dueAt \in Time}

JobsOK ==
    /\ BagToSet(jobs) \subseteq Doable
    /\ runner.job \in Doable
    /\ runner.pc \in Debiting => runner.job.kind = "charge"

\* The scheduler runs one job at a time, so that what its handler read of the
\* invoices holds until it has raised its own.
ReadHolds ==
    /\ runner.pc \in HasRead =>
          runner.seen.limit = sub.limit /\ runner.seen.count = sub.count
    /\ runner.pc = "raise" => ForPeriod = {} /\ ~ LimitReached(sub)

\* Each period has one invoice, charged once, and the limit is kept.
Billed ==
    /\ \A i, k \in DOMAIN invoice : invoice[i].period = invoice[k].period => i = k
    /\ \A i \in DOMAIN invoice : invoice[i].charges <= 1
    /\ sub.count = Len(invoice)
    /\ sub.limit > 0 => Len(invoice) <= sub.limit

\* A charge after the end was the last: whoever reads the row now stops.
LastCharge ==
    late > 0 => late = 1 /\ sub.status \in Ended /\ runner.pc \notin MayCharge

Inv == TypeOK /\ JobsOK /\ ReadHolds /\ Billed /\ LastCharge

-----------------------------------------------------------------------------
(***************************************************************************)
(* What the row and a record of the scheduler are                          *)
(***************************************************************************)
LEMMA Rows ==
    ASSUME TypeOK
    PROVE  /\ sub.status \in Statuses /\ sub.next \in Dates \cup {NoDate}
           /\ sub.limit \in Limits /\ sub.count \in Nat /\ sub.limit \in Nat
           /\ \A s \in Statuses, d \in Dates \cup {NoDate} : Moved(s, d) \in SubscriptionRow
           /\ \A s, d : /\ Moved(s, d).limit = sub.limit /\ Moved(s, d).count = sub.count
                        /\ Moved(s, d).status = s
           /\ NoSubscription(sub.limit) \in SubscriptionRow
           /\ Resting \in RunnerRow /\ Resting.job \in Doable
           /\ Resting.job.kind = "charge" /\ Resting.pc = "idle"
<1>1. /\ sub \in [status : Statuses, next : Dates \cup {NoDate}, limit : Limits, count : Nat]
      /\ SubscriptionRow =
            [status : Statuses, next : Dates \cup {NoDate}, limit : Limits, count : Nat]
    BY DEF TypeOK, SubscriptionRow, Statuses
<1> HIDE DEF Statuses, Dates
<1>2. /\ sub.status \in Statuses /\ sub.next \in Dates \cup {NoDate}
      /\ sub.limit \in Limits /\ sub.count \in Nat
    BY <1>1
<1>3. sub.limit \in Nat
    BY <1>2, LimitsAssumption
<1>4. \A s \in Statuses, d \in Dates \cup {NoDate} : Moved(s, d) \in SubscriptionRow
    BY <1>1 DEF Moved
<1>5. \A s, d : /\ Moved(s, d).limit = sub.limit /\ Moved(s, d).count = sub.count
                /\ Moved(s, d).status = s
    BY <1>1 DEF Moved
<1>6. NoSubscription(sub.limit) \in SubscriptionRow
    BY <1>1, <1>2 DEF NoSubscription, Statuses
<1>7. /\ 0 \in Dates /\ 0 \in Time
    BY SubscriptionBounds, IntervalAssumption DEF Dates, Time
<1>8. Resting.job \in Doable /\ Resting.job.kind = "charge" /\ Resting.pc = "idle"
    BY <1>7 DEF Resting, Doable, JobRow
<1>9. Resting \in RunnerRow
    BY <1>6, <1>7 DEF Resting, RunnerRow, JobRow
<1> QED
    BY <1>2, <1>3, <1>4, <1>5, <1>6, <1>8, <1>9

(***************************************************************************)
(* The instant the process reads                                           *)
(***************************************************************************)
LEMMA Instants ==
    ASSUME TypeOK
    PROVE  Clock \in Time /\ Time \subseteq Dates /\ Time \subseteq Nat /\ Dates \subseteq Nat
<1>1. now \in Time /\ runner.job.runAt \in Time
    BY DEF TypeOK, RunnerRow, JobRow
<1> QED
    BY <1>1, SubscriptionBounds, IntervalAssumption DEF Clock, Time, Dates

(***************************************************************************)
(* What is queued, claimed and put back can be done.                       *)
(***************************************************************************)
LEMMA Queues ==
    ASSUME BagToSet(jobs) \subseteq Doable
    PROVE  /\ \A j \in Doable : /\ BagToSet(jobs (+) SetToBag({j})) \subseteq Doable
                                /\ BagToSet(jobs (-) SetToBag({j})) \subseteq Doable
           /\ cancelGroup => BagToSet(jobs') \subseteq Doable
<1>1. ASSUME NEW j \in Doable
      PROVE  /\ BagToSet(jobs (+) SetToBag({j})) \subseteq Doable
             /\ BagToSet(jobs (-) SetToBag({j})) \subseteq Doable
    <2>1. BagToSet(jobs (+) SetToBag({j})) = DOMAIN jobs \cup {j}
        BY DEF BagToSet, SetToBag, (+)
    <2>2. BagToSet(jobs (-) SetToBag({j})) \subseteq DOMAIN jobs
        BY DEF BagToSet, SetToBag, (-)
    <2> QED
        BY <2>1, <2>2 DEF BagToSet
<1>2. cancelGroup => BagToSet(jobs') \subseteq Doable
    BY DEF cancelGroup, BagToSet
<1> QED
    BY <1>1, <1>2

\* What runRenewal and runDunning queue next, and the bag of jobs after it.
LEMMA CycleQueues ==
    ASSUME TypeOK, BagToSet(jobs) \subseteq Doable, NEW dueAt \in Dates
    PROVE  /\ BagToSet(InvoiceQueued(dueAt)) \subseteq Doable
           /\ BagToSet(ChargeQueued(dueAt)) \subseteq Doable
<1>1. Clock \in Nat /\ dueAt \in Nat /\ Lead \in Nat /\ MaxTime \in Nat
    BY Instants, IntervalAssumption, SubscriptionBounds
<1>2. ASSUME NEW j \in [kind : {"invoice", "charge"}, dueAt : Dates, runAt : Nat],
             j.kind = "charge" => j.dueAt <= j.runAt
      PROVE  BagToSet(Queued(j)) \subseteq Doable
    <2>1. CASE j.runAt <= MaxTime
        <3>0. j.dueAt \in Nat /\ j.runAt \in Nat
            BY <1>2, Instants
        <3>1. j.runAt \in Time /\ (j.kind = "charge" => j.dueAt \in Time)
            BY <1>1, <1>2, <2>1, <3>0 DEF Time
        <3>2. j \in Doable
            BY <1>2, <3>1 DEF Doable, JobRow
        <3> QED
            BY <2>1, <3>2, Queues DEF Queued
    <2> QED
        BY <2>1 DEF Queued
<1>3. dueAt - Lead > Clock => dueAt - Lead \in Nat
    BY <1>1
<1> QED
    BY <1>1, <1>2, <1>3 DEF InvoiceQueued, ChargeQueued

(***************************************************************************)
(* No way leads out of the end.                                            *)
(***************************************************************************)
LEMMA EndIsFinal ==
    ASSUME NEW s \in Ended, NEW to
    PROVE  ~ assertSubscriptionTransition(s, to) /\ ~ isRenewable(s) /\ s \in SubscriptionStatus
BY DEF Ended, assertSubscriptionTransition, SUBSCRIPTION_TRANSITIONS, SubscriptionStatus,
       isRenewable

-----------------------------------------------------------------------------
(***************************************************************************)
(* The runner's steps.  What it has in hand after one of the two ways on;  *)
(***************************************************************************)
LEMMA GoesOnAt ==
    ASSUME TypeOK, JobsOK, NEW pc \in Places
    PROVE  /\ At(pc) => /\ runner' \in RunnerRow /\ runner'.pc = pc
                        /\ runner'.job = runner.job /\ runner'.seen = runner.seen
           /\ Only(pc) => /\ runner' \in RunnerRow /\ runner'.pc = pc
                          /\ runner'.job = runner.job
<1>1. runner \in RunnerRow /\ Resting \in RunnerRow
    BY Rows DEF TypeOK
<1>2. \A x \in RunnerRow : /\ [x EXCEPT !.pc = pc] \in RunnerRow
                            /\ [x EXCEPT !.pc = pc].pc = pc
                            /\ [x EXCEPT !.pc = pc].job = x.job
                            /\ [x EXCEPT !.pc = pc].seen = x.seen
    BY DEF RunnerRow, Places
<1>3. At(pc) => /\ runner' \in RunnerRow /\ runner'.pc = pc
                /\ runner'.job = runner.job /\ runner'.seen = runner.seen
    BY <1>1, <1>2 DEF At
<1>4. ASSUME Only(pc)
      PROVE  runner' \in RunnerRow /\ runner'.pc = pc /\ runner'.job = runner.job
    <2> DEFINE j == runner.job
               h == runner.held
               x == [Resting EXCEPT !.job = j, !.held = h]
    <2>1. runner' = [x EXCEPT !.pc = pc]
        BY <1>1, <1>4 DEF Only, RunnerRow
    <2>2. j \in JobRow /\ h \in BOOLEAN
        BY <1>1 DEF RunnerRow
    <2>3. x \in RunnerRow /\ x.job = j
        <3> HIDE DEF j, h
        <3> QED
            BY <1>1, <2>2 DEF RunnerRow
    <2> HIDE DEF x
    <2> QED
        BY <1>2, <2>1, <2>3
<1> QED
    BY <1>3, <1>4

\* ... and the invoices being as they were and the subscription none other,
\* the invariant holds there if it does of the place it is at;
LEMMA RowMoves ==
    ASSUME Inv, UNCHANGED <<invoice, late>>, now' \in Time,
           sub' \in SubscriptionRow, sub'.limit = sub.limit, sub'.count = sub.count,
           late > 0 => sub'.status \in Ended,
           request' \in [Requests -> RequestRow], requests' \in 0..MaxRequests,
           crashes' \in 0..MaxCrashes,
           runner' \in RunnerRow, runner'.job \in Doable, BagToSet(jobs') \subseteq Doable,
           runner'.pc \in Debiting => runner'.job.kind = "charge",
           runner'.pc \in HasRead =>
              runner'.seen.limit = sub.limit /\ runner'.seen.count = sub.count,
           runner'.pc = "raise" =>
              /\ {i \in DOMAIN invoice : invoice[i].period = runner'.job.dueAt} = {}
              /\ ~ LimitReached(sub),
           late > 0 => runner'.pc \notin MayCharge
    PROVE  Inv'
<1>1. TypeOK'
    BY DEF Inv, TypeOK, Doable
<1>2. JobsOK' /\ ReadHolds' /\ Billed' /\ LastCharge'
    BY DEF Inv, JobsOK, ReadHolds, ForPeriod, LimitReached, Billed, LastCharge
<1> QED
    BY <1>1, <1>2 DEF Inv

\* ... so when the runner only goes on,
LEMMA RunnerMoves ==
    ASSUME Inv, UNCHANGED <<now, sub, invoice, late>>,
           request' \in [Requests -> RequestRow], requests' \in 0..MaxRequests,
           crashes' \in 0..MaxCrashes,
           runner' \in RunnerRow, runner'.job \in Doable, BagToSet(jobs') \subseteq Doable,
           runner'.pc \in Debiting => runner'.job.kind = "charge",
           runner'.pc \in HasRead =>
              runner'.seen.limit = sub.limit /\ runner'.seen.count = sub.count,
           runner'.pc = "raise" =>
              /\ {i \in DOMAIN invoice : invoice[i].period = runner'.job.dueAt} = {}
              /\ ~ LimitReached(sub),
           late > 0 => runner'.pc \notin MayCharge
    PROVE  Inv'
<1>1. now' \in Time /\ sub' \in SubscriptionRow /\ (late > 0 => sub'.status \in Ended)
    BY DEF Inv, TypeOK, LastCharge
<1> QED
    BY <1>1, RowMoves

\* ... and when a request moves the subscription beside it.
LEMMA RequestMoves ==
    ASSUME Inv, UNCHANGED <<now, invoice, late, crashes>>,
           sub' \in SubscriptionRow, sub'.limit = sub.limit, sub'.count = sub.count,
           late > 0 => sub'.status \in Ended,
           request' \in [Requests -> RequestRow], requests' \in 0..MaxRequests,
           runner' \in {runner, [runner EXCEPT !.held = FALSE]},
           BagToSet(jobs') \subseteq Doable
    PROVE  Inv'
<1>1. TypeOK /\ JobsOK /\ ReadHolds /\ LastCharge
    BY DEF Inv
<1>2. now' \in Time /\ crashes' \in 0..MaxCrashes /\ runner \in RunnerRow
    BY <1>1 DEF TypeOK
<1>3. /\ runner' \in RunnerRow /\ runner'.job = runner.job /\ runner'.pc = runner.pc
      /\ runner'.seen = runner.seen
    BY <1>2 DEF RunnerRow
<1> QED
    BY <1>1, <1>2, <1>3, RowMoves DEF JobsOK, ReadHolds, ForPeriod, LastCharge

\* The request variables and the clock do not move with the runner.
LEMMA RestHolds ==
    ASSUME TypeOK, Rest
    PROVE  /\ now' = now /\ request' \in [Requests -> RequestRow]
           /\ requests' \in 0..MaxRequests /\ crashes' \in 0..MaxCrashes
BY DEF TypeOK, Rest

(***************************************************************************)
(* A job is taken up, read for, and finished.                              *)
(***************************************************************************)
LEMMA StartKeeps ==
    ASSUME Inv, NEW j \in BagToSet(jobs), StartJob(j)
    PROVE  Inv'
<1>1. TypeOK /\ JobsOK /\ Rest /\ j \in Doable
    BY DEF Inv, JobsOK, StartJob
<1>2. UNCHANGED <<sub, invoice, late>> /\ BagToSet(jobs') \subseteq Doable
    BY <1>1, Queues DEF StartJob, JobsOK
<1>3. runner' \in RunnerRow /\ runner'.pc = "read" /\ runner'.job = j
    BY <1>1 DEF StartJob, TypeOK, RunnerRow, Doable
<1>4. runner'.pc \notin Debiting \cup MayCharge
    BY <1>3 DEF Debiting, MayCharge, HasRead
<1> QED
    BY <1>1, <1>2, <1>3, <1>4, RestHolds, RunnerMoves DEF MayCharge, HasRead

\* Who reads the row of a subscription that has ended stops.
LEMMA ReadKeeps ==
    ASSUME Inv, ReadSubscription
    PROVE  Inv'
<1>1. TypeOK /\ JobsOK /\ Rest /\ LastCharge
    BY DEF Inv, ReadSubscription
<1>2. UNCHANGED <<sub, invoice, late, jobs>> /\ BagToSet(jobs') \subseteq Doable
    BY <1>1 DEF ReadSubscription, JobsOK
<1>3. /\ runner' \in RunnerRow /\ runner'.job = runner.job /\ runner'.seen = sub
      /\ runner'.pc \in {"finish", "convert", "find"}
      /\ runner'.pc = "convert" => runner.job.kind = "charge"
      /\ runner'.pc # "finish" => isRenewable(sub.status)
    <2>1. runner \in RunnerRow /\ sub \in SubscriptionRow
        BY <1>1 DEF TypeOK
    <2> QED
        BY <2>1 DEF ReadSubscription, RunnerRow
<1>4. late > 0 => runner'.pc = "finish"
    BY <1>1, <1>3, EndIsFinal DEF LastCharge
<1>5. "finish" \notin MayCharge /\ "finish" \notin Debiting /\ "find" \notin Debiting
    BY DEF Debiting, MayCharge, HasRead
<1> QED
    BY <1>1, <1>2, <1>3, <1>4, <1>5, RestHolds, RunnerMoves DEF JobsOK

\* runner.ts: completing the job a handler has finished with.
LEMMA FinishKeeps ==
    ASSUME Inv, Finish
    PROVE  Inv'
<1>1. TypeOK /\ JobsOK /\ Rest /\ UNCHANGED <<sub, invoice, jobs, late>> /\ runner' = Resting
    BY DEF Inv, Finish
<1>2. "idle" \notin Debiting \cup MayCharge
    BY DEF Debiting, MayCharge, HasRead
<1> QED
    BY <1>1, <1>2, Rows, RestHolds, RunnerMoves DEF JobsOK, MayCharge

(***************************************************************************)
(* The rest of the steps that leave the rows                               *)
(***************************************************************************)
LEMMA FindKeeps ==
    ASSUME Inv, FindInvoice
    PROVE  Inv'
<1>1. /\ TypeOK /\ JobsOK /\ Rest /\ LastCharge /\ UNCHANGED <<sub, invoice, jobs, late>>
      /\ runner.pc = "find" /\ runner.pc \in HasRead /\ runner.pc \in MayCharge
    BY DEF Inv, FindInvoice, HasRead, MayCharge
<1>2. runner.seen.limit = sub.limit /\ runner.seen.count = sub.count /\ late = 0
    BY <1>1 DEF Inv, ReadHolds, LastCharge, TypeOK
<1>3. /\ runner' \in RunnerRow /\ runner'.job = runner.job
      /\ \/ runner'.pc = "pay" /\ runner.job.kind = "charge"
         \/ runner'.pc \in {"finish", "complete"}
         \/ /\ runner'.pc = "raise" /\ runner'.seen = runner.seen
            /\ ForPeriod = {} /\ ~ LimitReached(runner.seen)
    <2>1. CASE ForPeriod # {} /\ runner.job.kind = "charge"
        <3>1. runner' = [runner EXCEPT !.row = CHOOSE i \in ForPeriod : TRUE, !.pc = "pay"]
            BY <2>1 DEF FindInvoice
        <3>2. (CHOOSE i \in ForPeriod : TRUE) \in Nat
            BY <1>1, <2>1 DEF ForPeriod, TypeOK
        <3> QED
            BY <1>1, <2>1, <3>1, <3>2 DEF TypeOK, RunnerRow
    <2>2. CASE ForPeriod # {} /\ runner.job.kind # "charge"
        BY <1>1, <2>2, GoesOnAt DEF FindInvoice, Places
    <2>3. CASE ForPeriod = {}
        BY <1>1, <2>3, GoesOnAt DEF FindInvoice, Places
    <2> QED
        BY <2>1, <2>2, <2>3
<1>4. /\ {"finish", "complete", "raise"} \cap Debiting = {}
      /\ {"finish", "complete", "pay"} \cap HasRead = {}
    BY DEF Debiting, HasRead
<1>5. runner'.pc = "raise" =>
          /\ {i \in DOMAIN invoice : invoice[i].period = runner'.job.dueAt} = {}
          /\ ~ LimitReached(sub)
    BY <1>2, <1>3 DEF ForPeriod, LimitReached
<1> QED
    BY <1>1, <1>2, <1>3, <1>4, <1>5, RestHolds, RunnerMoves DEF JobsOK

\* advanceSubscription: the row's period moves to the next one.
LEMMA AdvanceKeeps ==
    ASSUME Inv, Advance
    PROVE  Inv'
<1>1. /\ TypeOK /\ JobsOK /\ Rest /\ UNCHANGED <<sub, invoice, jobs, late>>
      /\ runner.pc = "advance" /\ runner.pc \in Debiting
    BY DEF Inv, Advance, Debiting
<1>2. Only("finish") \/ Only("complete") \/ Only("date")
    BY DEF Advance
<1>3. /\ runner' \in RunnerRow /\ runner'.job = runner.job
      /\ runner'.pc \in {"finish", "complete", "date"}
    BY <1>1, <1>2, GoesOnAt DEF Places
<1>4. {"finish", "complete", "date"} \cap MayCharge = {}
    BY DEF MayCharge, HasRead
<1> QED
    BY <1>1, <1>3, <1>4, RestHolds, RunnerMoves DEF JobsOK, MayCharge

\* The renewal of the next period is queued.
LEMMA EnqueueKeeps ==
    ASSUME Inv, EnqueueInvoice \/ EnqueueCharge
    PROVE  Inv'
<1>1. /\ TypeOK /\ JobsOK /\ Rest /\ UNCHANGED <<sub, invoice, late>>
      /\ runner.pc \in {"invoice", "charge"} /\ runner.pc \in Debiting
    BY DEF Inv, EnqueueInvoice, EnqueueCharge, Debiting
<1>2. runner.job.kind = "charge" /\ runner.job \in Doable
    BY <1>1 DEF JobsOK
<1>3. runner.job.dueAt + Interval \in Dates
    BY <1>2, SubscriptionBounds, IntervalAssumption DEF Doable, Time, Dates
<1>4. BagToSet(jobs') \subseteq Doable
    BY <1>1, <1>3, CycleQueues DEF EnqueueInvoice, EnqueueCharge, JobsOK
<1>5. At("charge") \/ Only("finish")
    BY DEF EnqueueInvoice, EnqueueCharge
<1>6. /\ runner' \in RunnerRow /\ runner'.job = runner.job
      /\ runner'.pc \in {"finish", "charge"}
    BY <1>1, <1>5, GoesOnAt DEF Places
<1>7. {"finish", "charge"} \cap MayCharge = {}
    BY DEF MayCharge, HasRead
<1> QED
    BY <1>1, <1>2, <1>4, <1>6, <1>7, RestHolds, RunnerMoves DEF MayCharge

\* cancelPendingForResource: the renewals queued for the row are withdrawn.
LEMMA CancelOwnKeeps ==
    ASSUME Inv, CancelOwnGroup
    PROVE  Inv'
<1>1. /\ TypeOK /\ JobsOK /\ Rest /\ UNCHANGED <<sub, invoice, late>>
      /\ runner.pc \in {"drop", "cancel"} /\ cancelGroup
    BY DEF Inv, CancelOwnGroup
<1>2. BagToSet(jobs') \subseteq Doable
    BY <1>1, Queues DEF JobsOK
<1>3. /\ runner' \in RunnerRow /\ runner'.job = runner.job
      /\ runner'.pc = IF runner.pc = "drop" THEN "advance" ELSE "finish"
    BY <1>1 DEF CancelOwnGroup, TypeOK, RunnerRow
<1>4. {"advance", "finish"} \cap MayCharge = {} /\ "drop" \in Debiting /\ "finish" \notin Debiting
    BY DEF Debiting, MayCharge, HasRead
<1> QED
    BY <1>1, <1>2, <1>3, <1>4, RestHolds, RunnerMoves DEF JobsOK, MayCharge

-----------------------------------------------------------------------------
(***************************************************************************)
(* The steps that move the subscription: none leads out of its end, and    *)
(* none is taken by who has yet to charge an ended one.                    *)
(***************************************************************************)
LEMMA ConvertKeeps ==
    ASSUME Inv, Convert
    PROVE  Inv'
<1>1. /\ TypeOK /\ JobsOK /\ Rest /\ UNCHANGED <<invoice, jobs, late>>
      /\ runner.pc = "convert" /\ runner.pc \in MayCharge /\ runner.pc \in Debiting
      /\ now \in Time /\ BagToSet(jobs') \subseteq Doable
    BY DEF Inv, Convert, MayCharge, HasRead, Debiting, JobsOK, TypeOK
<1>2. late = 0 /\ runner \in RunnerRow /\ sub \in SubscriptionRow
    BY <1>1 DEF Inv, LastCharge, TypeOK
<1>3. CASE assertSubscriptionTransition(sub.status, "active")
    <2>1. sub' = Moved("active", runner.seen.next)
          /\ runner' = [runner EXCEPT !.pc = "find", !.seen = sub']
        BY <1>3 DEF Convert
    <2>2. runner.seen.next \in Dates \cup {NoDate} /\ "active" \in Statuses
        BY <1>2 DEF RunnerRow, SubscriptionRow, Statuses, SubscriptionStatus
    <2>3. sub' \in SubscriptionRow /\ sub'.limit = sub.limit /\ sub'.count = sub.count
        BY <1>1, <2>1, <2>2, Rows
    <2>4. /\ runner' \in RunnerRow /\ runner'.pc = "find" /\ runner'.job = runner.job
          /\ runner'.seen = sub'
        BY <1>2, <2>1, <2>3 DEF RunnerRow
    <2> QED
        BY <1>1, <1>2, <2>3, <2>4, RestHolds, RowMoves DEF JobsOK
<1>4. CASE ~ assertSubscriptionTransition(sub.status, "active")
    <2>1. Only("finish") /\ UNCHANGED sub
        BY <1>4 DEF Convert
    <2>2. runner' \in RunnerRow /\ runner'.pc = "finish" /\ runner'.job = runner.job
        BY <1>1, <2>1, GoesOnAt DEF Places
    <2>3. "finish" \notin HasRead
        BY DEF HasRead
    <2> QED
        BY <1>1, <1>2, <2>1, <2>2, <2>3, RestHolds, RunnerMoves DEF JobsOK
<1> QED
    BY <1>3, <1>4

\* A failed charge marks the subscription: past due, or given up.
LEMMA AttentionKeeps ==
    ASSUME Inv, MoveToAttention
    PROVE  Inv'
<1>1. /\ TypeOK /\ JobsOK /\ Rest /\ UNCHANGED <<invoice, jobs, late>>
      /\ runner.pc = "attention" /\ runner.pc \in Debiting /\ runner \in RunnerRow
      /\ now \in Time /\ BagToSet(jobs') \subseteq Doable
    BY DEF Inv, MoveToAttention, Debiting, JobsOK, TypeOK
<1>2. {"advance", "drop", "finish"} \cap MayCharge = {}
    BY DEF MayCharge, HasRead
<1>3. CASE sub' = sub /\ (Only("advance") \/ Only("finish"))
    <2>1. /\ runner' \in RunnerRow /\ runner'.pc \in {"advance", "finish"}
          /\ runner'.job = runner.job
        BY <1>1, <1>3, GoesOnAt DEF Places
    <2> QED
        BY <1>1, <1>2, <1>3, <2>1, RestHolds, RunnerMoves DEF JobsOK, MayCharge
<1>4. CASE /\ assertSubscriptionTransition(sub.status, "attention")
           /\ sub' = Moved("attention", runner.seen.next)
           /\ Only(IF runner.seen.next = NoDate THEN "drop" ELSE "advance")
    <2>1. runner.seen.next \in Dates \cup {NoDate} /\ "attention" \in Statuses
        BY <1>1 DEF RunnerRow, SubscriptionRow, Statuses, SubscriptionStatus
    <2>2. sub' \in SubscriptionRow /\ sub'.limit = sub.limit /\ sub'.count = sub.count
        BY <1>1, <1>4, <2>1, Rows
    <2>3. /\ runner' \in RunnerRow /\ runner'.pc \in {"drop", "advance"}
          /\ runner'.job = runner.job
        BY <1>1, <1>4, GoesOnAt DEF Places
    <2>4. late > 0 => sub'.status \in Ended
        BY <1>4, EndIsFinal DEF Inv, LastCharge
    <2> QED
        BY <1>1, <1>2, <2>2, <2>3, <2>4, RestHolds, RowMoves DEF JobsOK, MayCharge
<1> QED
    BY <1>3, <1>4 DEF MoveToAttention

\* The next payment date is written after the renewal.
LEMMA NextDateKeeps ==
    ASSUME Inv, SetNextDate
    PROVE  Inv'
<1>1. /\ TypeOK /\ JobsOK /\ Rest /\ LastCharge /\ UNCHANGED <<invoice, jobs, late>>
      /\ runner.pc = "date" /\ runner.pc \in Debiting /\ At("invoice")
      /\ now \in Time /\ BagToSet(jobs') \subseteq Doable
    BY DEF Inv, SetNextDate, Debiting, JobsOK, TypeOK
<1>2. runner.job.dueAt + Interval \in Dates
    BY <1>1, SubscriptionBounds, IntervalAssumption DEF JobsOK, Doable, Time, Dates
<1>3. /\ sub' \in SubscriptionRow /\ sub'.limit = sub.limit /\ sub'.count = sub.count
      /\ sub'.status = sub.status
    BY <1>1, <1>2 DEF SetNextDate, TypeOK, SubscriptionRow
<1>4. runner' \in RunnerRow /\ runner'.pc = "invoice" /\ runner'.job = runner.job
    BY <1>1, GoesOnAt DEF Places
<1>5. "invoice" \notin MayCharge
    BY DEF MayCharge, HasRead
<1> QED
    BY <1>1, <1>3, <1>4, <1>5, RestHolds, RowMoves DEF JobsOK, LastCharge, MayCharge

\* A subscription that has raised its limit of invoices completes.
LEMMA CompleteKeeps ==
    ASSUME Inv, Complete
    PROVE  Inv'
<1>1. /\ TypeOK /\ JobsOK /\ Rest /\ LastCharge /\ UNCHANGED <<invoice, jobs, late>>
      /\ now \in Time /\ BagToSet(jobs') \subseteq Doable
    BY DEF Inv, Complete, JobsOK, TypeOK
<1>2. At("cancel") \/ Only("finish")
    BY DEF Complete
<1>3. /\ runner' \in RunnerRow /\ runner'.pc \in {"cancel", "finish"}
      /\ runner'.job = runner.job
    BY <1>1, <1>2, GoesOnAt DEF Places
<1>4. sub' = sub \/ sub' = Moved("completed", NoDate)
    BY DEF Complete
<1>5. "completed" \in Statuses /\ "completed" \in Ended
    BY DEF Statuses, SubscriptionStatus, Ended
<1>6. /\ sub' \in SubscriptionRow /\ sub'.limit = sub.limit /\ sub'.count = sub.count
      /\ late > 0 => sub'.status \in Ended
    BY <1>1, <1>4, <1>5, Rows DEF TypeOK, LastCharge
<1>7. {"cancel", "finish"} \cap (MayCharge \cup Debiting) = {}
    BY DEF MayCharge, HasRead, Debiting
<1> QED
    BY <1>1, <1>3, <1>6, <1>7, RestHolds, RowMoves DEF JobsOK, MayCharge

-----------------------------------------------------------------------------
(***************************************************************************)
(* The steps that write the invoices                                       *)
(***************************************************************************)
LEMMA RaiseKeeps ==
    ASSUME Inv, RaiseInvoice
    PROVE  Inv'
<1>1. /\ TypeOK /\ JobsOK /\ ReadHolds /\ Billed /\ LastCharge /\ Rest
      /\ UNCHANGED <<jobs, late>>
      /\ runner.pc = "raise" /\ runner.pc \in MayCharge
    BY DEF Inv, RaiseInvoice, MayCharge, HasRead
<1>2. /\ late = 0 /\ ForPeriod = {} /\ ~ LimitReached(sub)
      /\ runner \in RunnerRow /\ runner.job \in Doable /\ invoice \in Seq(InvoiceRow)
      /\ sub \in SubscriptionRow /\ sub.limit \in Nat /\ sub.count \in Nat
    BY <1>1, Rows DEF LastCharge, ReadHolds, TypeOK, JobsOK
<1>3. invoice' = Append(invoice, NewInvoice) /\ NewInvoice \in InvoiceRow
    BY <1>2 DEF RaiseInvoice, NewInvoice, InvoiceRow, InvoiceStatus, Doable, JobRow
<1>4. /\ invoice' \in Seq(InvoiceRow) /\ Len(invoice') = Len(invoice) + 1
      /\ Len(invoice) \in Nat /\ DOMAIN invoice = 1..Len(invoice)
      /\ DOMAIN invoice' = 1..Len(invoice) + 1
      /\ invoice'[Len(invoice) + 1] = NewInvoice
      /\ \A i \in 1..Len(invoice) : invoice'[i] = invoice[i]
    BY <1>2, <1>3
<1>5. /\ sub' \in SubscriptionRow /\ sub'.limit = sub.limit /\ sub'.count = sub.count + 1
      /\ sub'.status = sub.status
    BY <1>2 DEF RaiseInvoice, SubscriptionRow
<1>6. /\ runner' \in RunnerRow /\ runner'.job = runner.job
      /\ \/ runner'.pc = "pay" /\ runner.job.kind = "charge"
         \/ runner'.pc = "finish"
    <2>1. CASE runner.job.kind = "charge"
        <3> DEFINE n == Len(invoice')
        <3>1. runner' = [runner EXCEPT !.row = n, !.seen = sub', !.pc = "pay"]
            BY <2>1 DEF RaiseInvoice
        <3>2. n \in Nat
            BY <1>4
        <3> HIDE DEF n
        <3> QED
            BY <1>2, <1>5, <2>1, <3>1, <3>2 DEF RunnerRow
    <2>2. CASE runner.job.kind # "charge"
        BY <1>1, <2>2, GoesOnAt DEF RaiseInvoice, Places
    <2> QED
        BY <2>1, <2>2
<1>7. TypeOK'
    BY <1>1, <1>4, <1>5, <1>6, RestHolds DEF TypeOK
<1>8. JobsOK' /\ ReadHolds' /\ LastCharge'
    <2>1. "pay" \notin HasRead /\ "finish" \notin HasRead \cup Debiting
        BY DEF HasRead, Debiting
    <2> QED
        BY <1>1, <1>2, <1>6, <2>1 DEF JobsOK, ReadHolds, LastCharge
<1>9. Billed'
    <2>1. \A i, k \in DOMAIN invoice' : invoice'[i].period = invoice'[k].period => i = k
        <3>1. \A i \in 1..Len(invoice) : invoice[i].period # NewInvoice.period
            BY <1>2, <1>4 DEF ForPeriod, NewInvoice
        <3> QED
            BY <1>1, <1>4, <3>1 DEF Billed
    <2>2. \A i \in DOMAIN invoice' : invoice'[i].charges <= 1
        <3>1. NewInvoice.charges = 0
            BY DEF NewInvoice
        <3> QED
            BY <1>1, <1>4, <3>1 DEF Billed
    <2>3. sub'.count = Len(invoice') /\ (sub'.limit > 0 => Len(invoice') <= sub'.limit)
        BY <1>1, <1>2, <1>4, <1>5 DEF Billed, LimitReached
    <2> QED
        BY <2>1, <2>2, <2>3 DEF Billed
<1> QED
    BY <1>7, <1>8, <1>9 DEF Inv

\* A row of the invoices is written again, with no charge it did not have.
LEMMA Rewritten ==
    ASSUME TypeOK, Billed, NEW i \in DOMAIN invoice, NEW row \in InvoiceRow,
           invoice' = [invoice EXCEPT ![i] = row], row.period = invoice[i].period,
           row.charges <= 1, sub'.count = sub.count, sub'.limit = sub.limit
    PROVE  invoice' \in Seq(InvoiceRow) /\ Billed'
<1>1. /\ invoice \in Seq(InvoiceRow)
      /\ DOMAIN invoice = 1..Len(invoice) /\ Len(invoice) \in Nat
    BY DEF TypeOK
<1>2. /\ invoice' \in Seq(InvoiceRow) /\ Len(invoice') = Len(invoice)
      /\ DOMAIN invoice' = DOMAIN invoice
      /\ \A k \in DOMAIN invoice : invoice'[k] = IF k = i THEN row ELSE invoice[k]
    BY <1>1
<1> QED
    BY <1>2 DEF Billed

\* The renewal's charge: the one step that adds to an invoice's charges.
LEMMA ChargeKeeps ==
    ASSUME Inv, ChargeInvoice
    PROVE  Inv'
<1>1. /\ TypeOK /\ JobsOK /\ Billed /\ LastCharge /\ Rest /\ UNCHANGED <<sub, jobs>>
      /\ runner.pc = "pay" /\ runner.pc \in MayCharge /\ runner.pc \in Debiting
      /\ runner.job.kind = "charge"
    BY DEF Inv, ChargeInvoice, MayCharge, Debiting, JobsOK
<1>2. late = 0 /\ invoice \in Seq(InvoiceRow)
    BY <1>1 DEF LastCharge, TypeOK
<1>3. {"close", "finish"} \cap MayCharge = {} /\ "finish" \notin Debiting
    BY DEF MayCharge, HasRead, Debiting
<1>4. At("close") \/ Only("finish")
    BY DEF ChargeInvoice
<1>5. /\ runner' \in RunnerRow /\ runner'.job = runner.job
      /\ runner'.pc \in {"close", "finish"}
    BY <1>1, <1>4, GoesOnAt DEF Places
<1>6. late' \in Nat /\ (late' > 0 => late' = 1 /\ sub.status \in Ended)
    BY <1>2 DEF ChargeInvoice
<1>7. invoice' \in Seq(InvoiceRow) /\ Billed'
    <2> DEFINE i == runner.row
    <2>1. CASE Unused(i) /\ i \in DOMAIN invoice
        <3> DEFINE row == [invoice[i] EXCEPT !.charges = @ + 1]
        <3>1. invoice' = [invoice EXCEPT ![i] = row]
            BY <2>1 DEF ChargeInvoice
        <3>2. invoice[i] \in InvoiceRow /\ invoice[i].charges = 0
            BY <1>2, <2>1 DEF Unused
        <3>3. row \in InvoiceRow /\ row.period = invoice[i].period /\ row.charges = 1
            BY <3>2 DEF InvoiceRow
        <3>4. row.charges <= 1 /\ sub'.count = sub.count /\ sub'.limit = sub.limit
            BY <1>1, <3>3
        <3> HIDE DEF i, row
        <3> QED
            BY <1>1, <2>1, <3>1, <3>3, <3>4, Rewritten
    <2>2. CASE ~ (Unused(i) /\ i \in DOMAIN invoice)
        <3>1. CASE Unused(i)
            <4>1. invoice' = [invoice EXCEPT ![i].charges = @ + 1] /\ i \notin DOMAIN invoice
                BY <2>2, <3>1 DEF ChargeInvoice
            <4> HIDE DEF i
            <4>2. invoice' = invoice
                BY <1>2, <4>1
            <4> QED
                BY <1>1, <1>2, <4>2 DEF Billed
        <3>2. CASE ~ Unused(i)
            BY <1>1, <1>2, <3>2 DEF ChargeInvoice, Billed
        <3> QED
            BY <3>1, <3>2
    <2> QED
        BY <2>1, <2>2
<1>8. TypeOK' /\ JobsOK' /\ ReadHolds' /\ LastCharge'
    BY <1>1, <1>3, <1>5, <1>6, <1>7, RestHolds DEF TypeOK, JobsOK, ReadHolds, LastCharge, MayCharge
<1> QED
    BY <1>7, <1>8 DEF Inv

\* The invoice is closed as paid, or left open to be retried.
LEMMA CloseKeeps ==
    ASSUME Inv, NEW paid \in BOOLEAN, CloseInvoice(paid)
    PROVE  Inv'
<1> DEFINE i == runner.row
           to == IF paid THEN "success" ELSE "failed"
<1>1. /\ TypeOK /\ JobsOK /\ Billed /\ LastCharge /\ Rest /\ UNCHANGED <<sub, jobs, late>>
      /\ runner.pc = "close" /\ runner.pc \in Debiting /\ runner.job.kind = "charge"
      /\ invoice \in Seq(InvoiceRow)
    BY DEF Inv, CloseInvoice, Debiting, JobsOK, TypeOK
<1>2. {"advance", "attention", "finish"} \cap MayCharge = {} /\ "finish" \notin Debiting
    BY DEF MayCharge, HasRead, Debiting
<1>3. Only("advance") \/ At("attention") \/ Only("finish")
    BY DEF CloseInvoice
<1>4. /\ runner' \in RunnerRow /\ runner'.job = runner.job
      /\ runner'.pc \in {"advance", "attention", "finish"}
    BY <1>1, <1>3, GoesOnAt DEF Places
<1>5. invoice' = invoice \/ invoice' = [invoice EXCEPT ![i].status = to]
    BY DEF CloseInvoice
<1>6. invoice' \in Seq(InvoiceRow) /\ Billed'
    <2>1. CASE i \in DOMAIN invoice /\ invoice' = [invoice EXCEPT ![i].status = to]
        <3> DEFINE row == [invoice[i] EXCEPT !.status = to]
        <3>1. invoice[i] \in InvoiceRow /\ invoice[i].charges <= 1
            BY <1>1, <2>1 DEF Billed
        <3>2. row \in InvoiceRow /\ row.period = invoice[i].period /\ row.charges <= 1
            BY <3>1 DEF InvoiceRow, InvoiceStatus
        <3>3. invoice' = [invoice EXCEPT ![i] = row]
            BY <2>1
        <3> QED
            BY <1>1, <2>1, <3>2, <3>3, Rewritten
    <2>2. CASE invoice' = invoice
        BY <1>1, <2>2 DEF Billed
    <2>3. i \notin DOMAIN invoice => invoice' = invoice
        BY <1>1, <1>5
    <2> QED
        BY <1>5, <2>1, <2>2, <2>3
<1>7. TypeOK' /\ JobsOK' /\ ReadHolds' /\ LastCharge'
    BY <1>1, <1>2, <1>4, <1>6, RestHolds DEF TypeOK, JobsOK, ReadHolds, LastCharge, MayCharge
<1> QED
    BY <1>6, <1>7 DEF Inv

-----------------------------------------------------------------------------
(***************************************************************************)
(* The routes                                                              *)
(***************************************************************************)
LEMMA RequestGoes ==
    ASSUME TypeOK, NEW r \in Requests, NEW pc \in {"idle", "cancel", "invoice", "charge"},
           NEW dueAt \in Dates, Going(r, pc, dueAt)
    PROVE  request' \in [Requests -> RequestRow]
BY DEF TypeOK, Going, RequestRow

\* One that begins is counted.
LEMMA Beginning ==
    ASSUME TypeOK, NEW r \in Requests, Begins(r)
    PROVE  requests' \in 0..MaxRequests
BY SubscriptionBounds DEF TypeOK, Begins

\* A route that moves the row from a status that is not an end
LEMMA RouteMoves ==
    ASSUME Inv, NEW r \in Requests, Begins(r), sub.status \notin Ended,
           NEW s \in Statuses, NEW d \in Dates \cup {NoDate},
           sub' = Moved(s, d), request' \in [Requests -> RequestRow],
           UNCHANGED <<now, invoice, jobs, runner, late, crashes>>
    PROVE  Inv'
<1>1. TypeOK /\ late = 0
    BY DEF Inv, LastCharge, TypeOK
<1>2. requests' \in 0..MaxRequests
    BY <1>1, Beginning
<1>3. sub' \in SubscriptionRow /\ sub'.limit = sub.limit /\ sub'.count = sub.count
    BY <1>1, Rows
<1>4. BagToSet(jobs') \subseteq Doable
    BY DEF Inv, JobsOK
<1> QED
    BY <1>1, <1>2, <1>3, <1>4, RequestMoves

\* The create route, which writes the row and queues its first renewal.
LEMMA CreateKeeps ==
    ASSUME Inv, NEW r \in Requests, NEW first \in Time, NEW trialing \in BOOLEAN,
           CreateSubscription(r, first, trialing)
    PROVE  Inv'
<1> DEFINE s == IF trialing THEN "trialing" ELSE "active"
<1>1. TypeOK /\ first \in Dates /\ sub \in SubscriptionRow
    BY Instants DEF Inv, TypeOK
<1>2. s \in Statuses
    BY DEF Statuses, SubscriptionStatus
<1>3. sub' = Moved(s, first) /\ sub.status \notin Ended
    BY DEF CreateSubscription, Moved, Ended
<1>4. request' \in [Requests -> RequestRow]
    BY <1>1, RequestGoes DEF CreateSubscription
<1> HIDE DEF s
<1> QED
    BY <1>1, <1>2, <1>3, <1>4, RouteMoves DEF CreateSubscription

\* The cancel route: the row ends, whatever its handler had read.
LEMMA StopKeeps ==
    ASSUME Inv, NEW r \in Requests, NEW to \in {"non_renewing", "cancelled"}, Stop(r, to)
    PROVE  Inv'
<1>1. TypeOK /\ 0 \in Dates
    BY SubscriptionBounds, IntervalAssumption DEF Inv, Dates
<1>2. sub.status \notin Ended
    BY EndIsFinal DEF Stop
<1>3. request' \in [Requests -> RequestRow]
    BY <1>1, RequestGoes DEF Stop
<1>4. to \in Statuses
    BY DEF Statuses, SubscriptionStatus
<1> QED
    BY <1>1, <1>2, <1>3, <1>4, RouteMoves DEF Stop

\* Cancellation at the period's end only marks the row.
LEMMA CancelAtEndKeeps ==
    ASSUME Inv, NEW r \in Requests, CancelAtPeriodEnd(r)
    PROVE  Inv'
<1>1. TypeOK /\ request' \in [Requests -> RequestRow]
    BY DEF Inv, TypeOK, CancelAtPeriodEnd
<1>2. sub.next \in Dates \cup {NoDate} /\ sub.status \notin Ended /\ "non_renewing" \in Statuses
    BY <1>1, Rows DEF CancelAtPeriodEnd, Ended, Statuses, SubscriptionStatus
<1> QED
    BY <1>1, <1>2, RouteMoves DEF CancelAtPeriodEnd

\* The enable route, which may take the row out of non-renewing.
LEMMA EnableKeeps ==
    ASSUME Inv, NEW r \in Requests, Enable(r)
    PROVE  Inv'
<1>1. TypeOK /\ Clock \in Dates
    BY Instants DEF Inv
<1>2. sub.status \notin Ended /\ "active" \in Statuses
    BY EndIsFinal DEF Enable, Statuses, SubscriptionStatus
<1>3. request' \in [Requests -> RequestRow]
    BY <1>1, RequestGoes DEF Enable
<1> QED
    BY <1>1, <1>2, <1>3, RouteMoves DEF Enable

\* The resume route, which anchors the period anew.
LEMMA ResumeKeeps ==
    ASSUME Inv, NEW r \in Requests, Resume(r)
    PROVE  Inv'
<1> DEFINE next == IF sub.next = NoDate THEN Clock ELSE sub.next
<1>1. TypeOK /\ next \in Dates
    BY Instants, Rows DEF Inv
<1>2. /\ sub.status \notin Ended /\ "active" \in Statuses
      /\ sub' = Moved("active", next) /\ Going(r, "invoice", next)
    BY DEF Resume, Ended, Statuses, SubscriptionStatus
<1> HIDE DEF next
<1>3. request' \in [Requests -> RequestRow]
    BY <1>1, <1>2, RequestGoes
<1> QED
    BY <1>1, <1>2, <1>3, RouteMoves DEF Resume

\* A trial's end is moved, and the renewal with it.
LEMMA MoveTrialKeeps ==
    ASSUME Inv, NEW r \in Requests, NEW trialEnd \in Time, MoveTrial(r, trialEnd)
    PROVE  Inv'
<1>1. TypeOK /\ trialEnd \in Dates /\ sub \in SubscriptionRow
    BY Instants DEF Inv, TypeOK
<1>2. sub' = Moved("trialing", trialEnd) /\ sub.status \notin Ended /\ "trialing" \in Statuses
    BY <1>1 DEF MoveTrial, Moved, Ended, Statuses, SubscriptionStatus, SubscriptionRow
<1>3. request' \in [Requests -> RequestRow]
    BY <1>1, RequestGoes DEF MoveTrial
<1> QED
    BY <1>1, <1>2, <1>3, RouteMoves DEF MoveTrial

\* Voiding an invoice: what is charged stays charged.
LEMMA VoidKeeps ==
    ASSUME Inv, NEW r \in Requests, NEW i \in DOMAIN invoice, VoidInvoice(r, i)
    PROVE  Inv'
<1> DEFINE row == [invoice[i] EXCEPT !.status = "void"]
<1>1. /\ TypeOK /\ JobsOK /\ ReadHolds /\ Billed /\ LastCharge
      /\ UNCHANGED <<now, sub, jobs, runner, request, late, crashes>>
      /\ requests' \in 0..MaxRequests
    BY Beginning DEF Inv, VoidInvoice
<1>2. invoice[i] \in InvoiceRow /\ invoice[i].charges <= 1
    BY <1>1 DEF TypeOK, Billed
<1>3. row \in InvoiceRow /\ row.period = invoice[i].period /\ row.charges <= 1
    BY <1>2 DEF InvoiceRow, InvoiceStatus
<1>4. invoice' = [invoice EXCEPT ![i] = row]
    BY DEF VoidInvoice
<1> HIDE DEF row
<1>5. invoice' \in Seq(InvoiceRow) /\ Billed'
    BY <1>1, <1>3, <1>4, Rewritten
<1>6. /\ DOMAIN invoice' = DOMAIN invoice
      /\ \A k \in DOMAIN invoice : invoice'[k].period = invoice[k].period
    BY <1>1, <1>3, <1>4 DEF TypeOK
<1>7. TypeOK' /\ JobsOK' /\ LastCharge'
    BY <1>1, <1>5 DEF TypeOK, JobsOK, LastCharge
<1>8. ReadHolds'
    BY <1>1, <1>6 DEF ReadHolds, ForPeriod, LimitReached
<1> QED
    BY <1>5, <1>7, <1>8 DEF Inv

\* A request's later statements, each in a transaction of its own.
LEMMA GoOnKeeps ==
    ASSUME Inv, NEW r \in Requests, GoOn(r)
    PROVE  Inv'
<1>1. /\ TypeOK /\ JobsOK /\ UNCHANGED <<now, sub, invoice, late, requests, crashes>>
      /\ sub' \in SubscriptionRow /\ requests' \in 0..MaxRequests
      /\ late > 0 => sub'.status \in Ended
      /\ request[r].dueAt \in Dates /\ 0 \in Dates
    BY SubscriptionBounds, IntervalAssumption
       DEF Inv, GoOn, CancelGroup, StartInvoice, StartCharge, TypeOK, LastCharge,
           RequestRow, Dates
<1>2. BagToSet(jobs') \subseteq Doable
    BY <1>1, CycleQueues, Queues DEF GoOn, CancelGroup, StartInvoice, StartCharge, JobsOK
<1>3. \/ Going(r, "idle", 0)
      \/ Going(r, "charge", request[r].dueAt)
    BY DEF GoOn, CancelGroup, StartInvoice, StartCharge
<1>4. request' \in [Requests -> RequestRow]
    BY <1>1, <1>3, RequestGoes
<1>5. runner' \in {runner, [runner EXCEPT !.held = FALSE]}
    BY DEF GoOn, CancelGroup, StartInvoice, StartCharge
<1> QED
    BY <1>1, <1>2, <1>4, <1>5, RequestMoves

-----------------------------------------------------------------------------
(***************************************************************************)
(* Time and the process                                                    *)
(***************************************************************************)
LEMMA ElapseKeeps ==
    ASSUME Inv, Elapse
    PROVE  Inv'
<1>1. now' \in Time
    BY SubscriptionBounds DEF Inv, TypeOK, Elapse, Time
<1>2. /\ TypeOK /\ JobsOK /\ ReadHolds /\ Billed /\ LastCharge
      /\ UNCHANGED <<sub, invoice, jobs, runner, request, late, requests, crashes>>
    BY DEF Inv, Elapse
<1> QED
    BY <1>1, <1>2 DEF Inv, TypeOK, JobsOK, ReadHolds, ForPeriod, LimitReached, Billed,
                      LastCharge

\* A death: handlers and requests are lost, the rows and the jobs stay.
LEMMA CrashKeeps ==
    ASSUME Inv, Crash
    PROVE  Inv'
<1>1. TypeOK /\ JobsOK /\ UNCHANGED <<now, sub, invoice, late, requests>> /\ runner' = Resting
    BY DEF Inv, Crash
<1>2. crashes' \in 0..MaxCrashes /\ requests' \in 0..MaxRequests
    BY <1>1, SubscriptionBounds DEF Crash, TypeOK
<1>3. request' \in [Requests -> RequestRow]
    <2>1. Answered \in RequestRow
        BY SubscriptionBounds, IntervalAssumption DEF Answered, RequestRow, Dates
    <2> QED
        BY <2>1 DEF Crash
<1>4. BagToSet(jobs') \subseteq Doable
    BY <1>1, Queues DEF Crash, JobsOK
<1>5. "idle" \notin Debiting \cup MayCharge
    BY DEF Debiting, MayCharge, HasRead
<1> QED
    BY <1>1, <1>2, <1>3, <1>4, <1>5, Rows, RunnerMoves DEF MayCharge

-----------------------------------------------------------------------------
\* Initially nothing is raised, queued or read.
LEMMA InvInit == Init => Inv
<1> SUFFICES ASSUME Init PROVE Inv
    OBVIOUS
<1>1. /\ now = 0 /\ runner = Resting /\ invoice = <<>> /\ jobs = EmptyBag
      /\ request = [r \in Requests |-> Answered] /\ late = 0 /\ requests = 0 /\ crashes = 0
    BY DEF Init
<1>2. PICK limit \in Limits : sub = NoSubscription(limit)
    BY DEF Init
<1>3. 0 \in Time /\ 0 \in Dates /\ limit \in Nat
    BY SubscriptionBounds, IntervalAssumption, LimitsAssumption DEF Time, Dates
<1>4. sub \in SubscriptionRow /\ sub.limit = limit /\ sub.count = 0
    BY <1>2 DEF NoSubscription, SubscriptionRow
<1>5. /\ runner \in RunnerRow /\ runner.job \in Doable /\ runner.pc = "idle"
    BY <1>1, <1>2, <1>3, <1>4
       DEF Resting, RunnerRow, Doable, JobRow, NoSubscription, SubscriptionRow
<1>6. request \in [Requests -> RequestRow]
    BY <1>1, <1>3 DEF Answered, RequestRow
<1>7. BagToSet(jobs) = {}
    BY <1>1 DEF BagToSet, EmptyBag, SetToBag
<1>8. TypeOK
    BY <1>1, <1>3, <1>4, <1>5, <1>6, <1>7, SubscriptionBounds DEF TypeOK
<1>9. JobsOK /\ ReadHolds /\ LastCharge
    BY <1>1, <1>5, <1>7 DEF JobsOK, ReadHolds, LastCharge, Debiting, HasRead
<1>10. Billed
    BY <1>1, <1>3, <1>4 DEF Billed
<1> QED
    BY <1>8, <1>9, <1>10 DEF Inv

\* Every step keeps the invariant,
LEMMA InvNext == Inv /\ [Next]_vars => Inv'
<1> SUFFICES ASSUME Inv, [Next]_vars PROVE Inv'
    OBVIOUS
<1>1. CASE RunJob
    BY <1>1, StartKeeps, ReadKeeps, ConvertKeeps, FindKeeps, RaiseKeeps, ChargeKeeps,
       CloseKeeps, AttentionKeeps, AdvanceKeeps, NextDateKeeps, EnqueueKeeps,
       CompleteKeeps, CancelOwnKeeps, FinishKeeps DEF RunJob
<1>2. CASE Elapse \/ Crash
    BY <1>2, ElapseKeeps, CrashKeeps
<1>3. ASSUME NEW r \in Requests,
             \/ \E first \in Time, trialing \in BOOLEAN :
                   CreateSubscription(r, first, trialing)
             \/ \E to \in {"non_renewing", "cancelled"} : Stop(r, to)
             \/ CancelAtPeriodEnd(r)
             \/ Enable(r)
             \/ Resume(r)
             \/ \E trialEnd \in Time : MoveTrial(r, trialEnd)
             \/ \E i \in DOMAIN invoice : VoidInvoice(r, i)
             \/ GoOn(r)
      PROVE  Inv'
    BY <1>3, CreateKeeps, StopKeeps, CancelAtEndKeeps, EnableKeeps, ResumeKeeps,
       MoveTrialKeeps, VoidKeeps, GoOnKeeps
<1>4. CASE UNCHANGED vars
    BY <1>4 DEF vars, Inv, TypeOK, JobsOK, ReadHolds, ForPeriod, LimitReached, Billed,
                LastCharge
<1> QED
    BY <1>1, <1>2, <1>3, <1>4 DEF Next

\* ... and so the invariant holds throughout.
LEMMA Invariance == Spec => []Inv
BY InvInit, InvNext, PTL DEF Spec

(***************************************************************************)
(* Whatever requests, stale jobs and deaths come between the steps of a    *)
(* renewal, a period has one invoice, charged once at most, a limited      *)
(* subscription raises no more of them than its limit, and one that has    *)
(* ended is charged once more at most (subscriptions.ts handleInvoiceJob   *)
(* and handleChargeJob, engine.ts createInvoice).                          *)
(***************************************************************************)
THEOREM BilledOnce == Spec => []BilledAsAgreed
<1>1. Inv => BilledAsAgreed
    BY DEF Inv, Billed, LastCharge, TypeOK, BilledAsAgreed
<1> QED
    BY <1>1, Invariance, PTL
=============================================================================
