------------------------------ MODULE Treasury ------------------------------
(***************************************************************************)
(* The Bachs treasury: what collections, refunds and disputes owe the      *)
(* ledger.  Rows change outside the treasury lock; a sweep, under the      *)
(* lock, works out from the rows every movement no earlier sweep wrote and *)
(* writes them one transaction at a time.  A crash ends the sweep, the     *)
(* requests and the undelivered events; rows and ledger stay.              *)
(*                                                                         *)
(* Left out: naira (a second held currency), connected accounts beyond     *)
(* one, deadlines, evidence, and the accounts' capabilities.               *)
(***************************************************************************)
EXTENDS Integers, Sequences, Bags, FiniteSets

LOCAL INSTANCE FiniteSetsExt
LOCAL INSTANCE SequencesExt

CONSTANTS
    Sales,       \* payments: <<[amount, fee, cut, currency, mode, collector]>>
    RefundOf,    \* the payment each refund row is of
    DisputeOf,   \* the payment each dispute row is of
    Handlers,    \* bound: callers at one time, 1..n
    Asked,       \* amounts refunds and disputes are asked for
    Platform, Account,
    Rate,        \* <<n, d>>: n cents for d minor units of a foreign currency
    Opening,     \* the platform's opening float in dollars
    WarningFee, DisputeFee,
    Tools,       \* whether paybox's own tools act on the rows too
    MaxCrashes   \* bound

Payments == DOMAIN Sales
Refunds  == DOMAIN RefundOf
Disputes == DOMAIN DisputeOf
Pots     == {Platform, Account}

ASSUME SalesAssumption ==
    \A p \in Payments :
        /\ Sales[p] \in [amount : Nat \ {0}, fee : Nat, cut : Nat,
                         currency : {"USD", "EUR"},
                         mode : {"platform", "direct", "forwarded"},
                         collector : {"platform", "account"}]
        /\ Sales[p].cut < Sales[p].amount
        /\ Sales[p].mode = "platform" => Sales[p].cut = 0
ASSUME RowsAssumption ==
    /\ \A r \in Refunds : RefundOf[r] \in Payments
    /\ \A d \in Disputes : DisputeOf[d] \in Payments

VARIABLES
    collected,   \* payments whose status is a collected one
    refund,      \* refund rows
    dispute,     \* dispute rows with their Bachs record
    ledger,      \* the entries the treasury wrote, a bag
    task,        \* what each handler does under the treasury lock
    route,       \* where the request that makes a refund is
    settles,     \* refunds with a job that will settle them
    event,       \* refund events being delivered, in memory
    losing,      \* disputes past the check of a loss, before its write
    escalating,  \* the amount an escalation has yet to write, or 0
    clean,       \* history: a sweep ended and no row has changed since it began
    off,         \* history: fees a crash cut short, holds an escalation overtook
    crashes

rows == <<collected, refund, dispute>>
vars == <<rows, ledger, task, route, settles, event, losing, escalating,
          clean, off, crashes>>

Open == {"needs_response", "under_review"}
Amounts == Asked
NoRequest == [pc |-> "idle", amount |-> 0]
Idle == [stage |-> "idle", todo |-> <<>>, of |-> 0, seen |-> FALSE]

TypeOK ==
    /\ collected \subseteq Payments
    /\ refund \in [Refunds -> [status : {"none", "pending", "successful", "failed"},
                               amount : Amounts \cup {0}]]
    /\ dispute \in [Disputes ->
          [status : Open \cup {"none", "won", "lost", "closed", "prevented",
                               "resolved-won", "resolved-lost"},
           amount : Amounts \cup {0},
           record : {"none", "plain", "warning", "escalated"}]]
    /\ IsABag(ledger)
    /\ \A h \in Handlers : task[h].stage \in
          {"idle", "release", "fees", "disputes", "holds", "pots", "body", "hold"}
    /\ route \in [Refunds -> [pc : {"idle", "checked", "held"},
                             amount : Amounts \cup {0}]]
    /\ settles \subseteq Refunds
    /\ event \in [Refunds -> {"none", "money", "prevent"}]
    /\ losing \subseteq Disputes
    /\ escalating \in [Disputes -> Amounts \cup {0}]
    /\ clean \in BOOLEAN
    /\ off \in [fees : SUBSET Payments, holds : SUBSET Disputes]
    /\ crashes \in 0..MaxCrashes

Init ==
    /\ collected = {}
    /\ refund = [r \in Refunds |-> [status |-> "none", amount |-> 0]]
    /\ dispute = [d \in Disputes |->
                    [status |-> "none", amount |-> 0, record |-> "none"]]
    /\ ledger = EmptyBag
    /\ task = [h \in Handlers |-> Idle]
    /\ route = [r \in Refunds |-> NoRequest]
    /\ settles = {}
    /\ event = [r \in Refunds |-> "none"]
    /\ losing = {}
    /\ escalating = [d \in Disputes |-> 0]
    /\ clean = TRUE
    /\ off = [fees |-> {}, holds |-> {}]
    /\ crashes = 0

-----------------------------------------------------------------------------
(* Money *)

\* convertMinor to dollars: half up on the magnitude.
Convert(n, currency) ==
    IF currency = "USD" THEN n
    ELSE LET size == IF n < 0 THEN -n ELSE n
             conv == (2 * size * Rate[1] + Rate[2]) \div (2 * Rate[2])
         IN  IF n < 0 THEN -conv ELSE conv

\* The pot a payment's money is in.
paymentPot(p) == IF Sales[p].mode = "direct" THEN Account ELSE Platform

Total(S, f(_)) == FoldSet(LAMBDA x, sum : f(x) + sum, 0, S)

\* What the engine's own entries leave in a pot: a split sale's cut with the
\* platform and the rest with the account, and refunds out of paymentPot.
Earned(pot, currency) ==
    LET Share(p) == CASE Sales[p].mode = "platform" ->
                             IF pot = Platform THEN Sales[p].amount ELSE 0
                      [] OTHER -> IF pot = Platform THEN Sales[p].cut
                                  ELSE Sales[p].amount - Sales[p].cut
        Back(r) == IF refund[r].status = "successful"
                      /\ paymentPot(RefundOf[r]) = pot THEN refund[r].amount ELSE 0
    IN  Total({p \in collected : Sales[p].currency = currency}, Share)
          - Total({r \in Refunds : Sales[RefundOf[r]].currency = currency}, Back)

Entries(reason) == {e \in BagToSet(ledger) : e.reason = reason}

\* ledger.net: credits less debits, all reasons.
net(currency, pot) ==
    LET Signed(e) == e.amount * CopiesIn(e, ledger)
    IN  Earned(pot, currency)
          + Total({e \in BagToSet(ledger) : e.pot = pot /\ e.currency = currency},
                  Signed)

\* getBalance: the platform alone has the opening float.
Balance(pot) == net("USD", pot) + IF pot = Platform THEN Opening ELSE 0

\* Foreign out and dollars in, over every sweep of a pot.
swept(pot) ==
    LET Foreign(e) == -e.amount * CopiesIn(e, ledger)
        Dollars(e) == e.amount * CopiesIn(e, ledger)
        mine == {e \in Entries("settlement") : e.pot = pot}
    IN  [foreign |-> Total({e \in mine : e.currency = "EUR"}, Foreign),
         usd     |-> Total({e \in mine : e.currency = "USD"}, Dollars)]

Entry(reason, of, pot, currency, amount) ==
    [reason |-> reason, of |-> of, pot |-> pot, currency |-> currency,
     amount |-> amount]

Has(reason, of) == \E e \in Entries(reason) : e.of = of

-----------------------------------------------------------------------------
(* What is owed: worked out from the rows *)

\* Whose balance pays a collection's fee.
feePayers(p) ==
    LET s == Sales[p]
        cut == IF s.cut < s.fee THEN s.cut ELSE s.fee
        besides == Balance(Platform) - IF s.currency = "USD" THEN cut ELSE 0
        pot == paymentPot(p)
    IN  CASE s.mode = "forwarded" /\ \/ cut >= s.fee
                                     \/ besides >= Convert(s.fee - cut, s.currency) ->
                 <<[pot |-> Platform, fee |-> s.fee]>>
          [] s.mode = "forwarded" ->
                 (IF cut > 0 THEN <<[pot |-> Platform, fee |-> cut]>> ELSE <<>>)
                   \o <<[pot |-> Account, fee |-> s.fee - cut]>>
          [] s.mode = "direct" /\ s.collector = "platform"
                 /\ Balance(Platform) >= Convert(s.fee, s.currency) ->
                 <<[pot |-> Platform, fee |-> s.fee]>>
          [] OTHER -> <<[pot |-> pot, fee |-> s.fee]>>

feesOwed ==
    FlattenSeq([p \in Payments |->
        IF p \notin collected \/ Has("processing_fee", p) \/ Sales[p].fee = 0
        THEN <<>>
        ELSE LET parts == feePayers(p)
             IN  [i \in DOMAIN parts |->
                    Entry("processing_fee", p, parts[i].pot, Sales[p].currency,
                          -parts[i].fee)]])

WarningOnly(d) == dispute[d].record = "warning"
IsOpen(d)  == dispute[d].status \in Open
Exists(d)  == dispute[d].status # "none"
Keeps(d)   == IsOpen(d) \/ dispute[d].status = "lost"
AmountHeld(d) == -(CHOOSE e \in Entries("dispute_hold") : e.of = d).amount

\* The first dispute of a payment whose record is a warning pays its fee.
PaysWarning(d) ==
    /\ dispute[d].record \in {"warning", "escalated"}
    /\ ~Has("dispute_warning_fee", DisputeOf[d])
    /\ \A c \in 1..(d-1) : DisputeOf[c] = DisputeOf[d] =>
          dispute[c].record \notin {"warning", "escalated"}

disputeMovements ==
    FlattenSeq([d \in Disputes |->
        IF ~Exists(d) THEN <<>> ELSE
        LET pot == paymentPot(DisputeOf[d])
            Owe(reason, of, amount) == <<Entry(reason, of, pot, "USD", amount)>>
        IN  (IF PaysWarning(d)
             THEN Owe("dispute_warning_fee", DisputeOf[d], -WarningFee) ELSE <<>>)
         \o (IF ~WarningOnly(d) /\ ~Has("dispute_fee", d)
             THEN Owe("dispute_fee", d, -DisputeFee) ELSE <<>>)
         \o (CASE WarningOnly(d) -> <<>>
               [] ~Has("dispute_hold", d) /\ Keeps(d) ->
                    Owe("dispute_hold", d,
                        -Convert(dispute[d].amount, Sales[DisputeOf[d]].currency))
               [] Has("dispute_hold", d) /\ ~Keeps(d)
                     /\ ~Has("dispute_hold_release", d) ->
                    Owe("dispute_hold_release", d, AmountHeld(d))
               [] OTHER -> <<>>)])

Finished(r) == refund[r].status \in {"successful", "failed"}
Unreleased(r) == Has("refund_hold", r) /\ ~Has("refund_hold_release", r)
HoldOf(r) == CHOOSE e \in Entries("refund_hold") : e.of = r
Release(r) == [HoldOf(r) EXCEPT !.reason = "refund_hold_release", !.amount = -@]

\* Mutant: a hold comes back only when its refund succeeded.
finishedSuccessful ==
    SetToSortSeq({r \in Refunds : Unreleased(r) /\ refund[r].status = "successful"}, <)

finishedHolds == SetToSortSeq({r \in Refunds : Unreleased(r) /\ Finished(r)}, <)

\* available: the balance, and what a sweep would do to it.
available(pot) ==
    LET owed(S, currency) ==
            FoldSeq(LAMBDA e, sum : sum + IF e.pot = pot /\ e.currency = currency
                                          THEN e.amount ELSE 0, 0, S)
        pending == owed(feesOwed, "EUR")
        foreign == net("EUR", pot) + pending
        freed == Total({r \in Range(finishedHolds) : HoldOf(r).pot = pot},
                       LAMBDA r : Release(r).amount)
    IN  Balance(pot) + owed(feesOwed, "USD") + owed(disputeMovements, "USD") + freed
          + IF foreign = 0 THEN 0
            ELSE Convert(swept(pot).foreign + foreign, "EUR") - swept(pot).usd

-----------------------------------------------------------------------------
(* The sweep *)

\* Mutant: nothing waits for the lock.
LockUnheld == TRUE

LockFree == \A h \in Handlers : task[h].stage = "idle"

Stage(h, stage, todo) ==
    task' = [task EXCEPT ![h] = [@ EXCEPT !.stage = stage, !.todo = todo]]

Write(e) == ledger' = ledger (+) SetToBag({e})

\* The refund request of r ends with an error, when there is one.
Refused(r) ==
    IF r = 0 THEN UNCHANGED route ELSE route' = [route EXCEPT ![r] = NoRequest]

\* withLock(TREASURY_LOCK): one holder at a time.  A sweep begins with fees;
\* the handler of a refund's event releases that refund's hold first; the
\* refund route runs its body after its sweep.  A caller takes the first free
\* handler.
Begin(h, stage, todo, of) ==
    /\ LockFree
    /\ \A g \in 1..h : (task[g].stage = "idle") <=> (g = h)
    /\ task' = [task EXCEPT ![h] =
                  [stage |-> stage, todo |-> todo, of |-> of, seen |-> TRUE]]

sweep(h) ==
    /\ Begin(h, "fees", feesOwed, 0)
    /\ UNCHANGED <<rows, ledger, route, settles, event, losing, escalating,
                   clean, off, crashes>>

\* onMoneyMoved for a refund's event.
onMoneyMoved(h, r) ==
    /\ event[r] = "money"
    /\ Begin(h, "release", <<r>>, 0)
    /\ event' = [event EXCEPT ![r] =
                   IF refund[r].status = "successful" THEN "prevent" ELSE "none"]
    /\ UNCHANGED <<rows, ledger, route, settles, losing, escalating, clean, off, crashes>>

End(h) == task' = [task EXCEPT ![h] = Idle]

\* One movement of the list the stage began with.  The engine refuses an
\* amount of zero, which ends the sweep.
WriteNext(h, stage) ==
    LET next == Head(task[h].todo)
    IN  /\ task[h].stage = stage
        /\ task[h].todo # <<>>
        /\ \/ /\ next.amount # 0
              /\ Write(next)
              /\ Stage(h, stage, Tail(task[h].todo))
              /\ UNCHANGED route
           \/ /\ next.amount = 0
              /\ End(h)
              /\ Refused(task[h].of)
              /\ UNCHANGED ledger
        /\ UNCHANGED <<rows, settles, event, losing, escalating, clean, off, crashes>>

chargeFees(h) == WriteNext(h, "fees")
settleDisputes(h) == WriteNext(h, "disputes")

\* releaseRefundHold reads the ledger again before it writes.
releaseRefundHold(h) ==
    LET r == Head(task[h].todo)
    IN  /\ task[h].stage \in {"release", "holds"}
        /\ task[h].todo # <<>>
        /\ IF Unreleased(r) THEN Write(Release(r)) ELSE UNCHANGED ledger
        /\ Stage(h, task[h].stage, Tail(task[h].todo))
        /\ UNCHANGED <<rows, route, settles, event, losing, escalating, clean, off,
                       crashes>>

\* sweepPot: what the foreign currency has netted is read, and what that is
\* worth on the running total is exchanged.
Delta(pot, moves) == Convert(swept(pot).foreign + moves, "EUR") - swept(pot).usd

sweepPot(h) ==
    LET pot == Head(task[h].todo)[1]
        moves == Head(task[h].todo)[2]
        delta == Delta(pot, moves)
    IN  /\ task[h].stage = "pots"
        /\ task[h].todo # <<>>
        /\ IF moves = 0 \/ delta = 0 \/ (delta > 0) # (moves > 0)
           THEN UNCHANGED ledger
           ELSE ledger' = ledger
                  (+) SetToBag({Entry("settlement", 0, pot, "EUR", -moves)})
                  (+) SetToBag({Entry("settlement", 0, pot, "USD", delta)})
        /\ Stage(h, "pots",
                 LET rest == Tail(task[h].todo)
                 IN  IF rest = <<>> THEN <<>>
                     ELSE [rest EXCEPT ![1][2] = net("EUR", rest[1][1])])
        /\ UNCHANGED <<rows, route, settles, event, losing, escalating, clean, off,
                       crashes>>

\* The next stage reads its own list when it begins.
NextStage(h) ==
    /\ task[h].todo = <<>>
    /\ CASE task[h].stage = "release" -> Stage(h, "fees", feesOwed)
         [] task[h].stage = "fees" -> Stage(h, "disputes", disputeMovements)
         [] task[h].stage = "disputes" -> Stage(h, "holds", finishedHolds)
         [] task[h].stage = "holds" ->
              Stage(h, "pots", <<<<Platform, net("EUR", Platform)>>, <<Account, 0>>>>)
         [] task[h].stage = "pots" /\ task[h].of # 0 -> Stage(h, "body", <<>>)
         [] OTHER -> FALSE
    /\ UNCHANGED <<rows, ledger, route, settles, event, losing, escalating, clean,
                   off, crashes>>

EndSweep(h) ==
    /\ task[h].stage = "pots"
    /\ task[h].todo = <<>>
    /\ task[h].of = 0
    /\ End(h)
    /\ clean' = (clean \/ task[h].seen)
    /\ UNCHANGED <<rows, ledger, route, settles, event, losing, escalating, off, crashes>>

-----------------------------------------------------------------------------
(* What changes the rows *)

\* The rows have changed since every sweep now running began.
Changed ==
    /\ clean' = FALSE
    /\ task' = [h \in Handlers |-> [task[h] EXCEPT !.seen = FALSE]]

Of(p) == {r \in Refunds : RefundOf[r] = p}
AmountOf(r) == refund[r].amount
amountRefunded(p) == Total({r \in Of(p) : refund[r].status = "successful"}, AmountOf)
live(p) == {r \in Of(p) : refund[r].status \in {"pending", "successful"}}
lostOn(p) == Total({d \in Disputes : DisputeOf[d] = p /\ dispute[d].status = "lost"},
                   LAMBDA d : dispute[d].amount)

\* The charge lock is a refund request's or an escalation's; the dispute lock
\* a loss's or an escalation's.
ChargeFree(p) ==
    /\ \A r \in Of(p) : route[r].pc = "idle"
    /\ \A d \in Disputes : DisputeOf[d] = p => escalating[d] = 0
DisputeFree(d) == d \notin losing /\ escalating[d] = 0

\* A collection settles.
Collect(p) ==
    /\ p \notin collected
    /\ collected' = collected \cup {p}
    /\ Changed
    /\ UNCHANGED <<refund, dispute, ledger, route, settles, event, losing,
                   escalating, off, crashes>>

\* assertRefundable: the engine counts refunds only.
MayRefund(p, amount) ==
    p \in collected /\ amount + Total(live(p), AmountOf) <= Sales[p].amount

\* POST /v1/refunds under the charge lock, up to its wait for the treasury.
CheckRefund(r, amount) ==
    LET p == RefundOf[r]
    IN  /\ route[r].pc = "idle" /\ refund[r].status = "none"
        /\ ChargeFree(p)
        /\ p \in collected
        /\ live(p) = {}
        /\ amount <= Sales[p].amount - amountRefunded(p) - lostOn(p)
        /\ route' = [route EXCEPT ![r] = [pc |-> "checked", amount |-> amount]]
        /\ UNCHANGED <<rows, ledger, task, settles, event, losing, escalating,
                       clean, off, crashes>>

\* exclusive: a sweep, then the body under the same lock.
Exclusive(h, r) ==
    /\ route[r].pc = "checked"
    /\ Begin(h, "fees", feesOwed, r)
    /\ UNCHANGED <<rows, ledger, route, settles, event, losing, escalating, clean,
                   off, crashes>>

\* Its body: the check of the balance and the engine's refund, which commits.
CreateRefund(h) ==
    LET r == task[h].of
        p == RefundOf[r]
    IN  /\ task[h].stage = "body"
        /\ IF /\ available(paymentPot(p)) >= Convert(route[r].amount, Sales[p].currency)
              /\ MayRefund(p, route[r].amount)
           THEN /\ refund' = [refund EXCEPT ![r] =
                                [status |-> "pending", amount |-> route[r].amount]]
                /\ Stage(h, "hold", <<>>)
                /\ UNCHANGED route
           ELSE End(h) /\ Refused(r) /\ UNCHANGED refund
        /\ UNCHANGED <<collected, dispute, ledger, settles, event, losing,
                       escalating, clean, off, crashes>>

\* holdForRefund: a transaction of its own, refused for nothing.
holdForRefund(h) ==
    LET r == task[h].of
        p == RefundOf[r]
        held == Convert(refund[r].amount, Sales[p].currency)
    IN  /\ task[h].stage = "hold"
        /\ IF held = 0 THEN Refused(r) /\ UNCHANGED ledger
           ELSE /\ Write(Entry("refund_hold", r, paymentPot(p), "USD", -held))
                /\ route' = [route EXCEPT ![r].pc = "held"]
        /\ End(h)
        /\ UNCHANGED <<rows, settles, event, losing, escalating, clean, off, crashes>>

\* The end of the request: its settlement is queued.
QueueSettlement(r) ==
    /\ route[r].pc = "held"
    /\ route' = [route EXCEPT ![r] = NoRequest]
    /\ settles' = settles \cup {r}
    /\ UNCHANGED <<rows, ledger, task, event, losing, escalating, clean, off, crashes>>

\* A refund of paybox's own tools: no hold, no lock.
ToolRefund(r, amount) ==
    /\ Tools
    /\ refund[r].status = "none" /\ route[r].pc = "idle"
    /\ MayRefund(RefundOf[r], amount)
    /\ refund' = [refund EXCEPT ![r] = [status |-> "pending", amount |-> amount]]
    /\ settles' = settles \cup {r}
    /\ UNCHANGED <<collected, dispute, ledger, task, route, event, losing,
                   escalating, clean, off, crashes>>

\* transitionRefund, and its event published.
EndRefund(r, outcome) ==
    /\ r \in settles
    /\ settles' = settles \ {r}
    /\ refund' = [refund EXCEPT ![r].status = outcome]
    /\ event' = [event EXCEPT ![r] = "money"]
    /\ Changed
    /\ UNCHANGED <<collected, dispute, ledger, route, losing, escalating, off, crashes>>

\* open: a chargeback or a warning; one open dispute a charge.
OpenDispute(d, amount, warning) ==
    LET p == DisputeOf[d]
    IN  /\ ~Exists(d)
        /\ \A c \in 1..(d-1) : DisputeOf[c] = p => Exists(c) /\ ~IsOpen(c)
        /\ ChargeFree(p)
        /\ p \in collected
        /\ amount <= Sales[p].amount - amountRefunded(p) - lostOn(p)
        /\ dispute' = [dispute EXCEPT ![d] =
             [status |-> "needs_response", amount |-> amount,
              record |-> IF warning THEN "warning" ELSE "plain"]]
        /\ Changed
        /\ UNCHANGED <<collected, refund, ledger, route, settles, event, losing,
                       escalating, off, crashes>>

\* A dispute paybox's own tools open: no record, no lock.
ToolDispute(d, amount) ==
    /\ Tools
    /\ ~Exists(d)
    /\ \A c \in 1..(d-1) : DisputeOf[c] = DisputeOf[d] => Exists(c)
    /\ DisputeOf[d] \in collected /\ amount <= Sales[DisputeOf[d]].amount
    /\ dispute' = [dispute EXCEPT ![d] =
         [status |-> "needs_response", amount |-> amount, record |-> "none"]]
    /\ Changed
    /\ UNCHANGED <<collected, refund, ledger, route, settles, event, losing,
                   escalating, off, crashes>>

\* escalate: the record is put first, the dispute's row updated after.
Escalate(d, amount) ==
    LET p == DisputeOf[d]
    IN  /\ IsOpen(d) /\ WarningOnly(d)
        /\ ChargeFree(p) /\ DisputeFree(d)
        /\ amount <= Sales[p].amount - amountRefunded(p) - lostOn(p)
        /\ dispute' = [dispute EXCEPT ![d].record = "escalated"]
        /\ escalating' = [escalating EXCEPT ![d] = amount]
        /\ Changed
        /\ UNCHANGED <<collected, refund, ledger, route, settles, event, losing,
                       off, crashes>>

\* A sweep between the two has set the warning's amount aside, or is about to.
HoldTaken(d) ==
    \/ Has("dispute_hold", d)
    \/ \E h \in Handlers :
          /\ task[h].stage = "disputes"
          /\ \E e \in Range(task[h].todo) : e.reason = "dispute_hold" /\ e.of = d

EndEscalation(d) ==
    /\ escalating[d] # 0
    /\ dispute' = [dispute EXCEPT ![d].amount = escalating[d]]
    /\ escalating' = [escalating EXCEPT ![d] = 0]
    /\ off' = IF dispute[d].amount # escalating[d] /\ HoldTaken(d)
              THEN [off EXCEPT !.holds = @ \cup {d}] ELSE off
    /\ Changed
    /\ UNCHANGED <<collected, refund, ledger, route, settles, event, losing, crashes>>

SetStatus(d, status) ==
    /\ dispute' = [dispute EXCEPT ![d].status = status]
    /\ Changed

submit(d) ==
    /\ dispute[d].status = "needs_response" /\ DisputeFree(d)
    /\ SetStatus(d, "under_review")
    /\ UNCHANGED <<collected, refund, ledger, route, settles, event, losing,
                   escalating, off, crashes>>

\* networkUpdate, a win or a closure: a warning can only be closed.
Rule(d, ruling) ==
    /\ IsOpen(d) /\ DisputeFree(d)
    /\ WarningOnly(d) => ruling = "closed"
    /\ SetStatus(d, ruling)
    /\ UNCHANGED <<collected, refund, ledger, route, settles, event, losing,
                   escalating, off, crashes>>

\* networkUpdate, a loss: assertLosable reads, ...
assertLosable(d) ==
    LET p == DisputeOf[d]
    IN  /\ IsOpen(d) /\ DisputeFree(d) /\ ~WarningOnly(d)
        /\ Total(live(p), AmountOf) + lostOn(p) + dispute[d].amount <= Sales[p].amount
        /\ losing' = losing \cup {d}
        /\ UNCHANGED <<rows, ledger, task, route, settles, event, escalating, clean,
                       off, crashes>>

\* ... and the transition is another transaction.
Lose(d) ==
    /\ d \in losing
    /\ losing' = losing \ {d}
    /\ IF IsOpen(d) THEN SetStatus(d, "lost") ELSE UNCHANGED <<dispute, task, clean>>
    /\ UNCHANGED <<collected, refund, ledger, route, settles, event, escalating,
                   off, crashes>>

\* onRefundSucceeded: the charge's refunds prevent its open disputes.
onRefundSucceeded(r) ==
    LET p == RefundOf[r]
        covered == {d \in Disputes : /\ DisputeOf[d] = p /\ IsOpen(d)
                                     /\ amountRefunded(p) >= dispute[d].amount}
    IN  /\ event[r] = "prevent"
        /\ \A d \in Disputes : DisputeOf[d] = p => DisputeFree(d)
        /\ event' = [event EXCEPT ![r] = "none"]
        /\ dispute' = [d \in Disputes |-> IF d \in covered
                                          THEN [dispute[d] EXCEPT !.status = "prevented"]
                                          ELSE dispute[d]]
        /\ IF covered = {} THEN UNCHANGED <<task, clean>> ELSE Changed
        /\ UNCHANGED <<collected, refund, ledger, route, settles, losing,
                       escalating, off, crashes>>

\* resolveDispute of paybox's own tools: a concession is a refund, settled in
\* the same transaction.
ToolDecline(d) ==
    /\ Tools
    /\ IsOpen(d)
    /\ SetStatus(d, "resolved-won")
    /\ UNCHANGED <<collected, refund, ledger, route, settles, event, losing,
                   escalating, off, crashes>>

ToolConcede(d, r) ==
    /\ Tools
    /\ IsOpen(d)
    /\ RefundOf[r] = DisputeOf[d] /\ refund[r].status = "none" /\ route[r].pc = "idle"
    /\ MayRefund(DisputeOf[d], dispute[d].amount)
    /\ refund' = [refund EXCEPT ![r] =
                    [status |-> "successful", amount |-> dispute[d].amount]]
    /\ event' = [event EXCEPT ![r] = "money"]
    /\ SetStatus(d, "resolved-lost")
    /\ UNCHANGED <<collected, ledger, route, settles, losing, escalating, off, crashes>>

\* Collections one part of whose fee is written and the other is not.
HalfCharged ==
    {p \in Payments : \E h \in Handlers :
        /\ task[h].stage = "fees" /\ task[h].todo # <<>>
        /\ Head(task[h].todo).of = p /\ Has("processing_fee", p)}

\* The process dies: locks, requests and undelivered events go with it.
Crash ==
    /\ crashes < MaxCrashes
    /\ crashes' = crashes + 1
    /\ task' = [h \in Handlers |-> Idle]
    /\ route' = [r \in Refunds |-> NoRequest]
    /\ event' = [r \in Refunds |-> "none"]
    /\ losing' = {}
    /\ escalating' = [d \in Disputes |-> 0]
    /\ off' = [fees  |-> off.fees \cup HalfCharged,
               holds |-> {d \in off.holds : Has("dispute_hold", d)}]
    /\ UNCHANGED <<rows, ledger, settles, clean>>

-----------------------------------------------------------------------------
Sweeping(h) ==
    \/ chargeFees(h) \/ settleDisputes(h) \/ releaseRefundHold(h)
    \/ sweepPot(h) \/ NextStage(h) \/ EndSweep(h)

Next ==
    \/ \E h \in Handlers :
          \/ sweep(h) \/ Sweeping(h) \/ CreateRefund(h) \/ holdForRefund(h)
          \/ \E r \in Refunds : onMoneyMoved(h, r) \/ Exclusive(h, r)
    \/ \E p \in Payments : Collect(p)
    \/ \E r \in Refunds :
          \/ QueueSettlement(r) \/ onRefundSucceeded(r)
          \/ \E n \in Amounts : CheckRefund(r, n) \/ ToolRefund(r, n)
          \/ \E outcome \in {"successful", "failed"} : EndRefund(r, outcome)
    \/ \E d \in Disputes :
          \/ \E n \in Amounts :
                \/ ToolDispute(d, n) \/ Escalate(d, n)
                \/ \E warning \in BOOLEAN : OpenDispute(d, n, warning)
          \/ EndEscalation(d) \/ submit(d) \/ assertLosable(d) \/ Lose(d)
          \/ \E ruling \in {"won", "closed"} : Rule(d, ruling)
          \/ ToolDecline(d)
          \/ \E r \in Refunds : ToolConcede(d, r)
    \/ Crash

Spec == Init /\ [][Next]_vars

-----------------------------------------------------------------------------
(* Properties *)

\* Whatever callers, crashes and lost events do, each movement is written
\* once: the fee of a warning, of a dispute, each hold and each release, and
\* each part of a collection's fee.
EachMovementOnce ==
    /\ TypeOK
    /\ \A e, f \in {x \in BagToSet(ledger) : x.reason # "settlement"} :
         /\ CopiesIn(e, ledger) = 1
         /\ e.reason = f.reason /\ e.of = f.of /\ e # f =>
               e.reason = "processing_fee" /\ e.pot # f.pot

Net(reason, release, of) ==
    -Total(Entries(reason) \cup Entries(release),
           LAMBDA e : IF e.of = of THEN e.amount ELSE 0)

\* The dollars a pot's foreign takings have settled to are worth their
\* running total, however many sweeps they took: no cent lost to rounding.
\* And a sweep nothing disturbed leaves the ledger as the rows say: set aside is
\* the amount of each dispute undecided or lost, and nothing for the others or
\* for a refund that has ended; every chargeback has paid its fee, no warning
\* never escalated has, and a payment has paid for its warnings once it has had
\* one; each collection has paid its fee to the cent; and no foreign money
\* worth a cent is left.  Excepted are the two cases the code gets wrong, and
\* those only: a fee in two parts a crash came between (never more than is
\* owed), and a hold taken while an escalation had its new amount yet to write
\* (never kept or dropped by mistake, but of the warning's amount).
SweptLedgerMatchesRows ==
    /\ \A pot \in Pots : swept(pot).usd = Convert(swept(pot).foreign, "EUR")
    /\ clean =>
        /\ \A d \in Disputes :
              LET held == Net("dispute_hold", "dispute_hold_release", d)
                  owed == IF dispute[d].status \in Open \cup {"lost"} /\ ~WarningOnly(d)
                          THEN Convert(dispute[d].amount, Sales[DisputeOf[d]].currency)
                          ELSE 0
              IN  /\ IF d \in off.holds THEN held > 0 <=> owed > 0 ELSE held = owed
                  /\ Has("dispute_fee", d) <=> (Exists(d) /\ ~WarningOnly(d))
        /\ \A r \in Refunds :
              Finished(r) => Net("refund_hold", "refund_hold_release", r) = 0
        /\ \A p \in collected :
              LET charged == Net("processing_fee", "processing_fee", p)
              IN  /\ IF p \in off.fees THEN charged \in 1..(Sales[p].fee - 1)
                     ELSE charged = Sales[p].fee
                  /\ Has("dispute_warning_fee", p) <=>
                        \E d \in Disputes :
                           /\ DisputeOf[d] = p
                           /\ dispute[d].record \in {"warning", "escalated"}
        /\ \A pot \in Pots :
              Convert(swept(pot).foreign + net("EUR", pot), "EUR") = swept(pot).usd
=============================================================================
