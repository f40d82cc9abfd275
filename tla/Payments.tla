------------------------------ MODULE Payments ------------------------------
(***************************************************************************)
(* Payments, refunds and disputes of the engine and the ledger they write. *)
(* One action per engine operation, each the body of one storage           *)
(* transaction.  Routes, the simulator, scenarios and jobs call them in    *)
(* any order: an HTTP refund is a CreateRefund and, in a transaction of    *)
(* its own, a TransitionRefund.                                            *)
(*                                                                         *)
(* Left out: share reversals and platform-fee refunds, other currencies    *)
(* and providers (the ledger never adds two of them), saved instruments.   *)
(***************************************************************************)
EXTENDS StateMachines, Sums

CONSTANTS
    Payments,        \* payment ids
    NoPayment,       \* in no refund or dispute row yet
    Disputes,        \* dispute ids
    NoDispute,       \* dispute_id of a refund no dispute raised
    MaxRefunds,      \* bound: refund rows
    Charges,         \* what a payment is created with: amount, fee, mode
    RefundAmounts,   \* amounts a refund or dispute is requested with
    ScenarioTargets, \* statuses named by the status steps of scenarios
    MaxReopens       \* bound: uses of the reversal escape hatch, per payment

SettlementModes == {"platform", "direct", "forwarded"}

ASSUME MaxRefundsAssumption == MaxRefunds \in Nat
ASSUME ChargesAssumption ==
    Charges \subseteq [amount : Nat \ {0}, fee : Nat, mode : SettlementModes]
ASSUME RefundAmountsAssumption == RefundAmounts \subseteq Int
ASSUME ScenarioTargetsAssumption == ScenarioTargets \subseteq PaymentStatus
ASSUME NullAssumption == NoPayment \notin Payments /\ NoDispute \notin Disputes
ASSUME MaxReopensAssumption == MaxReopens \in Nat

VARIABLES
    payment,    \* row of each payment; status "none" before it is created
    refund,     \* refund rows
    dispute,    \* row of each dispute
    balance,    \* ledger net of each payment and its refunds, per owner
    collected,  \* number of "charge" ledger credits of each payment
    reopened    \* bound: reversals used on each payment

vars == <<payment, refund, dispute, balance, collected, reopened>>

RefundRows == 1..MaxRefunds
Accounts == {"platform", "account"}
Resolutions == {"none", "merchant-accepted", "declined"}

PaymentRow == [status : PaymentStatus \cup {"none"}, charge : Charges,
               amountRefunded : Int]
RefundRow == [status : RefundStatus \cup {"none"},
              payment : Payments \cup {NoPayment}, amount : Int,
              dispute : Disputes \cup {NoDispute}]
DisputeRow == [status : DisputeStatus \cup {"none"},
               payment : Payments \cup {NoPayment}, amount : Int,
               resolution : Resolutions]

TypeOK ==
    /\ payment \in [Payments -> PaymentRow]
    /\ refund \in [RefundRows -> RefundRow]
    /\ dispute \in [Disputes -> DisputeRow]
    /\ balance \in [Payments -> [Accounts -> Int]]
    /\ collected \in [Payments -> Nat]
    /\ reopened \in [Payments -> Nat]

EmptyRefund == [status |-> "none", payment |-> NoPayment, amount |-> 0,
                dispute |-> NoDispute]
EmptyDispute == [status |-> "none", payment |-> NoPayment, amount |-> 0,
                 resolution |-> "none"]

Init ==
    /\ payment \in [Payments ->
                       [status : {"none"}, charge : Charges, amountRefunded : {0}]]
    /\ refund = [r \in RefundRows |-> EmptyRefund]
    /\ dispute = [d \in Disputes |-> EmptyDispute]
    /\ balance = [p \in Payments |-> [a \in Accounts |-> 0]]
    /\ collected = [p \in Payments |-> 0]
    /\ reopened = [p \in Payments |-> 0]

-----------------------------------------------------------------------------
Amount(p) == payment[p].charge.amount

\* Mutant: a refund in flight holds nothing
HeldBySettled(row, p) ==
    IF row.payment = p /\ row.status = "successful" THEN row.amount ELSE 0

\* Mutant: a refund a dispute raised holds nothing
HeldByRequested(row, p) ==
    IF row.payment = p /\ row.status # "failed" /\ row.dispute = NoDispute
    THEN row.amount ELSE 0

\* What one refund row counts towards the total of p
HeldBy(row, p) ==
    IF row.payment = p /\ row.status # "failed" THEN row.amount ELSE 0

\* SUM(amount) over the refunds of p that have not failed
totalRefunded(rows, p) ==
    SumTo([r \in RefundRows |-> HeldBy(rows[r], p)], MaxRefunds)

\* The row a new refund takes: rows are inserted in order.
FreeRefunds ==
    {r \in RefundRows : /\ refund[r].status = "none"
                        /\ \A q \in 1..(r-1) : refund[q].status # "none"}

Credit(p, who, n) == [balance EXCEPT ![p][who] = @ + n]

\* Mutant: a direct charge credits the account with the fee too
SettledBalanceGross(p) ==
    IF payment[p].charge.mode = "direct"
    THEN [balance EXCEPT ![p]["account"] = @ + Amount(p),
                         ![p]["platform"] = @ + payment[p].charge.fee]
    ELSE Credit(p, "platform", Amount(p))

\* The ledger rows a success writes.  A direct charge is the account's and
\* the platform keeps its fee; a forwarded one is the platform's, and its
\* share moves on by a transfer in the same transaction.
SettledBalance(p) ==
    LET c     == payment[p].charge
        fee   == IF c.fee < c.amount THEN c.fee ELSE c.amount
        share == IF c.fee < c.amount THEN c.amount - c.fee ELSE 0
    IN  CASE c.mode = "direct" ->
                [balance EXCEPT ![p]["account"] = @ + c.amount - fee,
                                ![p]["platform"] = @ + fee]
          [] c.mode = "forwarded" ->
                [balance EXCEPT ![p]["account"] = @ + share,
                                ![p]["platform"] = @ + c.amount - share]
          [] OTHER -> Credit(p, "platform", c.amount)

\* Whose balance a refund of p is taken from
Refunder(p) == IF payment[p].charge.mode = "direct" THEN "account" ELSE "platform"

-----------------------------------------------------------------------------
\* createPayment: adapters open a payment in one of three statuses.
CreatePayment(p, status) ==
    /\ payment[p].status = "none"
    /\ status \in {"created", "pending", "processing"}
    /\ payment' = [payment EXCEPT ![p].status = status]
    /\ UNCHANGED <<refund, dispute, balance, collected, reopened>>

\* The one mutation path of a payment's status, the flags set by the caller.
transitionPayment(p, to, reversal, retry) ==
    /\ payment[p].status # "none"
    /\ assertPaymentTransition(payment[p].status, to, reversal, retry)
    /\ payment' = [payment EXCEPT ![p].status = to]
    /\ IF to = "successful"
       THEN /\ balance' = SettledBalance(p)
            /\ collected' = [collected EXCEPT ![p] = @ + 1]
       ELSE UNCHANGED <<balance, collected>>
    /\ UNCHANGED <<refund, dispute>>

\* Statuses the routes, the simulator and the expiry job ask for.
OrdinaryTargets ==
    PaymentStatus \ {"created", "partially_refunded", "refunded"}

OrdinaryMove(p, to) ==
    /\ to \in OrdinaryTargets
    /\ transitionPayment(p, to, FALSE, FALSE)
    /\ UNCHANGED reopened

\* Confirming a declined Stripe intent again.
Retry(p, to) ==
    /\ payment[p].status = "failed"
    /\ to \in {"pending", "processing"}
    /\ transitionPayment(p, to, FALSE, TRUE)
    /\ UNCHANGED reopened

\* A status step of a scenario.  It always passes reversal, which only
\* matters on a terminal payment.
ScenarioStep(p, to) ==
    /\ to \in ScenarioTargets
    /\ payment[p].status # "none"
    /\ payment[p].status # to
    /\ \/ canTransitionPayment(payment[p].status, to)
       \/ payment[p].status \in TerminalPayment
    /\ transitionPayment(p, to, TRUE, FALSE)
    /\ IF canTransitionPayment(payment[p].status, to)
       THEN UNCHANGED reopened
       ELSE /\ reopened[p] < MaxReopens
            /\ reopened' = [reopened EXCEPT ![p] = @ + 1]

-----------------------------------------------------------------------------
MayRefund(p, amount) ==
    /\ payment[p].status \in {"successful", "partially_refunded"}
    /\ assertRefundable(Amount(p), totalRefunded(refund, p), amount)

NewRefund(p, amount, d, status) ==
    [status |-> status, payment |-> p, amount |-> amount, dispute |-> d]

CreateRefund(p, amount) ==
    /\ MayRefund(p, amount)
    /\ \E r \in FreeRefunds :
           refund' = [refund EXCEPT ![r] = NewRefund(p, amount, NoDispute, "pending")]
    /\ UNCHANGED <<payment, dispute, balance, collected, reopened>>

\* The effects of a refund of p settling when the table becomes rows: the
\* payment takes the status of the total, and the money leaves the ledger.
SettleRefund(p, amount, rows) ==
    LET total == totalRefunded(rows, p)
        next  == refundedStatus(Amount(p), total)
    IN  /\ assertPaymentTransition(payment[p].status, next, FALSE, FALSE)
        /\ payment' = [payment EXCEPT ![p].status = next,
                                      ![p].amountRefunded = total]
        /\ balance' = Credit(p, Refunder(p), -amount)

TransitionRefund(r, to) ==
    LET rows == [refund EXCEPT ![r].status = to]
    IN  /\ refund[r].status # "none"
        /\ assertRefundTransition(refund[r].status, to)
        /\ refund' = rows
        /\ IF to = "successful"
           THEN SettleRefund(refund[r].payment, refund[r].amount, rows)
           ELSE UNCHANGED <<payment, balance>>
        /\ UNCHANGED <<dispute, collected, reopened>>

-----------------------------------------------------------------------------
CreateDispute(d, p, amount) ==
    /\ dispute[d].status = "none"
    /\ payment[p].status \in {"successful", "partially_refunded", "refunded"}
    /\ amount <= Amount(p)
    /\ dispute' = [dispute EXCEPT ![d] =
                      [status |-> "awaiting_merchant_feedback", payment |-> p,
                       amount |-> amount, resolution |-> "none"]]
    /\ UNCHANGED <<payment, refund, balance, collected, reopened>>

\* The reminder job and Bachs' rulings, which resolve without a refund
TransitionDispute(d, to, resolution) ==
    /\ dispute[d].status # "none"
    /\ assertDisputeTransition(dispute[d].status, to)
    /\ to # "resolved" => resolution = "none"
    /\ dispute' = [dispute EXCEPT ![d].status = to, ![d].resolution = resolution]
    /\ UNCHANGED <<payment, refund, balance, collected, reopened>>

\* Mutant: a resolved dispute may be resolved again
MayResolveAgain(d) == dispute[d].status # "none"

MayResolve(d) ==
    /\ dispute[d].status # "none"
    /\ dispute[d].status # "resolved"
    /\ assertDisputeTransition(dispute[d].status, "resolved")

\* resolveDispute: the refund is raised and settled in the transaction that
\* closes the dispute, and a refund that is refused keeps it open.
ResolveDispute(d, resolution, amount) ==
    /\ MayResolve(d)
    /\ dispute' = [dispute EXCEPT ![d].status = "resolved",
                                  ![d].resolution = resolution,
                                  ![d].amount = amount]
    /\ IF resolution = "merchant-accepted" /\ amount > 0
       THEN /\ MayRefund(dispute[d].payment, amount)
            /\ \E r \in FreeRefunds :
                 LET p    == dispute[d].payment
                     rows == [refund EXCEPT
                                ![r] = NewRefund(p, amount, d, "successful")]
                 IN  refund' = rows /\ SettleRefund(p, amount, rows)
       ELSE UNCHANGED <<payment, refund, balance>>
    /\ UNCHANGED <<collected, reopened>>

-----------------------------------------------------------------------------
Next ==
    \/ \E p \in Payments, to \in PaymentStatus :
          \/ CreatePayment(p, to)
          \/ OrdinaryMove(p, to)
          \/ Retry(p, to)
          \/ ScenarioStep(p, to)
    \/ \E p \in Payments, amount \in RefundAmounts : CreateRefund(p, amount)
    \/ \E r \in RefundRows, to \in RefundStatus : TransitionRefund(r, to)
    \/ \E d \in Disputes, p \in Payments, amount \in RefundAmounts :
          CreateDispute(d, p, amount)
    \/ \E d \in Disputes, to \in DisputeStatus, resolution \in Resolutions :
          TransitionDispute(d, to, resolution)
    \/ \E d \in Disputes, amount \in RefundAmounts,
          resolution \in {"merchant-accepted", "declined"} :
          ResolveDispute(d, resolution, amount)

Spec == Init /\ [][Next]_vars

-----------------------------------------------------------------------------
\* What one refund row has taken from p for good
SettledBy(row, p) ==
    IF row.payment = p /\ row.status = "successful" THEN row.amount ELSE 0

\* What the settled refunds of p add up to
Settled(p) == SumTo([r \in RefundRows |-> SettledBy(refund[r], p)], MaxRefunds)

\* The refunds of a payment that have not failed never add up to more than
\* the payment, whatever requests, dispute rulings and settlements interleave
\* (engine.ts #createRefundIn, "total refunded <= original amount").
RefundsWithinAmount ==
    \A p \in Payments : totalRefunded(refund, p) <= Amount(p)

\* amount_refunded on the payment row covers every refund that settled, and
\* never more than the payment: a client that reads the row is not told less
\* than what was sent back, though refunds fail and settle after the last write.
AmountRefundedCovers ==
    \A p \in Payments :
        Settled(p) <= payment[p].amountRefunded /\ payment[p].amountRefunded <= Amount(p)

\* What a payment and its refunds left in the two pots together is exactly what
\* it collected less what it gave back, over all settlement modes, and money only
\* goes back after it came in (engine.ts: "rolled-back success cannot leave a
\* phantom credit", two credits on a direct charge, a forwarded share).
LedgerReconciles ==
    \A p \in Payments :
        /\ balance[p]["platform"] + balance[p]["account"]
              = Amount(p) * collected[p] - Settled(p)
        /\ Settled(p) <= Amount(p) * collected[p]

\* A payment is credited once, plus once per use of the reversal hatch at the
\* most: declines, retries, captures and refunds in any order collect no money
\* twice (engine.ts transitionPayment).
CollectedOncePerReversal ==
    \A p \in Payments : collected[p] <= 1 + reopened[p]

\* Conceding a dispute settles one refund and no more: a dispute has at most
\* one refund row, and only a resolved, conceded dispute has one, which is
\* successful and for the amount on the dispute (engine.ts resolveDispute,
\* "two concurrent resolutions could each settle").
DisputeRefundedOnce ==
    \A d \in Disputes :
        LET raised == {r \in RefundRows : refund[r].dispute = d}
        IN  /\ \A r, q \in raised : r = q
            /\ \A r \in raised :
                  /\ dispute[d].status = "resolved"
                  /\ dispute[d].resolution = "merchant-accepted"
                  /\ refund[r].status = "successful"
                  /\ refund[r].amount = dispute[d].amount

\* The inductive invariant behind the theorems of PaymentsProofs: no row is
\* without its payment, and a payment that is not settled has used up every
\* credit it was given.
RowsOwned ==
    /\ \A r \in RefundRows :
          /\ refund[r].amount \in Nat
          /\ IF refund[r].status = "none" THEN refund[r] = EmptyRefund
             ELSE refund[r].payment \in Payments
    /\ \A d \in Disputes :
          dispute[d].status # "none" => dispute[d].payment \in Payments

SettledStatus == {"successful", "partially_refunded", "refunded"}

CreditsUsed ==
    \A p \in Payments :
        collected[p] <= reopened[p] + (IF payment[p].status \in SettledStatus
                                       THEN 1 ELSE 0)

IInv ==
    /\ TypeOK
    /\ RowsOwned
    /\ RefundsWithinAmount
    /\ AmountRefundedCovers
    /\ CreditsUsed
    /\ DisputeRefundedOnce

\* No step takes a settled refund or a resolved dispute back, and none moves
\* a refund row to another payment or amount.
SettlementIsFinal ==
    [][/\ \A r \in RefundRows :
            /\ refund[r].status = "successful" => refund'[r] = refund[r]
            /\ refund[r].status # "none" =>
                  refund'[r].amount = refund[r].amount
       /\ \A d \in Disputes :
            dispute[d].status = "resolved" => dispute'[d] = dispute[d]]_vars
=============================================================================
