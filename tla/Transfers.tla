------------------------------ MODULE Transfers ------------------------------
(***************************************************************************)
(* Transfers between balances and payouts to banks: reservation at         *)
(* creation, release on failure, partial reversals, and a Wise transfer,   *)
(* which reserves nothing until a funding request pays for it in steps of  *)
(* its own.  The balance of a pot is a fold over ledger entries, kept here *)
(* per transfer.                                                           *)
(*                                                                         *)
(* Left out: references and other currencies.  Charges, refunds and fees   *)
(* of connected accounts are in module Connect.                            *)
(***************************************************************************)
EXTENDS StateMachines, Sums

CONSTANTS
    Accounts,     \* connected accounts
    Platform,     \* the pot of a null subaccount
    Bank,         \* destination of money that leaves
    MaxTransfers, \* bound: transfer rows
    Kinds,        \* what adapters create transfers with
    Requests,     \* concurrent funding requests
    Opening,      \* the platform's opening float
    Deposits,     \* amounts settled payments of the platform credit
    MaxDeposited  \* bound: such credits

Pots == Accounts \cup {Platform}

ASSUME PotsAssumption == Platform \notin Accounts /\ Bank \notin Pots
ASSUME MaxTransfersAssumption == MaxTransfers \in Nat \ {0}

KindType == [amount : Nat \ {0}, fee : Nat, feeRefundable : BOOLEAN,
             reserve : BOOLEAN, from : Pots, to : Pots \cup {Bank},
             status : {"pending", "processing", "successful"}]

\* What Wise funds later has no fee and leaves the platform.
ASSUME KindsAssumption ==
    \A k \in Kinds : /\ k \in KindType
                     /\ k.reserve \/ (k.fee = 0 /\ k.from = Platform /\ k.to = Bank)
ASSUME MoneyAssumption ==
    Opening \in Nat /\ Deposits \subseteq Nat /\ MaxDeposited \in Nat

VARIABLES
    transfer,   \* transfer rows
    moved,      \* ledger entries of each transfer, net per pot
    deposited,  \* the net of all other ledger entries, per pot
    funding     \* where each funding request is

Rows == 1..MaxTransfers

NotFunding == [pc |-> "idle", row |-> 1]
\* source is the payment the transfer names, 0 if none
NoTransfer == [status |-> "none", kind |-> [amount |-> 0, reserve |-> FALSE],
               reserved |-> FALSE, amountReversed |-> 0, source |-> 0]

TransferRow == [status : TransferStatus, kind : KindType, amountReversed : Nat,
                reserved : BOOLEAN, source : Nat]

TypeOK ==
    /\ transfer \in [Rows -> TransferRow \cup {NoTransfer}]
    /\ moved \in [Rows -> [Pots -> Int]]
    /\ deposited \in [Pots -> Int]
    /\ funding \in [Requests -> [pc : {"idle", "debit", "move"}, row : Rows]]

TransfersInit ==
    /\ transfer = [t \in Rows |-> NoTransfer]
    /\ moved = [t \in Rows |-> [pot \in Pots |-> 0]]
    /\ deposited = [pot \in Pots |-> 0]
    /\ funding = [r \in Requests |-> NotFunding]

-----------------------------------------------------------------------------
Kind(t) == transfer[t].kind
Internal(t) == Kind(t).to # Bank

\* The balance of a pot; only the platform has the opening float.
Brought(pot) == (IF pot = Platform THEN Opening ELSE 0) + deposited[pot]

Available(pot) == Brought(pot) + SumTo([t \in Rows |-> moved[t][pot]], MaxTransfers)

\* What the two entries of a move of n, with fee more at its source, make of
\* a pot.  A bank keeps no entries.
Entries(k, n, fee, pot) ==
    (IF pot = k.to THEN n ELSE 0) - (IF pot = k.from THEN n + fee ELSE 0)

Entered(t, k, n, fee) ==
    [moved EXCEPT ![t] = [pot \in Pots |-> @[pot] + Entries(k, n, fee, pot)]]

Debited(t, n, fee) == Entered(t, Kind(t), n, fee)

\* A settled payment credits its pot.
Credit(pot, n) == deposited' = [deposited EXCEPT ![pot] = @ + n]

\* Mutant: checks the amount without its fee
CoveredAmount(k) == k.reserve => k.amount <= Available(k.from)

Covered(k) == k.reserve => k.amount + k.fee <= Available(k.from)

ReservedAtCreation(k) == k.reserve

\* #createTransferIn: the row and its reservation are one transaction.  Rows
\* are taken in order.
createTransferIn(t, k, source) ==
    /\ transfer[t].status = "none"
    /\ \A u \in 1..(t-1) : transfer[u].status # "none"
    /\ transfer' = [transfer EXCEPT ![t] =
                       [status |-> k.status, kind |-> k, amountReversed |-> 0,
                        reserved |-> ReservedAtCreation(k), source |-> source]]
    /\ moved' = IF k.reserve THEN Entered(t, k, k.amount, k.fee) ELSE moved

\* createTransfer: the check of funds is in the same transaction.
createTransfer(t, k, source) ==
    /\ Covered(k)
    /\ createTransferIn(t, k, source)
    /\ UNCHANGED <<deposited, funding>>

Releases(to, reserved) == to \in {"failed", "reversed", "cancelled"} /\ reserved

\* Mutant: returns a fee its provider keeps
ReleasedFeeAlways(t) == Kind(t).fee

ReleasedFee(t) == IF Kind(t).feeRefundable THEN Kind(t).fee ELSE 0

\* transitionTransfer, with the reserved flag its metadata leaves: a payout
\* that did not happen releases what has not been sent back yet, and its fee
\* where the provider returns it.
transitionTransfer(t, to, reserved) ==
    LET outstanding == Kind(t).amount - transfer[t].amountReversed
    IN  /\ assertTransferTransition(transfer[t].status, to)
        /\ transfer' = [transfer EXCEPT ![t].status = to, ![t].reserved = reserved]
        /\ moved' = IF Releases(to, reserved)
                    THEN Debited(t, -outstanding, -ReleasedFee(t)) ELSE moved

\* Settling jobs, settle and cancel routes, Wise's simulation of a payout.  A
\* transfer between balances is created settled and none of them moves it.
Transition(t, to) ==
    /\ transfer[t].status # "none" /\ ~ Internal(t)
    /\ transitionTransfer(t, to, transfer[t].reserved)
    /\ UNCHANGED <<deposited, funding>>

ReversedStatus(t, reversed) ==
    IF reversed >= Kind(t).amount THEN "reversed" ELSE transfer[t].status

\* reverseTransfer: n comes back, if the destination still has it.
ReverseTransfer(t, n) ==
    LET reversed == transfer[t].amountReversed + n
    IN  /\ transfer[t].status \notin {"none", "failed", "cancelled"}
        /\ Kind(t).to \in Accounts
        /\ n > 0 /\ reversed <= Kind(t).amount
        /\ n <= Available(Kind(t).to)
        /\ transfer' = [transfer EXCEPT
                          ![t].amountReversed = reversed,
                          ![t].status = ReversedStatus(t, reversed)]
        /\ moved' = Debited(t, -n, 0)
        /\ UNCHANGED <<deposited, funding>>

-----------------------------------------------------------------------------
\* Wise funding: a check, a debit, and a transition, each on its own.
FundCheck(r, t) ==
    /\ funding[r].pc = "idle"
    /\ transfer[t].status = "pending"
    /\ ~ Kind(t).reserve /\ ~ transfer[t].reserved
    /\ Kind(t).amount <= Available(Platform)
    /\ funding' = [funding EXCEPT ![r] = [pc |-> "debit", row |-> t]]
    /\ UNCHANGED <<transfer, moved, deposited>>

FundDebit(r) ==
    /\ funding[r].pc = "debit"
    /\ moved' = [moved EXCEPT ![funding[r].row][Platform] =
                    @ - Kind(funding[r].row).amount]
    /\ funding' = [funding EXCEPT ![r].pc = "move"]
    /\ UNCHANGED <<transfer, deposited>>

\* A transition that is refused fails the request; the debit stays.
FundMove(r) ==
    LET t == funding[r].row
    IN  /\ funding[r].pc = "move"
        /\ IF assertTransferTransition(transfer[t].status, "processing")
           THEN transitionTransfer(t, "processing", TRUE)
           ELSE UNCHANGED <<transfer, moved>>
        /\ funding' = [funding EXCEPT ![r] = NotFunding]
        /\ UNCHANGED deposited

TransfersNext ==
    \/ \E t \in Rows, to \in TransferStatus : Transition(t, to)
    \/ \E r \in Requests, t \in Rows : FundCheck(r, t)
    \/ \E r \in Requests : FundDebit(r) \/ FundMove(r)

-----------------------------------------------------------------------------
\* The balance of a pot had no transfer been funded that reserved nothing
Counted(t, pot) == IF Kind(t).reserve THEN moved[t][pot] ELSE 0

Unfunded(pot) == Brought(pot) + SumTo([t \in Rows |-> Counted(t, pot)], MaxTransfers)

\* A payout that did not happen
Undone(t) ==
    ~ Internal(t) /\ transfer[t].status \in {"failed", "cancelled", "reversed"}

\* What is still at the destination of a transfer, and the fee still held
Standing(t) == IF Undone(t) THEN 0 ELSE Kind(t).amount - transfer[t].amountReversed
FeeHeld(t) == IF Undone(t) /\ Kind(t).feeRefundable THEN 0 ELSE Kind(t).fee

Committed(t) == transfer[t].reserved /\ transfer[t].status \in {"processing", "successful"}

\* The ledger agrees with the rows that reserve: an open or paid payout holds its amount
\* and fee, one that did not happen only a fee its provider keeps, and what a
\* transfer between balances has not sent back is in its destination, whatever
\* partial reversals came before (engine.ts transitionTransfer: "releasing the
\* full amount here would credit the source twice").  And a Wise transfer
\* never returns more than it took, however its funding, its settling and its
\* cancellation interleave ("Crediting here would hand the balance money it
\* never gave up"), and one that was sent with its money marked as committed
\* had it debited, and the debit is still there (wise routes.ts: "From here
\* the amount is reserved").
LedgerMatchesRows ==
    \A t \in {u \in Rows : transfer[u].status # "none"} :
       IF Kind(t).reserve
       THEN /\ \A pot \in Pots :
                  moved[t][pot] = Entries(Kind(t), Standing(t), FeeHeld(t), pot)
            /\ Internal(t) => ((transfer[t].status = "reversed") <=> (Standing(t) = 0))
       ELSE /\ moved[t][Platform] <= 0
            /\ Committed(t) => moved[t][Platform] <= - Kind(t).amount
=============================================================================
