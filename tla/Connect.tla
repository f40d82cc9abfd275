------------------------------- MODULE Connect -------------------------------
(***************************************************************************)
(* Charges that involve a connected account, beside the transfers between  *)
(* its balance and the platform's: a direct charge credits the account and *)
(* leaves the platform a fee, a forwarded one credits the platform and     *)
(* passes the share on as a transfer.  Refunds and refunds of the fee      *)
(* debit a pot without a check of funds; reversals give the share back.    *)
(* An account charges and is paid only once it has onboarded.              *)
(***************************************************************************)
EXTENDS Transfers

CONSTANTS
    MaxCharges,  \* bound: payments that involve an account
    Terms,       \* what they are made on: [amount, fee, mode, account]
    Refunds      \* amounts of them, and of their fees, that are refunded

ASSUME TermsAssumption ==
    /\ MaxCharges \in Nat /\ Refunds \subseteq Nat
    /\ \A k \in Terms : /\ k.amount \in Nat \ {0} /\ k.fee \in 0..k.amount
                        /\ k.mode \in {"direct", "forwarded"}
                        /\ k.account \in Accounts

VARIABLES
    charge,    \* payment rows
    account,   \* subaccount rows
    returning  \* charges whose fee a reversal is about to give back

vars == <<transfer, moved, deposited, funding, charge, account, returning>>

Charges == 1..MaxCharges
NoCharge == [status |-> "none", on |-> {}, refunded |-> 0, feeRefunded |-> 0,
             feeMoved |-> 0]

ChargeRow == [status : {"open", "settled"}, on : Terms, refunded : Nat,
              feeRefunded : Nat, feeMoved : Nat]

ConnectTypeOK ==
    /\ TypeOK
    /\ charge \in [Charges -> ChargeRow \cup {NoCharge}]
    /\ \A c \in Charges : charge[c].status # "none" =>
          /\ charge[c].refunded <= charge[c].on.amount
          /\ charge[c].feeRefunded <= charge[c].on.fee
          /\ charge[c].feeMoved <= charge[c].feeRefunded
    /\ account \in [Accounts -> [active : BOOLEAN, charges : BOOLEAN,
                                 payouts : BOOLEAN, submitted : BOOLEAN]]
    /\ returning \subseteq Charges

\* createSubaccount: an account made through Stripe cannot transact yet.
createSubaccount == [active |-> TRUE, charges |-> FALSE, payouts |-> FALSE,
                     submitted |-> FALSE]

Init ==
    /\ TransfersInit
    /\ charge = [c \in Charges |-> NoCharge]
    /\ account = [s \in Accounts |-> createSubaccount]
    /\ returning = {}

-----------------------------------------------------------------------------
On(c) == charge[c].on
Named(c) == {t \in Rows : transfer[t].status # "none" /\ transfer[t].source = c}

\* The onboarding page submits an account once, a rejected one too.
completeOnboarding(s) ==
    /\ ~ account[s].submitted
    /\ account' = [account EXCEPT ![s].charges = TRUE, ![s].payouts = TRUE,
                                  ![s].submitted = TRUE]
    /\ UNCHANGED <<transfer, moved, deposited, funding, charge, returning>>

\* Rejected, or deleted.
rejectSubaccount(s) ==
    /\ account' = [account EXCEPT ![s].active = FALSE, ![s].charges = FALSE,
                                  ![s].payouts = FALSE]
    /\ UNCHANGED <<transfer, moved, deposited, funding, charge, returning>>

\* resolveConnect and assertChargeableAccount, in front of createPayment.
CreateCharge(c, k) ==
    /\ charge[c].status = "none"
    /\ account[k.account].active /\ account[k.account].charges
    /\ charge' = [charge EXCEPT ![c] = [NoCharge EXCEPT !.status = "open", !.on = k]]
    /\ UNCHANGED <<transfer, moved, deposited, funding, account, returning>>

Share(k) ==
    [amount |-> k.amount - k.fee, fee |-> 0, feeRefundable |-> TRUE, reserve |-> TRUE,
     from |-> Platform, to |-> k.account, status |-> "successful"]

\* The credits of transitionPayment, with the share's transfer.
Settle(c) ==
    LET k == On(c)
    IN  /\ charge[c].status = "open"
        /\ charge' = [charge EXCEPT ![c].status = "settled"]
        /\ deposited' =
             IF k.mode = "forwarded" THEN [deposited EXCEPT ![Platform] = @ + k.amount]
             ELSE [deposited EXCEPT ![k.account] = @ + (k.amount - k.fee),
                                    ![Platform] = @ + k.fee]
        /\ IF k.mode = "forwarded" /\ k.amount > k.fee
           THEN \E t \in Rows : createTransferIn(t, Share(k), c)
           ELSE UNCHANGED <<transfer, moved>>
        /\ UNCHANGED <<funding, account, returning>>

\* The debit of transitionRefund; which refunds there may be is Payments'.
Bearer(c) == IF On(c).mode = "direct" THEN On(c).account ELSE Platform

RefundCharge(c, n) ==
    /\ charge[c].status = "settled"
    /\ n > 0 /\ charge[c].refunded + n <= On(c).amount
    /\ charge' = [charge EXCEPT ![c].refunded = @ + n]
    /\ Credit(Bearer(c), -n)
    /\ UNCHANGED <<transfer, moved, funding, account, returning>>

\* Mutant: the share's reversal is not looked at
feeRefundWhole(c, requested) == requested

\* The rows are listed newest first.
Newest(c) == CHOOSE t \in Named(c) : \A u \in Named(c) : u <= t

feeRefundShare(c, requested) ==
    LET forwarded == transfer[Newest(c)]
    IN  IF On(c).mode # "forwarded" \/ Named(c) = {} THEN requested
        ELSE (requested * (forwarded.kind.amount - forwarded.amountReversed))
                \div forwarded.kind.amount

\* refundPlatformFee; nothing asks whether the charge has settled.
refundPlatformFee(c, requested) ==
    LET movable == feeRefundShare(c, requested)
    IN  /\ charge' = [charge EXCEPT ![c].feeRefunded = @ + requested,
                                    ![c].feeMoved = @ + movable]
        /\ deposited' = [deposited EXCEPT ![Platform] = @ - movable,
                                          ![On(c).account] = @ + movable]

FeeLeft(c) == On(c).fee - charge[c].feeRefunded

RefundFee(c, requested) ==
    /\ charge[c].status # "none"
    /\ requested \in 1..FeeLeft(c)
    /\ refundPlatformFee(c, requested)
    /\ UNCHANGED <<transfer, moved, funding, account, returning>>

\* A reversal may ask for the fee too, which is a transaction after its own.
Reverse(t, n) ==
    /\ ReverseTransfer(t, n)
    /\ \/ UNCHANGED returning
       \/ transfer[t].source \in Charges
            /\ returning' = returning \cup {transfer[t].source}
    /\ UNCHANGED <<charge, account>>

ReturnFee(c) ==
    /\ c \in returning
    /\ returning' = returning \ {c}
    /\ IF FeeLeft(c) > 0 THEN refundPlatformFee(c, FeeLeft(c))
       ELSE UNCHANGED <<charge, deposited>>
    /\ UNCHANGED <<transfer, moved, funding, account>>

\* A transfer to an account, or a payout of one, asks whether it onboarded; a
\* transfer may name the charge it is made out of.
PaidOut(k) == IF k.to = Bank THEN {k.from} ELSE {k.to}

CreateTransfer(t, k, source) ==
    /\ \A s \in PaidOut(k) \cap Accounts : account[s].payouts
    /\ source # 0 => k.from = Platform /\ k.to \in Accounts /\ charge[source].status # "none"
    /\ createTransfer(t, k, source)
    /\ UNCHANGED <<charge, account, returning>>

\* An ordinary payment of the platform settles.
Deposit(n) ==
    /\ deposited[Platform] + n <= MaxDeposited
    /\ Credit(Platform, n)
    /\ UNCHANGED <<transfer, moved, funding, charge, account, returning>>

Next ==
    \/ TransfersNext /\ UNCHANGED <<charge, account, returning>>
    \/ \E n \in Deposits : Deposit(n)
    \/ \E t \in Rows, k \in Kinds, c \in Charges \cup {0} : CreateTransfer(t, k, c)
    \/ \E t \in {u \in Rows : transfer[u].status # "none"} :
          \E n \in 1..Kind(t).amount : Reverse(t, n)
    \/ \E s \in Accounts : completeOnboarding(s) \/ rejectSubaccount(s)
    \/ \E c \in Charges :
          \/ \E k \in Terms : CreateCharge(c, k)
          \/ Settle(c) \/ ReturnFee(c)
          \/ \E n \in Refunds : RefundCharge(c, n) \/ RefundFee(c, n)

Spec == Init /\ [][Next]_vars

-----------------------------------------------------------------------------
\* What refunds and returned fees of a charge took out of a pot without asking
Taken(c, pot) ==
    IF charge[c].status = "none" THEN 0
    ELSE (IF Bearer(c) = pot THEN charge[c].refunded ELSE 0)
         + (IF pot = Platform THEN charge[c].feeMoved ELSE 0)

Unchecked(pot) == SumTo([c \in Charges |-> Taken(c, pot)], MaxCharges)

\* Payouts, transfers and reversals, queued or racing, never spend the same
\* money twice: what a pot is short of, if it is, refunds, returned fees or
\* Wise funding took (engine.ts createTransfer: "two transfers racing for the
\* same funds cannot both pass the check"; reverseTransfer: "Money cannot be
\* pulled out of an account that has already spent it").  Rows keep their types.
NeverOverdrawn ==
    /\ ConnectTypeOK
    /\ \A pot \in Pots : Unfunded(pot) + Unchecked(pot) >= 0

\* What an account holds out of a forwarded charge: its fee and its share
Holds(c) ==
    charge[c].feeMoved
        + SumTo([t \in Rows |-> IF t \in Named(c) THEN moved[t][On(c).account] ELSE 0],
                MaxTransfers)

\* Once the share of a forwarded charge has been taken back, no return of its
\* fee, asked for before, beside or after the reversal, gives the account
\* anything out of it (engine.ts refundPlatformFee: "Paying the fee across
\* anyway would hand the account money out of a charge it was fully reversed
\* out of"), as long as no transfer made by hand names the charge.
ReversedGainsNothing ==
    [][\A c \in Charges :
        /\ charge[c].status = "settled" /\ On(c).mode = "forwarded"
        /\ \E t \in Rows : Named(c) = {t} /\ transfer[t].status = "reversed"
        /\ Named(c)' = Named(c)
        => Holds(c)' <= Holds(c)]_vars
=============================================================================
