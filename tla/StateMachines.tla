--------------------------- MODULE StateMachines ---------------------------
(***************************************************************************)
(* The legality tables of the engine: which status may follow which, for   *)
(* every kind of row, and the two escape hatches that reopen a finished    *)
(* payment.  Every other module decides a move with these.                 *)
(***************************************************************************)
EXTENDS Integers

PaymentStatus ==
    {"created", "pending", "processing", "requires_action", "authorized",
     "successful", "partially_refunded", "refunded",
     "failed", "cancelled", "expired"}

TerminalPayment == {"failed", "cancelled", "expired", "refunded"}

PAYMENT_TRANSITIONS ==
    [s \in PaymentStatus |->
        CASE s = "created" -> {"pending", "processing", "requires_action",
                               "failed", "cancelled", "expired"}
          [] s = "pending" -> {"processing", "requires_action", "authorized",
                               "successful", "failed", "cancelled", "expired"}
          [] s = "processing" -> {"requires_action", "authorized",
                                  "successful", "failed", "expired"}
          [] s = "requires_action" -> {"processing", "authorized", "successful",
                                       "failed", "cancelled", "expired"}
          [] s = "authorized" -> {"processing", "successful", "failed",
                                  "cancelled", "expired"}
          [] s = "successful" -> {"partially_refunded", "refunded"}
          [] s = "partially_refunded" -> {"partially_refunded", "refunded"}
          [] OTHER -> {}]

\* Mutant: a partly refunded payment may become successful again
canTransitionRestored(from, to) ==
    \/ to \in PAYMENT_TRANSITIONS[from]
    \/ from = "partially_refunded" /\ to = "successful"

canTransitionPayment(from, to) == to \in PAYMENT_TRANSITIONS[from]

\* Where a retried payment may resume from failed.
RETRY_TARGETS == {"pending", "processing", "requires_action"}

\* The move does not throw.  reversal and retry are the caller's flags.
assertPaymentTransition(from, to, reversal, retry) ==
    /\ from # to
    /\ \/ canTransitionPayment(from, to)
       \/ reversal /\ from \in TerminalPayment
       \/ retry /\ from = "failed" /\ to \in RETRY_TARGETS

RefundStatus ==
    {"pending", "processing", "needs_attention", "successful", "failed"}

REFUND_TRANSITIONS ==
    [s \in RefundStatus |->
        CASE s = "pending" -> {"processing", "needs_attention",
                               "successful", "failed"}
          [] s = "processing" -> {"needs_attention", "successful", "failed"}
          [] s = "needs_attention" -> {"processing", "successful", "failed"}
          [] OTHER -> {}]

\* Mutant: a settled refund may bounce
assertRefundBounce(from, to) ==
    /\ from # to
    /\ \/ to \in REFUND_TRANSITIONS[from]
       \/ from = "successful" /\ to = "failed"

assertRefundTransition(from, to) == from # to /\ to \in REFUND_TRANSITIONS[from]

TransferStatus ==
    {"created", "pending", "processing", "successful", "failed",
     "cancelled", "reversed"}

TRANSFER_TRANSITIONS ==
    [s \in TransferStatus |->
        CASE s = "created" -> {"pending", "processing", "failed", "cancelled"}
          [] s = "pending" -> {"processing", "successful", "failed", "cancelled"}
          [] s = "processing" -> {"successful", "failed", "reversed"}
          [] s = "successful" -> {"reversed"}
          [] OTHER -> {}]

assertTransferTransition(from, to) ==
    from # to /\ to \in TRANSFER_TRANSITIONS[from]

DisputeStatus ==
    {"awaiting_merchant_feedback", "awaiting_bank_feedback", "pending",
     "resolved"}

DISPUTE_TRANSITIONS ==
    [s \in DisputeStatus |->
        CASE s = "awaiting_merchant_feedback" ->
                 {"awaiting_bank_feedback", "pending", "resolved"}
          [] s = "awaiting_bank_feedback" -> {"pending", "resolved"}
          [] s = "pending" -> {"awaiting_bank_feedback", "resolved"}
          [] OTHER -> {}]

assertDisputeTransition(from, to) ==
    from # to /\ to \in DISPUTE_TRANSITIONS[from]

SubscriptionStatus ==
    {"trialing", "active", "non_renewing", "attention", "completed", "cancelled"}

SUBSCRIPTION_TRANSITIONS ==
    [s \in SubscriptionStatus |->
        CASE s = "trialing" -> {"active", "non_renewing", "cancelled", "completed"}
          [] s = "active" -> {"non_renewing", "attention", "completed", "cancelled"}
          [] s = "non_renewing" -> {"completed", "cancelled", "active"}
          [] s = "attention" -> {"active", "non_renewing", "completed", "cancelled"}
          [] OTHER -> {}]

assertSubscriptionTransition(from, to) ==
    from # to /\ to \in SUBSCRIPTION_TRANSITIONS[from]

isRenewable(status) == status \in {"active", "attention", "trialing"}

InvoiceStatus ==
    {"draft", "pending", "success", "failed", "void", "uncollectible"}

INVOICE_TRANSITIONS ==
    [s \in InvoiceStatus |->
        CASE s = "draft" -> {"pending", "void"}
          [] s = "pending" -> {"success", "failed", "void", "uncollectible"}
          [] s = "failed" -> {"success", "pending", "void", "uncollectible"}
          [] s = "uncollectible" -> {"success", "void"}
          [] OTHER -> {}]

assertInvoiceTransition(from, to) ==
    from # to /\ to \in INVOICE_TRANSITIONS[from]

\* A refund request that does not exceed what is left.
assertRefundable(paymentAmount, alreadyRefunded, requested) ==
    requested > 0 /\ requested <= paymentAmount - alreadyRefunded

\* Where a payment lands once a refund settles.
refundedStatus(paymentAmount, totalRefunded) ==
    IF totalRefunded >= paymentAmount THEN "refunded" ELSE "partially_refunded"
=============================================================================
