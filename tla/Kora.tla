-------------------------------- MODULE Kora --------------------------------
(***************************************************************************)
(* Kora's charges, disbursements and hosted checkout, as programs of the   *)
(* gateway.  A card or a wallet parks the charge and the merchant's next   *)
(* call decides it; only the checkout page leaves the outcome to a job.    *)
(***************************************************************************)
EXTENDS Gateway

\* Mutant: money given back is shown as a failure
toKoraStatusRefunded(s) ==
    CASE s \in {"created", "pending"} -> "pending"
      [] s \in {"processing", "requires_action", "authorized"} -> "processing"
      [] s = "successful" -> "success"
      [] s \in {"failed", "cancelled", "refunded", "partially_refunded"} -> "failed"
      [] s = "expired" -> "expired"

toKoraStatus(s) ==
    CASE s \in {"created", "pending"} -> "pending"
      [] s \in {"processing", "requires_action", "authorized"} -> "processing"
      [] s \in {"successful", "refunded", "partially_refunded"} -> "success"
      [] s \in {"failed", "cancelled"} -> "failed"
      [] s = "expired" -> "expired"

toKoraTransferStatus(s) ==
    CASE s = "successful" -> "success"
      [] s \in {"failed", "cancelled"} -> "failed"
      [] s \in {"reversed", "processing"} -> s
      [] OTHER -> "pending"

KoraInitialize(t) == ServeNew(t, Create("payment", "pending"))

\* A card, or a wallet that is sent a prompt, waits for the payer.
KoraCharge(t) ==
    ServeNew(t, Create("payment", "pending") \o To("requires_action"))

\* The OTP of a card or of a wallet
KoraAuthorize(t, o) ==
    ServeIn({"requires_action"}, t, Apply(Stepped(o)))

\* The prompt answered on the handset: no status is checked.
KoraAuthorizeStk(t, o) == ServeRead(t, Apply(Stepped(o)))

KoraBankTransfer(t) ==
    ServeNew(t, CreateWith("pending", {"expires"}) \o To("processing"))

\* Money lands on a virtual account: a payment of its own, settled at once.
KoraCredit(t) ==
    ServeNew(t, CreateWith("processing", {"fresh"}) \o Apply("success"))

KoraRefund(t) == ServeOn("payment", t, Refund \o RefundTo("successful"))

\* Single, or one entry of a bulk disbursement
KoraDisburse(t) == ServeNew(t, Create("payout", "processing"))

\* The hosted page: the charge starts from whatever status allows it, one
\* that waits for an OTP included.
KoraPay(t, o) ==
    ServeOn("payment", t, To("processing") \o Enqueue("simulate", o))

KoraRoute(t) ==
    \/ KoraInitialize(t) \/ KoraCharge(t) \/ KoraBankTransfer(t)
    \/ KoraCredit(t) \/ KoraRefund(t) \/ KoraDisburse(t)
    \/ \E o \in Outcomes :
          KoraAuthorize(t, o) \/ KoraAuthorizeStk(t, o) \/ KoraPay(t, o)
=============================================================================
