------------------------------- MODULE WeWire -------------------------------
(***************************************************************************)
(* WeWire's collections and payouts.  The key is in the body: the answer   *)
(* is looked up, the request run, and the answer stored; the reference is  *)
(* made up when the body has none.                                         *)
(***************************************************************************)
EXTENDS Gateway

toWewireStatus(s) ==
    CASE s \in {"created", "pending", "processing", "requires_action",
                "authorized"} -> "PENDING"
      [] s \in {"successful", "refunded", "partially_refunded"} -> "SUCCESSFUL"
      [] s \in {"failed", "expired"} -> "FAILED"
      [] s = "cancelled" -> "CANCELLED"

toWewireTransferStatus(s) ==
    CASE s \in {"created", "pending", "processing"} -> "PENDING"
      [] s = "successful" -> "SUCCESSFUL"
      [] s = "failed" -> "FAILED"
      [] s = "cancelled" -> "CANCELLED"
      [] s = "reversed" -> "REVERSED"

idempotent(program) == Lookup \o program \o Store

\* The sandbox number of the request decides between the two outcomes.
WeWireCollect(t, o) ==
    row.kind # "payout" /\ ServeKeyed(t, idempotent(
        CreateWith("pending", {"fresh"}) \o Enqueue("simulate", o)))

\* initiate-payout, which always settles, and disbursements
WeWirePayout(t, o) ==
    row.kind # "payment" /\ ServeKeyed(t, idempotent(
        CreatePayout("pending", {"fresh"}) \o Enqueue("settle", o)))

WeWireRoute(t) ==
    \/ \E o \in {"success", "declined"} : WeWireCollect(t, o)
    \/ \E o \in {"successful", "failed"} : WeWirePayout(t, o)
=============================================================================
