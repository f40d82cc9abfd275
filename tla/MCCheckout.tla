----------------------------- MODULE MCCheckout -----------------------------
(***************************************************************************)
(* One session, one request at a time beside the scheduler.  A session     *)
(* that only takes a payment is one of mode "save" without its completion  *)
(* work, so that the checks start from "save".                             *)
(***************************************************************************)
EXTENDS Checkout
=============================================================================
