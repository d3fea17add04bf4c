----------------------------- MODULE MCMailPath -----------------------------
(* A small instance of MailPath. *)
EXTENDS MailPath

CONSTANT bad   \* the empty input
=============================================================================
