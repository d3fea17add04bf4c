------------------------------ MODULE Evidence ------------------------------
(***************************************************************************)
(* The vocabulary of a verification (models.py): what an engine can say    *)
(* about an address, and which part of it is definitive.                   *)
(***************************************************************************)

\* VerificationStatus.
Statuses == {"Valid", "Invalid", "Catch-All", "Unknown"}

\* VerificationReason.
Reasons ==
    { "OK", "Syntax_Error", "Disposable", "No_MX", "User_Not_Found",
      "Greylisted", "Timeout", "Connection_Refused", "Unknown_Host",
      "DNS_Timeout", "DNS_Error", "SMTP_Temporary_Failure", "SMTP_Rejected" }

\* The test that every client of the cache applies before it stores or serves
\* a result: status != VerificationStatus.UNKNOWN.
DefinitiveStatus(status) == status # "Unknown"
=============================================================================
