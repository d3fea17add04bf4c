------------------------ MODULE MCVerificationEngine ------------------------
(* Small instances of VerificationEngine. *)
EXTENDS VerificationEngine

\* One code of each class the engine tells apart: ready, accepted, cannot
\* verify, unavailable, greylisted, refused.
MCCodes == {220, 250, 252, 421, 450, 550}

\* smtplib's "line too long", and a temporary one.
MCFaultCodes == {421, 500}
=============================================================================
