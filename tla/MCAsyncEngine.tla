--------------------------- MODULE MCAsyncEngine ----------------------------
(* Instances of AsyncEngine for TLC. *)
EXTENDS AsyncEngine

CONSTANTS d1, d2

MCDomains == {d1, d2}
=============================================================================
