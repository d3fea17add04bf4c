------------------------- MODULE MCWebConsoleClock --------------------------
(* Instances of WebConsoleClock for TLC. *)
EXTENDS WebConsoleClock
=============================================================================
