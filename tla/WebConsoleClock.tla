-------------------------- MODULE WebConsoleClock ---------------------------
(***************************************************************************)
(* WebConsole with a clock: how long requests have been open, and how long *)
(* wait_for has been waiting for their calls.  The timer of wait_for is    *)
(* never late: the clock does not pass the time limit of a timed wait.     *)
(***************************************************************************)
EXTENDS WebConsole

CONSTANT TimeLimit  \* WEB_VERIFY_TIMEOUT_SECONDS, in ticks

VARIABLES
    age,    \* ticks since a request arrived, until it is answered
    timer   \* ticks since its wait_for began

clockVars == <<vars, age, timer>>

ClockInit ==
    /\ Init
    /\ age = [r \in Requests |-> 0]
    /\ timer = [r \in Requests |-> 0]

IsOpen(r) == pc[r] \notin {"new", "answered"}

\* A step of the console: the limit strikes when its time has come.
ConsoleStep ==
    /\ Next
    /\ \A r \in Requests :
          answer[r] = "none" /\ answer'[r] = "timeout" => timer[r] = TimeLimit
    /\ UNCHANGED <<age, timer>>

Tick ==
    /\ \A r \in Requests : pc[r] = "timed" => timer[r] < TimeLimit
    /\ age' = [r \in Requests |-> IF IsOpen(r) THEN age[r] + 1 ELSE age[r]]
    /\ timer' = [r \in Requests |-> IF pc[r] = "timed" THEN timer[r] + 1 ELSE timer[r]]
    /\ UNCHANGED vars

ClockNext == ConsoleStep \/ Tick

ClockSpec == ClockInit /\ [][ClockNext]_clockVars

\* "Requests are size-, time-, concurrency-, and rate-limited per web process"
\* (docs/browser-console.md:128): a verification request is answered within
\* the time limit.  The limit starts with the permit (app.py:101-114), so that
\* a request that has to wait for one has no limit.
RequestsTimeLimited == \A r \in Requests : kind[r] = "verify" => age[r] <= TimeLimit
=============================================================================
