------------------------------ MODULE Waiters -------------------------------
(***************************************************************************)
(* asyncio.Semaphore (Python 3.12 and later), for tasks that are numbered  *)
(* in the order in which they come to it.                                  *)
(*                                                                         *)
(* It is first come, first served.  A released permit is taken at once for *)
(* the first waiter, who resumes only later, and who stays in the line     *)
(* until then.  A newcomer lines up behind it even if a permit is free,    *)
(* and when the first in the line resumes it wakes up the next.            *)
(***************************************************************************)
EXTENDS Integers, FiniteSets

\* The waiter that release() hands the permit to.
First(waiting) == CHOOSE t \in waiting : \A u \in waiting : t <= u

\* A newcomer has to line up: no permit is free, or somebody is in the line,
\* woken up or not.
Locked(free, line) == free = 0 \/ line # {}

\* Those whom the end of acquire() wakes up when some permits are free: the
\* first of those who wait.  Some versions of Python wake up one of them,
\* later ones as many as there are permits.
WakesUp(woken, free, waiting) ==
    /\ \A t \in woken, u \in waiting \ woken : t < u
    /\ Cardinality(woken) <= free
    /\ free > 0 /\ waiting # {} => woken # {}
=============================================================================
