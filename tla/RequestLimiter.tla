--------------------------- MODULE RequestLimiter ---------------------------
(***************************************************************************)
(* The in-memory sliding-window limiters of web/app.py, one of which       *)
(* limits verifications and one advice, each per client.  A bucket is a    *)
(* limiter and a client key.                                               *)
(*                                                                         *)
(* allow() takes the time and the uncontended lock without giving way to   *)
(* another coroutine, so that one call is one step.  granted records when  *)
(* the requests of a bucket were allowed; no action reads it.              *)
(***************************************************************************)
EXTENDS Integers, Sequences

CONSTANTS
    Buckets,
    PerMinute,  \* requests_per_minute of each bucket
    Window,     \* the 60 seconds, in ticks
    MaxTime     \* bound on the clock

ASSUME PerMinuteAssumption == PerMinute \in [Buckets -> Nat \ {0}]
ASSUME WindowAssumption == Window \in Nat \ {0}
ASSUME MaxTimeAssumption == MaxTime \in Nat

VARIABLES
    clock,    \* time.monotonic
    recent,   \* times of the recent requests of each bucket
    granted,  \* history: times of all allowed requests
    decision  \* the last call at this moment: its bucket, what it returned

limiterVars == <<clock, recent, granted, decision>>

NoDecision == [bucket |-> <<>>, allowed |-> TRUE]

Times == 0..MaxTime

LimiterTypeOK ==
    /\ clock \in Times
    /\ recent \in [Buckets -> Seq(Times)]
    /\ granted \in [Buckets -> Seq(Times)]
    /\ decision \in [bucket : Buckets, allowed : BOOLEAN] \cup {NoDecision}
    /\ \A b \in Buckets : Len(recent[b]) <= PerMinute[b]

LimiterInit ==
    /\ clock = 0
    /\ recent = [b \in Buckets |-> <<>>]
    /\ granted = [b \in Buckets |-> <<>>]
    /\ decision = NoDecision

\* Mutants of Expired: one tick too late; one tick too early.
ExpiredLate(x) == x < clock - Window
ExpiredEarly(x) == x <= clock - Window + 1

\* A request at or before the cutoff no longer counts.
Expired(x) == x <= clock - Window

\* The loop that pops expired requests off the left end pops n of them, up to
\* one that counts.
Pops(times, n) ==
    /\ \A i \in 1..n : Expired(times[i])
    /\ n < Len(times) => ~Expired(times[n + 1])

\* One call of allow.
Allow(b) ==
    /\ \E n \in 0..Len(recent[b]) :
          LET rest == SubSeq(recent[b], n + 1, Len(recent[b]))
              allowed == Len(rest) < PerMinute[b]
          IN  /\ Pops(recent[b], n)
              /\ recent' = [recent EXCEPT ![b] =
                               IF allowed THEN Append(rest, clock) ELSE rest]
              /\ granted' = [granted EXCEPT ![b] =
                                IF allowed THEN Append(@, clock) ELSE @]
              /\ decision' = [bucket |-> b, allowed |-> allowed]
    /\ UNCHANGED clock

\* Time passes.
Second ==
    /\ clock < MaxTime
    /\ clock' = clock + 1
    /\ decision' = NoDecision
    /\ UNCHANGED <<recent, granted>>

LimiterNext == Second \/ \E b \in Buckets : Allow(b)

LimiterSpec == LimiterInit /\ [][LimiterNext]_limiterVars

-----------------------------------------------------------------------------
(* Properties. *)

\* In no window of the given length is a client allowed more requests than
\* the limit: the first one over it comes at least Window after the first
\* (app.py:70-79; docs/browser-console.md:128).
WindowIsBounded ==
    \A b \in Buckets : \A i \in DOMAIN granted[b] :
        i + PerMinute[b] \in DOMAIN granted[b] =>
            granted[b][i + PerMinute[b]] - granted[b][i] >= Window

\* A request is refused only if its client was allowed as many requests as the
\* limit within the window, refused requests and those of others not counted.
RefusalIsEarned ==
    ~decision.allowed =>
        LET b == decision.bucket
            times == granted[b]
        IN  /\ Len(times) >= PerMinute[b]
            /\ clock - times[Len(times) - PerMinute[b] + 1] < Window
=============================================================================
