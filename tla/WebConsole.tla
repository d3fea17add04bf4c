----------------------------- MODULE WebConsole -----------------------------
(***************************************************************************)
(* The concurrency of the web process (web/app.py): verification requests  *)
(* share a semaphore and run under a time limit, advice requests do        *)
(* neither, and the calls of both run in threads of one executor.          *)
(*                                                                         *)
(* A thread cannot be cancelled.  When the time limit strikes, the handler *)
(* answers and leaves behind the thread, the task that awaits it and a     *)
(* callback that will release the permit.  The limit may strike at any     *)
(* moment of the timed wait.                                               *)
(*                                                                         *)
(* A request is modelled from the moment its body has been read.  The      *)
(* requests are numbered in the order in which that happens, in which the  *)
(* semaphore serves them.                                                  *)
(***************************************************************************)
EXTENDS Waiters

CONSTANTS
    N,              \* bound on the number of requests
    MaxConcurrent,  \* WEB_MAX_CONCURRENT
    Workers         \* threads of the default executor

ASSUME NAssumption == N \in Nat
ASSUME MaxConcurrentAssumption == MaxConcurrent \in Nat \ {0}
ASSUME WorkersAssumption == Workers \in Nat \ {0}

VARIABLES
    kind,     \* "verify" or "advice"
    pc,       \* where the handler of each request is
    thread,   \* what its call of the service does
    done,     \* its asyncio task is done: the loop has the call's outcome
    owed,     \* release_after_completion was added to the task
    free,     \* value of verification_semaphore
    answer    \* what was answered

vars == <<kind, pc, thread, done, owed, free, answer>>

Requests == 1..N
PCs == {"new", "waiting", "granted", "timed", "untimed", "answered"}

\* The permit a request holds: its handler's, or the one its callback releases.
Holds(r) == pc[r] \in {"granted", "timed"} \/ owed[r]
Holders == {r \in Requests : Holds(r)}
Waiting == {r \in Requests : pc[r] = "waiting"}
Woken == {r \in Requests : pc[r] = "granted"}
Running == {r \in Requests : thread[r] = "running"}
Verifying == {r \in Running : kind[r] = "verify"}

\* Which of its parts a request has at which step.
PartsOK ==
    \A r \in Requests :
        /\ pc[r] \in {"waiting", "granted", "timed"} => kind[r] = "verify"
        /\ pc[r] \in {"new", "waiting", "granted"} => thread[r] = "none"
        /\ (thread[r] # "none" /\ kind[r] = "verify" /\ ~done[r]) =>
              (pc[r] = "timed" \/ owed[r])
        /\ done[r] => thread[r] \in {"returned", "raised"}
        /\ owed[r] => pc[r] = "answered" /\ kind[r] = "verify"

TypeOK ==
    /\ kind \in [Requests -> {"verify", "advice"}]
    /\ pc \in [Requests -> PCs]
    /\ thread \in [Requests -> {"none", "queued", "running", "returned", "raised"}]
    /\ done \in [Requests -> BOOLEAN]
    /\ owed \in [Requests -> BOOLEAN]
    /\ free \in 0..MaxConcurrent
    /\ answer \in [Requests -> {"none", "result", "error", "timeout", "refused"}]
    /\ PartsOK

Init ==
    /\ kind \in [Requests -> {"verify", "advice"}]
    /\ pc = [r \in Requests |-> "new"]
    /\ thread = [r \in Requests |-> "none"]
    /\ done = [r \in Requests |-> FALSE]
    /\ owed = [r \in Requests |-> FALSE]
    /\ free = MaxConcurrent
    /\ answer = [r \in Requests |-> "none"]

-----------------------------------------------------------------------------
(* The semaphore. *)

\* semaphore.release(): the permit goes to the first who waits, if anybody
\* does.  cs is what pc becomes apart from that.
Release(cs) ==
    IF Waiting = {}
    THEN free' = free + 1 /\ pc' = cs
    ELSE free' = free /\ pc' = [cs EXCEPT ![First(Waiting)] = "granted"]

-----------------------------------------------------------------------------
(* The handlers. *)

Submit(r) == thread' = [thread EXCEPT ![r] = "queued"]

\* A request is refused: its envelope is wrong or the limiter says no.
Refuse(r) ==
    /\ pc[r] = "new"
    /\ \A s \in Requests : s < r => pc[s] # "new"
    /\ pc' = [pc EXCEPT ![r] = "answered"]
    /\ answer' = [answer EXCEPT ![r] = "refused"]
    /\ UNCHANGED <<kind, thread, done, owed, free>>

\* A request is let in: advice goes to a thread at once; a verification does
\* so when it has a permit, and no time limit applies until then.
Arrive(r) ==
    /\ pc[r] = "new"
    /\ \A s \in Requests : s < r => pc[s] # "new"
    /\ \/ /\ kind[r] = "advice"
          /\ pc' = [pc EXCEPT ![r] = "untimed"]
          /\ Submit(r)
          /\ UNCHANGED free
       \/ /\ kind[r] = "verify" /\ ~Locked(free, Waiting \cup Woken)
          /\ free' = free - 1
          /\ pc' = [pc EXCEPT ![r] = "timed"]
          /\ Submit(r)
       \/ /\ kind[r] = "verify" /\ Locked(free, Waiting \cup Woken)
          /\ pc' = [pc EXCEPT ![r] = "waiting"]
          /\ UNCHANGED <<thread, free>>
    /\ UNCHANGED <<kind, done, owed, answer>>

\* Mutant of Resume: the others are left to the next release.
ResumeAlone(r) ==
    /\ pc[r] = "granted"
    /\ pc' = [pc EXCEPT ![r] = "timed"]
    /\ Submit(r)
    /\ UNCHANGED <<kind, done, owed, free, answer>>

\* A handler that was handed a permit resumes: it wakes up those who lined up
\* behind it although a permit was free; create_task and wait_for.
Resume(r) ==
    /\ pc[r] = "granted"
    /\ \E woken \in SUBSET Waiting :
          /\ WakesUp(woken, free, Waiting)
          /\ pc' = [s \in Requests |-> IF s = r THEN "timed"
                                       ELSE IF s \in woken THEN "granted"
                                       ELSE pc[s]]
          /\ free' = free - Cardinality(woken)
    /\ Submit(r)
    /\ UNCHANGED <<kind, done, owed, answer>>

\* What the handler answers when the call has ended in time.
Reply(r) == IF thread[r] = "raised" THEN "error" ELSE "result"

\* The call has ended in time: release the permit and answer.
Complete(r) ==
    /\ pc[r] = "timed"
    /\ done[r]
    /\ Release([pc EXCEPT ![r] = "answered"])
    /\ answer' = [answer EXCEPT ![r] = Reply(r)]
    /\ UNCHANGED <<kind, thread, done, owed>>

\* Mutants of TimeOut: the permit is released whether or not the thread still
\* runs; it is never released.
TimeOutReleases(r) ==
    /\ pc[r] = "timed"
    /\ answer' = [answer EXCEPT ![r] = "timeout"]
    /\ Release([pc EXCEPT ![r] = "answered"])
    /\ UNCHANGED <<kind, thread, done, owed>>
TimeOutForgets(r) ==
    /\ pc[r] = "timed"
    /\ answer' = [answer EXCEPT ![r] = "timeout"]
    /\ pc' = [pc EXCEPT ![r] = "answered"]
    /\ UNCHANGED <<kind, thread, done, owed, free>>

\* The time limit strikes: release the permit if the task is done after all,
\* leave that to the callback if it is not; either way the answer is an error.
TimeOut(r) ==
    /\ pc[r] = "timed"
    /\ answer' = [answer EXCEPT ![r] = "timeout"]
    /\ \/ /\ done[r]
          /\ Release([pc EXCEPT ![r] = "answered"])
          /\ UNCHANGED owed
       \/ /\ ~done[r]
          /\ pc' = [pc EXCEPT ![r] = "answered"]
          /\ owed' = [owed EXCEPT ![r] = TRUE]
          /\ UNCHANGED free
    /\ UNCHANGED <<kind, thread, done>>

\* release_after_completion.
Callback(r) ==
    /\ owed[r] /\ done[r]
    /\ owed' = [owed EXCEPT ![r] = FALSE]
    /\ Release(pc)
    /\ UNCHANGED <<kind, thread, done, answer>>

\* An advice call has ended: its answer is advice in any case.
Advise(r) ==
    /\ pc[r] = "untimed"
    /\ done[r]
    /\ pc' = [pc EXCEPT ![r] = "answered"]
    /\ answer' = [answer EXCEPT ![r] = "result"]
    /\ UNCHANGED <<kind, thread, done, owed, free>>

-----------------------------------------------------------------------------
(* The executor. *)

Run(r) ==
    /\ thread[r] = "queued"
    /\ Cardinality(Running) < Workers
    /\ thread' = [thread EXCEPT ![r] = "running"]
    /\ UNCHANGED <<kind, pc, done, owed, free, answer>>

Finish(r) ==
    /\ thread[r] = "running"
    /\ \E end \in {"returned", "raised"} : thread' = [thread EXCEPT ![r] = end]
    /\ UNCHANGED <<kind, pc, done, owed, free, answer>>

\* The loop hears of it, and the task is done.
Hear(r) ==
    /\ thread[r] \in {"returned", "raised"}
    /\ ~done[r]
    /\ done' = [done EXCEPT ![r] = TRUE]
    /\ UNCHANGED <<kind, pc, thread, owed, free, answer>>

-----------------------------------------------------------------------------

Loop(r) ==
    \/ Resume(r)
    \/ Complete(r)
    \/ TimeOut(r)
    \/ Callback(r)
    \/ Advise(r)
    \/ Hear(r)

Next == \E r \in Requests : Arrive(r) \/ Refuse(r) \/ Loop(r) \/ Run(r) \/ Finish(r)

Spec == Init /\ [][Next]_vars

-----------------------------------------------------------------------------
(* Properties. *)

\* Every permit is released exactly once: the free ones, those of handlers and
\* those of callbacks add up, whichever of the time limit, the end of the
\* thread and the callback comes first (app.py:90-123).
PermitsAreConserved == free + Cardinality(Holders) = MaxConcurrent

\* At no time do more verification threads run than WEB_MAX_CONCURRENT, those
\* of requests that were answered 504 long ago included.
VerificationsAreCapped == Cardinality(Verifying) <= MaxConcurrent

\* No wake-up is lost: requests wait while a permit is free only behind one
\* that was woken up and, when it resumes, will wake them up (app.py:101).
NoPermitIdles == free > 0 /\ Waiting # {} => Woken # {}

\* Every request is answered.
EveryRequestIsAnswered == \A r \in Requests : pc[r] # "new" ~> pc[r] = "answered"
=============================================================================
