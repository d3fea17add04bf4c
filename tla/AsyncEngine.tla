---------------------------- MODULE AsyncEngine -----------------------------
(***************************************************************************)
(* AsyncVerificationEngine.verify_batch_async, as batch.py runs it: one    *)
(* coroutine per address, all of them limited by a global semaphore and by *)
(* one semaphore per domain, each address verified in a thread of the      *)
(* event loop's executor.                                                  *)
(*                                                                         *)
(* A coroutine (pc) and its thread (thread) are two actors: the loop hears *)
(* of a thread that ended only later, and a cancelled coroutine leaves its *)
(* thread running.  The tasks are numbered in batch order.  gather starts  *)
(* them in that order and asyncio.Semaphore is first come, first served,   *)
(* so the order of the waiters of either semaphore is the batch order and  *)
(* needs no queue of its own.  Nobody comes to the global semaphore once   *)
(* all have started, so that only the semaphore of a domain can have a     *)
(* newcomer line up behind somebody who was woken up.                      *)
(***************************************************************************)
EXTENDS Waiters

CONSTANTS
    N,            \* number of addresses in the batch
    Domains,      \* their domains
    GlobalLimit,  \* max_concurrent
    DomainLimit,  \* max_concurrent_per_provider
    Workers       \* threads of the default executor

ASSUME NAssumption == N \in Nat
ASSUME GlobalLimitAssumption == GlobalLimit \in Nat \ {0}
ASSUME DomainLimitAssumption == DomainLimit \in Nat \ {0}
ASSUME WorkersAssumption == Workers \in Nat \ {0}

VARIABLES
    domain,      \* the domain of each address
    pc,          \* where each coroutine is
    thread,      \* what its call of sync_engine.verify does
    globalFree,  \* value of global_semaphore
    domainFree,  \* values of provider_semaphores
    main         \* verify_batch_async and the asyncio.run around it

vars == <<domain, pc, thread, globalFree, domainFree, main>>

Tasks == 1..N
PCs == { "new", "waitGlobal", "gotGlobal", "waitDomain", "gotDomain", "submitted",
         "done", "failed", "cancelled" }
Over == {"done", "failed", "cancelled"}
Threads == {"none", "queued", "running", "returned", "raised"}

\* got...: a released permit was handed over, and the coroutine has not
\* resumed yet.
HoldsGlobal(t) == pc[t] \in {"gotGlobal", "waitDomain", "gotDomain", "submitted"}
HoldsDomain(t) == pc[t] \in {"gotDomain", "submitted"}
Members(d) == {t \in Tasks : domain[t] = d}
GlobalHolders == {t \in Tasks : HoldsGlobal(t)}
DomainHolders(d) == {t \in Members(d) : HoldsDomain(t)}
Running == {t \in Tasks : thread[t] = "running"}

\* Which thread states go with which coroutine states.
ThreadsOK ==
    \A t \in Tasks :
        /\ pc[t] = "submitted" => thread[t] # "none"
        /\ pc[t] \notin {"submitted"} \cup Over => thread[t] = "none"
        /\ pc[t] = "done" => thread[t] = "returned"
        /\ pc[t] = "failed" => thread[t] = "raised"
        /\ thread[t] = "queued" => pc[t] = "submitted"

TypeOK ==
    /\ domain \in [Tasks -> Domains]
    /\ pc \in [Tasks -> PCs]
    /\ thread \in [Tasks -> Threads]
    /\ globalFree \in 0..GlobalLimit
    /\ domainFree \in [Domains -> 0..DomainLimit]
    /\ main \in {"gather", "closing", "returned", "raised"}
    /\ ThreadsOK

Init ==
    /\ domain \in [Tasks -> Domains]
    /\ pc = [t \in Tasks |-> "new"]
    /\ thread = [t \in Tasks |-> "none"]
    /\ globalFree = GlobalLimit
    /\ domainFree = [d \in Domains |-> DomainLimit]
    /\ main = "gather"

-----------------------------------------------------------------------------
(* The semaphores. *)

GlobalWaiters == {t \in Tasks : pc[t] = "waitGlobal"}
DomainWaiters(d) == {t \in Tasks : pc[t] = "waitDomain" /\ domain[t] = d}
DomainWoken(d) == {t \in Tasks : pc[t] = "gotDomain" /\ domain[t] = d}
DomainLocked(d) == Locked(domainFree[d], DomainWaiters(d) \cup DomainWoken(d))

\* Mutant of AcquireDomain: the permits of a domain are not counted.
AcquireDomainUncounted(t) ==
    /\ pc' = [pc EXCEPT ![t] = "submitted"]
    /\ thread' = [thread EXCEPT ![t] = "queued"]
    /\ UNCHANGED domainFree

\* "async with domain_semaphore", which t enters with the global permit it
\* holds, and run_in_executor, which follows without a pause.
AcquireDomain(t) ==
    \/ /\ ~DomainLocked(domain[t])
       /\ domainFree' = [domainFree EXCEPT ![domain[t]] = @ - 1]
       /\ pc' = [pc EXCEPT ![t] = "submitted"]
       /\ thread' = [thread EXCEPT ![t] = "queued"]
    \/ /\ DomainLocked(domain[t])
       /\ pc' = [pc EXCEPT ![t] = "waitDomain"]
       /\ UNCHANGED <<domainFree, thread>>

\* A permit that is released goes to the first waiter, if there is one.
HandOver(t, end) ==
    LET heirs == (IF DomainWaiters(domain[t]) = {} THEN {}
                  ELSE {First(DomainWaiters(domain[t]))})
        next == IF GlobalWaiters = {} THEN {} ELSE {First(GlobalWaiters)}
    IN  /\ pc' = [u \in Tasks |-> IF u = t THEN end
                                  ELSE IF u \in heirs THEN "gotDomain"
                                  ELSE IF u \in next THEN "gotGlobal"
                                  ELSE pc[u]]
        /\ domainFree' = IF heirs # {} THEN domainFree
                         ELSE [domainFree EXCEPT ![domain[t]] = @ + 1]
        /\ globalFree' = IF next # {} THEN globalFree ELSE globalFree + 1

-----------------------------------------------------------------------------
(* The event loop. *)

AllStarted == \A t \in Tasks : pc[t] # "new"

\* The first step of a coroutine: gather has created the tasks in order, and
\* they all take this step before the loop looks at anything else.  No permit
\* was released yet, so that none is free while there is a line.
Start(t) ==
    /\ pc[t] = "new"
    /\ \A u \in Tasks : u < t => pc[u] # "new"
    /\ IF globalFree > 0
       THEN globalFree' = globalFree - 1 /\ AcquireDomain(t)
       ELSE /\ pc' = [pc EXCEPT ![t] = "waitGlobal"]
            /\ UNCHANGED <<thread, globalFree, domainFree>>
    /\ UNCHANGED <<domain, main>>

\* A coroutine that was handed the global permit resumes, in the order of the
\* hand-overs.
ResumeGlobal(t) ==
    /\ pc[t] = "gotGlobal"
    /\ AllStarted
    /\ \A u \in Tasks : u < t => pc[u] # "gotGlobal"
    /\ AcquireDomain(t)
    /\ UNCHANGED <<domain, globalFree, main>>

\* Mutant of ResumeDomain: the others are left to the next release.
ResumeDomainAlone(t) ==
    /\ pc[t] = "gotDomain"
    /\ AllStarted
    /\ pc' = [pc EXCEPT ![t] = "submitted"]
    /\ thread' = [thread EXCEPT ![t] = "queued"]
    /\ UNCHANGED <<domain, globalFree, domainFree, main>>

\* A coroutine that was handed the permit of its domain wakes up those who
\* lined up behind it although one was free, and submits its call.
ResumeDomain(t) ==
    /\ pc[t] = "gotDomain"
    /\ AllStarted
    /\ \E woken \in SUBSET DomainWaiters(domain[t]) :
          /\ WakesUp(woken, domainFree[domain[t]], DomainWaiters(domain[t]))
          /\ pc' = [u \in Tasks |-> IF u = t THEN "submitted"
                                    ELSE IF u \in woken THEN "gotDomain"
                                    ELSE pc[u]]
          /\ domainFree' = [domainFree EXCEPT ![domain[t]] = @ - Cardinality(woken)]
    /\ thread' = [thread EXCEPT ![t] = "queued"]
    /\ UNCHANGED <<domain, globalFree, main>>

\* Mutants of Deliver: a call that raised keeps its permits; a permit that is
\* released wakes nobody up.
DeliverLeaks(t) ==
    /\ pc[t] = "submitted"
    /\ AllStarted
    /\ \/ thread[t] = "returned" /\ HandOver(t, "done")
       \/ /\ thread[t] = "raised"
          /\ pc' = [pc EXCEPT ![t] = "failed"]
          /\ UNCHANGED <<globalFree, domainFree>>
    /\ UNCHANGED <<domain, thread, main>>
DeliverSilently(t) ==
    /\ pc[t] = "submitted"
    /\ AllStarted
    /\ thread[t] \in {"returned", "raised"}
    /\ pc' = [pc EXCEPT ![t] = IF thread[t] = "returned" THEN "done" ELSE "failed"]
    /\ globalFree' = globalFree + 1
    /\ domainFree' = [domainFree EXCEPT ![domain[t]] = @ + 1]
    /\ UNCHANGED <<domain, thread, main>>

\* The loop learns that a call has ended: the coroutine leaves both "async
\* with" blocks, with a result or with the exception of the call.
Deliver(t) ==
    /\ pc[t] = "submitted"
    /\ AllStarted
    /\ \/ thread[t] = "returned" /\ HandOver(t, "done")
       \/ thread[t] = "raised" /\ HandOver(t, "failed")
    /\ UNCHANGED <<domain, thread, main>>

\* gather has every result.
Return ==
    /\ main = "gather"
    /\ \A t \in Tasks : pc[t] = "done"
    /\ main' = "returned"
    /\ UNCHANGED <<domain, pc, thread, globalFree, domainFree>>

\* Mutant of CancelAll: coroutines that wait for a semaphore are not cancelled.
CancelSubmitted ==
    /\ main = "gather"
    /\ \E t \in Tasks : pc[t] = "failed"
    /\ main' = "closing"
    /\ pc' = [t \in Tasks |-> IF pc[t] = "submitted" THEN "cancelled" ELSE pc[t]]
    /\ thread' = [t \in Tasks |-> IF thread[t] = "queued" THEN "none" ELSE thread[t]]
    /\ globalFree' = globalFree + Cardinality({t \in Tasks : pc[t] = "submitted"})
    /\ domainFree' = [d \in Domains |->
          domainFree[d] + Cardinality({t \in Members(d) : pc[t] = "submitted"})]
    /\ UNCHANGED domain

\* gather raises the first exception, and asyncio.run cancels what is left:
\* the coroutines leave their blocks and so release every permit, calls that
\* have not begun are withdrawn, running ones cannot be.
CancelAll ==
    /\ main = "gather"
    /\ \E t \in Tasks : pc[t] = "failed"
    /\ main' = "closing"
    /\ pc' = [t \in Tasks |-> IF pc[t] \in Over THEN pc[t] ELSE "cancelled"]
    /\ thread' = [t \in Tasks |-> IF thread[t] = "queued" THEN "none" ELSE thread[t]]
    /\ globalFree' = globalFree + Cardinality(GlobalHolders)
    /\ domainFree' = [d \in Domains |-> domainFree[d] + Cardinality(DomainHolders(d))]
    /\ UNCHANGED domain

\* asyncio.run has waited for the threads, for a limited time, and raises.
Raise ==
    /\ main = "closing"
    /\ main' = "raised"
    /\ UNCHANGED <<domain, pc, thread, globalFree, domainFree>>

-----------------------------------------------------------------------------
(* The threads of the executor. *)

Run(t) ==
    /\ thread[t] = "queued"
    /\ Cardinality(Running) < Workers
    /\ thread' = [thread EXCEPT ![t] = "running"]
    /\ UNCHANGED <<domain, pc, globalFree, domainFree, main>>

Finish(t) ==
    /\ thread[t] = "running"
    /\ \E end \in {"returned", "raised"} : thread' = [thread EXCEPT ![t] = end]
    /\ UNCHANGED <<domain, pc, globalFree, domainFree, main>>

-----------------------------------------------------------------------------

Loop ==
    \/ \E t \in Tasks : Start(t) \/ ResumeGlobal(t) \/ ResumeDomain(t) \/ Deliver(t)
    \/ Return
    \/ CancelAll
    \/ Raise

Next == Loop \/ \E t \in Tasks : Run(t) \/ Finish(t)

Spec == Init /\ [][Next]_vars

\* The loop and every thread keep running, and every engine call ends (each
\* lookup and SMTP command has a timeout).
FairSpec == Spec /\ WF_vars(Loop) /\ \A t \in Tasks : WF_vars(Run(t)) /\ WF_vars(Finish(t))

-----------------------------------------------------------------------------
(* Properties. *)

\* No permit is lost or made: what is free and what is held add up to the
\* limits, whatever calls raise (verifier.py:750-755).  After a cancellation this
\* holds by definition: CancelAll counts what is held.
PermitsAreConserved ==
    /\ globalFree + Cardinality(GlobalHolders) = GlobalLimit
    /\ \A d \in Domains : domainFree[d] + Cardinality(DomainHolders(d)) = DomainLimit

\* Never more engine calls in threads than the limits allow, in total and for
\* one domain, counting the threads that cancelled coroutines left behind
\* (docs/architecture.md:43; tests/test_verifier.py:460).
ProbesAreCapped ==
    /\ Cardinality(Running) <= GlobalLimit
    /\ \A d \in Domains : Cardinality(Running \cap Members(d)) <= DomainLimit

\* No wake-up is lost (verifier.py:750-751): while a global permit is free
\* nobody waits for it, and while one of a domain is free coroutines wait for it
\* only behind one that was woken up and, when it resumes, will wake them up.
NoPermitIdles ==
    /\ globalFree > 0 => GlobalWaiters = {}
    /\ \A d \in Domains :
          domainFree[d] > 0 /\ DomainWaiters(d) # {} => DomainWoken(d) # {}

\* With the limits batch.py uses (one limit for both), the semaphores of the
\* domains never make anybody wait: only the global limit has an effect.
DomainLimitIsIdle ==
    GlobalLimit <= DomainLimit => \A d \in Domains : DomainWaiters(d) = {}

\* Once asyncio.run has begun to cancel what is left of a failed batch, no
\* further engine call begins, although the permits of the running calls are
\* free again (verifier.py:757-759, batch.py:107-110).
NothingStartsAfterFailure == [][main # "gather" => Running' \subseteq Running]_vars

\* Every batch returns or raises: nobody waits for ever for a permit, although
\* those who wait for a domain's permit hold a global one.
EveryBatchEnds == <>(main \in {"returned", "raised"})
=============================================================================
