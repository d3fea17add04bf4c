----------------------------- MODULE CacheTable -----------------------------
(***************************************************************************)
(* How the processes of an appliance get their table ready:                *)
(* DynamoDBCacheStore.ensure_table_exists (cache/dynamodb.py), called once *)
(* by the web service and the command line, and several times by a batch   *)
(* run (_ensure_cache_ready, application/batch.py).                        *)
(*                                                                         *)
(* Nothing keeps two of them apart: each call to DynamoDB is a step, and a *)
(* call is rejected when another process was faster.  A process that gives *)
(* up is started again, by Docker, the timer or an operator.  Nobody       *)
(* deletes the table or its ttl setting.                                   *)
(***************************************************************************)
EXTENDS Naturals

CONSTANTS
    Batches,   \* batch runs
    Others,    \* processes that try once
    Attempts,  \* attempts of a batch run
    MaxFaults  \* bound on the calls that fail and the processes that are killed

ASSUME AttemptsAssumption == Attempts \in Nat \ {0}
ASSUME MaxFaultsAssumption == MaxFaults \in Nat

VARIABLES
    useLocal,  \* USE_LOCAL_DB, the same for all
    table,     \* DynamoDB: "absent", "creating" or "active"
    ttl,       \* DynamoDB: expiry on the ttl attribute
    pc,        \* the next call of each process
    tries,     \* failed attempts since it was started
    raced,     \* history: how often it lost each of the two races
    early,     \* history: and how often, since then, the table was not active yet
    faults     \* history: calls that failed of themselves, and kills

histories == <<raced, early, faults>>
vars == <<useLocal, table, ttl, pc, tries, histories>>

Procs == Batches \cup Others
Races == {"create", "ttl"}
Calls == {"load", "create", "wait", "describe", "update"}

TypeOK ==
    /\ useLocal \in BOOLEAN
    /\ table \in {"absent", "creating", "active"}
    /\ ttl \in {"disabled", "enabling", "enabled"}
    /\ ttl # "disabled" => table = "active"
    /\ pc \in [Procs -> Calls \cup {"ready", "failed"}]
    /\ tries \in [Procs -> 0..Attempts]
    /\ raced \in [Procs -> [Races -> Nat]]
    /\ early \in [Procs -> Nat]
    /\ faults \in 0..MaxFaults

Init ==
    /\ useLocal \in BOOLEAN
    /\ table \in {"absent", "active"}
    /\ ttl = "disabled"
    /\ pc = [p \in Procs |-> "failed"]
    /\ tries = [p \in Procs |-> 0]
    /\ raced = [p \in Procs |-> [k \in Races |-> 0]]
    /\ early = [p \in Procs |-> 0]
    /\ faults = 0

-----------------------------------------------------------------------------
(* How an attempt ends. *)

GoTo(p, call) == pc' = [pc EXCEPT ![p] = call] /\ UNCHANGED tries

\* Mutant of CacheError: the next attempt goes on where this one failed.
CacheErrorResumes(p) ==
    /\ tries' = [tries EXCEPT ![p] = @ + 1]
    /\ pc' = [pc EXCEPT ![p] =
                 IF p \in Batches /\ tries[p] + 1 < Attempts THEN @ ELSE "failed"]

\* CacheError: a batch run tries again after a while, unless it has had all its
\* attempts; any other process ends.
CacheError(p) ==
    /\ tries' = [tries EXCEPT ![p] = @ + 1]
    /\ pc' = [pc EXCEPT ![p] =
                 IF p \in Batches /\ tries[p] + 1 < Attempts THEN "load" ELSE "failed"]

\* Mutant of TtlError: the table is good enough without expiry.
TtlErrorIgnored(p) == GoTo(p, "ready")

\* DynamoDB Local may lack the setting; expired rows are ignored at read time
\* anyway.  In cloud mode it is an error.
TtlError(p) == IF useLocal THEN GoTo(p, "ready") ELSE CacheError(p)

Lost(p, race) == raced' = [raced EXCEPT ![p][race] = @ + 1] /\ UNCHANGED early
TooEarly(p) == early' = [early EXCEPT ![p] = @ + 1] /\ UNCHANGED raced
Fault == faults < MaxFaults /\ faults' = faults + 1 /\ UNCHANGED <<raced, early>>

-----------------------------------------------------------------------------
(* The calls of ensure_table_exists, as DynamoDB answers them. *)

Load(p) ==
    /\ pc[p] = "load"
    /\ GoTo(p, IF table = "absent" THEN "create" ELSE "describe")
    /\ UNCHANGED <<useLocal, table, ttl, histories>>

\* DynamoDB Local has the table at once.
NewTable == table' = IF useLocal THEN "active" ELSE "creating"

Create(p) ==
    /\ pc[p] = "create"
    /\ \/ /\ table = "absent"
          /\ NewTable
          /\ GoTo(p, "wait")
          /\ UNCHANGED <<raced, early>>
       \/ /\ table # "absent"
          /\ Lost(p, "create")
          /\ CacheError(p)
          /\ UNCHANGED table
    /\ UNCHANGED <<useLocal, ttl, faults>>

\* Mutant of Wait: the other of the two waiters for tables, table_not_exists.
WaitNotExists(p) ==
    /\ pc[p] = "wait"
    /\ table = "absent"
    /\ GoTo(p, "describe")
    /\ UNCHANGED <<useLocal, table, ttl, histories>>

\* The waiter returns when the table is active.
Wait(p) ==
    /\ pc[p] = "wait"
    /\ table = "active"
    /\ GoTo(p, "describe")
    /\ UNCHANGED <<useLocal, table, ttl, histories>>

Describe(p) ==
    /\ pc[p] = "describe"
    /\ GoTo(p, IF ttl = "disabled" THEN "update" ELSE "ready")
    /\ UNCHANGED <<useLocal, table, ttl, histories>>

\* The update is rejected for a table that is being created, and where expiry
\* has been enabled meanwhile.
Update(p) ==
    /\ pc[p] = "update"
    /\ \/ /\ table = "active" /\ ttl = "disabled"
          /\ ttl' = "enabling"
          /\ GoTo(p, "ready")
          /\ UNCHANGED <<raced, early>>
       \/ /\ table = "creating"
          /\ TooEarly(p)
          /\ TtlError(p)
          /\ UNCHANGED ttl
       \/ /\ ttl # "disabled"
          /\ Lost(p, "ttl")
          /\ TtlError(p)
          /\ UNCHANGED ttl
    /\ UNCHANGED <<useLocal, table, faults>>

\* A call fails of itself, perhaps after it took effect, or the waiter gives up.
CallFails(p) ==
    /\ pc[p] \in Calls
    /\ Fault
    /\ \/ pc[p] = "create" /\ table = "absent" /\ NewTable /\ UNCHANGED ttl
       \/ /\ pc[p] = "update" /\ table = "active" /\ ttl = "disabled"
          /\ ttl' = "enabling" /\ UNCHANGED table
       \/ UNCHANGED <<table, ttl>>
    /\ IF pc[p] \in {"describe", "update"} THEN TtlError(p) ELSE CacheError(p)
    /\ UNCHANGED useLocal

-----------------------------------------------------------------------------
(* The rest. *)

\* A process is started, for the first time or again.
Start(p) ==
    /\ pc[p] \in {"ready", "failed"}
    /\ pc' = [pc EXCEPT ![p] = "load"]
    /\ tries' = [tries EXCEPT ![p] = 0]
    /\ early' = [early EXCEPT ![p] = 0]
    /\ UNCHANGED <<useLocal, table, ttl, raced, faults>>

Kill(p) ==
    /\ pc[p] \in Calls
    /\ Fault
    /\ GoTo(p, "failed")
    /\ UNCHANGED <<useLocal, table, ttl>>

DynamoDB ==
    /\ \/ table = "creating" /\ table' = "active" /\ UNCHANGED ttl
       \/ ttl = "enabling" /\ ttl' = "enabled" /\ UNCHANGED table
    /\ UNCHANGED <<useLocal, pc, tries, histories>>

Step(p) == Load(p) \/ Create(p) \/ Wait(p) \/ Describe(p) \/ Update(p)

Next ==
    \/ \E p \in Procs : Step(p) \/ CallFails(p) \/ Start(p) \/ Kill(p)
    \/ DynamoDB

Spec == Init /\ [][Next]_vars

\* Calls return, processes are started again, and DynamoDB finishes what it
\* has begun.
FairSpec ==
    /\ Spec
    /\ \A p \in Procs : WF_vars(Step(p)) /\ WF_vars(Start(p))
    /\ WF_vars(DynamoDB)

-----------------------------------------------------------------------------
(* Properties. *)

\* When ensure_table_exists has returned, the table can be used, and managed
\* DynamoDB expires its rows, whoever of the processes has set it up
\* (dynamodb.py:87-155).
ReadyMeansUsable ==
    \A p \in Procs : pc[p] = "ready" =>
        /\ table = "active"
        /\ ~useLocal => ttl # "disabled"

\* A process loses each of the two races at most once, however often it tries
\* and is started, so that they cost a batch run two of its attempts at most.
\* Further attempts fail for calls that failed of themselves, or because they
\* met the table of another process before it was active.  That happens in
\* cloud mode only, but there it can use up all attempts, with a second between
\* them, although no call failed (batch.py:24-42, dynamodb.py:135-155).
RacesCostTwoAttempts ==
    \A p \in Procs :
        /\ \A k \in Races : raced[p][k] <= 1
        /\ tries[p] <= 2 + early[p] + faults
        /\ useLocal => early[p] = 0

\* Whatever was left half done, every process that is started again when it
\* fails gets ready in the end.
EveryProcessGetsReady == \A p \in Procs : []<>(pc[p] = "ready")
=============================================================================
