----------------------------- MODULE CacheStore -----------------------------
(***************************************************************************)
(* The shared DynamoDB table behind ICacheStore (cache/dynamodb.py).       *)
(*                                                                         *)
(* Every client process (the web service, the command line, the batch run  *)
(* and the Postfix policy server) reaches the same table with three        *)
(* independent calls: GetItem, DeleteItem and PutItem.  None of them is    *)
(* conditional, so what a client read may have been replaced by the time   *)
(* it deletes or writes.  The table also loses entries by itself: DynamoDB *)
(* removes an expired entry some time after its ttl has passed.            *)
(***************************************************************************)
EXTENDS Evidence, Naturals

CONSTANTS
    Addresses,  \* normalized addresses, the keys of the table
    Requests,   \* the calls that look evidence up, produce it and store it
    Prior,      \* stands for whoever stored an entry before the model starts
    None,       \* no entry, no verdict
    Outcomes,   \* the statuses that occur, a bound on Statuses
    TTL,        \* default_ttl_seconds, in clock ticks
    MaxTime     \* bound on the clock

ASSUME TTLAssumption == TTL \in Nat \ {0}
ASSUME MaxTimeAssumption == MaxTime \in Nat
ASSUME OutcomesAssumption == Outcomes \subseteq Statuses
ASSUME PriorAssumption == Prior \notin Requests

\* A VerificationResult: the address, the status, verified_at, and (a history
\* value) the verification that produced it, which makes verdicts unique.
Verdict == [ addr   : Addresses,
             status : Outcomes,
             at     : Nat,
             by     : Requests \cup {Prior} ]

\* A row of the table.  A row another release wrote may be unreadable.
Item == [ verdict : Verdict, ttl : Nat, readable : BOOLEAN ]

ASSUME NoneAssumption == None \notin Item /\ None \notin Verdict

VARIABLES
    now,    \* the clock every process and DynamoDB read
    table   \* [Addresses -> Item or None]

StoreTypeOK ==
    /\ now \in Nat
    /\ table \in [Addresses -> Item \cup {None}]

\* Rows left by earlier runs: already expired, or good for a full ttl.
PriorItems ==
    [ verdict  : [ addr : Addresses,
                   status : {s \in Outcomes : DefinitiveStatus(s)},
                   at : {0},
                   by : {Prior} ],
      ttl      : {0, TTL},
      readable : BOOLEAN ]

StoreInit ==
    /\ now = 0
    /\ table \in { t \in [Addresses -> PriorItems \cup {None}] :
                    \A a \in Addresses : t[a] # None => t[a].verdict.addr = a }

\* Mutants of Expired: the boundary second counts as fresh; the second before
\* the boundary counts as expired; removal is left to DynamoDB.
ExpiredLate(item, t) == item.ttl < t
ExpiredEarly(item, t) == item.ttl <= t + 1
ExpiredUnchecked(item, t) == FALSE

\* get() treats a row as expired from the very second its ttl names.
Expired(item, t) == item.ttl <= t

\* Mutant of PutItem: verified_at is replaced by the time of the write.
PutItemRestamped(v) ==
    table' = [table EXCEPT ![v.addr] = [ verdict |-> [v EXCEPT !.at = now],
                                         ttl |-> now + TTL,
                                         readable |-> TRUE ]]

\* put(): the row replaces whatever the table holds for the address, and its
\* ttl counts from the moment of the write.
PutItem(v) ==
    table' = [table EXCEPT ![v.addr] =
                 [verdict |-> v, ttl |-> now + TTL, readable |-> TRUE]]

\* The unconditional delete_item of get().
DeleteItem(a) == table' = [table EXCEPT ![a] = None]

\* DynamoDB's own removal of rows whose ttl lies in the past.
Reap(a) ==
    /\ table[a] # None
    /\ table[a].ttl < now
    /\ table' = [table EXCEPT ![a] = None]
    /\ UNCHANGED now

Tick ==
    /\ now < MaxTime
    /\ now' = now + 1
    /\ UNCHANGED table
=============================================================================
