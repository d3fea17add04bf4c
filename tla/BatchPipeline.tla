---------------------------- MODULE BatchPipeline ----------------------------
(***************************************************************************)
(* run_pipeline (application/batch.py): one run reads the contacts that    *)
(* are due from HubSpot, looks each address up in the evidence cache, has  *)
(* the engine verify the rest, stores what is definitive and writes every  *)
(* result back to its contact, chunk by chunk.                             *)
(*                                                                         *)
(* Every call to HubSpot, the cache or the engine is a step.  A run may    *)
(* fail or be killed between any two of them, and another run follows, but *)
(* never two at a time (the lock of kanga-route-run.service).  Meanwhile   *)
(* time passes, other clients store results in the same table, DynamoDB    *)
(* removes expired rows, and people change the addresses of contacts.      *)
(***************************************************************************)
EXTENDS CacheStore, Sequences, FiniteSets

CONSTANTS
    Contacts,          \* HubSpot contacts, the batch's part of Requests
    Limit,             \* batch_size
    ChunkSize,         \* contacts per batch update call
    ReverifyAfter,     \* REVERIFY_AFTER_DAYS in clock ticks, 0 for never
    UnknownRetryAfter, \* UNKNOWN_RETRY_AFTER_HOURS in clock ticks
    StartTime,         \* when the model starts, while all there is dates from 0
    MaxMeddling        \* bound on the changes by others and the late updates

ASSUME ContactsAssumption == Contacts \subseteq Requests /\ IsFiniteSet(Contacts)
ASSUME LimitAssumption == Limit \in Nat \ {0}
ASSUME ChunkSizeAssumption == ChunkSize \in Nat \ {0}
ASSUME ReverifyAssumption == ReverifyAfter \in Nat
ASSUME UnknownRetryAssumption == UnknownRetryAfter \in Nat \ {0}
ASSUME StartTimeAssumption == StartTime \in 0..MaxTime
ASSUME MaxMeddlingAssumption == MaxMeddling \in Nat

VARIABLES
    email,     \* HubSpot: the address of each contact
    written,   \* HubSpot: the result in its properties, None without a status
    late,      \* HubSpot: updates that take effect after their call was given up
    overtaken, \* history: the contacts whose result is that of such an update
    step,      \* where the run is
    exit,      \* how the last run ended
    targets,   \* the contacts that were fetched, with their addresses
    i,         \* position of the loop the run is in
    item,      \* the row that get() looks at
    misses,    \* targets_to_verify
    results,   \* what the engine has returned for them so far
    outcomes,  \* the results that will be written back
    stored,    \* history: the results that runs have put into the cache
    meddled    \* history: the changes by others and the late updates so far

hubspot == <<written, late, overtaken>>
crm == <<email, hubspot, meddled>>
cache == <<table, stored>>
run == <<step, exit, targets, i, item, misses, results, outcomes>>
vars == <<now, table, email, written, late, overtaken, step, exit, targets, i,
          item, misses, results, outcomes, stored, meddled>>

Target == [contact : Contacts, addr : Addresses]
Outcome == [contact : Contacts, verdict : Verdict]
Steps == {"idle", "fetch", "get", "check", "delete", "verify", "put", "write"}

\* How far a run has come, told from its local variables.
LocalsOK ==
    /\ step = "fetch" => i = 1 /\ targets = <<>> /\ misses = <<>> /\ outcomes = <<>>
    /\ step \in {"get", "check", "delete"} =>
          i \in DOMAIN targets /\ Len(misses) + Len(outcomes) = i - 1
    /\ step \in {"check", "delete"} <=> item # None
    /\ step \in {"verify", "put"} =>
          /\ Len(results) = Len(misses) /\ misses # <<>>
          /\ Len(outcomes) = Len(targets) - Len(misses) + i - 1
    /\ step = "verify" => i = 1
    /\ step = "put" =>
          /\ i \in DOMAIN misses
          /\ \A n \in DOMAIN results : results[n] # None
    /\ step = "write" => i \in DOMAIN outcomes /\ Len(outcomes) = Len(targets)

TypeOK ==
    /\ StoreTypeOK
    /\ email \in [Contacts -> Addresses]
    /\ written \in [Contacts -> Verdict \cup {None}]
    /\ late \subseteq Outcome
    /\ overtaken \subseteq Contacts
    /\ step \in Steps
    /\ exit \in {"none", "success", "failure"}
    /\ targets \in Seq(Target) /\ Len(targets) <= Limit
    /\ i \in Nat \ {0}
    /\ item \in Item \cup {None}
    /\ misses \in Seq(Target)
    /\ results \in Seq(Verdict \cup {None})
    /\ outcomes \in Seq(Outcome)
    /\ stored \subseteq Verdict
    /\ meddled \in 0..MaxMeddling
    /\ LocalsOK

\* A row left by whoever verified the address at 0, stored then or later.
PriorRows(a) ==
    [ verdict  : [ addr : {a}, status : {s \in Outcomes : DefinitiveStatus(s)},
                   at : {0}, by : {Prior} ],
      ttl      : {t + TTL : t \in 0..StartTime},
      readable : BOOLEAN ]

Init ==
    /\ now = StartTime
    /\ table \in { t \in [Addresses -> UNION {PriorRows(a) : a \in Addresses} \cup {None}] :
                      \A a \in Addresses : t[a] \in PriorRows(a) \cup {None} }
    /\ email \in [Contacts -> Addresses]
    /\ written \in { w \in [Contacts -> [ addr : Addresses, status : Outcomes,
                                          at : {0}, by : {Prior} ] \cup {None}] :
                        \A c \in Contacts : w[c] # None => w[c].addr = email[c] }
    /\ late = {} /\ overtaken = {}
    /\ step = "idle" /\ exit = "none"
    /\ targets = <<>> /\ i = 1 /\ item = None
    /\ misses = <<>> /\ results = <<>> /\ outcomes = <<>>
    /\ stored = {} /\ meddled = 0

-----------------------------------------------------------------------------
(* Which contacts are due. *)

\* A definitive result has become old.
Stale(c) ==
    /\ ReverifyAfter > 0
    /\ DefinitiveStatus(written[c].status)
    /\ written[c].at < now - ReverifyAfter

\* Mutant of Retryable: a contact without cooldown, as when hours are taken for
\* seconds.
RetryableAtOnce(c) ==
    /\ ~DefinitiveStatus(written[c].status)
    /\ written[c].at < now

\* The result was Unknown and its cooldown is over.
Retryable(c) ==
    /\ ~DefinitiveStatus(written[c].status)
    /\ written[c].at < now - UnknownRetryAfter

\* The filter groups of the search: new, retryable and stale contacts.  The one
\* for Unknown without a time (hubspot.py:157-170) selects nobody here, since
\* the update writes status and time together.
Due(c) == written[c] = None \/ Retryable(c) \/ Stale(c)

DueContacts == {c \in Contacts : Due(c)}

\* What paging through the search returns: due contacts in some order, each
\* once; all of them, or as many as the limit allows.
FetchedContacts ==
    { s \in UNION {[1..n -> DueContacts] : n \in 0..Cardinality(DueContacts)} :
        /\ \A m, n \in DOMAIN s : s[m] = s[n] => m = n
        /\ Len(s) = IF Cardinality(DueContacts) < Limit
                    THEN Cardinality(DueContacts) ELSE Limit }

-----------------------------------------------------------------------------
(* How a run ends. *)

\* What a run knew is gone with it, but what a successful one had to write
\* back is kept for the properties, until the next run begins.
End(code) ==
    /\ step' = "idle"
    /\ exit' = code
    /\ i' = 1 /\ item' = None /\ misses' = <<>> /\ results' = <<>>
    /\ IF code = "success" THEN UNCHANGED <<targets, outcomes>>
                           ELSE targets' = <<>> /\ outcomes' = <<>>

\* A call fails, an entry is unreadable, or the process is killed.  What was
\* written stays written.
Fail ==
    /\ step # "idle"
    /\ End("failure")
    /\ UNCHANGED <<now, cache, crm>>

-----------------------------------------------------------------------------
(* The steps of a run. *)

\* The timer or an operator starts a run, which makes sure of the table.
Begin ==
    /\ step = "idle"
    /\ step' = "fetch" /\ exit' = "none"
    /\ targets' = <<>> /\ i' = 1 /\ item' = None
    /\ misses' = <<>> /\ results' = <<>> /\ outcomes' = <<>>
    /\ UNCHANGED <<now, cache, crm>>

\* adapter.fetch_targets: the addresses are those of this moment.
Fetch ==
    /\ step = "fetch"
    /\ \E s \in FetchedContacts :
          LET fetched == [n \in DOMAIN s |-> [contact |-> s[n], addr |-> email[s[n]]]]
          IN  IF s = <<>> THEN End("success")
              ELSE /\ targets' = fetched
                   /\ step' = "get"
                   /\ UNCHANGED <<exit, i, item, misses, results, outcomes>>
    /\ UNCHANGED <<now, cache, crm>>

\* Mutant of NextTarget: the last target is left out.
NextTargetEarly ==
    /\ item' = None
    /\ IF i < Len(targets) - 1 THEN i' = i + 1 /\ step' = "get" /\ UNCHANGED results
       ELSE /\ i' = 1
            /\ step' = IF misses' # <<>> THEN "verify" ELSE "write"
            /\ results' = [n \in DOMAIN misses' |-> None]
    /\ UNCHANGED <<exit, targets>>

\* The loop over the targets goes on: after the last one the run verifies, or
\* writes back if every target was a hit.
NextTarget ==
    /\ item' = None
    /\ IF i < Len(targets) THEN i' = i + 1 /\ step' = "get" /\ UNCHANGED results
       ELSE /\ i' = 1
            /\ step' = IF misses' # <<>> THEN "verify" ELSE "write"
            /\ results' = [n \in DOMAIN misses' |-> None]
    /\ UNCHANGED <<exit, targets>>

Missed ==
    /\ misses' = Append(misses, targets[i])
    /\ UNCHANGED outcomes
    /\ NextTarget

\* An outcome joins a contact and a result; one about another address is
\* rejected, and the run fails.
Paired(target, verdict) == target.addr = verdict.addr
AddOutcome(target, verdict) ==
    outcomes' = Append(outcomes, [contact |-> target.contact, verdict |-> verdict])

\* cache_store.get: the row the table holds at this moment.
GetItem ==
    /\ step = "get"
    /\ LET row == table[targets[i].addr] IN
       IF row = None THEN Missed
       ELSE /\ item' = row
            /\ step' = "check"
            /\ UNCHANGED <<exit, targets, i, misses, results, outcomes>>
    /\ UNCHANGED <<now, cache, crm>>

\* The row is looked at after the call returned: expired, unreadable, or good.
\* Only a definitive result is a hit.
CheckItem ==
    /\ step = "check"
    /\ IF Expired(item, now)
       THEN /\ step' = "delete"
            /\ UNCHANGED <<exit, targets, i, item, misses, results, outcomes>>
       ELSE IF ~item.readable THEN End("failure")
       ELSE IF ~DefinitiveStatus(item.verdict.status) THEN Missed
       ELSE IF ~Paired(targets[i], item.verdict) THEN End("failure")
       ELSE /\ AddOutcome(targets[i], item.verdict)
            /\ UNCHANGED misses
            /\ NextTarget
    /\ UNCHANGED <<now, cache, crm>>

\* The expired row is removed by key alone, or the removal fails.
RemoveExpired ==
    /\ step = "delete"
    /\ DeleteItem(targets[i].addr) \/ UNCHANGED table
    /\ Missed
    /\ UNCHANGED <<now, stored, crm>>

\* The engine returns one of the results, in no particular order.
VerifyOne(n) ==
    /\ step = "verify"
    /\ results[n] = None
    /\ \E status \in Outcomes :
          results' = [results EXCEPT ![n] = [ addr |-> misses[n].addr,
                                              status |-> status,
                                              at |-> now,
                                              by |-> misses[n].contact ]]
    /\ UNCHANGED <<now, cache, crm, step, exit, targets, i, item, misses, outcomes>>

\* verify_batch_async returns when it has every result.
Verified ==
    /\ step = "verify"
    /\ \A n \in DOMAIN results : results[n] # None
    /\ step' = "put"
    /\ UNCHANGED <<now, cache, crm, exit, targets, i, item, misses, results, outcomes>>

\* cache_store.put.
Store(verdict) ==
    /\ PutItem(verdict)
    /\ stored' = stored \cup {verdict}

NextResult ==
    /\ IF i < Len(misses) THEN i' = i + 1 /\ UNCHANGED step
                          ELSE i' = 1 /\ step' = "write"
    /\ UNCHANGED <<exit, targets, item, misses, results>>

\* Mutant of Put: a result that the cache rejects is written back all the same.
PutOrNot ==
    /\ step = "put"
    /\ \/ DefinitiveStatus(results[i].status) /\ Store(results[i])
       \/ UNCHANGED cache
    /\ AddOutcome(misses[i], results[i])
    /\ NextResult
    /\ UNCHANGED <<now, crm>>

\* One result of the engine: a definitive one is stored, and all are kept to
\* be written back.
Put ==
    /\ step = "put"
    /\ IF DefinitiveStatus(results[i].status) THEN Store(results[i])
                                              ELSE UNCHANGED cache
    /\ IF Paired(misses[i], results[i])
       THEN AddOutcome(misses[i], results[i]) /\ NextResult
       ELSE End("failure")
    /\ UNCHANGED <<now, crm>>

\* cache_store.put took effect, but is reported as failed.
PutFails ==
    /\ step = "put"
    /\ DefinitiveStatus(results[i].status)
    /\ Store(results[i])
    /\ End("failure")
    /\ UNCHANGED <<now, crm>>

\* The positions of the chunk that is written next.
Chunk == {n \in DOMAIN outcomes : i <= n /\ n < i + ChunkSize}

\* Mutant of Apply: the properties are those of the next outcome.
ApplyShifted(positions) ==
    /\ written' = [c \in Contacts |->
          IF \E n \in positions : outcomes[n].contact = c
          THEN LET k == CHOOSE n \in positions : outcomes[n].contact = c
               IN  outcomes[(k % Len(outcomes)) + 1].verdict
          ELSE written[c]]
    /\ overtaken' = overtaken \ {outcomes[n].contact : n \in positions}

\* HubSpot updates the contacts of the outcomes at these positions.
Apply(positions) ==
    /\ written' = [c \in Contacts |->
          IF \E n \in positions : outcomes[n].contact = c
          THEN outcomes[CHOOSE n \in positions : outcomes[n].contact = c].verdict
          ELSE written[c]]
    /\ overtaken' = overtaken \ {outcomes[n].contact : n \in positions}

Meddle == meddled < MaxMeddling /\ meddled' = meddled + 1

\* An attempt that was not answered in time may have been applied at once, or
\* is applied later, whether or not another one was answered after it.
LeaveLate ==
    \/ UNCHANGED <<late, meddled>>
    \/ Meddle /\ \E n \in Chunk : late' = late \cup {outcomes[n]}

\* A batch update call is answered with 200 and COMPLETE.
WriteChunk ==
    /\ step = "write"
    /\ Apply(Chunk)
    /\ LeaveLate
    /\ IF i + ChunkSize <= Len(outcomes)
       THEN /\ i' = i + ChunkSize
            /\ UNCHANGED <<step, exit, targets, item, misses, results, outcomes>>
       ELSE End("success")
    /\ UNCHANGED <<now, cache, email>>

\* It is answered otherwise or not at all, although HubSpot may have updated
\* some of the contacts, and the run fails.
WriteFails ==
    /\ step = "write"
    /\ \E positions \in SUBSET Chunk : Apply(positions)
    /\ LeaveLate
    /\ End("failure")
    /\ UNCHANGED <<now, cache, email>>

-----------------------------------------------------------------------------
(* The rest of the world. *)

\* Another client stores what it verified a while ago, or just now.
OtherPut(r, a) ==
    /\ Meddle
    /\ \E status \in Outcomes, at \in 0..now :
          /\ DefinitiveStatus(status)
          /\ PutItem([addr |-> a, status |-> status, at |-> at, by |-> r])
    /\ UNCHANGED <<now, stored, email, hubspot, run>>

\* Somebody changes the address of a contact; its properties stay as they are.
EditEmail(c, a) ==
    /\ Meddle
    /\ email[c] # a
    /\ email' = [email EXCEPT ![c] = a]
    /\ UNCHANGED <<now, cache, hubspot, run>>

\* An update that nobody waits for any more takes effect.
TakeEffect(o) ==
    /\ late' = late \ {o}
    /\ written' = [written EXCEPT ![o.contact] = o.verdict]
    /\ overtaken' = overtaken \cup {o.contact}
    /\ UNCHANGED <<now, cache, email, meddled, run>>

Server ==
    /\ Tick \/ \E a \in Addresses : Reap(a)
    /\ UNCHANGED <<stored, crm, run>>

-----------------------------------------------------------------------------

Work ==
    \/ Begin \/ Fetch
    \/ GetItem \/ CheckItem \/ RemoveExpired
    \/ \E n \in DOMAIN results : VerifyOne(n)
    \/ Verified \/ Put \/ WriteChunk

Failure == Fail \/ PutFails \/ WriteFails

World ==
    \/ Server
    \/ \E r \in Requests \ Contacts, a \in Addresses : OtherPut(r, a)
    \/ \E c \in Contacts, a \in Addresses : EditEmail(c, a)
    \/ \E o \in late : TakeEffect(o)

Next == Work \/ Failure \/ World

Spec == Init /\ [][Next]_vars

-----------------------------------------------------------------------------
(* Properties. *)

\* A run that reports success has written back a result for every contact it
\* fetched, about the address that the contact had then, and nobody else's
\* (batch.py:113-147; models.py:80-87); only an update that some run gave up on
\* (hubspot.py:105-141) may have taken its place since.
SuccessMeansWritten ==
    step = "idle" /\ exit = "success" =>
        \A n \in {m \in DOMAIN targets : targets[m].contact \notin overtaken} :
            LET v == written[targets[n].contact] IN
            /\ v # None
            /\ v.addr = targets[n].addr
            /\ \E m \in DOMAIN outcomes :
                  outcomes[m] = [contact |-> targets[n].contact, verdict |-> v]

\* Whatever fails, a contact never gets a result that is about another address
\* than the one it was fetched with (models.py:80-87), even one that was changed
\* while the run went on.
WrittenForTheFetchedAddress ==
    [][\A c \in Contacts : written'[c] # written[c] =>
          \/ \E n \in DOMAIN targets :
                targets[n] = [contact |-> c, addr |-> written'[c].addr]
          \/ [contact |-> c, verdict |-> written'[c]] \in late]_vars

\* Definitive evidence that a run found is in HubSpot only if it was put into
\* the cache before, whatever failed since (batch.py:116-126).
WriteBackAfterStore ==
    \A c \in Contacts : written[c] # None =>
        LET v == written[c] IN
        DefinitiveStatus(v.status) /\ v.by \in Contacts => v \in stored

\* A contact that is due because its result is old is given the very same
\* result again only if that was stored some time after it was found: by more
\* than what REVERIFY_AFTER_DAYS exceeds the lifetime of the cache
\* (hubspot.py:188-212, dynamodb.py:235); or if that result came by a late
\* update, perhaps while the run went on.
SameResultNeedsLateStore ==
    [][step = "check" /\ Len(outcomes') > Len(outcomes)
         /\ item.verdict = written[targets[i].contact]
         /\ targets[i].contact \notin overtaken =>
            item.ttl - TTL > item.verdict.at + (ReverifyAfter - TTL)]_vars

\* The outcomes that still have to be written back.
Unwritten == IF step = "idle" THEN {}
             ELSE {n \in DOMAIN outcomes : step = "write" => n >= i}

\* With REVERIFY_AFTER_DAYS aligned with the lifetime of the cache, or longer,
\* a stale contact is not served the same result (docs/long-term-use.md:22).
StaleContactIsVerifiedAnew ==
    ReverifyAfter >= TTL =>
        \A n \in Unwritten : outcomes[n].verdict # written[outcomes[n].contact]

\* The contacts of the run that were not written to yet.
Chosen == CASE step \in {"idle", "fetch"} -> {}
            [] step = "write"             -> {outcomes[n].contact : n \in Unwritten}
            [] OTHER                      -> {targets[n].contact : n \in DOMAIN targets}

Kind(v) == IF v = None THEN "new"
           ELSE IF DefinitiveStatus(v.status) THEN "definitive" ELSE "unknown"

Cycle == INSTANCE VerificationCycle WITH
    result <- [c \in Contacts |-> Kind(written[c])],
    age    <- [c \in Contacts |-> IF written[c] = None THEN 0 ELSE now - written[c].at],
    chosen <- Chosen,
    Oldest <- MaxTime

\* At the grain of a run this is the cycle whose fairness DailyCycle is about:
\* a run writes to the contacts that were due when it fetched them, to no other
\* and to none twice, and nothing but a late update changes a result otherwise
\* (batch.py:79-147, hubspot.py:143-335).
ImplementsCycle == Cycle!CycleSpec
=============================================================================
