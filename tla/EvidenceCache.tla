--------------------------- MODULE EvidenceCache ----------------------------
(***************************************************************************)
(* Verification and advice requests that share one evidence table.         *)
(*                                                                         *)
(* A request is one call of SingleVerificationService.verify (with cache   *)
(* policy "use" or "refresh") or the handling of one recipient by          *)
(* MailAdvisoryService.advise.  Requests run in threads of the web         *)
(* process, in the command line and in the Postfix policy server; every    *)
(* call they make to the table or to the engine is a step, and the steps   *)
(* of different requests interleave.  A process may be killed between any  *)
(* two of them.                                                            *)
(***************************************************************************)
EXTENDS CacheStore

CONSTANT
    Malformed   \* an input normalize_email_address rejects

ASSUME MalformedAssumption == Malformed \notin Addresses
ASSUME NoneInputAssumption == None \notin Addresses \cup {Malformed}

VARIABLES
    pc,       \* where each request is
    kind,     \* "use", "refresh" or "advise"
    addr,     \* its address, after normalization
    item,     \* the row its GetItem returned
    result,   \* the VerificationResult its engine call returned
    outcome   \* what it answered

reqVars == <<pc, kind, addr, item, result, outcome>>
vars == <<now, table, pc, kind, addr, item, result, outcome>>

Kinds == {"use", "refresh", "advise"}
PCs == {"new", "get", "check", "delete", "config", "engine", "put", "done"}

\* CacheStatus and the codes of SingleVerificationError for a verification;
\* AdviceSource for advice.
Tags == { "hit", "miss", "bypassed", "invalid_email", "cache_unavailable",
          "configuration_invalid", "verification_failed",
          "advice_local", "advice_unavailable", "advice_miss", "advice_cache",
          "killed" }

NoOutcome == [tag |-> "none", action |-> "none", verdict |-> None]

\* A request that has started and has not been answered.
Open(r) == pc[r] \notin {"new", "done"}
Done == {r \in Requests : pc[r] = "done"}
Advising(r) == kind[r] = "advise"

\* Which local variables a request has at which step.
LocalsOK ==
    \A r \in Requests :
        /\ pc[r] = "new" <=> addr[r] = None
        /\ pc[r] # "done" => outcome[r] = NoOutcome
        /\ Open(r) => addr[r] \in Addresses
        /\ pc[r] \in {"check", "delete"} => item[r] # None
        /\ pc[r] \in {"new", "get", "done"} => item[r] = None
        /\ pc[r] \notin {"put", "done"} => result[r] = None
        /\ pc[r] = "put" => result[r] # None

TypeOK ==
    /\ StoreTypeOK
    /\ pc \in [Requests -> PCs]
    /\ kind \in [Requests -> Kinds]
    /\ addr \in [Requests -> Addresses \cup {Malformed, None}]
    /\ item \in [Requests -> Item \cup {None}]
    /\ result \in [Requests -> Verdict \cup {None}]
    /\ outcome \in [Requests -> [ tag : Tags \cup {"none"},
                                  action : {"none", "allow", "warn"},
                                  verdict : Verdict \cup {None} ]]
    /\ LocalsOK

Init ==
    /\ StoreInit
    /\ pc = [r \in Requests |-> "new"]
    /\ kind = [r \in Requests |-> "use"]
    /\ addr = [r \in Requests |-> None]
    /\ item = [r \in Requests |-> None]
    /\ result = [r \in Requests |-> None]
    /\ outcome = [r \in Requests |-> NoOutcome]

-----------------------------------------------------------------------------
(* How a request ends. *)

Close(r, tag, action, verdict) ==
    /\ pc' = [pc EXCEPT ![r] = "done"]
    /\ outcome' = [outcome EXCEPT ![r] =
                      [tag |-> tag, action |-> action, verdict |-> verdict]]
    /\ item' = [item EXCEPT ![r] = None]

GoTo(r, step) ==
    /\ pc' = [pc EXCEPT ![r] = step]
    /\ UNCHANGED <<outcome, item>>

\* The cache failed: an error for a verification, advice to allow otherwise.
Unavailable(r) ==
    IF Advising(r) THEN Close(r, "advice_unavailable", "allow", None)
                   ELSE Close(r, "cache_unavailable", "none", None)

\* get() returned None: a verification goes on, advice is to allow.
Missed(r) ==
    IF Advising(r) THEN Close(r, "advice_miss", "allow", None)
                   ELSE GoTo(r, "config")

\* Only cached Invalid evidence is a reason to warn.
AdviceFor(v) == IF v.status = "Invalid" THEN "warn" ELSE "allow"

\* get() returned a result.
Served(r, v) ==
    IF Advising(r)
    THEN Close(r, "advice_cache", AdviceFor(v), v)
    ELSE IF DefinitiveStatus(v.status)
         THEN Close(r, "hit", "none", v)
         ELSE GoTo(r, "config")

-----------------------------------------------------------------------------
(* The steps of a request. *)

\* A refresh does not read the cache, every other request starts with it.
FirstStep(k) == IF k = "refresh" THEN "config" ELSE "get"

\* A request arrives and its address is normalized; a malformed one is
\* answered before any call to the cache or to the engine.
Start(r, k, input) ==
    /\ pc[r] = "new"
    /\ kind' = [kind EXCEPT ![r] = k]
    /\ addr' = [addr EXCEPT ![r] = input]
    /\ IF input = Malformed
       THEN IF k = "advise" THEN Close(r, "advice_local", "warn", None)
                            ELSE Close(r, "invalid_email", "none", None)
       ELSE GoTo(r, FirstStep(k))
    /\ UNCHANGED <<now, table, result>>

\* table.get_item: the row the table holds at this moment, or an exception.
GetItem(r) ==
    /\ pc[r] = "get"
    /\ \/ table[addr[r]] = None /\ Missed(r)
       \/ /\ table[addr[r]] # None
          /\ item' = [item EXCEPT ![r] = table[addr[r]]]
          /\ pc' = [pc EXCEPT ![r] = "check"]
          /\ UNCHANGED outcome
       \/ Unavailable(r)
    /\ UNCHANGED <<now, table, kind, addr, result>>

\* Mutant of CheckItem: a row that is served is stored again (a sliding ttl).
CheckItemSlides(r) ==
    /\ pc[r] = "check"
    /\ IF Expired(item[r], now) THEN GoTo(r, "delete") /\ UNCHANGED table
       ELSE /\ Served(r, item[r].verdict)
            /\ PutItem(item[r].verdict)
    /\ UNCHANGED <<now, kind, addr, result>>

\* The row is looked at after the call returned: expired, unreadable or good.
CheckItem(r) ==
    /\ pc[r] = "check"
    /\ IF Expired(item[r], now) THEN GoTo(r, "delete")
       ELSE IF ~item[r].readable THEN Unavailable(r)
       ELSE Served(r, item[r].verdict)
    /\ UNCHANGED <<now, table, kind, addr, result>>

\* table.delete_item of the expired row, by key alone; an exception of the
\* call is logged and the lookup is a miss either way.
RemoveExpired(r) ==
    /\ pc[r] = "delete"
    /\ DeleteItem(addr[r]) \/ UNCHANGED table
    /\ Missed(r)
    /\ UNCHANGED <<now, kind, addr, result>>

\* configuration_validator(): the SMTP identity is complete, or the request
\* ends.
ValidateConfiguration(r) ==
    /\ pc[r] = "config"
    /\ GoTo(r, "engine") \/ Close(r, "configuration_invalid", "none", None)
    /\ UNCHANGED <<now, table, kind, addr, result>>

\* cache_status of the answer that carries the engine's own result.
FreshTag(r) == IF kind[r] = "refresh" THEN "bypassed" ELSE "miss"

\* What is stored: a definitive result only.
Storable(v) == DefinitiveStatus(v.status)

\* engine.verify: a result with its own verified_at, or an exception.
Verify(r) ==
    /\ pc[r] = "engine"
    /\ \/ \E status \in Outcomes :
            LET v == [addr |-> addr[r], status |-> status, at |-> now, by |-> r]
            IN  /\ result' = [result EXCEPT ![r] = v]
                /\ IF Storable(v) THEN GoTo(r, "put")
                                  ELSE Close(r, FreshTag(r), "none", v)
       \/ Close(r, "verification_failed", "none", None) /\ UNCHANGED result
    /\ UNCHANGED <<now, table, kind, addr>>

\* cache_store.put: an Unknown result is refused; the write may take effect
\* and still be reported as failed, and a failed write fails the request.
Put(r) ==
    /\ pc[r] = "put"
    /\ \/ /\ DefinitiveStatus(result[r].status)
          /\ PutItem(result[r])
          /\ \/ Close(r, FreshTag(r), "none", result[r])
             \/ Unavailable(r)
       \/ Unavailable(r) /\ UNCHANGED table
    /\ UNCHANGED <<now, kind, addr, result>>

\* The process of the request is stopped or killed.
Kill(r) ==
    /\ Open(r)
    /\ Close(r, "killed", "none", None)
    /\ UNCHANGED <<now, table, kind, addr, result>>

Step(r) ==
    \/ GetItem(r)
    \/ CheckItem(r)
    \/ RemoveExpired(r)
    \/ ValidateConfiguration(r)
    \/ Verify(r)
    \/ Put(r)

Server ==
    /\ Tick \/ \E a \in Addresses : Reap(a)
    /\ UNCHANGED reqVars

Next ==
    \/ \E r \in Requests, k \in Kinds, input \in Addresses \cup {Malformed} :
          Start(r, k, input)
    \/ \E r \in Requests : Step(r) \/ Kill(r)
    \/ Server

Spec == Init /\ [][Next]_vars

-----------------------------------------------------------------------------
(* Properties. *)

\* v is evidence about a that an engine call really returned.
Genuine(v, a) ==
    /\ v.addr = a
    /\ DefinitiveStatus(v.status)
    /\ v.by \in Requests => v = result[v.by]

\* The table only ever holds definitive evidence, under the address it is
\* about, exactly as the engine returned it (single_verification.py:104-110,
\* dynamodb.py:211-238), whatever calls fail or are cut off.
StoredEvidenceIsGenuine ==
    \A a \in Addresses : table[a] # None => Genuine(table[a].verdict, a)

\* A recipient is warned about only if the input is malformed or if an engine
\* call returned Invalid for that very address (mail_advisory.py:105-139).
WarningNeedsInvalidEvidence ==
    \A r \in Requests : outcome[r].action = "warn" =>
        \/ addr[r] = Malformed
        \/ /\ outcome[r].verdict # None
           /\ Genuine(outcome[r].verdict, addr[r])
           /\ outcome[r].verdict.status = "Invalid"

\* Advice fails open: when the cache has nothing or fails, the advice is still
\* given, and it is to allow (ADR 0004; mail_advisory.py:105-125).
AdviceFailsOpen ==
    \A r \in Done : kind[r] = "advise" /\ addr[r] # Malformed =>
        \/ outcome[r].tag = "killed"
        \/ outcome[r].action = "allow"
        \/ outcome[r].verdict # None /\ outcome[r].verdict.status = "Invalid"

\* A refresh never answers with what another call found out, even when that
\* is in the table (single_verification.py:75-91).
RefreshAnswersOwnResult ==
    \A r \in Requests : kind[r] = "refresh" =>
        outcome[r].verdict \in {None, result[r]}

\* Evidence enters the table only through the verification that produced it:
\* neither advice nor a cache hit writes, so nothing extends the lifetime of
\* evidence (tests/test_web.py:48 for advice).
OnlyTheProducerStores ==
    [][\A a \in Addresses : table'[a] # table[a] /\ table'[a] # None =>
          LET r == table'[a].verdict.by IN
          /\ r \in Requests
          /\ pc[r] = "put"
          /\ table'[a].verdict = result[r]]_vars

\* Evidence that has not expired disappears only through a reader that had
\* read an older, expired row for the address before the evidence was stored
\* (dynamodb.py:164-175).
FreshLossNeedsRacingReader ==
    [][\A a \in Addresses :
          table[a] # None /\ table[a].ttl > now /\ table'[a] = None =>
             \E r \in Requests : /\ pc[r] = "delete"
                                /\ addr[r] = a
                                /\ item[r] # table[a]]_vars

\* No answer comes from a row whose ttl has been reached when it is answered,
\* the second of the ttl included (dynamodb.py:172-173).
NothingExpiredIsServed ==
    [][\A r \in Requests :
          outcome'[r] # outcome[r] /\ outcome'[r].tag \in {"hit", "advice_cache"} =>
             item[r].ttl > now]_vars

\* Unexpired evidence is not removed from the table: it is replaced or it
\* stays until its ttl (docs/long-term-use.md:18).
FreshEvidenceStays ==
    [][\A a \in Addresses : table[a] # None /\ table[a].ttl > now =>
          table'[a] # None]_vars

=============================================================================
