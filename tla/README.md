# Verification of kanga-route

TLA+ models of kanga-route, the TLC runs that check them on small instances,
and TLAPS proofs of the properties that matter most. Paths are relative to the
repository; `verifier.py` means `src/kanga_route/engine/verifier.py`, and so on.

## 1. The system: inventory

kanga-route verifies e-mail addresses. A batch run (a systemd timer starts it in
a container) takes contacts from HubSpot, looks each address up in a DynamoDB
cache, verifies the rest over DNS and SMTP, stores definitive results and writes
everything back to HubSpot. A web console and a command line verify one address
at a time through the same cache; the web API and a Postfix policy server also
give cache-only advice about recipients.

| Component | State | Operations | Interacts with |
|---|---|---|---|
| Domain models (`models.py`, `email_address.py`, `contracts.py`) | none | statuses, reasons, results, target/result pairing | everything |
| Evidence cache (`cache/dynamodb.py`) | one row per normalized address, with a ttl; the table and its TTL setting | `get` (GetItem, expiry check, DeleteItem), `put`, `ensure_table_exists` | DynamoDB, every client process |
| Single verification (`application/single_verification.py`, `cli.py`) | one call's locals | `verify` with policy use or refresh | cache, engine |
| Mail advice (`application/mail_advisory.py`) | one call's locals | `advise` | cache only |
| Verification engine (`engine/verifier.py`) | one address's context, one SMTP session | syntax, blocklist, DNS and SMTP stages, `verify` | resolver, SMTP servers |
| Async engine (`engine/verifier.py`) | a global and per-domain semaphores, the thread pool | `verify_email_async`, `verify_batch_async` | event loop, engine |
| Web console (`web/app.py`) | the verification semaphore, two sliding-window limiters, orphaned tasks | `verify`, `advise`, `_run_with_timeout`, `RequestLimiter.allow` | single verification, mail advice, browser |
| Batch pipeline (`application/batch.py`, `main.py`) | one run's targets, outcomes | `_ensure_cache_ready`, `run_pipeline` | cache, async engine, adapter |
| HubSpot adapter (`adapters/`, `crm/hubspot.py`) | paging cursor, contacts in HubSpot | fetch with retries and paging, chunked write-back | HubSpot API |
| Postfix policy (`mail/postfix_policy.py`) | one connection's line buffer | parse, decide, one answer per request | mail advice, Postfix |
| Browser form (`web/static/app.js`) | form state, abort timer | submit | web API |
| Host control plane (`bin/kanga-route`, `systemd/`, `docker-compose.yml`) | timer, lock file, override file | run, schedule, ui up/down | systemd, docker |
| Release tooling (`scripts/`, `.github/workflows/`, `packer/`, `infra/`, `cloudformation/`) | AMIs, catalogue | build, publish | AWS, GitHub |

### What is hard

- **Several processes, one table, no conditions.** Every client uses three
  unconditional calls. What was read may have been replaced before the delete
  or the write; nothing orders two verifications of one address.
- **Time.** Rows expire by a clock that moves between calls; the ttl counts from
  the write and not from `verified_at`; contacts become due by `last_verified`.
- **Threads that cannot be cancelled.** A web request can time out, or a batch
  task can be cancelled, while its thread still runs and holds (or no longer
  holds) its permit.
- **Many ambiguous replies.** DNS and SMTP give dozens of reply combinations; only
  a few are proof that a mailbox does not exist.
- **Partial failure.** A run can stop between storing results, one chunk of the
  write-back and the next.

### What makes each component correct

- *Cache and its clients*: only definitive evidence is stored, as the engine
  returned it and under its own address; nothing expired is served; a refresh
  never answers from the cache; advice never writes and fails open; what is lost
  or rolled back is lost only to a race that can be named.
- *Engine*: `Invalid` only on authoritative evidence, `Valid` and `Catch-All` only
  on an accepted RCPT, everything else `Unknown`; every session is closed before
  the next host is tried.
- *Async engine*: the two caps hold, every task ends, nobody waits for ever.
- *Web console*: each permit is released exactly once and only after its thread
  ended; the limiter's window is exact; every request is answered.
- *Creation of the table*: whoever goes on has a table that can be used; each race
  with another process is lost at most once, and everybody gets ready in the end.
- *Batch and adapter*: every selected contact gets the result of its own address;
  an `Unknown` is not retried before its cooldown; a crash leaves nothing wrong;
  over many days every contact that is due gets its turn.
- *Mail advice*: one advice per recipient, one answer per request, in step with
  the requests; nothing is rejected without evidence about that very recipient.

## 2. The plan

The order follows what the rest relies on: evidence first, then the machinery
that produces it, then the runs that move it, then the days and the ways in.

| # | Module | Models | Composes | State |
|---|---|---|---|---|
| 1 | `Evidence`, `CacheStore` | statuses; the table, its three calls, ttl and clock | – | done |
| 2 | `EvidenceCache` | verification and advice requests over the table | `CacheStore` | done, proved |
| 3 | `EvidenceRegister`, `EvidenceCacheHistory` | abstract: a regular, expiring, lossy register | refinement of 2 | done, proved |
| 4 | `VerificationEngine` | one address through the four stages | `Evidence` | done, proved |
| 5 | `Waiters`, `AsyncEngine` | a batch over two semaphores and the executor | – | done, proved |
| 6 | `RequestLimiter` | the sliding window | – | done, proved |
| 7 | `WebConsole`, `WebConsoleClock` | time limit, orphaned threads, permits | `Waiters` | done, proved |
| 8 | `WebApp` | a web request from its envelope to its answer | 6 with 7 | done, proved |
| 9 | `BatchPipeline` | run after run over cache and HubSpot, late updates of earlier runs | `CacheStore` | done, proved |
| 10 | `AdapterPort`, `HubSpotClient` | abstract: the promise of `write_outcomes`; the client that keeps it | refinement | done, proved |
| 11 | `VerificationCycle`, `DailyCycle` | abstract: what runs do to contacts; day by day, nobody starves | refinement of 9 | done, the refinement proved |
| 12 | `CacheTable` | processes create the table and enable its ttl | – | done, proved |
| 13 | `MailAdvice`, `PostfixPolicy`, `MailPath` | the loop over recipients; a policy connection; a web request for advice | one over the other | done, proved |

The modules are written to be proved about: parameters are constants with named
assumptions, every operation is an action, and there is no `RECURSIVE` operator.
What could follow is a model of the lock file of `kanga-route-run.service` with
the runs it keeps apart, which is an assumption so far (section 8).

## 3. Models and code

A definition named `...Something` under a comment "Mutant of X" is X with a
plausible bug. No specification uses it; it shows that a property would notice.

### `CacheStore`: the DynamoDB table

`table[a]` is the row of address `a` or `None`. A row holds a verdict, its ttl
and whether `get` can parse it. A verdict is a `VerificationResult`: address,
status, `verified_at` and, as a history, the request that found it (`Prior` for
those that were there before). `PutItem` counts the ttl from the clock at the
write, not from `verified_at`, as `put` does. `Reap` is DynamoDB's time to live,
which removes an expired row some time later; `Tick` moves the clock. Expired rows and
unreadable ones (another release wrote them) may be there initially.

### `EvidenceCache`: requests that share the table

`pc[r]` is the next call that request `r` makes; between two calls every other
request may move. `Start` is the part up to the first call (normalization and the
cache policy), `GetItem`, `CheckItem` and `RemoveExpired` are `get` (the row is
looked at after the call has returned, and deleted by key alone),
`ValidateConfiguration`, `Verify` and `Put` the rest of
`SingleVerificationService.verify`. Advice shares the first three and never
writes. `Kill` ends the process of a request at any point. A failed `put` may
have taken effect.

### `CacheTable`: the table is created

`pc[p]` is the next call of `ensure_table_exists` in process `p`: `Load` asks for
the table, `Create` and `Wait` make it, `Describe` and `Update` see to its ttl.
Between two calls any other process may move, so that `Create` and `Update` can
be rejected because another was faster (`raced` counts that), or because the
table of another process is still being created (`early`). The second happens in
cloud mode only, and there as often as the process tries before the table is
active: a batch may use up all its attempts, one second apart, without a call
that failed of itself, and is then left to its next start. `CacheError` is what `_ensure_cache_ready` makes of
a failed attempt: the batch starts over, five times at most; the web service and
the command line end, and are started again. `TtlError` depends on
`USE_LOCAL_DB`. `CallFails` may have taken effect; `Kill` strikes at any call.

### `EvidenceCacheHistory` and `EvidenceRegister`

The history adds, for each open request, the rows its address has had so far, and
for each request those that were answered before it started. Over it the table
refines `EvidenceRegister`: an answer from the cache is a row the register held
at some moment while the request was open and that has not expired, or the
request's own verdict; rows may be forgotten. This is what a client may rely on
and no more.

### `VerificationEngine`: one address

`stage` is the step of `verify`: syntax, blocklist, MX, A, AAAA, then for every
host connect, greeting, MAIL, random RCPT, RCPT and close. Each command is
answered by a code, a timeout, a refused or lost connection or smtplib's own
error. `replies` and `dns` record what was heard, so that properties can compare
the verdict with the evidence. Codes are represented by one member of each class
the code tells apart; "not found" by a reply that `_is_explicit_recipient_not_found`
accepts.

### `AsyncEngine`: a batch

`pc[t]` is where coroutine `t` is (waiting for the global permit, for its
domain's, submitted to the executor), `thread[t]` where its call is. Permits are
those of `asyncio.Semaphore` in Python 3.12 and later, which the project requires;
`Waiters` has what the two users of it share. A release hands the permit to the
first waiter at once (`First`), and the waiter resumes later. Until it has
resumed, a newcomer lines up behind it even if another permit is free (`Locked`);
when it resumes it wakes up others for the free permits (`WakesUp`: one of them
or as many as there are permits, which differs between versions of Python). So a
permit may be free while somebody waits, but only with somebody ahead who was
woken up: that is what `NoPermitIdles` says in both modules. For the global semaphore
of a batch it is exact, as all coroutines have come to it before the first permit is
released. A call that raises makes
`gather` raise, after which `asyncio.run` cancels the other coroutines: their
permits come free, their threads go on. No new thread may start from then on;
before, between the exception and the cancellation, coroutines go on as they did.

### `WebConsole`, `WebConsoleClock`

A verification waits for a permit, submits its call and waits for it with a time
limit. `TimeOut` may strike whenever the handler waits, even at the moment at
which the thread ends; then the permit is left to a callback (`owed`). Who was woken up
(`granted`) and who lines up behind it is as described for `AsyncEngine`. Advice has
no permit and no limit, and shares the executor. `WebConsoleClock` adds ages and a
timer that is never late, for the question what the limit covers.

### `RequestLimiter`, `WebApp`

`Allow` is `allow`, under its lock and so one step: drop what is at or before the
cutoff, count, append. A bucket is one of the two limiters and a client.
`granted` is the history of what was allowed. `WebApp` puts the two together: a
request is `Malformed` (media type, size, JSON) and refused uncounted, or it
enters: it asks the limiter of its endpoint and arrives at the console in the
same step, for nothing is awaited in between. Time passes beside it.

### `BatchPipeline`: run after run

A run goes through fetch, one `get` per target, verification of the misses, one
`put` per definitive result and the write-back in chunks; each call is a step,
and `Fail` (an exception or a kill), `PutFails` and `WriteFails` end the run at
any of them. The next run starts from nothing but HubSpot and the cache. Two runs
never overlap: `kanga-route-run.service` holds a lock. `email` and `written` are
HubSpot's: the address of a contact and the result in its properties. `Due` is
the filter groups of the search. An update whose call failed is `late` and may
`TakeEffect` at any time, in a later run too; `overtaken` remembers which
contacts have such a result. Everybody else is there as well: the clock, the
removal of expired rows, users who change addresses, the web console that stores
results in the same table. Of the engine only the set of answers is left here;
its concurrency is that of `AsyncEngine`. The model starts at `StartTime` with
rows and results that date from 0, so that a run finds what is fresh, expired,
due and not due.

### `VerificationCycle`, `DailyCycle`: many days

`VerificationCycle` is what a run is to a contact: `Choose` takes as many of the
contacts that are due as the limit allows, and any of them, for the search asks
for no order; `Write` gives some of them a result of some age; `Fail` leaves some
out; `Overtake` is a late update. `BatchPipeline` refines it: a contact's kind
and age are those of its HubSpot properties, and chosen are the targets that are
not written yet. `DailyCycle` adds the timer (one run a day, delayed by a random
part of the day) and takes runs as short against a tick.

### `MailAdvice`, `PostfixPolicy`, `MailPath`

`AdviseNext` is one turn of the loop of `advise`: `Seen` recipients are left out,
malformed ones get a warning of their own, the others what `Lookup` finds, or
`unavailable` if it fails. `PostfixPolicy` is a connection: the client writes
lines ahead of the answers (`sent`), the handler reads them one by one (`read`,
`lines`); `GiveUp` answers a line or a request that is too long and closes;
`Respond` gives the action for a complete one. `MailPath` adds the request to
`/api/v1/advice` with its `Fallback` that allows everybody. An input stands for
what it is normalized to, so that two spellings of one address are one input
twice.

### `HubSpotClient`, `AdapterPort`

The client pages through a search and writes the outcomes in chunks; every POST
has a number of attempts. HubSpot's list changes between pages (`Change`), its
cursor may come back unchanged (`SearchPageStuck`; other cursors go forward), and an update that was
answered with an error, or not at all, is `late`: it may take effect at any later
time (`TakeEffect`), after the call has raised as well. The write refines
`AdapterPort`: True means that every outcome is persisted and nothing else is.

## 4. The runs

| Run | Instance | States | What it shows |
|---|---|---|---|
| `evidence_cache_history` | 3 requests, 1 address, ttl 2, clock to 1, rows that have expired and rows that last | 949,644 | what is stored was found by the engine for that address; fresh evidence goes only when a reader had read another row; an answer goes back in time only if the two verifications overlapped; the table is the register |
| `cache_table` | a batch, the web service, the command line; 3 attempts, 2 faults | 290,807 | whoever is ready has a table, and in cloud mode expiry; each race is lost at most once, and every other failed attempt had a failed call or, in cloud mode, a table not active yet behind it; everybody gets ready |
| `verification_engine` | 2 hosts, one code per class, all faults | 163,132 | Invalid, Valid and Catch-All rest on the replies they need; evidence is not overruled; a transient failure tries every host; sessions are closed |
| `async_engine` | 5 coroutines, 2 domains, limits 3 and 2, 4 threads | 264,240 | both caps, no lost permit or wake-up, nothing starts once the batch is being cancelled, every batch ends |
| `web_app` | 4 requests of 2 clients, of which one may be advice, 2 permits, 3 threads, window 1, clock to 1 | 255,164 | a permit is released once and after its thread; nobody waits beside a free one unless behind somebody who was woken up; the windows are exact on both sides; every request is answered |
| `batch_pipeline` | 2 contacts and a console, 2 addresses, chunks of 1, ttl and reverification 1, clock from 2 to 3, 1 change by others | 2,218,275 | success means that each contact has the result of the address it was fetched with; a result about another address is never written; definitive evidence in HubSpot was stored first; the same old result is served again only if it was stored late; a run is a turn of the cycle |
| `daily_cycle` | 3 contacts, limit 1, days of 2 ticks, cooldown 4, reverification 6 | 84,542 | with enough runs nobody starves, in whatever order HubSpot lists the contacts |
| `hubspot_client` | 4 contacts, limit 3, pages and chunks of 2, 2 attempts | 56,070 | targets are distinct; a stable search loses nobody; the port's promise; every call returns |
| `mail_path` | 1 address, 1 malformed input, 3 recipients, requests of up to 3 lines, 5 lines | 366,819 | one advice per recipient; answers stay in step with requests; no rejection without evidence; every recipient is answered for; every good request is answered |
| `fresh_evidence_lost` | 2 requests, 1 address | about 16,000, violated | finding 1 |
| `queued_request_unlimited` | 2 requests, 1 permit, limit of 2 ticks | about 500, violated | finding 2 |
| `stale_contact_same_result` | 1 contact, ttl and reverification 3 | about 1,600, violated | finding 3 |

The type invariants say which local variables exist at which step and not only
their types. They are theorems (section 7), except that of `DailyCycle`, which is
stated for the reader; `batch_pipeline` and `hubspot_client` check theirs too.
Every property that a passing run checks has a mutant of the code that violates
it in the same run.

### Bounds and why they are enough

- *Requests, contacts, coroutines*: the races in the code are between two actors
  on one row or one permit; a third is there where "before" (the history)
  matters. Semaphores with a limit of 1 never have a permit free while somebody
  is about to resume, so the web console and the domains of the batch have two
  permits, and as many actors as it takes to hold both, be woken up and line up
  behind. Which request of `web_app` is advice and which client's each is, is fixed.
- *Clock*: in the cache and the batch, what there is initially dates from before
  the clock starts, so that rows are fresh, at their boundary and expired, and
  contacts due and not due, within a tick or two. In the limiter the clock
  covers a window from its first to its last tick. `daily_cycle` has no bound: ages
  stop to be counted where they no longer make a difference (`Oldest`).
- *Faults*: two failing calls or kills in `cache_table`, one late update or
  change by somebody else in `batch_pipeline` (a run that fails costs nothing and
  is not bounded).
- *Lines*: five lines hold two requests that fit, a request that does not fit
  with one behind it, and an empty request.
- *Chunks and pages*: the last one is short, and the limit cuts a page.
- *Codes*: one per class of the comparisons in `verifier.py`, with the boundary
  codes 250, 252, 421, 450, 550.
- *Hosts*: two make "the next host" and "the last host" different.
- *HubSpot's changes*: one per search in the run; the list may start as any list
  of the four contacts, in any order.
- *Symmetry* is used only in runs without liveness.

`CHECK_DEADLOCK FALSE` is given where the system ends: all requests answered,
the batch returned, the calls over, the clock at its bound.

## 5. Fairness

- `AsyncEngine`, `WebApp`: the event loop runs, a queued call gets a thread
  when one is free, and a running call ends. The last holds because each DNS
  lookup, SMTP command and boto3 call has a timeout and their number is bounded.
  No fairness is assumed for time limits: that they strike is never needed.
- `CacheTable`: calls return, DynamoDB finishes what it has begun, and a process
  that has ended is started again (by Docker's restart policy, the timer or an
  operator). Failures and kills are not fair.
- `DailyCycle`: time passes, the timer starts runs, and a run that is not killed
  ends. `NobodyStarves` asks for behaviours in which runs fail and updates are
  late only finitely often, and for enough runs: `EnoughRuns` says that the
  other contacts, of which each takes part in a run at most once in its cooldown
  (`Rest`), cannot fill all the runs of that time. This is what
  `docs/long-term-use.md:12-14` and `.env.example:17-18` promise of
  `UNKNOWN_RETRY_AFTER_HOURS`, with the condition under which it is true; without
  the cooldown (the mutant) somebody starves.
- `MailPath`: the handler of a connection goes on, for a line that was sent
  arrives and a lookup has a timeout. The client need not write, or close.
- `HubSpotClient`: every POST has a timeout and every sleep is at most a minute.
  HubSpot itself is not assumed to answer, or to answer well.

## 6. Findings

1. *Fresh evidence can be lost* (`dynamodb.py:175`): a reader that has read an
   expired row deletes by key alone, and takes away the row that another
   verification has stored meanwhile. `docs/long-term-use.md:18` describes the
   lifetime of a row without such a loss. `FreshLossNeedsRacingReader` shows that
   this race is the only way.
2. *A queued web request has no time limit* (`app.py:101`): the permit is awaited
   before the timed wait begins, behind threads whose own requests were answered
   504. `docs/browser-console.md:128` calls requests time-limited.
3. *A stale contact may be served the result that made it stale*
   (`dynamodb.py:235`): the ttl counts from the write, `last_verified` from the
   verification; for as long as the two are apart, aligning `REVERIFY_AFTER_DAYS`
   with the lifetime of the cache (`docs/long-term-use.md:22`) is not enough.
   `SameResultNeedsLateStore` bounds how late the write must have been.

## 7. What is proved

Every theorem is checked by TLAPS for all values of the constants, under the
named assumptions of the modules (limits and lifetimes are positive numbers,
`None` is no row, verdict or address, a malformed input is no address, `Prior` no
request, reply codes are integers, a mode is one of the two, contacts of a batch are finitely
many). Every safety property of the passing runs is the statement of a theorem,
and so are the three refinements.

- **`EvidenceCache_proofs`**: type correctness; `StoredEvidenceIsGenuine`;
  `WarningNeedsInvalidEvidence`; `AdviceFailsOpen`; `RefreshAnswersOwnResult`;
  `OnlyTheProducerStores`; `FreshLossNeedsRacingReader`;
  `NothingExpiredIsServed`. That the table is right is not inductive: a request
  may store, long after, what its engine returned, and may answer with a row read
  long before. The invariant `IInv` therefore has `ProvenanceOf`: every verdict,
  wherever it is (in the table, in the row a request looks at, in its result, in
  its answer), is evidence about the address it is used for, as the engine
  returned it; `PathOf` keeps refreshes from lookups and advice from
  verification, and `DeletesExpired` says that whoever is about to delete has read
  an expired row. The action properties follow
  from `IInv` by one step per action.

  With the history variables, `RegressionNeedsOverlap` and the refinement
  `ImplementsRegister`. The invariant `HInv` adds to `IInv` what may come after
  what: `TableFollows` for the row that the table holds, `WindowFollows` for the
  rows an open request has seen, `AnswerFollows` for the answers given before.
  They rest on `OrderOK`: a verification that began after another had answered has a
  later result. By `Shape`,
  every step of a request goes on, answers, stores or forgets (`GoesOn`, `Answers`,
  `Stores`, `Forgets`), and each of the four is one step of the register.
- **`VerificationEngine_proofs`**: type correctness; `InvalidNeedsProof`;
  `AcceptanceNeedsProof`; `EvidenceDecides`; `TransientTriesEveryHost`;
  `SessionsAreClosed`; for any number of hosts and any codes. They speak of the
  result, which is decided before the call returns: a reply leaves it pending, and
  the session is closed first. So `PendingOK` says of what is pending what the properties
  say of the result, `LookupsOK` what the lookups before this stage have found,
  `HostOK` what the host in use has answered so far (before it
  is asked about the recipient it has told a random one apart, with the catch-all check on), and `TriedOK` that every host before this one was tried.
- **`CacheTable_proofs`**: type correctness; `ReadyMeansUsable`;
  `RacesCostTwoAttempts`, for any number of processes, attempts and faults. Both
  need more than themselves: `Progress` says how far a process has come and what
  it therefore knows of the table, and `Lesson` that who has lost a race finds, at
  its next attempt, the table or the setting it was about, and does not make that
  call again; as nobody removes either, that stays so over restarts. `Reasons`
  counts: each failed attempt of a process is among its lost races, its calls
  that came too early and the faults.
- **`WebApp_proofs`**: of the console, type correctness; `PermitsAreConserved`;
  `NoPermitIdles`; `VerificationsAreCapped`. The permits are counted: free ones,
  those of handlers and those of callbacks are disjoint sets whose sizes add up.
  `NoPermitIdles` is kept by a release, which hands over whenever somebody waits,
  by a newcomer, who lines up only if no permit is free or somebody is in the line
  already, and by a waiter that resumes, which wakes up the next. The cap follows because
  every running verification belongs to a holder.

  Of the limiter, `WindowIsBounded` and `RefusalIsEarned`. The timestamps that
  `allow` keeps are a suffix of all that was granted, in order, and what was
  dropped is older than the window; so the one request over the limit comes at
  least a window after the first.

  Both hold in their composition, the web process, because every step of the whole
  is a step of each part or leaves it alone.
- **`AsyncEngine_proofs`**: type correctness; `PermitsAreConserved`,
  `ProbesAreCapped`, `NoPermitIdles`, `NothingStartsAfterFailure`, and
  `DomainLimitIsIdle` (with a global limit no larger than the limit per domain,
  which is how the batch constructs the engine, nobody ever waits for a domain: by
  `NobodyLinesUp` whoever comes to a domain finds nobody in its line, and, as each
  of those who hold its permits has a global one too, a permit that is free).
  After a cancellation the running threads have no holder any more, so the cap is
  part of the invariant and no consequence of the count; `PhaseOK` says that
  nothing is queued or waiting once the batch has failed.
- **`BatchPipeline_proofs`**: type correctness; `WriteBackAfterStore`;
  `SuccessMeansWritten`; `WrittenForTheFetchedAddress`;
  `SameResultNeedsLateStore`; and the refinement `ImplementsCycle`, for any
  contacts, limit, chunk size, clock and number of changes by others. The
  invariant `BatchInv` has, beside the types, four parts. `RunInv`: at each step
  the outcomes and the misses split the targets dealt with so far, each contact in
  one of them and with the address it was fetched with; it is what makes the
  results of the engine, which are matched by position, those of their contacts.
  `SoundInv`: a definitive result of a run, wherever it is found (in a row, in an
  outcome, in HubSpot, among the late updates), was stored first, and no result is
  of the future.
  `WrittenInv`: the chunks answered so far are in HubSpot, but for contacts that a
  late update overtook. `DueInv`: while a run asks the cache, its targets are still
  due, again but for those; `SameResultNeedsLateStore` compares the row that is
  found with the result that made its contact due. The refinement maps the targets that were not written yet to
  `chosen`; one step of writing maps to `Write`, with the ages of what is written.
- **`HubSpotClient_proofs`**: type correctness; `TargetsAreDistinct`;
  `StableSearchIsComplete`; and the refinement `ImplementsPort`; for any contacts,
  limit, page and chunk size and number of attempts. `SearchOK` says that, as long as
  the list has not changed, the targets found are what one loop over the list
  up to the cursor would have kept; `KeptJoins` and `KeptOfPage` join the loops of
  the pages. `Kept` is a recursive function, so these are inductions; they are done
  over a set of numbers, with the library's theorem that such a set has a least member
  (`Induction`). `WriteOK` says that the chunks before the current one are persisted
  and that nothing but targets is, so that the last chunk completes the promise.
- **`MailPath_proofs`**: type correctness; `OneAdvicePerRecipient`; `AnswersFollowRequests`;
  `RejectNeedsEvidence`; `ReplyCoversEveryRecipient`; for calls of any length and
  any lines that a client writes. The last three compare what the handler does
  with the requests as the client has framed them, some of which are not read yet.
  `ConnectionOK` says where the lines of the request in hand stand in what was sent
  (`Framed`), `RejectionsOK` where the request of a rejection begins and ends
  (`Delimits`). Neither changes when more is written, and the request between two
  ends is the k-th because ends are counted (`EndIs`). Of a call, `EntriesOK`
  says that its entries are, in order, the distinct inputs it has come to, and
  `ReasonsOK` that each warning has a reason that was there at some time.

`WarningNeedsInvalidEvidence`, `AdviceFailsOpen`, `RefreshAnswersOwnResult`,
`OnlyTheProducerStores`, `NothingExpiredIsServed` and `DomainLimitIsIdle` are
stated for these proofs and have no run.

### Only model-checked

All liveness (`EveryBatchEnds`, `EveryRequestIsAnswered`, `EveryProcessGetsReady`,
`EveryGoodRequestIsAnswered`, `NobodyStarves`, `EveryCallReturns`): fairness and
`ENABLED` are out of the prover's reach. The three findings are counterexamples
that TLC finds.

## 8. What is not modelled

- *Eventually consistent reads*. DynamoDB calls are atomic here and reads are
  consistent, as those of DynamoDB Local are, the default. With managed DynamoDB
  `get_item` (`dynamodb.py:164`) may return a row that was replaced before the
  request began; the register then holds only up to that delay.
- *Host control plane*: that two runs do not overlap is assumed (the lock file of
  `kanga-route-run.service`), and the timer is there as one run a day. The rest
  (installation, `schedule`, `ui up`) is shell commands of one operator, one after
  the other, over systemd and docker.
- *Browser form* (`app.js`): one form; a submit disables the button until its own
  answer or abort arrives, and nothing else runs in the page.
- *Adapter registry, command line, configuration*: a lookup by name, one call of
  the single verification, and checks of the environment; no state and no order
  of events.
- *Data*: formatting of properties and timestamps, address syntax and
  normalization (an input is malformed or an address), log and answer wording,
  HTTP headers and request sizes.
- *Release tooling and infrastructure* (`scripts/`, `infra/`, `packer/`,
  `cloudformation/`, workflows): they build and publish machine images and declare
  resources; their state is in AWS and GitHub.
- *Cursors that take turns*: the search ends when it is given the cursor it has just
  used (`hubspot.py:271-274`), and that is what `EveryCallReturns` covers. Were
  HubSpot to alternate between two cursors without a contact that counts, the
  search would go on; cursors here go forward or stand still.
- *`Unknown` without a time*: the search has a filter group for it
  (`hubspot.py:157-170`), but the update writes status and time together, so no
  contact that the tool has written is in it, and `Due` does without.
- *In the models*: one event loop, FIFO semaphores as in CPython from 3.12 on; the
  clocks of the processes agree.
