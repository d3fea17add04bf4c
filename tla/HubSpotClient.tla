---------------------------- MODULE HubSpotClient ----------------------------
(***************************************************************************)
(* HubSpotClient (crm/hubspot.py) behind the adapter port: the paged search*)
(* for the contacts that are due, and the chunked update of the contacts   *)
(* that were found.  Every POST is tried a limited number of times.  What  *)
(* the run does between the two calls is BatchPipeline's.                  *)
(*                                                                         *)
(* HubSpot is the other party.  Its search reads a list that changes while *)
(* the client pages through it, with a position in that list for a cursor, *)
(* and an update that is answered with an error, or not at all, may take   *)
(* effect all the same: at once or later, in part or whole.                *)
(***************************************************************************)
EXTENDS Naturals, SequencesExt

CONSTANTS
    Contacts,    \* HubSpot contacts
    Limit,       \* batch_size
    PageSize,    \* contacts that one search call may ask for
    ChunkSize,   \* contacts that one update call may carry
    MaxRetries,  \* max_retries, the number of attempts
    MaxChanges   \* bound on what HubSpot does to a search

ASSUME LimitAssumption == Limit \in Nat \ {0}
ASSUME PageSizeAssumption == PageSize \in Nat \ {0}
ASSUME ChunkSizeAssumption == ChunkSize \in Nat \ {0}
ASSUME MaxRetriesAssumption == MaxRetries \in Nat \ {0}
ASSUME MaxChangesAssumption == MaxChanges \in Nat

VARIABLES
    due,       \* HubSpot: the contacts that match the filters, in its order
    blank,     \* HubSpot: contacts whose email property is only white space
    updated,   \* HubSpot: contacts that were given their result
    late,      \* HubSpot: contacts in updates it has not answered with success
    changes,   \* how often the list or the cursor has misled the search
    step,      \* "search", "write" or "done"
    attempt,   \* attempts of the current request that have failed
    after,     \* the cursor, 0 before the first page
    contacts,  \* the targets that were found
    index,     \* position of the first target of the chunk to write
    answer     \* how the calls have ended

hubspot == <<due, blank, updated, late, changes>>
vars == <<due, blank, updated, late, changes, step, attempt, after, contacts, index, answer>>

Smaller(m, n) == IF m < n THEN m ELSE n
Distinct(s) == \A m, n \in DOMAIN s : s[m] = s[n] => m = n

TypeOK ==
    /\ due \in Seq(Contacts) /\ Distinct(due)
    /\ blank \subseteq Contacts
    /\ updated \subseteq Contacts
    /\ late \subseteq Contacts
    /\ changes \in 0..MaxChanges
    /\ step \in {"search", "write", "done"}
    /\ attempt \in 0..(MaxRetries - 1)
    /\ after \in Nat
    /\ contacts \in Seq(Contacts) /\ Len(contacts) <= Limit
    /\ step = "write" => index \in DOMAIN contacts /\ (index - 1) % ChunkSize = 0
    /\ answer \in {"none", "true", "raised"}
    /\ answer = "none" <=> step # "done"

Init ==
    /\ due \in {s \in UNION {[1..n -> Contacts] : n \in 0..Cardinality(Contacts)} : Distinct(s)}
    /\ blank \in SUBSET ToSet(due)
    /\ updated = {} /\ late = {} /\ changes = 0
    /\ step = "search" /\ attempt = 0 /\ after = 0 /\ contacts = <<>>
    /\ index = 1 /\ answer = "none"

-----------------------------------------------------------------------------
(* The end of a call. *)

Done(how) == step' = "done" /\ answer' = how

\* A search that fails returns no targets.
Raise ==
    /\ Done("raised")
    /\ contacts' = IF step = "search" THEN <<>> ELSE contacts

\* Mutant of Retry: one attempt too many.
RetryOnceMore ==
    /\ UNCHANGED index
    /\ IF attempt < MaxRetries
       THEN attempt' = attempt + 1 /\ UNCHANGED <<step, answer, contacts>>
       ELSE UNCHANGED attempt /\ Raise

\* _post: an exception, 429 or 5xx is tried again, then it is an error.  Any
\* other status is the caller's to judge.
Retry ==
    /\ UNCHANGED index
    /\ IF attempt + 1 < MaxRetries
       THEN attempt' = attempt + 1 /\ UNCHANGED <<step, answer, contacts>>
       ELSE UNCHANGED attempt /\ Raise

-----------------------------------------------------------------------------
(* fetch_unverified_contacts. *)

\* The page at the cursor, and the cursor of the next one, 0 if there is none.
Asked == Smaller(PageSize, Limit - Len(contacts))
Page == SubSeq(due, after + 1, Smaller(after + Asked, Len(due)))
NextAfter == IF after + Asked < Len(due) THEN after + Asked ELSE 0

\* What a loop over s has kept of it after each of its steps, which keep the
\* members of T.
KeptUpTo(s, T) ==
    LET kept[n \in 0..Len(s)] ==
          IF n = 0 THEN <<>>
          ELSE IF s[n] \in T THEN Append(kept[n - 1], s[n]) ELSE kept[n - 1]
    IN kept
Kept(s, T) == KeptUpTo(s, T)[Len(s)]

\* Mutant of New: contacts of earlier pages are taken again.
NewOrSeen == Kept(Page, Contacts \ blank)

\* What a page adds: contacts that have an address and were not seen before.
New == Kept(Page, Contacts \ (blank \cup ToSet(contacts)))

\* The search is over.  Without targets nothing is left to do.
Found(found) ==
    /\ contacts' = found
    /\ IF found = <<>> THEN Done("true") ELSE step' = "write" /\ UNCHANGED answer
    /\ UNCHANGED after

\* Mutant of TakePage: a page with fewer new contacts than it was asked for is
\* taken for the last one.
TakePageShort(next) ==
    LET found == contacts \o New IN
    IF Len(found) >= Limit \/ Len(New) < Asked \/ next \in {0, after} THEN Found(found)
    ELSE contacts' = found /\ after' = next /\ UNCHANGED <<step, answer>>
\* Mutant of TakePage: the cursor is not kept for the next call.
TakePageAgain(next) ==
    LET found == contacts \o New IN
    IF Len(found) >= Limit \/ next \in {0, after} THEN Found(found)
    ELSE contacts' = found /\ UNCHANGED <<after, step, answer>>

\* The search goes on with the cursor of the next page unless there is none,
\* it is the one just used, or there are targets enough.
TakePage(next) ==
    LET found == contacts \o New IN
    IF Len(found) >= Limit \/ next \in {0, after} THEN Found(found)
    ELSE contacts' = found /\ after' = next /\ UNCHANGED <<step, answer>>

SearchPage ==
    /\ step = "search"
    /\ TakePage(NextAfter)
    /\ attempt' = 0
    /\ UNCHANGED <<hubspot, index>>

\* HubSpot hands out the same cursor again.  Cursors that take turns without a
\* new contact, which the client would follow for ever, are left out.
SearchPageStuck ==
    /\ step = "search"
    /\ after # 0
    /\ TakePage(after)
    /\ attempt' = 0
    /\ changes < MaxChanges /\ changes' = changes + 1
    /\ UNCHANGED <<due, blank, updated, late, index>>

\* The search is answered with a temporary error or not at all.
SearchRetry ==
    /\ step = "search"
    /\ Retry
    /\ UNCHANGED <<hubspot, after>>

\* It is answered with another status or with something else than JSON.
SearchRejected ==
    /\ step = "search"
    /\ Raise
    /\ UNCHANGED <<hubspot, attempt, after, index>>

-----------------------------------------------------------------------------
(* batch_update_verification_results. *)

Chunk == ToSet(SubSeq(contacts, index, Smaller(index + ChunkSize - 1, Len(contacts))))

\* The next chunk, or the end.
NextChunk ==
    /\ attempt' = 0
    /\ IF index + ChunkSize <= Len(contacts)
       THEN index' = index + ChunkSize /\ UNCHANGED <<step, answer>>
       ELSE Done("true") /\ UNCHANGED index

\* Mutant of WriteChunk: the status of the batch is not looked at.
WriteChunkAnyStatus ==
    /\ step = "write"
    /\ \/ updated' = updated \cup Chunk /\ UNCHANGED late
       \/ late' = late \cup Chunk /\ UNCHANGED updated
    /\ NextChunk
    /\ UNCHANGED <<due, blank, changes, after, contacts>>

\* The update is answered with 200 and COMPLETE.
WriteChunk ==
    /\ step = "write"
    /\ updated' = updated \cup Chunk
    /\ NextChunk
    /\ UNCHANGED <<due, blank, late, changes, after, contacts>>

\* It is answered with a temporary error or not at all, and sent again as it is.
WriteRetry ==
    /\ step = "write"
    /\ late' = late \cup Chunk
    /\ Retry
    /\ UNCHANGED <<due, blank, updated, changes, after>>

\* It is answered with another status (of the call or of the batch), or with
\* something else than a JSON object.
WriteRejected ==
    /\ step = "write"
    /\ late' = late \cup Chunk
    /\ Raise
    /\ UNCHANGED <<due, blank, updated, changes, attempt, after, index>>

-----------------------------------------------------------------------------
(* HubSpot. *)

\* A contact begins to match the filters, or ceases to, anywhere in the list.
Change ==
    /\ step = "search"
    /\ changes < MaxChanges /\ changes' = changes + 1
    /\ \/ \E c \in Contacts \ ToSet(due), n \in 1..(Len(due) + 1) : due' = InsertAt(due, n, c)
       \/ \E n \in DOMAIN due : due' = RemoveAt(due, n)
    /\ UNCHANGED <<blank, updated, late, step, attempt, after, contacts, index, answer>>

\* An update takes effect that was not answered with success.
TakeEffect ==
    /\ \E c \in late \ updated : updated' = updated \cup {c}
    /\ UNCHANGED <<due, blank, late, changes, step, attempt, after, contacts, index, answer>>

-----------------------------------------------------------------------------

Client ==
    \/ SearchPage \/ SearchPageStuck \/ SearchRetry \/ SearchRejected
    \/ WriteChunk \/ WriteRetry \/ WriteRejected

Next == Client \/ Change \/ TakeEffect

Spec == Init /\ [][Next]_vars

\* Every POST has a timeout, and every sleep between attempts ends.
FairSpec == Spec /\ WF_vars(Client)

-----------------------------------------------------------------------------
(* Properties. *)

\* No contact is a target twice, not even when the list shifts between pages
\* and a later page repeats what an earlier one held (hubspot.py:234-269).
TargetsAreDistinct == Distinct(contacts)

\* If the list stays as it is, the search finds the first contacts that have
\* an address, as many as the limit allows: no page boundary loses one
\* (hubspot.py:237-274).
StableSearchIsComplete ==
    changes = 0 /\ step = "write" =>
        LET usable == Kept(due, Contacts \ blank) IN
        contacts = SubSeq(usable, 1, Smaller(Limit, Len(usable)))

\* The call of write_outcomes begins when the search has found something.
Port == INSTANCE AdapterPort WITH
    Records <- Contacts,
    outcomes <- IF step = "search" \/ contacts = <<>> THEN {} ELSE ToSet(contacts),
    persisted <- updated,
    answer <- IF contacts = <<>> THEN "none" ELSE answer

\* The client keeps the promise of the port to return True only when every
\* outcome is persisted, and not to persist any other (hubspot.py:289-335).
ImplementsPort == Port!Spec

\* The search and the update return, whatever errors HubSpot answers, whatever
\* it does not answer, and although it may hand out the cursor just used
\* (hubspot.py:105-141, 271-274).
EveryCallReturns == <>(step = "done")
=============================================================================
