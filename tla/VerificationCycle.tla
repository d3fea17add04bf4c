--------------------------- MODULE VerificationCycle ---------------------------
(***************************************************************************)
(* What the batch runs do to the contacts of HubSpot, in the abstract: a   *)
(* run chooses as many contacts that are due as its limit allows and gives *)
(* each of them a result, unless it fails and leaves some out.  Of a       *)
(* result only its kind and its age count.  BatchPipeline implements this  *)
(* module; DailyCycle adds the timer and asks whether everybody gets a     *)
(* turn.                                                                   *)
(***************************************************************************)
EXTENDS Naturals, FiniteSets

CONSTANTS
    Contacts,           \* HubSpot contacts
    Limit,              \* batch_size
    ReverifyAfter,      \* REVERIFY_AFTER_DAYS in ticks, 0 for never
    UnknownRetryAfter,  \* UNKNOWN_RETRY_AFTER_HOURS in ticks
    Oldest              \* the age at which ages stop to be counted

VARIABLES
    result,  \* "new" for a contact without a status, "unknown" or "definitive"
    age,     \* ticks since last_verified, 0 without it
    chosen   \* contacts of the current run that were not written to yet

cycleVars == <<result, age, chosen>>

Results == {"unknown", "definitive"}
Ages == 0..Oldest

CycleTypeOK ==
    /\ result \in [Contacts -> Results \cup {"new"}]
    /\ age \in [Contacts -> Ages]
    /\ \A c \in Contacts : result[c] = "new" => age[c] = 0
    /\ chosen \subseteq Contacts

CycleInit ==
    /\ result \in [Contacts -> Results \cup {"new"}]
    /\ age \in [Contacts -> Ages]
    /\ \A c \in Contacts : result[c] = "new" => age[c] = 0
    /\ chosen = {}

\* Mutant of Due: Unknown results have no cooldown.
DueWithoutCooldown(c) ==
    \/ result[c] \in {"new", "unknown"}
    \/ result[c] = "definitive" /\ ReverifyAfter > 0 /\ age[c] > ReverifyAfter

\* The filter groups of the search.
Due(c) ==
    \/ result[c] = "new"
    \/ result[c] = "unknown" /\ age[c] > UnknownRetryAfter
    \/ result[c] = "definitive" /\ ReverifyAfter > 0 /\ age[c] > ReverifyAfter

DueContacts == {c \in Contacts : Due(c)}

\* A run takes all contacts that are due, or any Limit of them: the search
\* states no order.
Choose ==
    /\ chosen = {}
    /\ chosen' \in SUBSET DueContacts
    /\ Cardinality(chosen') = IF Cardinality(DueContacts) < Limit
                              THEN Cardinality(DueContacts) ELSE Limit
    /\ UNCHANGED <<result, age>>

\* The contacts of S get new results of some of the ages.
Give(S, ages) ==
    /\ \E r \in [S -> Results] :
          result' = [c \in Contacts |-> IF c \in S THEN r[c] ELSE result[c]]
    /\ \E t \in [S -> ages] :
          age' = [c \in Contacts |-> IF c \in S THEN t[c] ELSE age[c]]

\* Some of the chosen contacts are written to.
Write(ages) ==
    \E S \in SUBSET chosen :
        /\ chosen' = chosen \ S
        /\ Give(S, ages)

\* The run ends early, having written to some of the rest or to none.
Fail(ages) ==
    /\ chosen' = {}
    /\ \E S \in SUBSET chosen : Give(S, ages)

\* An update of an earlier run takes effect.
Overtake ==
    /\ UNCHANGED chosen
    /\ \E c \in Contacts : Give({c}, Ages)

\* Time passes.
Older ==
    /\ age' = [c \in Contacts |-> CASE result[c] = "new" -> 0
                                    [] age[c] = Oldest    -> Oldest
                                    [] OTHER              -> age[c] + 1]
    /\ UNCHANGED <<result, chosen>>

CycleNext == Write(Ages) \/ Choose \/ Fail(Ages) \/ Overtake \/ Older

CycleSpec == CycleInit /\ [][CycleNext]_cycleVars
=============================================================================
