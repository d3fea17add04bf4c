------------------------------ MODULE DailyCycle ------------------------------
(***************************************************************************)
(* The batch runs of an appliance over many days: VerificationCycle under  *)
(* the timer kanga-route-run.timer, which starts one run a day, delayed at *)
(* random by a part of the day.                                            *)
(*                                                                         *)
(* A run is short: no time passes while it lasts, so that an Unknown       *)
(* result has the age 0, and a definitive one that is served from the      *)
(* cache at most ServedAge.                                                *)
(***************************************************************************)
EXTENDS VerificationCycle

CONSTANTS
    Day,       \* ticks of a day
    Delay,     \* the timer starts a run in one of the ticks 0..Delay of a day
    ServedAge  \* the oldest definitive result that a run writes back

ASSUME DayAssumption == Day \in Nat \ {0} /\ Delay \in 0..Day - 1
ASSUME LimitAssumption == Limit \in Nat \ {0}
ASSUME OldestAssumption ==
    /\ Oldest \in Nat
    /\ UnknownRetryAfter \in 1..Oldest - 1 /\ ReverifyAfter \in 0..Oldest - 1
ASSUME ServedAssumption == ServedAge \in Ages

VARIABLES
    hour,    \* tick of the day
    today,   \* the run of today: "due", "running" or "over"
    trouble  \* history: the last step of a run was a failure or a late update

dailyVars == <<cycleVars, hour, today, trouble>>

TypeOK ==
    /\ CycleTypeOK
    /\ hour \in 0..Day - 1
    /\ today \in {"due", "running", "over"}
    /\ trouble \in BOOLEAN
    /\ chosen # {} => today = "running"

Init ==
    /\ CycleInit
    /\ hour = 0 /\ today = "due"
    /\ trouble = FALSE

\* The timer starts a run, which fetches its contacts.
Start ==
    /\ today = "due"
    /\ hour <= Delay
    /\ Choose
    /\ today' = "running"
    /\ trouble' = FALSE
    /\ UNCHANGED hour

\* The run writes its results back and ends: an Unknown one is new.
Finish ==
    /\ today = "running"
    /\ Give(chosen, 0..ServedAge)
    /\ \A c \in chosen : result'[c] = "unknown" => age'[c] = 0
    /\ chosen' = {}
    /\ today' = "over"
    /\ UNCHANGED <<hour, trouble>>

\* The run fails, perhaps with a part of the results written.
Break ==
    /\ today = "running"
    /\ Fail(0..ServedAge)
    /\ today' = "over"
    /\ trouble' = TRUE
    /\ UNCHANGED hour

\* HubSpot applies an update that a run has given up on.
Late ==
    /\ Overtake
    /\ trouble' = TRUE
    /\ UNCHANGED <<hour, today>>

Tick ==
    /\ today # "running"
    /\ today = "due" => hour < Delay
    /\ Older
    /\ hour' = (hour + 1) % Day
    /\ today' = IF hour' = 0 THEN "due" ELSE today
    /\ UNCHANGED trouble

Next == Start \/ Finish \/ Break \/ Late \/ Tick

Spec == Init /\ [][Next]_dailyVars

\* Time passes, the timer starts runs, and a run ends.
FairSpec == Spec /\ WF_dailyVars(Start \/ Finish \/ Tick)

-----------------------------------------------------------------------------
(* Properties. *)

\* The ticks for which a contact is not due after it was written to.
Rest == IF ReverifyAfter = 0 \/ UnknownRetryAfter < ReverifyAfter - ServedAge
        THEN UnknownRetryAfter ELSE ReverifyAfter - ServedAge

\* The others cannot use up every run: one of them takes part in a run at most
\* every Rest + 1 ticks, in which there are (Rest + 1) / Day runs.
EnoughRuns == (Cardinality(Contacts) - 1) * Day < Limit * (Rest + 1)

\* Nobody starves: if runs fail and updates are late only finitely often, and
\* there are not too many contacts for the limit and the cooldown, every
\* contact that is due gets its turn, in whatever order HubSpot lists them
\* (hubspot.py:143-276, docs/long-term-use.md:12-14).
NobodyStarves ==
    <>[]~trouble /\ EnoughRuns =>
        \A c \in Contacts : Due(c) ~> c \in chosen \/ ~Due(c)
=============================================================================
