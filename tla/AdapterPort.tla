---------------------------- MODULE AdapterPort -----------------------------
(***************************************************************************)
(* What write_outcomes of an IVerificationAdapter promises to the batch    *)
(* run (contracts.py, integration-authoring.md): it returns True only when *)
(* every outcome is persisted.  Otherwise it raises; any of them may be    *)
(* persisted then, or be so later.                                         *)
(***************************************************************************)
CONSTANT Records  \* the product's records

VARIABLES
    outcomes,  \* the records of the call's outcomes, none before the call
    persisted, \* the records whose outcome the product has persisted
    answer     \* "none" until the call returns True or raises

vars == <<outcomes, persisted, answer>>

Init == outcomes = {} /\ persisted = {} /\ answer = "none"

Call == outcomes = {} /\ outcomes' \in (SUBSET Records) \ {{}} /\ UNCHANGED <<persisted, answer>>

Persist ==
    /\ outcomes # {}
    /\ \E some \in SUBSET outcomes : persisted' = persisted \cup some
    /\ UNCHANGED <<outcomes, answer>>

Return ==
    /\ answer = "none"
    /\ outcomes # {}
    /\ persisted' = outcomes
    /\ answer' = "true"
    /\ UNCHANGED outcomes

Raise ==
    /\ answer = "none"
    /\ outcomes # {}
    /\ answer' = "raised"
    /\ UNCHANGED <<outcomes, persisted>>

Next == Call \/ Persist \/ Return \/ Raise

Spec == Init /\ [][Next]_vars
=============================================================================
