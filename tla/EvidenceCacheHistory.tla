------------------------ MODULE EvidenceCacheHistory ------------------------
(***************************************************************************)
(* EvidenceCache with two history variables, for the properties that       *)
(* relate the answer of a request to what happened while it was open.      *)
(***************************************************************************)
EXTENDS EvidenceCache

VARIABLES
    window,   \* the rows its address had since the request was opened
    before    \* the requests that were closed when the request started

historyVars == <<now, table, pc, kind, addr, item, result, outcome, window, before>>

HistoryInit ==
    /\ Init
    /\ window = [r \in Requests |-> {}]
    /\ before = [r \in Requests |-> {}]

\* The row of an address, as a set.
RowOf(a) == {table[a]} \ {None}

Record ==
    /\ window' = [r \in Requests |-> IF Open(r)' THEN window[r] \cup RowOf(addr[r])'
                                                 ELSE {}]
    /\ before' = [r \in Requests |-> IF pc[r] = "new" THEN Done ELSE before[r]]

HistoryNext == Next /\ Record

HistorySpec == HistoryInit /\ [][HistoryNext]_historyVars

-----------------------------------------------------------------------------
\* Two verifications were open at the same time.
Overlapped(r, q) == r \notin before[q] /\ q \notin before[r]

\* The answers about an address go back to older evidence only when the two
\* verifications that produced the evidence ran at the same time: a request
\* started after another one was answered never gets older evidence otherwise
\* (unconditional put_item, dynamodb.py:238).
RegressionNeedsOverlap ==
    \A r, q \in Done :
        LET v == outcome[r].verdict
            w == outcome[q].verdict
        IN  (/\ r \in before[q]
             /\ addr[r] = addr[q]
             /\ v # None /\ w # None
             /\ DefinitiveStatus(v.status)
             /\ w.at < v.at)
            => /\ w.by # Prior
               /\ Overlapped(v.by, w.by)

Register == INSTANCE EvidenceRegister WITH
    held <- table,
    asked <- addr,
    open <- [r \in Requests |-> Open(r)],
    answer <- [r \in Requests |-> outcome[r].verdict]

\* The table, with its three unconditional calls and its clock, is the regular,
\* lossy and expiring register of EvidenceRegister for the requests that use
\* it (dynamodb.py:157-241, single_verification.py:67-115).
ImplementsRegister == Register!Spec
=============================================================================
