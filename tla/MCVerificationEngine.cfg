\* Two mail exchanges, with the catch-all check.
SPECIFICATION Spec
CONSTANTS
    MaxHosts = 2
    Codes <- MCCodes
    FaultCodes <- MCFaultCodes
    CheckCatchAll = TRUE
INVARIANTS
    InvalidNeedsProof
    AcceptanceNeedsProof
    EvidenceDecides
    TransientTriesEveryHost
    SessionsAreClosed
CHECK_DEADLOCK FALSE
