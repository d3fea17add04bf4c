\* A policy connection on which five lines are written, or one web request.
SPECIFICATION PathSpec
CONSTANTS
    Addresses = {a1}
    bad = bad
    Malformed = {bad}
    NoRecipient = bad
    MaxRecipients = 3
    Mode = "enforce-cached-invalid"
    MaxLines = 3
    MaxSent = 5
INVARIANTS
    OneAdvicePerRecipient
    AnswersFollowRequests
    RejectNeedsEvidence
    ReplyCoversEveryRecipient
PROPERTIES
    EveryGoodRequestIsAnswered
CHECK_DEADLOCK FALSE
