----------------------------- MODULE MailAdvice -----------------------------
(***************************************************************************)
(* One call of MailAdvisoryService.advise (application/mail_advisory.py):  *)
(* the recipients are looked up one after the other, each at most once,    *)
(* and nothing that a lookup does stops the call.  Other processes change  *)
(* the cached evidence meanwhile.                                          *)
(*                                                                         *)
(* An input stands for what it is normalized to, so that two spellings of  *)
(* an address are the same input twice.                                    *)
(***************************************************************************)
EXTENDS Evidence, SequencesExt

CONSTANTS
    Addresses,     \* what valid inputs are normalized to
    Malformed,     \* inputs that normalize_email_address rejects
    MaxRecipients  \* max_recipients

ASSUME InputsAssumption == Addresses \cap Malformed = {}
ASSUME MaxRecipientsAssumption == MaxRecipients \in Nat \ {0}

VARIABLES
    evidence,  \* what a cache lookup of each address finds, "none" for a miss
    asked,     \* the inputs of the call
    todo,      \* those it has not come to
    advice     \* its answer so far

adviceVars == <<asked, todo, advice>>

Inputs == Addresses \cup Malformed
Sources == {"local", "unavailable", "miss", "cache"}
Advice == [to : Inputs, source : Sources, status : Statuses \cup {"none"}]

AdviceTypeOK ==
    /\ evidence \in [Addresses -> Statuses \cup {"none"}]
    /\ asked \in Seq(Inputs) /\ Len(asked) <= MaxRecipients
    /\ \E n \in 0..Len(asked) : todo = SubSeq(asked, n + 1, Len(asked))
    /\ advice \in Seq(Advice)

AdviceInit ==
    /\ evidence = [a \in Addresses |-> "none"]
    /\ asked = <<>> /\ todo = <<>> /\ advice = <<>>

\* advise() is called; it refuses more recipients than it is configured for.
Call(inputs) ==
    /\ Len(inputs) \in 1..MaxRecipients
    /\ asked' = inputs /\ todo' = inputs /\ advice' = <<>>

\* The call is over, and what it knew is gone.
Return == asked' = <<>> /\ todo' = <<>> /\ advice' = <<>>

\* Mutant of Seen: only the input just before is remembered.
SeenLast(input) == advice # <<>> /\ Last(advice).to = input

\* The input was advised about already.
Seen(input) == \E n \in DOMAIN advice : advice[n].to = input

\* What a lookup makes of an address: the cache failed, has nothing, or has
\* evidence.
Lookup(a) ==
    { [to |-> a, source |-> "unavailable", status |-> "none"],
      [to |-> a, source |-> IF evidence[a] = "none" THEN "miss" ELSE "cache",
       status |-> evidence[a]] }

\* The loop takes the next recipient.
AdviseNext ==
    /\ todo # <<>>
    /\ todo' = Tail(todo)
    /\ LET input == Head(todo) IN
       \/ Seen(input) /\ UNCHANGED advice
       \/ /\ ~Seen(input) /\ input \in Malformed
          /\ advice' = Append(advice, [to |-> input, source |-> "local", status |-> "none"])
       \/ /\ ~Seen(input) /\ input \in Addresses
          /\ \E found \in Lookup(input) : advice' = Append(advice, found)
    /\ UNCHANGED <<evidence, asked>>

\* The recommended action: a malformed input and cached Invalid evidence are
\* reasons to warn, nothing else is.
Warns(entry) == entry.source = "local" \/ entry.status = "Invalid"

\* Another process stores evidence, or it expires.
EvidenceChanges(a, status) ==
    /\ evidence[a] # status
    /\ evidence' = [evidence EXCEPT ![a] = status]
    /\ UNCHANGED adviceVars

-----------------------------------------------------------------------------
\* The position at which an input was given first.
FirstAsked(input) == CHOOSE n \in DOMAIN asked :
    asked[n] = input /\ \A m \in 1..(n - 1) : asked[m] # input

\* Every distinct recipient that the call has come to is advised about exactly
\* once, in the order in which they were given first, whatever the lookups of
\* the others have done (mail_advisory.py:75-141).
OneAdvicePerRecipient ==
    /\ {advice[n].to : n \in DOMAIN advice} = ToSet(SubSeq(asked, 1, Len(asked) - Len(todo)))
    /\ \A m, n \in DOMAIN advice :
          m < n => FirstAsked(advice[m].to) < FirstAsked(advice[n].to)
=============================================================================
