-------------------------- MODULE EvidenceRegister --------------------------
(***************************************************************************)
(* What a request may rely on when it asks for evidence about an address.  *)
(*                                                                         *)
(* The table is a register per address that is                             *)
(*   regular:   an answer taken from it is a row that the register held at *)
(*              some moment since the request was opened;                  *)
(*   expiring:  such a row has not expired when it is answered;            *)
(*   lossy:     a row may be forgotten at any time.                        *)
(* Otherwise a request answers with its own verdict, or with none.  A row  *)
(* enters the register with the verdict of a request that is still open.   *)
(***************************************************************************)
EXTENDS Naturals

CONSTANTS Requests, Addresses, None, Malformed, Verdict, Item

VARIABLES
    now,      \* the clock
    held,     \* [Addresses -> Item or None]
    asked,    \* [Requests -> the address asked for]
    open,     \* [Requests -> BOOLEAN]
    window,   \* the rows held for its address since a request was opened
    answer    \* [Requests -> Verdict or None]

vars == <<now, held, asked, open, window, answer>>

Init ==
    /\ now \in Nat
    /\ held \in [Addresses -> Item \cup {None}]
    /\ asked = [r \in Requests |-> None]
    /\ open = [r \in Requests |-> FALSE]
    /\ window = [r \in Requests |-> {}]
    /\ answer = [r \in Requests |-> None]

\* A request for a becomes open; one with a malformed input never does.
Ask(r, a) ==
    /\ asked[r] = None
    /\ asked' = [asked EXCEPT ![r] = a]
    /\ IF a = Malformed
       THEN UNCHANGED <<open, window>>
       ELSE /\ open' = [open EXCEPT ![r] = TRUE]
            /\ window' = [window EXCEPT ![r] = {held[a]} \ {None}]
    /\ UNCHANGED <<now, held, answer>>

\* What request r may answer at this moment: an unexpired row of its window,
\* its own verdict, or nothing.
MayAnswer(r, v) ==
    \/ v = None
    \/ v \in Verdict /\ v.by = r /\ v.addr = asked[r]
    \/ \E row \in window[r] : row.ttl > now /\ v = row.verdict

\* Nothing is remembered about a request that is not open.
Ends(r) ==
    /\ open' = [open EXCEPT ![r] = FALSE]
    /\ window' = [window EXCEPT ![r] = {}]

\* The request is answered.
Reply(r) ==
    /\ open[r]
    /\ Ends(r)
    /\ MayAnswer(r, answer'[r])
    /\ answer' = [answer EXCEPT ![r] = answer'[r]]
    /\ UNCHANGED <<now, held, asked>>

\* An open request puts its own verdict into the register and ends.
Store(r) ==
    /\ open[r]
    /\ open' = [open EXCEPT ![r] = FALSE]
    /\ LET row == held'[asked[r]] IN
          /\ row \in Item
          /\ row.verdict.by = r
          /\ row.verdict.addr = asked[r]
          /\ held' = [held EXCEPT ![asked[r]] = row]
          /\ window' = [q \in Requests |->
                           IF q = r THEN {}
                           ELSE IF open[q] /\ asked[q] = asked[r]
                                THEN window[q] \cup {row}
                                ELSE window[q]]
          /\ \E v \in {row.verdict, None} : answer' = [answer EXCEPT ![r] = v]
    /\ UNCHANGED <<now, asked>>

Lose(a) ==
    /\ held' = [held EXCEPT ![a] = None]
    /\ UNCHANGED <<now, asked, open, window, answer>>

\* A lookup that finds nothing may forget the row and end in one step.
LoseAndReply(r) ==
    /\ open[r]
    /\ Ends(r)
    /\ held' = [held EXCEPT ![asked[r]] = None]
    /\ UNCHANGED <<now, asked, answer>>

Advance ==
    /\ now' \in Nat /\ now' > now
    /\ UNCHANGED <<held, asked, open, window, answer>>

Next ==
    \/ \E r \in Requests, a \in Addresses \cup {Malformed} : Ask(r, a)
    \/ \E r \in Requests : Reply(r) \/ Store(r) \/ LoseAndReply(r)
    \/ \E a \in Addresses : Lose(a)
    \/ Advance

Spec == Init /\ [][Next]_vars
=============================================================================
