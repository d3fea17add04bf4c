---------------------------- MODULE PostfixPolicy ----------------------------
(***************************************************************************)
(* One connection of the Postfix policy server (mail/postfix_policy.py).   *)
(*                                                                         *)
(* The client writes lines, as many requests as it likes and without       *)
(* waiting for answers; an empty line ends a request.  The handler reads a *)
(* request, has MailAdvice advise about its recipient, answers, and starts *)
(* over.  Whatever does not fit its bounds it answers once, and closes.    *)
(***************************************************************************)
EXTENDS MailAdvice

CONSTANTS
    NoRecipient,  \* the empty input, one of Malformed
    Mode,         \* POSTFIX_POLICY_MODE
    MaxLines,     \* max_request_lines
    MaxSent       \* bound on the lines that the client writes

ASSUME NoRecipientAssumption == NoRecipient \in Malformed
ASSUME ModeAssumption == Mode \in {"observe", "enforce-cached-invalid"}
ASSUME MaxLinesAssumption == MaxLines \in Nat \ {0}
ASSUME MaxSentAssumption == MaxSent \in Nat

VARIABLES
    sent,     \* the lines the client has written so far
    read,     \* how many of them the handler has read
    ended,    \* the client has closed its side
    conn,     \* "reading", "deciding", "closed" (by the handler) or "lost"
    lines,    \* the lines of the request that is being read
    answers,  \* the actions answered
    refuted   \* history: addresses for which there was Invalid evidence

connVars == <<sent, read, ended, conn, lines, answers>>
vars == <<evidence, asked, todo, advice, sent, read, ended, conn, lines, answers, refuted>>

\* A line is an attribute with a recipient, another line with something in it,
\* the empty line, or a line of more than max_line_bytes.
Lines == Inputs \cup {"other", "empty", "long"}

TypeOK ==
    /\ AdviceTypeOK
    /\ sent \in Seq(Lines) /\ Len(sent) <= MaxSent
    /\ read \in 0..Len(sent)
    /\ ended \in BOOLEAN
    /\ conn \in {"reading", "deciding", "closed", "lost"}
    /\ lines \in Seq(Lines \ {"empty", "long"})
    /\ conn = "reading" => Len(lines) < MaxLines
    /\ conn = "deciding" => Len(asked) = 1
    /\ answers \in Seq({"DUNNO", "REJECT"})
    /\ refuted \subseteq Addresses

Init ==
    /\ AdviceInit
    /\ sent = <<>> /\ read = 0 /\ ended = FALSE
    /\ conn = "reading" /\ lines = <<>> /\ answers = <<>>
    /\ refuted = {}

-----------------------------------------------------------------------------
(* The handler. *)

\* parse_policy_request: of several recipients the last one counts.
Recipient(request) ==
    LET given == {n \in DOMAIN request : request[n] \in Inputs}
        last == {n \in given : \A m \in given : m <= n}
    IN  IF last = {} THEN NoRecipient ELSE request[CHOOSE n \in last : TRUE]

\* Mutant of GiveUp: the connection is kept, and the rest of the request is
\* read as another one.
GiveUpAndReadOn ==
    /\ answers' = Append(answers, "DUNNO")
    /\ lines' = <<>>
    /\ UNCHANGED <<conn, adviceVars>>

\* A request that does not fit is answered, and the connection is closed.
GiveUp ==
    /\ answers' = Append(answers, "DUNNO")
    /\ conn' = "closed"
    /\ UNCHANGED <<lines, adviceVars>>

\* Mutant of Fits: one line less than there may be.
FitsLess(request) == Len(request) < MaxLines - 1
\* The lines that were read leave room for the one that ends the request.
Fits(request) == Len(request) < MaxLines

\* rfile.readline returns a line.
ReadLine ==
    /\ conn = "reading"
    /\ read < Len(sent)
    /\ read' = read + 1
    /\ LET line == sent[read + 1] IN
       \/ line = "long" /\ GiveUp
       \/ /\ line = "empty"
          /\ conn' = "deciding"
          /\ Call(<<Recipient(lines)>>)
          /\ UNCHANGED <<lines, answers>>
       \/ /\ line \notin {"long", "empty"}
          /\ IF Fits(Append(lines, line))
             THEN lines' = Append(lines, line) /\ UNCHANGED <<conn, answers, adviceVars>>
             ELSE GiveUp
    /\ UNCHANGED <<evidence, sent, ended, refuted>>

\* It returns nothing: the client has closed, perhaps within a request, and
\* no answer is owed.
ReadEnd ==
    /\ conn = "reading"
    /\ read = Len(sent) /\ ended
    /\ conn' = "closed"
    /\ UNCHANGED <<evidence, adviceVars, sent, read, ended, lines, answers, refuted>>

Advise ==
    /\ conn = "deciding"
    /\ AdviseNext
    /\ UNCHANGED <<connVars, refuted>>

\* The one reason to reject.
CachedInvalid(entry) == Warns(entry) /\ entry.source = "cache"

\* Mutant of Respond: the lines of the request are kept for the next one.
RespondAndKeep ==
    /\ conn = "deciding"
    /\ todo = <<>>
    /\ answers' = Append(answers,
           IF Mode = "enforce-cached-invalid" /\ CachedInvalid(advice[1])
           THEN "REJECT" ELSE "DUNNO")
    /\ conn' = "reading"
    /\ Return
    /\ UNCHANGED <<evidence, sent, read, ended, lines, refuted>>

\* policy_action, and the answer; an exception on the way is answered DUNNO.
Respond ==
    /\ conn = "deciding"
    /\ todo = <<>>
    /\ \/ answers' = Append(answers,
              IF Mode = "enforce-cached-invalid" /\ CachedInvalid(advice[1])
              THEN "REJECT" ELSE "DUNNO")
       \/ answers' = Append(answers, "DUNNO")
    /\ conn' = "reading"
    /\ lines' = <<>>
    /\ Return
    /\ UNCHANGED <<evidence, sent, read, ended, refuted>>

-----------------------------------------------------------------------------
(* The client, the network and the cache. *)

Write(line) ==
    /\ conn \in {"reading", "deciding"} /\ ~ended
    /\ Len(sent) < MaxSent
    /\ sent' = Append(sent, line)
    /\ UNCHANGED <<evidence, adviceVars, read, ended, conn, lines, answers, refuted>>

CloseSide ==
    /\ conn \in {"reading", "deciding"} /\ ~ended
    /\ ended' = TRUE
    /\ UNCHANGED <<evidence, adviceVars, sent, read, conn, lines, answers, refuted>>

\* The connection breaks, or the server stops: its threads are daemons.
Lose ==
    /\ conn \in {"reading", "deciding"}
    /\ conn' = "lost"
    /\ Return
    /\ UNCHANGED <<evidence, sent, read, ended, lines, answers, refuted>>

\* The cache changes while somebody may look.
World ==
    /\ conn \in {"reading", "deciding"} \/ todo # <<>>
    /\ \E a \in Addresses, status \in {"none", "Valid", "Invalid"} :
          /\ EvidenceChanges(a, status)
          /\ refuted' = IF status = "Invalid" THEN refuted \cup {a} ELSE refuted
    /\ UNCHANGED connVars

Handler == ReadLine \/ ReadEnd \/ Advise \/ Respond

Next ==
    \/ Handler
    \/ \E line \in Lines : Write(line)
    \/ CloseSide \/ Lose \/ World

Spec == Init /\ [][Next]_vars

-----------------------------------------------------------------------------
(* Properties. *)

\* The requests as the client has framed them: the lines that end one, where the
\* k-th ends, and its lines.
Ends == {n \in DOMAIN sent : sent[n] = "empty"}
EndsUpTo(n) == {m \in Ends : m <= n}
End(k) == IF k = 0 THEN 0 ELSE CHOOSE n \in Ends : Cardinality(EndsUpTo(n)) = k
Request(k) == SubSeq(sent, End(k - 1) + 1, End(k) - 1)

\* The answers stay in step with the requests: each complete request has been
\* given one, in order, but for the one that is being decided; the only other
\* answer is a last DUNNO, after which nothing is read (postfix_policy.py:66-98).
AnswersFollowRequests ==
    LET complete == Cardinality(EndsUpTo(read)) IN
    /\ conn = "reading" => Len(answers) = complete
    /\ conn = "deciding" => Len(answers) = complete - 1
    /\ Len(answers) > complete =>
          conn = "closed" /\ Len(answers) = complete + 1 /\ Last(answers) = "DUNNO"

\* A message is rejected only in enforcing mode, and only if there was Invalid
\* evidence about the recipient of the very request that the client will take
\* the answer for (postfix_policy.py:30-57; docs/mail-server-integration.md:76).
RejectNeedsEvidence ==
    \A k \in DOMAIN answers : answers[k] = "REJECT" =>
        /\ Mode = "enforce-cached-invalid"
        /\ k <= Cardinality(Ends)
        /\ Recipient(Request(k)) \in refuted

\* The first k requests are complete and within the bounds.
GoodUpTo(k) ==
    /\ k <= Cardinality(Ends)
    /\ \A j \in 1..k : Len(Request(j)) < MaxLines /\ ~Contains(Request(j), "long")

\* A request within the bounds that follows such requests is answered, unless
\* the connection is lost, even if the client has closed its side by then.
EveryGoodRequestIsAnswered ==
    \A k \in 1..MaxSent : GoodUpTo(k) ~> Len(answers) >= k \/ conn = "lost"
=============================================================================
