------------------------- MODULE VerificationEngine -------------------------
(***************************************************************************)
(* One call of VerificationEngine.verify: the syntax, blocklist, DNS and   *)
(* SMTP stages of engine/verifier.py for one address.                      *)
(*                                                                         *)
(* Every lookup and every SMTP command is a step, and the resolver and the *)
(* servers answer it in any way they can.  The first stage with a result   *)
(* ends the call.  Left out: role accounts, the provider fingerprint and   *)
(* the texts of replies, of which only "explicitly says that the recipient *)
(* does not exist" matters.                                                *)
(*                                                                         *)
(* dns and replies record what was answered; no action reads them.         *)
(***************************************************************************)
EXTENDS Evidence, Integers

CONSTANTS
    MaxHosts,       \* bound on the number of mail exchanges of a domain
    Codes,          \* the SMTP reply codes that occur
    FaultCodes,     \* the codes of the SMTPResponseExceptions that occur
    CheckCatchAll   \* the check_catch_all option of the SMTP stage

ASSUME MaxHostsAssumption == MaxHosts \in Nat \ {0}
ASSUME CodesAssumption == Codes \subseteq Int /\ FaultCodes \subseteq Int
ASSUME CheckCatchAllAssumption == CheckCatchAll \in BOOLEAN

VARIABLES
    input,      \* what the address is: well formed, on the blocklist
    stage,      \* the next lookup or command
    hosts,      \* number of mail exchanges found
    transient,  \* reason of the failed address lookups so far
    host,       \* the mail exchange in use
    session,    \* the SMTP session: none, a socket, or a greeted server
    failure,    \* reason of last_failure
    pending,    \* the result being returned through the finally clause
    verdict,    \* the result of the call
    dns,        \* history: the answer to each lookup
    replies     \* history: the replies of each host

vars == <<input, stage, hosts, transient, host, session, failure, pending,
          verdict, dns, replies>>

Hosts == 1..MaxHosts
NoResult == [status |-> "none", reason |-> "none"]
Result(status, reason) == [status |-> status, reason |-> reason]

\* Answers of the resolver.  "nulls" is an MX set of several null exchanges.
AddressAnswers == {"answer", "nxdomain", "noanswer", "timeout", "error"}
MXAnswers == AddressAnswers \cup {"null", "nulls"}

\* What an SMTP command ends with: a reply, whose text may say that the
\* recipient does not exist, a timeout, a lost connection, or smtplib's own
\* response exception with a code.
NoReply == [kind |-> "none", code |-> 0, notFound |-> FALSE]
Code(c) == [kind |-> "code", code |-> c, notFound |-> FALSE]
Faults == {[kind |-> k, code |-> 0, notFound |-> FALSE] : k \in {"timeout", "lost"}}
              \cup {[kind |-> "exception", code |-> c, notFound |-> FALSE] : c \in FaultCodes}
Replies == {Code(c) : c \in Codes} \cup Faults
RecipientReplies == Replies \cup {[Code(c) EXCEPT !.notFound = TRUE] : c \in Codes}

Stages == { "syntax", "blocklist", "mx", "a", "aaaa", "smtp", "connect", "greet",
            "mail", "dummy", "rcpt", "close", "done" }
SMTPReasons == { "Timeout", "Connection_Refused", "Greylisted",
                 "SMTP_Temporary_Failure", "SMTP_Rejected" }

TypeOK ==
    /\ input \in [wellFormed : BOOLEAN, disposable : BOOLEAN]
    /\ stage \in Stages
    /\ hosts \in 0..MaxHosts
    /\ transient \in {"none", "DNS_Timeout", "DNS_Error"}
    /\ host \in 0..MaxHosts
    /\ session \in {"none", "socket", "greeted"}
    /\ failure \in SMTPReasons
    /\ {pending, verdict} \subseteq {NoResult} \cup [status : Statuses, reason : Reasons]
    /\ dns \in [{"mx", "a", "aaaa"} -> MXAnswers \cup {"none"}]
    /\ replies \in [Hosts -> [{"connect", "greet", "mail", "dummy", "rcpt"} ->
                                 RecipientReplies \cup {NoReply, Code(250)}]]
    /\ stage \in {"connect", "greet", "mail", "dummy", "rcpt", "close"} => host \in 1..hosts
    /\ stage = "done" <=> verdict # NoResult

Init ==
    /\ input \in [wellFormed : BOOLEAN, disposable : BOOLEAN]
    /\ stage = "syntax"
    /\ hosts = 0
    /\ transient = "none"
    /\ host = 0
    /\ session = "none"
    /\ failure = "Connection_Refused"
    /\ pending = NoResult
    /\ verdict = NoResult
    /\ dns = [q \in {"mx", "a", "aaaa"} |-> "none"]
    /\ replies = [h \in Hosts |-> [c \in {"connect", "greet", "mail", "dummy", "rcpt"} |-> NoReply]]

lookupVars == <<hosts, transient>>
smtpVars == <<host, session, failure, pending, replies>>

\* A stage has a result: the call is over.
Return(status, reason) ==
    /\ verdict' = Result(status, reason)
    /\ stage' = "done"

GoOn(next) == stage' = next /\ UNCHANGED verdict

-----------------------------------------------------------------------------
(* Stages 1 and 2. *)

CheckSyntax ==
    /\ stage = "syntax"
    /\ IF input.wellFormed THEN GoOn("blocklist") ELSE Return("Invalid", "Syntax_Error")
    /\ UNCHANGED <<input, lookupVars, smtpVars, dns>>

CheckBlocklist ==
    /\ stage = "blocklist"
    /\ IF input.disposable THEN Return("Invalid", "Disposable") ELSE GoOn("mx")
    /\ UNCHANGED <<input, lookupVars, smtpVars, dns>>

-----------------------------------------------------------------------------
(* Stage 3: DNS. *)

\* The MX lookup.  A single null exchange and NXDOMAIN settle that the domain
\* takes no mail; no usable exchange leads to the address lookups.
LookupMX ==
    /\ stage = "mx"
    /\ \E answer \in MXAnswers :
          /\ dns' = [dns EXCEPT !["mx"] = answer]
          /\ \/ /\ answer = "answer"
                /\ hosts' \in Hosts
                /\ GoOn("smtp")
             \/ /\ answer \in {"null", "nxdomain"}
                /\ Return("Invalid", "No_MX")
                /\ UNCHANGED hosts
             \/ /\ answer \in {"noanswer", "nulls"}
                /\ GoOn("a")
                /\ UNCHANGED hosts
             \/ /\ answer = "timeout"
                /\ Return("Unknown", "DNS_Timeout")
                /\ UNCHANGED hosts
             \/ /\ answer = "error"
                /\ Return("Unknown", "DNS_Error")
                /\ UNCHANGED hosts
    /\ UNCHANGED <<input, transient, smtpVars>>

\* Mutant of Transient: a timed-out lookup counts as no answer.
TransientForgetsTimeout(answer) == IF answer = "error" THEN "DNS_Error" ELSE transient
\* The reason kept for a failed address lookup: an error replaces a timeout,
\* never the other way round.
Transient(answer) ==
    CASE answer = "timeout" /\ transient = "none" -> "DNS_Timeout"
      [] answer = "error" -> "DNS_Error"
      [] OTHER -> transient

\* An address lookup, A and then AAAA: one answer makes the domain its own
\* exchange, and only two lookups without answer settle that there is none.
LookupAddress(q) ==
    /\ stage = q
    /\ \E answer \in AddressAnswers :
          /\ dns' = [dns EXCEPT ![q] = answer]
          /\ \/ /\ answer = "answer"
                /\ hosts' = 1
                /\ GoOn("smtp")
                /\ UNCHANGED transient
             \/ /\ answer = "nxdomain"
                /\ Return("Invalid", "No_MX")
                /\ UNCHANGED <<hosts, transient>>
             \/ /\ answer \in {"noanswer", "timeout", "error"}
                /\ transient' = Transient(answer)
                /\ IF q = "a" THEN GoOn("aaaa")
                   ELSE IF transient' = "none" THEN Return("Invalid", "No_MX")
                   ELSE Return("Unknown", transient')
                /\ UNCHANGED hosts
    /\ UNCHANGED <<input, smtpVars>>

-----------------------------------------------------------------------------
(* Stage 4: SMTP. *)

\* The loop over the exchanges begins with the first.
StartSMTP ==
    /\ stage = "smtp"
    /\ IF hosts = 0 THEN Return("Invalid", "No_MX") /\ UNCHANGED host
                    ELSE GoOn("connect") /\ host' = 1
    /\ UNCHANGED <<input, lookupVars, session, failure, pending, replies, dns>>

TemporaryCode(c) == 400 <= c /\ c < 500
Accepts(reply) == reply.kind = "code" /\ reply.code \in {250, 251}
TemporarilyFails(reply) == reply.kind = "code" /\ TemporaryCode(reply.code)

\* _is_explicit_recipient_not_found.
SaysNotFound(reply) ==
    /\ reply.kind = "code"
    /\ 500 <= reply.code /\ reply.code < 600
    /\ reply.notFound

\* _temporary_reason.
TemporaryReason(c) ==
    IF c \in {450, 451, 452} THEN "Greylisted" ELSE "SMTP_Temporary_Failure"

\* The reason of last_failure for a refused connection, a temporary reply or
\* an exception.
FailureReason(reply) ==
    CASE reply.kind = "timeout" -> "Timeout"
      [] reply.kind = "lost" -> "Connection_Refused"
      [] OTHER -> IF TemporaryCode(reply.code) THEN TemporaryReason(reply.code)
                                               ELSE "SMTP_Rejected"

\* The reply to a command of the current session is recorded.
Hears(command, reply) == replies' = [replies EXCEPT ![host][command] = reply]

\* This host tells nothing: remember why, and close its session.
HostFails(reply) ==
    /\ failure' = FailureReason(reply)
    /\ stage' = "close"
    /\ UNCHANGED pending

\* The result is known; the finally clause closes the session first.
Concludes(status, reason) ==
    /\ pending' = Result(status, reason)
    /\ stage' = "close"
    /\ UNCHANGED failure

Proceeds(next) == stage' = next /\ UNCHANGED <<failure, pending>>

smtpFrame == <<input, lookupVars, verdict, dns, host>>

\* Mutant of Connect: a refused connection ends the call.
ConnectRefusedEnds ==
    /\ stage = "connect"
    /\ session' = "socket"
    /\ \E reply \in Replies :
          /\ Hears("connect", reply)
          /\ IF reply.kind = "code" /\ reply.code \in {220, 250}
             THEN Proceeds("greet")
             ELSE Concludes("Unknown", FailureReason(reply))
    /\ UNCHANGED smtpFrame

\* SMTP() and connect().
Connect ==
    /\ stage = "connect"
    /\ session' = "socket"
    /\ \E reply \in Replies :
          /\ Hears("connect", reply)
          /\ IF reply.kind = "code" /\ reply.code \in {220, 250}
             THEN Proceeds("greet")
             ELSE HostFails(reply)
    /\ UNCHANGED smtpFrame

\* ehlo(), of which any reply will do, and the opportunistic STARTTLS,
\* of which every failure is swallowed.
Greet ==
    /\ stage = "greet"
    /\ session' = "greeted"
    /\ \E reply \in {Code(250)} \cup Faults :
          /\ Hears("greet", reply)
          /\ IF reply.kind = "code" THEN Proceeds("mail") ELSE HostFails(reply)
    /\ UNCHANGED smtpFrame

\* mail(): a rejected sender says nothing about the recipient.
Mail ==
    /\ stage = "mail"
    /\ \E reply \in Replies :
          /\ Hears("mail", reply)
          /\ IF reply.kind # "code" \/ TemporarilyFails(reply) THEN HostFails(reply)
             ELSE IF ~(200 <= reply.code /\ reply.code < 300)
                  THEN Concludes("Unknown", "SMTP_Rejected")
             ELSE Proceeds(IF CheckCatchAll THEN "dummy" ELSE "rcpt")
    /\ UNCHANGED <<smtpFrame, session>>

\* Mutant of RcptDummy: a deferred probe counts as a refused one.
RcptDummyIgnoresDeferral ==
    /\ stage = "dummy"
    /\ \E reply \in Replies :
          /\ Hears("dummy", reply)
          /\ IF reply.kind # "code" THEN HostFails(reply)
             ELSE IF Accepts(reply) THEN Concludes("Catch-All", "OK")
             ELSE Proceeds("rcpt")
    /\ UNCHANGED <<smtpFrame, session>>

\* rcpt() of a random recipient: a server that accepts it accepts everything.
RcptDummy ==
    /\ stage = "dummy"
    /\ \E reply \in Replies :
          /\ Hears("dummy", reply)
          /\ IF reply.kind # "code" \/ TemporarilyFails(reply) THEN HostFails(reply)
             ELSE IF Accepts(reply) THEN Concludes("Catch-All", "OK")
             ELSE Proceeds("rcpt")
    /\ UNCHANGED <<smtpFrame, session>>

\* Mutant of RcptVerdict: an explicit refusal is filed under the policy rejections.
RcptVerdictSoft(reply) ==
    IF Accepts(reply) THEN Result("Valid", "OK")
    ELSE IF SaysNotFound(reply) THEN Result("Invalid", "SMTP_Rejected")
    ELSE IF 500 <= reply.code /\ reply.code < 600 THEN Result("Unknown", "SMTP_Rejected")
    ELSE Result("Unknown", "Unknown_Host")

\* What a reply to RCPT that is not temporary says about the address.
RcptVerdict(reply) ==
    IF Accepts(reply) THEN Result("Valid", "OK")
    ELSE IF SaysNotFound(reply) THEN Result("Invalid", "User_Not_Found")
    ELSE IF 500 <= reply.code /\ reply.code < 600 THEN Result("Unknown", "SMTP_Rejected")
    ELSE Result("Unknown", "Unknown_Host")

\* rcpt() of the address itself.
Rcpt ==
    /\ stage = "rcpt"
    /\ \E reply \in RecipientReplies :
          /\ Hears("rcpt", reply)
          /\ IF reply.kind # "code" \/ TemporarilyFails(reply) THEN HostFails(reply)
             ELSE LET v == RcptVerdict(reply) IN Concludes(v.status, v.reason)
    /\ UNCHANGED <<smtpFrame, session>>

\* Mutant of Close: only a greeted session is closed.
CloseGreetedOnly ==
    /\ stage = "close"
    /\ session' = IF session = "greeted" THEN "none" ELSE session
    /\ IF pending # NoResult THEN Return(pending.status, pending.reason) /\ UNCHANGED host
       ELSE IF host < hosts THEN GoOn("connect") /\ host' = host + 1
       ELSE Return("Unknown", failure) /\ UNCHANGED host
    /\ UNCHANGED <<input, lookupVars, failure, pending, replies, dns>>
\* The finally clause, and what follows it: the result, the next host, or,
\* after the last one, the last failure.
Close ==
    /\ stage = "close"
    /\ session' = "none"
    /\ IF pending # NoResult THEN Return(pending.status, pending.reason) /\ UNCHANGED host
       ELSE IF host < hosts THEN GoOn("connect") /\ host' = host + 1
       ELSE Return("Unknown", failure) /\ UNCHANGED host
    /\ UNCHANGED <<input, lookupVars, failure, pending, replies, dns>>

-----------------------------------------------------------------------------

Next ==
    \/ CheckSyntax
    \/ CheckBlocklist
    \/ LookupMX
    \/ \E q \in {"a", "aaaa"} : LookupAddress(q)
    \/ StartSMTP
    \/ Connect
    \/ Greet
    \/ Mail
    \/ RcptDummy
    \/ Rcpt
    \/ Close

Spec == Init /\ [][Next]_vars

-----------------------------------------------------------------------------
(* Properties. *)

Refuses(reply) == reply.kind = "code" /\ ~Accepts(reply) /\ ~TemporarilyFails(reply)

\* Host h took the sender, and refused the random recipient when it was asked.
\* (An engine built without the catch-all check never asks.)
Discriminates(h) ==
    /\ replies[h]["mail"].kind = "code"
    /\ 200 <= replies[h]["mail"].code /\ replies[h]["mail"].code < 300
    /\ CheckCatchAll => Refuses(replies[h]["dummy"])

\* Nothing in the DNS gives the domain a host for mail: a null MX, a name that
\* does not exist, or no record of any of the three types.
ProvesNoHost ==
    \/ dns["mx"] = "null"
    \/ \E q \in DOMAIN dns : dns[q] = "nxdomain"
    \/ dns["mx"] \in {"noanswer", "nulls"} /\ dns["a"] = "noanswer" /\ dns["aaaa"] = "noanswer"

\* Classification is conservative: Invalid only on authoritative evidence, never
\* on a timeout, an error, a policy rejection or a server that accepts or defers
\* everything (ADR 0003; verifier.py:239-329, 523-577).
InvalidNeedsProof ==
    verdict.status = "Invalid" =>
        \/ verdict.reason = "Syntax_Error" /\ ~input.wellFormed
        \/ verdict.reason = "Disposable" /\ input.disposable
        \/ verdict.reason = "No_MX" /\ ProvesNoHost
        \/ /\ verdict.reason = "User_Not_Found"
           /\ \E h \in Hosts : Discriminates(h) /\ SaysNotFound(replies[h]["rcpt"])

\* Valid only when a server that tells recipients apart accepted this one, and
\* Catch-All only when a server accepted the random one (verifier.py:496-534).
AcceptanceNeedsProof ==
    /\ verdict.status = "Valid" =>
          \E h \in Hosts : Discriminates(h) /\ Accepts(replies[h]["rcpt"])
    /\ verdict.status = "Catch-All" => \E h \in Hosts : Accepts(replies[h]["dummy"])

\* Evidence is not overruled: whatever other hosts or lookups failed with, an
\* answer that settles the address decides the result (verifier.py:243-316,
\* 496-577).
EvidenceDecides ==
    verdict # NoResult =>
        /\ dns["mx"] = "null" \/ (\E q \in DOMAIN dns : dns[q] = "nxdomain") =>
              verdict = Result("Invalid", "No_MX")
        /\ \A h \in Hosts :
              /\ Accepts(replies[h]["dummy"]) => verdict = Result("Catch-All", "OK")
              /\ Accepts(replies[h]["rcpt"]) => verdict = Result("Valid", "OK")
              /\ SaysNotFound(replies[h]["rcpt"]) =>
                    verdict = Result("Invalid", "User_Not_Found")

\* A failure that says nothing about the mailbox ends the call only after every
\* host was tried (verifier.py:432-457, 578-623).
TransientTriesEveryHost ==
    verdict.reason \in {"Timeout", "Connection_Refused", "Greylisted",
                        "SMTP_Temporary_Failure"} =>
        \A h \in 1..hosts : replies[h]["connect"] # NoReply

\* No socket outlives its host: a session is closed before the next host is
\* tried and before the result is returned (verifier.py:620-623, 641-653).
SessionsAreClosed == stage \in {"smtp", "connect", "done"} => session = "none"

=============================================================================
