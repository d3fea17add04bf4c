---------------------- MODULE VerificationEngine_proofs ----------------------
(***************************************************************************)
(* Proofs about VerificationEngine, for any number of mail exchanges, any  *)
(* reply codes, and with and without the catch-all check.                  *)
(*                                                                         *)
(* A result is decided long before it is returned: the reply that decides  *)
(* it leaves it pending, and the session is closed first.  The invariant   *)
(* therefore speaks about what is pending as well (PendingOK), and about   *)
(* what the stage the call has come to shows: what the lookups before it   *)
(* have found (LookupsOK), what the host in use has answered (HostOK), and *)
(* which hosts were tried (TriedOK).                                       *)
(***************************************************************************)
EXTENDS VerificationEngine, TLAPS

USE MaxHostsAssumption, CodesAssumption, CheckCatchAllAssumption DEF Hosts

Deferrals == {"Timeout", "Connection_Refused", "Greylisted", "SMTP_Temporary_Failure"}

\* What the call knows of the domain when it comes to a stage.
LookupsOK ==
    /\ stage \in {"a", "aaaa"} => dns["mx"] \in {"noanswer", "nulls"}
    /\ stage = "aaaa" /\ transient = "none" => dns["a"] = "noanswer"
    /\ stage \in {"smtp", "connect", "greet", "mail", "dummy", "rcpt", "close"} => hosts # 0
    /\ dns["mx"] = "null" \/ (\E q \in DOMAIN dns : dns[q] = "nxdomain") =>
          verdict = Result("Invalid", "No_MX")

\* What it knows of the host in use.
HostOK ==
    /\ stage = "dummy" => /\ replies[host]["mail"].kind = "code"
                          /\ 200 <= replies[host]["mail"].code
                          /\ replies[host]["mail"].code < 300
    /\ stage = "rcpt" => Discriminates(host)
    /\ stage \in {"greet", "mail", "dummy", "rcpt", "close"} \/ session = "none"

\* Host h has answered something that settles the address.
Settles(h) ==
    /\ Accepts(replies[h]["dummy"]) => pending = Result("Catch-All", "OK")
    /\ Accepts(replies[h]["rcpt"]) => pending = Result("Valid", "OK")
    /\ SaysNotFound(replies[h]["rcpt"]) => pending = Result("Invalid", "User_Not_Found")

\* A pending result has the evidence it needs, and a reply that settles the
\* address is what is pending.
PendingOK ==
    /\ pending # NoResult => stage \in {"close", "done"}
    /\ pending # NoResult /\ verdict # NoResult => verdict = pending
    /\ pending.reason \notin Deferrals
    /\ pending.status = "Invalid" =>
          /\ pending.reason = "User_Not_Found"
          /\ \E h \in Hosts : Discriminates(h) /\ SaysNotFound(replies[h]["rcpt"])
    /\ pending.status = "Valid" =>
          \E h \in Hosts : Discriminates(h) /\ Accepts(replies[h]["rcpt"])
    /\ pending.status = "Catch-All" => \E h \in Hosts : Accepts(replies[h]["dummy"])
    /\ \A h \in Hosts : Settles(h)

\* Every host up to the one in use has been connected to.
TriedOK ==
    \A h \in 1..host :
        h < host \/ stage # "connect" => replies[h]["connect"] # NoReply

IInv ==
    /\ TypeOK /\ LookupsOK /\ HostOK /\ PendingOK /\ TriedOK
    /\ InvalidNeedsProof /\ AcceptanceNeedsProof /\ EvidenceDecides
    /\ TransientTriesEveryHost

Commands == {"connect", "greet", "mail", "dummy", "rcpt"}
AnyReply == RecipientReplies \cup {NoReply, Code(250)}

LEMMA ReplyTypes ==
  /\ Replies \subseteq AnyReply /\ RecipientReplies \subseteq AnyReply
  /\ Code(250) \in AnyReply /\ Faults \subseteq AnyReply /\ NoReply \in AnyReply
  /\ \A reply \in AnyReply : reply.code \in Int
  /\ NoReply \notin Replies /\ NoReply \notin Faults
<1>1. \A reply \in Faults : reply.code \in Int /\ reply.kind # "none"
  <2> SUFFICES ASSUME NEW reply \in Faults PROVE reply.code \in Int /\ reply.kind # "none"
    OBVIOUS
  <2>1. CASE \E k \in {"timeout", "lost"} : reply = [kind |-> k, code |-> 0, notFound |-> FALSE]
    BY <2>1
  <2>2. CASE \E c \in FaultCodes : reply = [kind |-> "exception", code |-> c, notFound |-> FALSE]
    BY <2>2
  <2> QED  BY <2>1, <2>2 DEF Faults
<1>2. \A c \in Codes : Code(c).code \in Int /\ Code(c).kind = "code"
  BY DEF Code
<1>3. \A reply \in Replies : reply.code \in Int /\ reply.kind # "none"
  <2> SUFFICES ASSUME NEW reply \in Replies PROVE reply.code \in Int /\ reply.kind # "none"
    OBVIOUS
  <2>1. reply \in Faults \/ \E c \in Codes : reply = Code(c)
    BY DEF Replies
  <2> QED  BY <1>1, <1>2, <2>1
<1>4. \A c \in Codes : [Code(c) EXCEPT !.notFound = TRUE].code \in Int
  BY DEF Code
<1>5. \A reply \in RecipientReplies : reply.code \in Int
  <2> SUFFICES ASSUME NEW reply \in RecipientReplies PROVE reply.code \in Int
    OBVIOUS
  <2>1. reply \in Replies \/ \E c \in Codes : reply = [Code(c) EXCEPT !.notFound = TRUE]
    BY DEF RecipientReplies
  <2> QED  BY <1>3, <1>4, <2>1
<1>6. Code(250).code \in Int /\ NoReply.code \in Int /\ NoReply.kind = "none"
  BY DEF Code, NoReply
<1>7. Faults \subseteq Replies /\ Replies \subseteq RecipientReplies
  BY DEF Replies, RecipientReplies
<1> QED
  BY <1>1, <1>3, <1>5, <1>6, <1>7 DEF AnyReply

\* Nothing that was not answered settles anything, nor does a failure.
LEMMA NotSettling ==
  /\ ~Accepts(NoReply) /\ ~SaysNotFound(NoReply)
  /\ \A reply \in AnyReply : reply.kind # "code" \/ TemporarilyFails(reply) =>
        ~Accepts(reply) /\ ~SaysNotFound(reply)
<1>1. \A reply \in AnyReply : reply.code \in Int
  BY ReplyTypes
<1> QED  BY <1>1 DEF Accepts, SaysNotFound, TemporarilyFails, TemporaryCode, NoReply

LEMMA Typed ==
  ASSUME TypeOK
  PROVE  /\ replies \in [Hosts -> [Commands -> AnyReply]]
         /\ stage \in {"connect", "greet", "mail", "dummy", "rcpt", "close"} =>
               host \in Hosts /\ host \in 1..hosts /\ hosts \in 1..MaxHosts /\ verdict = NoResult
BY DEF TypeOK, Commands, AnyReply

\* A reply is recorded for its host and command, and nothing else changes.
LEMMA Recorded ==
  ASSUME TypeOK, host \in Hosts, NEW command \in Commands, NEW reply \in AnyReply,
         Hears(command, reply)
  PROVE  /\ replies' \in [Hosts -> [Commands -> AnyReply]]
         /\ replies'[host][command] = reply
         /\ \A h \in Hosts, c \in Commands :
               h # host \/ c # command => replies'[h][c] = replies[h][c]
BY Typed DEF Hears

\* What is said of a host that a step leaves alone.
LEMMA SameHost ==
  ASSUME NEW h \in Hosts, \A c \in Commands : replies'[h][c] = replies[h][c]
  PROVE  /\ Discriminates(h)' <=> Discriminates(h)
         /\ pending' = pending => (Settles(h)' <=> Settles(h))
BY DEF Discriminates, Settles, Commands

LEMMA FailureReasons ==
  ASSUME NEW reply \in AnyReply
  PROVE  FailureReason(reply) \in SMTPReasons /\ FailureReason(reply) \in Reasons
BY DEF FailureReason, SMTPReasons, TemporaryReason, Reasons

\* Types are kept by every step of a session.
LEMMA SessionTyped ==
  ASSUME TypeOK, stage \in Commands, NEW reply \in AnyReply, Hears(stage, reply),
         UNCHANGED smtpFrame, session' \in {"none", "socket", "greeted"},
         \/ HostFails(reply)
         \/ \E status \in Statuses, reason \in Reasons : Concludes(status, reason)
         \/ \E next \in Commands : Proceeds(next)
  PROVE  TypeOK'
<1>1. host \in Hosts /\ host \in 1..hosts /\ verdict = NoResult
  BY Typed DEF Commands
<1>2. replies' \in [Hosts -> [Commands -> AnyReply]]
  BY <1>1, Recorded
<1>3. failure' \in SMTPReasons
  BY FailureReasons DEF TypeOK, HostFails, Concludes, Proceeds
<1>4. stage' \in Commands \cup {"close"} /\ stage' \in Stages /\ stage' # "done"
  BY DEF HostFails, Concludes, Proceeds, Stages, Commands
<1>5. pending' \in {NoResult} \cup [status : Statuses, reason : Reasons]
  BY DEF TypeOK, HostFails, Concludes, Proceeds, Result
<1> QED
  BY <1>1, <1>2, <1>3, <1>4, <1>5 DEF TypeOK, smtpFrame, lookupVars, Commands, AnyReply

-----------------------------------------------------------------------------
(* Before the session. *)

LEMMA InitOK == ASSUME Init PROVE IInv
<1>1. TypeOK
  BY ReplyTypes DEF Init, TypeOK, Stages, SMTPReasons, NoResult, AnyReply
<1>2. \A h \in Hosts : replies[h]["dummy"] = NoReply /\ replies[h]["rcpt"] = NoReply
  BY DEF Init
<1>3. \A h \in Hosts : Settles(h)
  BY <1>2, NotSettling DEF Settles
<1>4. PendingOK
  BY <1>3 DEF Init, PendingOK, NoResult, Deferrals
<1>5. LookupsOK /\ HostOK /\ TriedOK
  BY DEF Init, LookupsOK, HostOK, TriedOK
<1> QED
  BY <1>1, <1>4, <1>5
     DEF Init, IInv, InvalidNeedsProof, AcceptanceNeedsProof, EvidenceDecides,
         TransientTriesEveryHost, NoResult

\* A step before the session leaves what hosts have answered alone: nothing is
\* pending then, and no host has said anything that settles the address.
LEMMA Unsettled ==
  ASSUME IInv, stage \notin {"close", "done"}, UNCHANGED <<pending, replies>>
  PROVE  /\ pending = NoResult /\ verdict = NoResult
         /\ \A h \in Hosts : /\ ~Accepts(replies'[h]["dummy"])
                             /\ ~Accepts(replies'[h]["rcpt"])
                             /\ ~SaysNotFound(replies'[h]["rcpt"])
         /\ PendingOK'
<1>1. pending = NoResult /\ verdict = NoResult
  BY DEF IInv, PendingOK, TypeOK
<1>2. \A h \in Hosts : Settles(h)
  BY DEF IInv, PendingOK
<1>3. \A h \in Hosts : /\ ~Accepts(replies'[h]["dummy"])
                       /\ ~Accepts(replies'[h]["rcpt"])
                       /\ ~SaysNotFound(replies'[h]["rcpt"])
  BY <1>1, <1>2 DEF Settles, NoResult, Result
<1>4. PendingOK'
  BY <1>1, <1>3 DEF PendingOK, Settles, NoResult, Deferrals
<1> QED  BY <1>1, <1>3, <1>4

\* A call that ends before the session has its result from the input or the
\* lookups.
LEMMA Ends ==
  ASSUME IInv, stage \notin {"close", "done"}, UNCHANGED <<pending, replies, input>>,
         TypeOK', LookupsOK',
         verdict'.status \in {"Invalid", "Unknown"}, verdict'.reason \notin Deferrals,
         HostOK', TriedOK', InvalidNeedsProof'
  PROVE  IInv'
<1>1. AcceptanceNeedsProof'
  BY DEF AcceptanceNeedsProof
<1>2. TransientTriesEveryHost'
  BY DEF TransientTriesEveryHost, Deferrals
<1>3. EvidenceDecides'
  BY Unsettled DEF EvidenceDecides, LookupsOK
<1> QED  BY <1>1, <1>2, <1>3, Unsettled DEF IInv

\* A call that goes on has no result.
LEMMA Continues ==
  ASSUME TypeOK', LookupsOK', HostOK', PendingOK', TriedOK', verdict' = NoResult
  PROVE  IInv'
BY DEF IInv, InvalidNeedsProof, AcceptanceNeedsProof, EvidenceDecides,
       TransientTriesEveryHost, NoResult

LEMMA SyntaxOK == ASSUME IInv, CheckSyntax PROVE IInv'
<1>1. TypeOK /\ stage = "syntax" /\ verdict = NoResult
      /\ UNCHANGED <<input, hosts, transient, host, session, failure, pending, replies, dns>>
  BY DEF IInv, TypeOK, CheckSyntax, lookupVars, smtpVars
<1>2. CASE input.wellFormed
  <2>1. stage' = "blocklist" /\ verdict' = NoResult
    BY <1>1, <1>2 DEF CheckSyntax, GoOn
  <2>2. TypeOK'
    BY <1>1, <2>1 DEF TypeOK, Stages
  <2>3. LookupsOK' /\ HostOK' /\ TriedOK'
    BY <1>1, <2>1 DEF IInv, LookupsOK, HostOK, TriedOK
  <2> QED  BY <1>1, <2>1, <2>2, <2>3, Continues, Unsettled
<1>3. CASE ~input.wellFormed
  <2>1. stage' = "done" /\ verdict' = Result("Invalid", "Syntax_Error")
    BY <1>1, <1>3 DEF CheckSyntax, Return
  <2>2. TypeOK'
    BY <1>1, <2>1 DEF TypeOK, Stages, Result, NoResult, Statuses, Reasons
  <2>3. LookupsOK' /\ HostOK' /\ TriedOK' /\ InvalidNeedsProof'
    BY <1>1, <1>3, <2>1
       DEF IInv, LookupsOK, HostOK, TriedOK, InvalidNeedsProof, Result, NoResult
  <2> QED  BY <1>1, <2>1, <2>2, <2>3, Ends DEF Result, Deferrals
<1> QED  BY <1>2, <1>3

LEMMA BlocklistOK == ASSUME IInv, CheckBlocklist PROVE IInv'
<1>1. TypeOK /\ stage = "blocklist" /\ verdict = NoResult
      /\ UNCHANGED <<input, hosts, transient, host, session, failure, pending, replies, dns>>
  BY DEF IInv, TypeOK, CheckBlocklist, lookupVars, smtpVars
<1>2. CASE ~input.disposable
  <2>1. stage' = "mx" /\ verdict' = NoResult
    BY <1>1, <1>2 DEF CheckBlocklist, GoOn
  <2>2. TypeOK'
    BY <1>1, <2>1 DEF TypeOK, Stages
  <2>3. LookupsOK' /\ HostOK' /\ TriedOK'
    BY <1>1, <2>1 DEF IInv, LookupsOK, HostOK, TriedOK
  <2> QED  BY <1>1, <2>1, <2>2, <2>3, Continues, Unsettled
<1>3. CASE input.disposable
  <2>1. stage' = "done" /\ verdict' = Result("Invalid", "Disposable")
    BY <1>1, <1>3 DEF CheckBlocklist, Return
  <2>2. TypeOK'
    BY <1>1, <2>1 DEF TypeOK, Stages, Result, NoResult, Statuses, Reasons
  <2>3. LookupsOK' /\ HostOK' /\ TriedOK' /\ InvalidNeedsProof'
    BY <1>1, <1>3, <2>1
       DEF IInv, LookupsOK, HostOK, TriedOK, InvalidNeedsProof, Result, NoResult
  <2> QED  BY <1>1, <2>1, <2>2, <2>3, Ends DEF Result, Deferrals
<1> QED  BY <1>2, <1>3

LEMMA MXOK == ASSUME IInv, LookupMX PROVE IInv'
<1>1. TypeOK /\ stage = "mx" /\ verdict = NoResult
      /\ UNCHANGED <<input, transient, host, session, failure, pending, replies>>
  BY DEF IInv, TypeOK, LookupMX, smtpVars
<1>2. PICK answer \in MXAnswers :
        /\ dns' = [dns EXCEPT !["mx"] = answer]
        /\ \/ answer = "answer" /\ hosts' \in Hosts /\ GoOn("smtp")
           \/ /\ answer \in {"null", "nxdomain"}
              /\ Return("Invalid", "No_MX") /\ UNCHANGED hosts
           \/ answer \in {"noanswer", "nulls"} /\ GoOn("a") /\ UNCHANGED hosts
           \/ answer = "timeout" /\ Return("Unknown", "DNS_Timeout") /\ UNCHANGED hosts
           \/ answer = "error" /\ Return("Unknown", "DNS_Error") /\ UNCHANGED hosts
  BY DEF LookupMX
<1>3. /\ dns \in [{"mx", "a", "aaaa"} -> MXAnswers \cup {"none"}]
      /\ dns' \in [{"mx", "a", "aaaa"} -> MXAnswers \cup {"none"}]
      /\ dns'["mx"] = answer /\ dns'["a"] = dns["a"] /\ dns'["aaaa"] = dns["aaaa"]
      /\ dns["a"] # "nxdomain" /\ dns["aaaa"] # "nxdomain"
  BY <1>1, <1>2 DEF IInv, TypeOK, LookupsOK, Result, NoResult
<1>4. HostOK' /\ TriedOK'
  BY <1>1, <1>2 DEF IInv, HostOK, TriedOK, GoOn, Return
<1>5. CASE GoOn("smtp") \/ GoOn("a")
  <2>1. verdict' = NoResult /\ stage' \in {"smtp", "a"}
    BY <1>1, <1>5 DEF GoOn
  <2>2. TypeOK'
    BY <1>1, <1>2, <1>3, <1>5, <2>1 DEF TypeOK, GoOn, Return, Stages
  <2>3. LookupsOK'
    BY <1>1, <1>2, <1>3, <2>1 DEF LookupsOK, GoOn, Return
  <2> QED  BY <1>1, <1>4, <2>1, <2>2, <2>3, Continues, Unsettled
<1>6. CASE /\ answer \in {"null", "nxdomain"}
           /\ Return("Invalid", "No_MX") /\ UNCHANGED hosts
  <2>1. TypeOK'
    BY <1>1, <1>3, <1>6 DEF TypeOK, Return, Stages, Result, NoResult, Statuses, Reasons
  <2>2. LookupsOK' /\ InvalidNeedsProof'
    BY <1>3, <1>6 DEF LookupsOK, InvalidNeedsProof, ProvesNoHost, Return, Result, NoResult
  <2> QED  BY <1>1, <1>4, <1>6, <2>1, <2>2, Ends DEF Return, Result, Deferrals
<1>7. CASE /\ answer \in {"timeout", "error"} /\ UNCHANGED hosts
           /\ Return("Unknown", "DNS_Timeout") \/ Return("Unknown", "DNS_Error")
  <2>1. TypeOK'
    BY <1>1, <1>3, <1>7 DEF TypeOK, Return, Stages, Result, NoResult, Statuses, Reasons
  <2>2. LookupsOK' /\ InvalidNeedsProof'
    BY <1>3, <1>7 DEF LookupsOK, InvalidNeedsProof, Return, Result, NoResult
  <2> QED  BY <1>1, <1>4, <1>7, <2>1, <2>2, Ends DEF Return, Result, Deferrals
<1> QED  BY <1>2, <1>5, <1>6, <1>7

LEMMA AddressOK == ASSUME IInv, NEW q \in {"a", "aaaa"}, LookupAddress(q) PROVE IInv'
<1>1. TypeOK /\ stage = q /\ verdict = NoResult
      /\ UNCHANGED <<input, host, session, failure, pending, replies>>
  BY DEF IInv, TypeOK, LookupAddress, smtpVars
<1>2. PICK answer \in AddressAnswers :
        /\ dns' = [dns EXCEPT ![q] = answer]
        /\ \/ answer = "answer" /\ hosts' = 1 /\ GoOn("smtp") /\ UNCHANGED transient
           \/ /\ answer = "nxdomain"
              /\ Return("Invalid", "No_MX") /\ UNCHANGED <<hosts, transient>>
           \/ /\ answer \in {"noanswer", "timeout", "error"}
              /\ transient' = Transient(answer)
              /\ IF q = "a" THEN GoOn("aaaa")
                 ELSE IF transient' = "none" THEN Return("Invalid", "No_MX")
                 ELSE Return("Unknown", transient')
              /\ UNCHANGED hosts
  BY DEF LookupAddress
<1>3. /\ dns \in [{"mx", "a", "aaaa"} -> MXAnswers \cup {"none"}]
      /\ dns' \in [{"mx", "a", "aaaa"} -> MXAnswers \cup {"none"}]
      /\ dns'[q] = answer /\ \A p \in {"mx", "a", "aaaa"} \ {q} : dns'[p] = dns[p]
      /\ dns["mx"] # "null" /\ \A p \in {"mx", "a", "aaaa"} : dns[p] # "nxdomain"
  BY <1>1, <1>2 DEF IInv, TypeOK, LookupsOK, Result, NoResult, MXAnswers
<1>4. HostOK' /\ TriedOK'
  BY <1>1, <1>2 DEF IInv, HostOK, TriedOK, GoOn, Return
<1>5. transient' \in {"none", "DNS_Timeout", "DNS_Error"} /\ hosts' \in 0..MaxHosts
  BY <1>1, <1>2 DEF TypeOK, Transient
<1>6. dns["mx"] \in {"noanswer", "nulls"} /\ dns'["mx"] = dns["mx"]
  BY <1>1, <1>3 DEF IInv, LookupsOK
<1>7. CASE /\ answer # "nxdomain"
           /\ \/ GoOn("aaaa") /\ q = "a" /\ transient' = Transient(answer)
              \/ GoOn("smtp") /\ hosts' = 1
  <2>1. verdict' = NoResult /\ stage' \in {"smtp", "aaaa"}
    BY <1>1, <1>7 DEF GoOn
  <2>2. TypeOK'
    BY <1>1, <1>3, <1>5, <2>1 DEF TypeOK, Stages
  <2>3. GoOn("aaaa") /\ transient' = "none" => answer = "noanswer"
    <3>1. GoOn("aaaa") => answer \in {"noanswer", "timeout", "error"}
      BY <1>2, <1>7 DEF GoOn
    <3> QED  BY <1>7, <3>1 DEF Transient, GoOn
  <2>4. LookupsOK'
    BY <1>1, <1>3, <1>6, <1>7, <2>1, <2>3 DEF LookupsOK, GoOn
  <2> QED  BY <1>1, <1>4, <2>1, <2>2, <2>4, Continues, Unsettled
<1>8. CASE Return("Invalid", "No_MX")
  <2>1. TypeOK'
    BY <1>1, <1>3, <1>5, <1>8 DEF TypeOK, Return, Stages, Result, NoResult, Statuses, Reasons
  <2>2. LookupsOK'
    BY <1>8 DEF LookupsOK, Return
  <2>3. ProvesNoHost'
    <3>1. CASE answer = "nxdomain"
      BY <1>3, <3>1 DEF ProvesNoHost
    <3>2. CASE answer # "nxdomain"
      <4>1. q = "aaaa" /\ transient' = "none" /\ transient' = Transient(answer)
        BY <1>2, <1>8, <3>2 DEF GoOn, Return, Result
      <4>2. answer = "noanswer" /\ transient = "none"
        <5>1. answer \in {"noanswer", "timeout", "error"}
          BY <1>2, <1>8, <3>2 DEF GoOn, Return
        <5> QED  BY <4>1, <5>1 DEF Transient
      <4>3. dns["a"] = "noanswer"
        BY <1>1, <4>1, <4>2 DEF IInv, LookupsOK
      <4> QED  BY <1>3, <1>6, <4>1, <4>2, <4>3 DEF ProvesNoHost
    <3> QED  BY <3>1, <3>2
  <2>4. InvalidNeedsProof'
    BY <1>8, <2>3 DEF InvalidNeedsProof, Return, Result
  <2> QED  BY <1>1, <1>4, <1>8, <2>1, <2>2, <2>4, Ends DEF Return, Result, Deferrals
<1>9. CASE answer # "nxdomain" /\ transient' # "none" /\ Return("Unknown", transient')
  <2>1. TypeOK'
    BY <1>1, <1>3, <1>5, <1>9 DEF TypeOK, Return, Stages, Result, NoResult, Statuses, Reasons
  <2>2. \A p \in {"mx", "a", "aaaa"} : dns'[p] # "nxdomain"
    BY <1>3, <1>9
  <2>3. LookupsOK' /\ InvalidNeedsProof'
    BY <1>3, <1>6, <1>9, <2>2 DEF LookupsOK, InvalidNeedsProof, Return, Result, NoResult
  <2> QED  BY <1>1, <1>4, <1>5, <1>9, <2>1, <2>3, Ends DEF Return, Result, Deferrals
<1>10. CASE answer \in {"noanswer", "timeout", "error"}
  <2>1. CASE q = "a"
    BY <1>2, <1>7, <1>10, <2>1
  <2>2. CASE q = "aaaa"
    BY <1>2, <1>8, <1>9, <1>10, <2>2
  <2> QED  BY <2>1, <2>2
<1> QED  BY <1>2, <1>7, <1>8, <1>10

LEMMA StartOK == ASSUME IInv, StartSMTP PROVE IInv'
<1>1. TypeOK /\ stage = "smtp" /\ verdict = NoResult /\ hosts # 0
      /\ UNCHANGED <<input, lookupVars, session, failure, pending, replies, dns>>
  BY DEF IInv, TypeOK, LookupsOK, StartSMTP
<1>2. stage' = "connect" /\ host' = 1 /\ verdict' = NoResult
  BY <1>1 DEF StartSMTP, GoOn
<1>3. TypeOK'
  BY <1>1, <1>2 DEF TypeOK, Stages, lookupVars
<1>4. LookupsOK' /\ HostOK' /\ TriedOK'
  BY <1>1, <1>2 DEF IInv, LookupsOK, HostOK, TriedOK, lookupVars
<1> QED  BY <1>1, <1>2, <1>3, <1>4, Continues, Unsettled

-----------------------------------------------------------------------------
(* The session. *)

\* While a session goes on nothing has settled the address.
LEMMA Quiet ==
  ASSUME IInv, pending = NoResult
  PROVE  \A h \in Hosts : /\ ~Accepts(replies[h]["dummy"])
                          /\ ~Accepts(replies[h]["rcpt"])
                          /\ ~SaysNotFound(replies[h]["rcpt"])
<1>1. \A h \in Hosts : Settles(h)
  BY DEF IInv, PendingOK
<1> QED  BY <1>1 DEF Settles, NoResult, Result

\* What every command has in common.  The result it may conclude with is the
\* one its reply deserves; the rest of the invariant follows.
LEMMA SessionStep ==
  ASSUME IInv, stage \in Commands, NEW reply \in AnyReply, reply # NoReply,
         Hears(stage, reply), UNCHANGED smtpFrame,
         session' \in {"none", "socket", "greeted"},
         \/ HostFails(reply)
         \/ \E status \in Statuses, reason \in Reasons : Concludes(status, reason)
         \/ \E next \in Commands : Proceeds(next),
         HostOK', pending'.reason \notin Deferrals,
         stage = "dummy" /\ Accepts(reply) => pending' = Result("Catch-All", "OK"),
         stage = "rcpt" /\ Accepts(reply) => pending' = Result("Valid", "OK"),
         stage = "rcpt" /\ SaysNotFound(reply) => pending' = Result("Invalid", "User_Not_Found"),
         pending'.status = "Invalid" =>
             stage = "rcpt" /\ SaysNotFound(reply) /\ pending'.reason = "User_Not_Found",
         pending'.status = "Valid" => stage = "rcpt" /\ Accepts(reply),
         pending'.status = "Catch-All" => stage = "dummy" /\ Accepts(reply)
  PROVE  IInv'
<1>1. TypeOK /\ host \in Hosts /\ host \in 1..hosts /\ hosts \in 1..MaxHosts /\ verdict = NoResult
  BY Typed DEF IInv, Commands
<1>2. /\ replies'[host][stage] = reply
      /\ \A h \in Hosts, c \in Commands :
            h # host \/ c # stage => replies'[h][c] = replies[h][c]
  BY <1>1, Recorded
<1>3. TypeOK'
  BY <1>1, SessionTyped
<1>4. stage' \in Commands \cup {"close"} /\ verdict' = NoResult /\ host' = host
      /\ UNCHANGED <<hosts, dns, transient, input>>
  BY <1>1 DEF HostFails, Concludes, Proceeds, smtpFrame, lookupVars
<1>5. LookupsOK'
  BY <1>1, <1>4 DEF IInv, LookupsOK, Commands, Result, NoResult
<1>6. TriedOK'
  <2> SUFFICES ASSUME NEW h \in 1..host, h < host \/ stage' # "connect"
               PROVE  replies'[h]["connect"] # NoReply
    BY <1>4 DEF TriedOK
  <2>1. h \in Hosts
    BY <1>1
  <2>2. CASE h = host /\ stage = "connect"
    BY <1>2, <2>2
  <2>3. CASE h # host \/ stage # "connect"
    <3>1. replies'[h]["connect"] = replies[h]["connect"]
      BY <1>2, <2>1, <2>3 DEF Commands
    <3>2. h < host \/ stage # "connect"
      BY <1>1, <2>3
    <3> QED  BY <3>1, <3>2 DEF IInv, TriedOK
  <2> QED  BY <2>2, <2>3
<1>7. PendingOK'
  <2>1. pending = NoResult /\ (pending' # NoResult => stage' = "close")
    BY DEF IInv, PendingOK, HostFails, Concludes, Proceeds, Commands
  <2>2. \A h \in Hosts : Settles(h)'
    <3> SUFFICES ASSUME NEW h \in Hosts PROVE Settles(h)'
      OBVIOUS
    <3>1. CASE h = host /\ stage \in {"dummy", "rcpt"}
      <4>1. CASE stage = "dummy"
        <5>1. replies'[h]["dummy"] = reply /\ replies'[h]["rcpt"] = replies[h]["rcpt"]
          BY <1>2, <3>1, <4>1 DEF Commands
        <5> QED  BY <2>1, <4>1, <5>1, Quiet DEF Settles
      <4>2. CASE stage = "rcpt"
        <5>1. replies'[h]["rcpt"] = reply /\ replies'[h]["dummy"] = replies[h]["dummy"]
          BY <1>2, <3>1, <4>2 DEF Commands
        <5> QED  BY <2>1, <4>2, <5>1, Quiet DEF Settles
      <4> QED  BY <3>1, <4>1, <4>2
    <3>2. CASE h # host \/ stage \notin {"dummy", "rcpt"}
      <4>1. replies'[h]["rcpt"] = replies[h]["rcpt"] /\ replies'[h]["dummy"] = replies[h]["dummy"]
        BY <1>2, <3>2 DEF Commands
      <4> QED  BY <2>1, <4>1, Quiet DEF Settles
    <3> QED  BY <3>1, <3>2
  <2>3. stage = "rcpt" => Discriminates(host)'
    <3> SUFFICES ASSUME stage = "rcpt" PROVE Discriminates(host)'
      OBVIOUS
    <3>1. Discriminates(host)
      BY DEF IInv, HostOK
    <3>2. replies'[host]["mail"] = replies[host]["mail"]
          /\ replies'[host]["dummy"] = replies[host]["dummy"]
      BY <1>1, <1>2 DEF Commands
    <3> QED  BY <1>4, <3>1, <3>2 DEF Discriminates
  <2>4. pending'.status = "Invalid" =>
           /\ pending'.reason = "User_Not_Found"
           /\ \E h \in Hosts : Discriminates(h)' /\ SaysNotFound(replies'[h]["rcpt"])
    BY <1>1, <1>2, <1>4, <2>3
  <2>5. pending'.status = "Valid" =>
           \E h \in Hosts : Discriminates(h)' /\ Accepts(replies'[h]["rcpt"])
    BY <1>1, <1>2, <1>4, <2>3
  <2>6. pending'.status = "Catch-All" => \E h \in Hosts : Accepts(replies'[h]["dummy"])
    BY <1>1, <1>2, <1>4
  <2> QED
    BY <1>4, <2>1, <2>2, <2>4, <2>5, <2>6 DEF PendingOK
<1> QED  BY <1>3, <1>4, <1>5, <1>6, <1>7, Continues

\* A host that failed, and a command that leads to the next one, leave nothing
\* pending.
LEMMA NothingConcluded ==
  ASSUME IInv, stage \in Commands, UNCHANGED pending
  PROVE  pending' = NoResult /\ pending'.status = "none" /\ pending'.reason \notin Deferrals
BY DEF IInv, PendingOK, Commands, NoResult, Deferrals

LEMMA ConnectOK == ASSUME IInv, Connect PROVE IInv'
<1>1. PICK reply \in Replies :
        /\ Hears("connect", reply)
        /\ Proceeds("greet") \/ HostFails(reply)
  BY DEF Connect
<1>2. stage = "connect" /\ session' = "socket" /\ UNCHANGED smtpFrame
  BY DEF Connect
<1>3. reply \in AnyReply /\ reply # NoReply
  BY ReplyTypes
<1>4. HostOK'
  BY <1>1, <1>2 DEF HostOK, Proceeds, HostFails
<1>5. pending' = NoResult /\ pending'.status = "none" /\ pending'.reason \notin Deferrals
  BY <1>1, <1>2, NothingConcluded DEF Proceeds, HostFails, Commands
<1>6. HostFails(reply) \/ \E next \in Commands : Proceeds(next)
  BY <1>1 DEF Commands
<1> QED  BY <1>1, <1>2, <1>3, <1>4, <1>5, <1>6, SessionStep DEF Commands

LEMMA GreetOK == ASSUME IInv, Greet PROVE IInv'
<1>1. PICK reply \in {Code(250)} \cup Faults :
        /\ Hears("greet", reply)
        /\ Proceeds("mail") \/ HostFails(reply)
  BY DEF Greet
<1>2. stage = "greet" /\ session' = "greeted" /\ UNCHANGED smtpFrame
  BY DEF Greet
<1>3. reply \in AnyReply /\ reply # NoReply
  <2>1. Code(250).kind # NoReply.kind
    BY DEF Code, NoReply
  <2> QED  BY <2>1, ReplyTypes
<1>4. HostOK'
  BY <1>1, <1>2 DEF HostOK, Proceeds, HostFails
<1>5. pending' = NoResult /\ pending'.status = "none" /\ pending'.reason \notin Deferrals
  BY <1>1, <1>2, NothingConcluded DEF Proceeds, HostFails, Commands
<1>6. HostFails(reply) \/ \E next \in Commands : Proceeds(next)
  BY <1>1 DEF Commands
<1> QED  BY <1>1, <1>2, <1>3, <1>4, <1>5, <1>6, SessionStep DEF Commands

LEMMA MailOK == ASSUME IInv, Mail PROVE IInv'
<1>1. PICK reply \in Replies :
        /\ Hears("mail", reply)
        /\ \/ HostFails(reply)
           \/ Concludes("Unknown", "SMTP_Rejected")
           \/ /\ reply.kind = "code" /\ 200 <= reply.code /\ reply.code < 300
              /\ Proceeds(IF CheckCatchAll THEN "dummy" ELSE "rcpt")
  BY DEF Mail
<1>2. stage = "mail" /\ UNCHANGED smtpFrame /\ UNCHANGED session
  BY DEF Mail
<1>3. reply \in AnyReply /\ reply # NoReply
  BY ReplyTypes
<1>4. host \in Hosts /\ host' = host /\ session \in {"none", "socket", "greeted"}
  BY <1>2, Typed DEF IInv, TypeOK, smtpFrame
<1>5. replies'[host]["mail"] = reply
  BY <1>1, <1>2, <1>3, <1>4, Recorded DEF IInv, Commands
<1>6. HostOK'
  <2>1. CASE HostFails(reply) \/ Concludes("Unknown", "SMTP_Rejected")
    BY <2>1 DEF HostOK, HostFails, Concludes
  <2>2. CASE /\ reply.kind = "code" /\ 200 <= reply.code /\ reply.code < 300
             /\ Proceeds(IF CheckCatchAll THEN "dummy" ELSE "rcpt")
    BY <1>4, <1>5, <2>2 DEF HostOK, Proceeds, Discriminates
  <2> QED  BY <1>1, <2>1, <2>2
<1>7. pending'.status \in {"none", "Unknown"} /\ pending'.reason \notin Deferrals
  <2>1. CASE Concludes("Unknown", "SMTP_Rejected")
    BY <2>1 DEF Concludes, Result, Deferrals
  <2>2. CASE UNCHANGED pending
    BY <1>2, <2>2, NothingConcluded DEF Commands
  <2> QED  BY <1>1, <2>1, <2>2 DEF HostFails, Proceeds
<1>8. \/ HostFails(reply)
      \/ \E status \in Statuses, reason \in Reasons : Concludes(status, reason)
      \/ \E next \in Commands : Proceeds(next)
  BY <1>1 DEF Commands, Statuses, Reasons
<1> QED  BY <1>1, <1>2, <1>3, <1>4, <1>6, <1>7, <1>8, SessionStep DEF Commands

LEMMA RcptDummyOK == ASSUME IInv, RcptDummy PROVE IInv'
<1>1. PICK reply \in Replies :
        /\ Hears("dummy", reply)
        /\ \/ (reply.kind # "code" \/ TemporarilyFails(reply)) /\ HostFails(reply)
           \/ Accepts(reply) /\ Concludes("Catch-All", "OK")
           \/ Refuses(reply) /\ Proceeds("rcpt")
  BY DEF RcptDummy, Refuses
<1>2. stage = "dummy" /\ UNCHANGED smtpFrame /\ UNCHANGED session
  BY DEF RcptDummy
<1>3. reply \in AnyReply /\ reply # NoReply
  BY ReplyTypes
<1>4. host \in Hosts /\ host' = host /\ session \in {"none", "socket", "greeted"}
  BY <1>2, Typed DEF IInv, TypeOK, smtpFrame
<1>5. replies'[host]["dummy"] = reply /\ replies'[host]["mail"] = replies[host]["mail"]
  BY <1>1, <1>2, <1>3, <1>4, Recorded DEF IInv, Commands
<1>6. HostOK'
  <2>1. CASE HostFails(reply) \/ Concludes("Catch-All", "OK")
    BY <2>1 DEF HostOK, HostFails, Concludes
  <2>2. CASE Refuses(reply) /\ Proceeds("rcpt")
    BY <1>2, <1>4, <1>5, <2>2 DEF IInv, HostOK, Proceeds, Discriminates
  <2> QED  BY <1>1, <2>1, <2>2
<1>7. /\ pending'.status = "Catch-All" => Accepts(reply)
      /\ pending'.status \in {"none", "Catch-All"} /\ pending'.reason \notin Deferrals
      /\ Accepts(reply) => pending' = Result("Catch-All", "OK")
  <2>1. CASE Accepts(reply) /\ Concludes("Catch-All", "OK")
    BY <2>1 DEF Concludes, Result, Deferrals
  <2>2. CASE UNCHANGED pending /\ ~Accepts(reply)
    BY <1>2, <2>2, NothingConcluded DEF Commands
  <2> QED  BY <1>1, <1>3, <2>1, <2>2, NotSettling DEF HostFails, Proceeds, Refuses
<1>8. \/ HostFails(reply)
      \/ \E status \in Statuses, reason \in Reasons : Concludes(status, reason)
      \/ \E next \in Commands : Proceeds(next)
  BY <1>1 DEF Commands, Statuses, Reasons
<1> QED  BY <1>1, <1>2, <1>3, <1>4, <1>6, <1>7, <1>8, SessionStep DEF Commands

LEMMA RcptOK == ASSUME IInv, Rcpt PROVE IInv'
<1>1. PICK reply \in RecipientReplies :
        /\ Hears("rcpt", reply)
        /\ \/ (reply.kind # "code" \/ TemporarilyFails(reply)) /\ HostFails(reply)
           \/ Concludes(RcptVerdict(reply).status, RcptVerdict(reply).reason)
  BY DEF Rcpt
<1>2. stage = "rcpt" /\ UNCHANGED smtpFrame /\ UNCHANGED session
  BY DEF Rcpt
<1>3. reply \in AnyReply /\ reply # NoReply /\ reply.code \in Int
  <2>1. reply # NoReply
    <3>1. reply \in Replies \/ \E c \in Codes : reply = [Code(c) EXCEPT !.notFound = TRUE]
      BY DEF RecipientReplies
    <3>2. \A c \in Codes : [Code(c) EXCEPT !.notFound = TRUE] # NoReply
      BY DEF Code, NoReply
    <3> QED  BY <3>1, <3>2, ReplyTypes
  <2> QED  BY <2>1, ReplyTypes
<1>4. host \in Hosts /\ session \in {"none", "socket", "greeted"}
  BY <1>2, Typed DEF IInv, TypeOK
<1>5. HostOK'
  BY <1>1 DEF HostOK, HostFails, Concludes
<1>6. CASE (reply.kind # "code" \/ TemporarilyFails(reply)) /\ HostFails(reply)
  <2>1. pending'.status = "none" /\ pending'.reason \notin Deferrals
    BY <1>2, <1>6, NothingConcluded DEF HostFails, Commands
  <2>2. ~Accepts(reply) /\ ~SaysNotFound(reply)
    BY <1>3, <1>6, NotSettling
  <2> QED  BY <1>1, <1>2, <1>3, <1>4, <1>5, <1>6, <2>1, <2>2, SessionStep DEF Commands
<1>7. CASE Concludes(RcptVerdict(reply).status, RcptVerdict(reply).reason)
  <2>1. /\ RcptVerdict(reply).status \in Statuses /\ RcptVerdict(reply).reason \in Reasons
        /\ RcptVerdict(reply).reason \notin Deferrals
        /\ pending' = RcptVerdict(reply)
    BY <1>7 DEF RcptVerdict, Result, Statuses, Reasons, Deferrals, Concludes
  <2>2. ~(Accepts(reply) /\ SaysNotFound(reply))
    BY <1>3 DEF Accepts, SaysNotFound
  <2>3. /\ Accepts(reply) => pending' = Result("Valid", "OK")
        /\ SaysNotFound(reply) => pending' = Result("Invalid", "User_Not_Found")
        /\ pending'.status = "Invalid" =>
              SaysNotFound(reply) /\ pending'.reason = "User_Not_Found"
        /\ pending'.status = "Valid" => Accepts(reply)
        /\ pending'.status # "Catch-All"
    BY <2>1, <2>2 DEF RcptVerdict, Result
  <2> QED  BY <1>1, <1>2, <1>3, <1>4, <1>5, <1>7, <2>1, <2>3, SessionStep DEF Commands
<1> QED  BY <1>1, <1>6, <1>7

LEMMA CloseOK == ASSUME IInv, Close PROVE IInv'
<1>1. TypeOK /\ host \in Hosts /\ host \in 1..hosts /\ hosts \in 1..MaxHosts /\ verdict = NoResult
  BY Typed DEF IInv, Close
<1>2. stage = "close" /\ session' = "none" /\ UNCHANGED <<input, hosts, transient, failure, pending, replies, dns>>
  BY DEF Close, lookupVars
<1>3. ~(dns["mx"] = "null" \/ \E q \in DOMAIN dns : dns[q] = "nxdomain")
  BY <1>1 DEF IInv, LookupsOK, NoResult, Result
<1>4. \A h \in Hosts : Discriminates(h)' <=> Discriminates(h)
  BY <1>2 DEF Discriminates
<1>5. CASE pending # NoResult
  <2>1. verdict' = pending /\ stage' = "done" /\ host' = host
    BY <1>1, <1>2, <1>5 DEF Close, Return, Result, TypeOK, NoResult
  <2>2. TypeOK' /\ LookupsOK' /\ HostOK' /\ TriedOK'
    BY <1>1, <1>2, <1>3, <1>5, <2>1 DEF IInv, TypeOK, Stages, LookupsOK, HostOK, TriedOK
  <2>3. PendingOK'
    BY <1>2, <1>4, <1>5, <2>1 DEF IInv, PendingOK, Settles
  <2>4. InvalidNeedsProof' /\ AcceptanceNeedsProof'
    BY <1>2, <1>4, <2>1 DEF IInv, PendingOK, InvalidNeedsProof, AcceptanceNeedsProof
  <2>5. EvidenceDecides' /\ TransientTriesEveryHost'
    BY <1>2, <1>3, <2>1
       DEF IInv, PendingOK, Settles, EvidenceDecides, TransientTriesEveryHost, Deferrals
  <2> QED  BY <2>2, <2>3, <2>4, <2>5 DEF IInv
<1>6. CASE pending = NoResult
  <2>1. PendingOK'
    BY <1>2, <1>6, Quiet DEF PendingOK, Settles, NoResult, Deferrals
  <2>2. CASE host < hosts
    <3>1. verdict' = NoResult /\ stage' = "connect" /\ host' = host + 1
      BY <1>1, <1>6, <2>2 DEF Close, GoOn
    <3>2. TypeOK' /\ LookupsOK' /\ HostOK'
      BY <1>1, <1>2, <1>3, <2>2, <3>1 DEF IInv, TypeOK, Stages, LookupsOK, HostOK
    <3>3. TriedOK'
      BY <1>1, <1>2, <3>1 DEF IInv, TriedOK
    <3> QED  BY <2>1, <3>1, <3>2, <3>3, Continues
  <2>3. CASE ~(host < hosts)
    <3>1. verdict' = Result("Unknown", failure) /\ stage' = "done" /\ host' = host /\ host = hosts
      BY <1>1, <1>6, <2>3 DEF Close, Return
    <3>2. TypeOK' /\ LookupsOK' /\ HostOK' /\ TriedOK'
      BY <1>1, <1>2, <1>3, <3>1
         DEF IInv, TypeOK, Stages, LookupsOK, HostOK, TriedOK, Result, NoResult, Statuses,
             SMTPReasons, Reasons
    <3>3. InvalidNeedsProof' /\ AcceptanceNeedsProof'
      BY <3>1 DEF InvalidNeedsProof, AcceptanceNeedsProof, Result
    <3>4. EvidenceDecides'
      BY <1>2, <1>3, <1>6, Quiet DEF EvidenceDecides
    <3>5. TransientTriesEveryHost'
      BY <1>1, <1>2, <3>1 DEF IInv, TriedOK, TransientTriesEveryHost
    <3> QED  BY <2>1, <3>2, <3>3, <3>4, <3>5 DEF IInv
  <2> QED  BY <2>2, <2>3
<1> QED  BY <1>5, <1>6

-----------------------------------------------------------------------------
(* The theorems. *)

LEMMA NextOK == ASSUME IInv, [Next]_vars PROVE IInv'
<1>1. CASE UNCHANGED vars
  <2>1. UNCHANGED <<input, stage, hosts, transient, host, session, failure, pending,
                    verdict, dns, replies>>
    BY <1>1 DEF vars
  <2>2. TypeOK' /\ LookupsOK' /\ HostOK' /\ TriedOK'
    BY <2>1 DEF IInv, TypeOK, LookupsOK, HostOK, TriedOK, Discriminates
  <2>3. PendingOK'
    BY <2>1 DEF IInv, PendingOK, Settles, Discriminates
  <2>4. InvalidNeedsProof' /\ AcceptanceNeedsProof'
    BY <2>1 DEF IInv, InvalidNeedsProof, AcceptanceNeedsProof, ProvesNoHost, Discriminates
  <2>5. EvidenceDecides' /\ TransientTriesEveryHost'
    BY <2>1 DEF IInv, EvidenceDecides, TransientTriesEveryHost
  <2> QED  BY <2>2, <2>3, <2>4, <2>5 DEF IInv
<1>2. CASE Next
  BY <1>2, SyntaxOK, BlocklistOK, MXOK, AddressOK, StartOK, ConnectOK, GreetOK,
     MailOK, RcptDummyOK, RcptOK, CloseOK
     DEF Next
<1> QED  BY <1>1, <1>2

THEOREM Invariant == Spec => []IInv
<1>1. Init => IInv
  BY InitOK
<1>2. IInv /\ [Next]_vars => IInv'
  BY NextOK
<1> QED  BY <1>1, <1>2, PTL DEF Spec

\* A call has a result exactly when it is over, it is one of models.py, and a
\* session is always with one of the exchanges found (verifier.py:189-330,
\* 408-460).
THEOREM TypeCorrect == Spec => []TypeOK
<1>1. IInv => TypeOK
  BY DEF IInv
<1> QED  BY <1>1, Invariant, PTL

\* Conservative classification: an address is Invalid only for its syntax, the
\* blocklist, a DNS that proves that nothing takes mail for it, or an explicit
\* refusal by a server that took the sender and refused a random recipient
\* (verifier.py:243-327, 523-558).
THEOREM InvalidIsProved == Spec => []InvalidNeedsProof
<1>1. IInv => InvalidNeedsProof
  BY DEF IInv
<1> QED  BY <1>1, Invariant, PTL

\* Valid and Catch-All each rest on a reply 250 or 251 of one of the hosts, and
\* Valid on one that tells recipients apart (verifier.py:493-534).
THEOREM AcceptanceIsProved == Spec => []AcceptanceNeedsProof
<1>1. IInv => AcceptanceNeedsProof
  BY DEF IInv
<1> QED  BY <1>1, Invariant, PTL

\* What a lookup or a reply has settled is what the call returns, however many
\* other lookups and hosts failed (verifier.py:243-316, 493-558).
THEOREM EvidenceIsFinal == Spec => []EvidenceDecides
<1>1. IInv => EvidenceDecides
  BY DEF IInv
<1> QED  BY <1>1, Invariant, PTL

\* No call gives up on a passing failure with an exchange left untried
\* (verifier.py:432-460, 560-623).
THEOREM EveryHostIsTried == Spec => []TransientTriesEveryHost
<1>1. IInv => TransientTriesEveryHost
  BY DEF IInv
<1> QED  BY <1>1, Invariant, PTL

\* The finally clause lets no session survive its host or its call
\* (verifier.py:620-623, 641-653).
THEOREM NoSessionLeaks == Spec => []SessionsAreClosed
<1>1. IInv => SessionsAreClosed
  BY DEF IInv, HostOK, SessionsAreClosed
<1> QED  BY <1>1, Invariant, PTL

=============================================================================
