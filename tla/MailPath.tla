------------------------------ MODULE MailPath ------------------------------
(***************************************************************************)
(* The two ways to mail advice: a connection of the Postfix policy server, *)
(* or a request to /api/v1/advice (web/app.py) with a list of recipients.  *)
(* They run in different processes and share nothing but the evidence, so  *)
(* that the web request is made when there is no connection.               *)
(***************************************************************************)
EXTENDS PostfixPolicy

VARIABLE reply   \* what the web request is answered with

pathVars == <<evidence, asked, todo, advice, sent, read, ended, conn, lines,
              answers, refuted, reply>>

PathInit == Init /\ reply = <<>>

\* AdviceRequest: some recipients, as many as advise() takes.
WebRequest ==
    /\ conn = "lost" /\ sent = <<>>
    /\ asked = <<>>
    /\ \E inputs \in UNION {[1..n -> Inputs] : n \in 1..MaxRecipients} : Call(inputs)
    /\ UNCHANGED <<evidence, connVars, refuted, reply>>

WebAdvise ==
    /\ conn = "lost" /\ asked # <<>> /\ reply = <<>>
    /\ AdviseNext
    /\ UNCHANGED <<connVars, refuted, reply>>

\* Mutant of Fallback: recipients that were advised about are left out.
FallbackRest == [n \in DOMAIN todo |-> [to |-> todo[n], source |-> "unavailable", status |-> "none"]]

\* The answer without the service: allow, for every recipient as it was given.
Fallback == [n \in DOMAIN asked |-> [to |-> asked[n], source |-> "unavailable", status |-> "none"]]

\* The service returned, or it is missing or raised.
WebReply ==
    /\ conn = "lost" /\ asked # <<>> /\ reply = <<>>
    /\ \/ todo = <<>> /\ reply' = advice
       \/ reply' = Fallback
    /\ UNCHANGED <<evidence, adviceVars, connVars, refuted>>

PathNext ==
    \/ Next /\ UNCHANGED reply
    \/ WebRequest \/ WebAdvise \/ WebReply

\* A line that was sent arrives, and every lookup has a timeout.
PathSpec == PathInit /\ [][PathNext]_pathVars /\ WF_pathVars(Handler /\ UNCHANGED reply)

\* A web request is answered for each of its recipients, and a warning about an
\* address rests on Invalid evidence, whatever fails (app.py:282-318).
ReplyCoversEveryRecipient ==
    reply # <<>> =>
        /\ {reply[n].to : n \in DOMAIN reply} = ToSet(asked)
        /\ \A n \in DOMAIN reply : Warns(reply[n]) => reply[n].to \in Malformed \cup refuted
=============================================================================
