------------------------------- MODULE WebApp -------------------------------
(***************************************************************************)
(* The two handlers of web/app.py from the first byte to the answer: the   *)
(* checks of a request's envelope and the limiter (RequestLimiter) decide  *)
(* who is let in to the console (WebConsole).                              *)
(*                                                                         *)
(* The headers and the body are looked at before anything is counted, and  *)
(* nothing is awaited between the body, the limiter and the semaphore.     *)
(***************************************************************************)
EXTENDS WebConsole, RequestLimiter

CONSTANT Hosts  \* request.client.host

ASSUME BucketsAssumption == Buckets = {"verify", "advice"} \X Hosts

appVars == <<vars, limiterVars>>

AppInit == Init /\ LimiterInit

\* The wrong media type, too many bytes, announced or read, or no valid JSON.
Malformed(r) ==
    /\ Refuse(r)
    /\ UNCHANGED limiterVars

\* A valid request of a client asks the limiter, and is let in or refused.
Enter(r, host) ==
    /\ Allow(<<kind[r], host>>)
    /\ IF decision'.allowed THEN Arrive(r) ELSE Refuse(r)

\* What goes on inside, or time passes.
Inside(r) ==
    /\ Loop(r) \/ Run(r) \/ Finish(r)
    /\ UNCHANGED limiterVars
Outside == Second /\ UNCHANGED vars

AppNext ==
    \/ \E r \in Requests : Malformed(r) \/ Inside(r)
    \/ \E r \in Requests, host \in Hosts : Enter(r, host)
    \/ Outside

AppSpec == AppInit /\ [][AppNext]_appVars

\* The event loop runs, and a thread that runs ends: every call of the engine
\* and of boto3 has a timeout.  A queued call is eventually started.
Fairness ==
    \A r \in Requests :
        /\ WF_appVars(Loop(r) /\ UNCHANGED limiterVars)
        /\ WF_appVars(Run(r) /\ UNCHANGED limiterVars)
        /\ WF_appVars(Finish(r) /\ UNCHANGED limiterVars)

FairAppSpec == AppSpec /\ Fairness
=============================================================================
