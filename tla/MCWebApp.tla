------------------------------ MODULE MCWebApp ------------------------------
(* A small instance of WebApp: two verifications and one advice request per  *)
(* client and window.  Which requests may ask for advice and which client    *)
(* each comes from is fixed, to keep the instance small.                     *)
EXTENDS WebApp

CONSTANT h1, h2

MCBuckets == {"verify", "advice"} \X Hosts
MCPerMinute == [b \in Buckets |-> IF b[1] = "verify" THEN 2 ELSE 1]

Client(r) == IF r = 3 THEN h2 ELSE h1

MCInit == AppInit /\ \A r \in Requests : kind[r] = "advice" => r = 2

\* A request that the limiter is asked about is one of its client.
MCNext ==
    /\ AppNext
    /\ \A r \in Requests : pc[r] = "new" /\ pc'[r] # "new" =>
          \/ UNCHANGED limiterVars
          \/ decision'.bucket = <<kind[r], Client(r)>>

MCSpec == MCInit /\ [][MCNext]_appVars /\ Fairness
=============================================================================
