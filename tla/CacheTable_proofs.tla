-------------------------- MODULE CacheTable_proofs --------------------------
(***************************************************************************)
(* Proofs about CacheTable, for any number of processes, attempts and      *)
(* faults.                                                                 *)
(*                                                                         *)
(* Neither property is inductive.  That a table is usable rests on how far *)
(* a process has come (Progress); that a race is lost only once rests on   *)
(* what losing it shows: the table or the setting is there, nobody removes *)
(* it, and the process will see it before it asks again (Lesson).  The     *)
(* count of the attempts needs that each has a reason (Reasons).           *)
(***************************************************************************)
EXTENDS CacheTable, TLAPS

\* Past its first call a process knows that the table exists; DynamoDB Local
\* has no table that is being created.
Progress ==
    /\ \A p \in Procs : pc[p] \in {"wait", "describe", "update"} => table # "absent"
    /\ useLocal => table # "creating"
    /\ \A p \in Procs : pc[p] \in Calls =>
          tries[p] < Attempts /\ (p \notin Batches => tries[p] = 0)

\* Who lost a race does not make the same call again.
Lesson ==
    \A p \in Procs :
        /\ raced[p]["create"] # 0 => table # "absent" /\ pc[p] # "create"
        /\ raced[p]["ttl"] # 0 => ttl # "disabled" /\ pc[p] # "update"

\* Each failed attempt since the start has been counted as one of these.
Reasons ==
    \A p \in Procs :
        tries[p] <= raced[p]["create"] + raced[p]["ttl"] + early[p] + faults

IInv ==
    /\ TypeOK /\ Progress /\ ReadyMeansUsable /\ Lesson
    /\ Reasons /\ RacesCostTwoAttempts

USE AttemptsAssumption, MaxFaultsAssumption DEF Procs, Races, Calls

LEMMA InitOK == Init => IInv
<1> SUFFICES ASSUME Init PROVE IInv
  OBVIOUS
<1>1. TypeOK /\ Progress /\ ReadyMeansUsable /\ Lesson
  BY DEF Init, TypeOK, Progress, ReadyMeansUsable, Lesson
<1>2. Reasons /\ RacesCostTwoAttempts
  BY DEF Init, Reasons, RacesCostTwoAttempts
<1> QED  BY <1>1, <1>2 DEF IInv

\* What an attempt that fails makes of its process.
LEMMA CacheErrorOK ==
  ASSUME TypeOK, Progress, NEW p \in Procs, pc[p] \in Calls, CacheError(p)
  PROVE  /\ pc' \in [Procs -> Calls \cup {"ready", "failed"}]
         /\ tries' \in [Procs -> 0..Attempts]
         /\ pc'[p] \in {"load", "failed"}
         /\ pc'[p] = "load" => tries'[p] < Attempts /\ p \in Batches
         /\ tries'[p] = tries[p] + 1
         /\ \A q \in Procs \ {p} : pc'[q] = pc[q] /\ tries'[q] = tries[q]
BY DEF CacheError, TypeOK, Progress

\* ... and one that goes on, which TtlError is in local mode.
LEMMA GoToOK ==
  ASSUME TypeOK, Progress, NEW p \in Procs, pc[p] \in Calls,
         NEW call \in Calls \cup {"ready", "failed"}, GoTo(p, call)
  PROVE  /\ pc' \in [Procs -> Calls \cup {"ready", "failed"}]
         /\ tries' \in [Procs -> 0..Attempts]
         /\ pc'[p] = call
         /\ tries'[p] = tries[p]
         /\ tries'[p] < Attempts /\ (p \notin Batches => tries'[p] = 0)
         /\ \A q \in Procs \ {p} : pc'[q] = pc[q] /\ tries'[q] = tries[q]
BY DEF GoTo, TypeOK, Progress

\* ... and one that fails for its ttl.
LEMMA TtlErrorOK ==
  ASSUME TypeOK, Progress, NEW p \in Procs, pc[p] \in Calls, TtlError(p)
  PROVE  /\ pc' \in [Procs -> Calls \cup {"ready", "failed"}]
         /\ tries' \in [Procs -> 0..Attempts]
         /\ pc'[p] \in {"load", "failed"} \/ (useLocal /\ pc'[p] = "ready")
         /\ pc'[p] = "load" => tries'[p] < Attempts /\ p \in Batches
         /\ tries'[p] <= tries[p] + 1
         /\ \A q \in Procs \ {p} : pc'[q] = pc[q] /\ tries'[q] = tries[q]
<1>1. CASE useLocal
  <2>1. GoTo(p, "ready")
    BY <1>1 DEF TtlError
  <2>2. tries[p] \in Nat
    BY DEF TypeOK
  <2> QED  BY <1>1, <2>1, <2>2, GoToOK
<1>2. CASE ~useLocal
  <2>1. CacheError(p)
    BY <1>2 DEF TtlError
  <2> QED  BY <2>1, CacheErrorOK
<1> QED  BY <1>1, <1>2

\* The races are two of the reasons.
LEMMA Bounded ==
  ASSUME TypeOK', Reasons', \A q \in Procs, k \in Races : raced'[q][k] <= 1
  PROVE  \A q \in Procs : tries'[q] <= 2 + early'[q] + faults'
<1> SUFFICES ASSUME NEW q \in Procs
             PROVE  tries'[q] <= 2 + early'[q] + faults'
  OBVIOUS
<1>1. tries'[q] <= raced'[q]["create"] + raced'[q]["ttl"] + early'[q] + faults'
  BY DEF Reasons
<1>2. raced'[q]["create"] <= 1 /\ raced'[q]["ttl"] <= 1
  OBVIOUS
<1>3. /\ tries'[q] \in Nat /\ early'[q] \in Nat /\ faults' \in Nat
      /\ raced'[q]["create"] \in Nat /\ raced'[q]["ttl"] \in Nat
  BY DEF TypeOK
<1> QED  BY <1>1, <1>2, <1>3

\* What every step of a process has to do for the invariant: it moves on as
\* one of these two says, what there is stays, and what it says of the table
\* when it is ready holds.
LEMMA Moved ==
  ASSUME IInv, NEW p \in Procs, pc[p] \in Calls,
         useLocal' = useLocal, TypeOK',
         pc'[p] \in Calls => tries'[p] < Attempts /\ (p \notin Batches => tries'[p] = 0),
         \A q \in Procs \ {p} :
            /\ pc'[q] = pc[q] /\ tries'[q] = tries[q]
            /\ raced'[q] = raced[q] /\ early'[q] = early[q],
         faults' >= faults,
         tries'[p] <= raced'[p]["create"] + raced'[p]["ttl"] + early'[p] + faults',
         useLocal => early'[p] = 0,
         table # "absent" => table' # "absent",
         table = "active" => table' = "active",
         ttl # "disabled" => ttl' # "disabled",
         useLocal => table' # "creating",
         pc'[p] \in {"wait", "describe", "update"} => table' # "absent",
         pc'[p] = "ready" => table' = "active" /\ (~useLocal => ttl' # "disabled"),
         \A k \in Races : raced'[p][k] \in {raced[p][k], 1},
         raced'[p]["create"] # 0 => table' # "absent" /\ pc'[p] # "create",
         raced'[p]["ttl"] # 0 => ttl' # "disabled" /\ pc'[p] # "update"
  PROVE  IInv'
<1>1. Progress'
  BY DEF IInv, Progress
<1>2. ReadyMeansUsable'
  BY DEF IInv, ReadyMeansUsable
<1>3. Lesson'
  BY DEF IInv, Lesson
<1>4. Reasons'
  <2> SUFFICES ASSUME NEW q \in Procs PROVE Reasons!(q)'
    BY DEF Reasons
  <2>1. CASE q = p
    BY <2>1
  <2>2. CASE q # p
    <3>1. tries[q] <= raced[q]["create"] + raced[q]["ttl"] + early[q] + faults
      BY DEF IInv, Reasons
    <3>2. /\ tries'[q] = tries[q] /\ raced'[q] = raced[q] /\ early'[q] = early[q]
          /\ tries[q] \in Nat /\ raced[q]["create"] \in Nat /\ raced[q]["ttl"] \in Nat
          /\ early[q] \in Nat /\ faults \in Nat /\ faults' \in Nat
      BY <2>2 DEF IInv, TypeOK
    <3> QED  BY <3>1, <3>2
  <2> QED  BY <2>1, <2>2
<1>5. \A q \in Procs, k \in Races : raced'[q][k] <= 1
  BY DEF IInv, RacesCostTwoAttempts
<1>6. \A q \in Procs : useLocal' => early'[q] = 0
  BY DEF IInv, RacesCostTwoAttempts
<1>7. RacesCostTwoAttempts'
  <2>1. TypeOK'
    OBVIOUS
  <2> QED  BY <1>4, <1>5, <1>6, <2>1, Bounded DEF RacesCostTwoAttempts
<1> QED  BY <1>1, <1>2, <1>3, <1>4, <1>7 DEF IInv

\* The reasons of p, when its attempt goes on.
LEMMA StillCounted ==
  ASSUME IInv, NEW p \in Procs, tries'[p] = tries[p], UNCHANGED <<raced, early, faults>>
  PROVE  /\ faults' >= faults
         /\ tries'[p] <= raced'[p]["create"] + raced'[p]["ttl"] + early'[p] + faults'
         /\ useLocal => early'[p] = 0
BY DEF IInv, TypeOK, Reasons, RacesCostTwoAttempts

-----------------------------------------------------------------------------
(* One lemma per step. *)

LEMMA LoadOK == ASSUME IInv, NEW p \in Procs, Load(p) PROVE IInv'
<1> DEFINE call == IF table = "absent" THEN "create" ELSE "describe"
<1>1. GoTo(p, call) /\ pc[p] \in Calls /\ UNCHANGED <<useLocal, table, ttl, raced, early, faults>>
  BY DEF Load, histories
<1>2. TypeOK /\ Progress /\ Lesson
  BY DEF IInv
<1>3. /\ pc' \in [Procs -> Calls \cup {"ready", "failed"}]
      /\ tries' \in [Procs -> 0..Attempts]
      /\ pc'[p] = call
      /\ tries'[p] < Attempts /\ (p \notin Batches => tries'[p] = 0)
      /\ tries'[p] = tries[p]
      /\ \A q \in Procs \ {p} : pc'[q] = pc[q] /\ tries'[q] = tries[q]
  BY <1>1, <1>2, GoToOK
<1>4. TypeOK'
  BY <1>1, <1>2, <1>3 DEF TypeOK
<1>5. raced'[p]["create"] # 0 => table' # "absent" /\ pc'[p] # "create"
  BY <1>1, <1>2, <1>3 DEF Lesson
<1>6. raced'[p]["ttl"] # 0 => ttl' # "disabled" /\ pc'[p] # "update"
  BY <1>1, <1>2, <1>3 DEF Lesson
<1>7. useLocal => table' # "creating"
  BY <1>1, <1>2 DEF Progress
<1>8. /\ faults' >= faults
      /\ tries'[p] <= raced'[p]["create"] + raced'[p]["ttl"] + early'[p] + faults'
      /\ useLocal => early'[p] = 0
  BY <1>1, <1>3, StillCounted
<1> QED  BY <1>1, <1>2, <1>3, <1>4, <1>5, <1>6, <1>7, <1>8, Moved DEF TypeOK

LEMMA CreateOK == ASSUME IInv, NEW p \in Procs, Create(p) PROVE IInv'
<1>0. TypeOK /\ Progress /\ Lesson /\ pc[p] = "create" /\ UNCHANGED <<useLocal, ttl, faults>>
  BY DEF Create, IInv
<1>1. CASE /\ table = "absent" /\ NewTable /\ GoTo(p, "wait")
           /\ UNCHANGED <<raced, early>>
  <2>1. /\ pc' \in [Procs -> Calls \cup {"ready", "failed"}]
        /\ tries' \in [Procs -> 0..Attempts]
        /\ pc'[p] = "wait"
        /\ tries'[p] = tries[p]
        /\ tries'[p] < Attempts /\ (p \notin Batches => tries'[p] = 0)
        /\ \A q \in Procs \ {p} : pc'[q] = pc[q] /\ tries'[q] = tries[q]
    BY <1>0, <1>1, GoToOK
  <2>2. table' \in {"creating", "active"} /\ (useLocal => table' = "active") /\ ttl = "disabled"
    BY <1>0, <1>1 DEF NewTable, TypeOK
  <2>3. TypeOK'
    BY <1>0, <1>1, <2>1, <2>2 DEF TypeOK
  <2>4. raced'[p]["create"] = 0 /\ raced'[p]["ttl"] = 0
    BY <1>0, <1>1, <2>2 DEF Lesson, TypeOK
  <2>5. /\ faults' >= faults
        /\ tries'[p] <= raced'[p]["create"] + raced'[p]["ttl"] + early'[p] + faults'
        /\ useLocal => early'[p] = 0
    BY <1>0, <1>1, <2>1, StillCounted
  <2> QED  BY <1>0, <1>1, <2>1, <2>2, <2>3, <2>4, <2>5, Moved
<1>2. CASE table # "absent" /\ Lost(p, "create") /\ CacheError(p) /\ UNCHANGED table
  <2>1. /\ pc' \in [Procs -> Calls \cup {"ready", "failed"}]
        /\ tries' \in [Procs -> 0..Attempts]
        /\ pc'[p] \in {"load", "failed"}
        /\ pc'[p] = "load" => tries'[p] < Attempts /\ p \in Batches
        /\ tries'[p] = tries[p] + 1
        /\ \A q \in Procs \ {p} : pc'[q] = pc[q] /\ tries'[q] = tries[q]
    BY <1>0, <1>2, CacheErrorOK
  <2>2. raced[p]["create"] = 0
    BY <1>0 DEF Lesson
  <2>3. /\ raced' \in [Procs -> [Races -> Nat]]
        /\ raced'[p]["create"] = 1 /\ raced'[p]["ttl"] = raced[p]["ttl"]
        /\ \A q \in Procs \ {p} : raced'[q] = raced[q]
        /\ early' = early
    BY <1>0, <1>2, <2>2 DEF Lost, TypeOK
  <2>4. TypeOK'
    BY <1>0, <1>2, <2>1, <2>3 DEF TypeOK
  <2>5. raced'[p]["ttl"] # 0 => ttl' # "disabled"
    BY <1>0, <2>3 DEF Lesson
  <2>6. useLocal => table' # "creating"
    BY <1>0, <1>2 DEF Progress
  <2>7. \A k \in Races : raced'[p][k] \in {raced[p][k], 1}
    BY <2>3
  <2>8. tries'[p] <= 1 + raced[p]["ttl"] + early[p] + faults
    <3>1. /\ raced[p]["ttl"] \in Nat /\ early[p] \in Nat /\ faults \in Nat
          /\ tries[p] \in Nat
      BY <1>0 DEF TypeOK
    <3>2. tries[p] <= raced[p]["create"] + raced[p]["ttl"] + early[p] + faults
      BY DEF IInv, Reasons
    <3> QED  BY <2>1, <2>2, <3>1, <3>2
  <2>9. /\ faults' >= faults
        /\ tries'[p] <= raced'[p]["create"] + raced'[p]["ttl"] + early'[p] + faults'
        /\ useLocal => early'[p] = 0
    BY <1>0, <2>3, <2>8 DEF IInv, RacesCostTwoAttempts, TypeOK
  <2> QED  BY <1>0, <1>2, <2>1, <2>3, <2>4, <2>5, <2>6, <2>7, <2>9, Moved
<1> QED  BY <1>1, <1>2 DEF Create

LEMMA WaitOK == ASSUME IInv, NEW p \in Procs, Wait(p) PROVE IInv'
<1>0. /\ TypeOK /\ Progress /\ Lesson /\ pc[p] = "wait" /\ table = "active" /\ GoTo(p, "describe")
      /\ UNCHANGED <<useLocal, table, ttl, raced, early, faults>>
  BY DEF Wait, histories, IInv
<1>1. /\ pc' \in [Procs -> Calls \cup {"ready", "failed"}]
      /\ tries' \in [Procs -> 0..Attempts]
      /\ pc'[p] = "describe"
      /\ tries'[p] < Attempts /\ (p \notin Batches => tries'[p] = 0)
      /\ tries'[p] = tries[p]
      /\ \A q \in Procs \ {p} : pc'[q] = pc[q] /\ tries'[q] = tries[q]
  BY <1>0, GoToOK
<1>2. TypeOK'
  BY <1>0, <1>1 DEF TypeOK
<1>3. raced'[p]["ttl"] # 0 => ttl' # "disabled"
  BY <1>0 DEF Lesson
<1>4. /\ faults' >= faults
      /\ tries'[p] <= raced'[p]["create"] + raced'[p]["ttl"] + early'[p] + faults'
      /\ useLocal => early'[p] = 0
  BY <1>0, <1>1, StillCounted
<1> QED  BY <1>0, <1>1, <1>2, <1>3, <1>4, Moved

LEMMA DescribeOK == ASSUME IInv, NEW p \in Procs, Describe(p) PROVE IInv'
<1> DEFINE call == IF ttl = "disabled" THEN "update" ELSE "ready"
<1>0. /\ TypeOK /\ Progress /\ Lesson /\ pc[p] = "describe" /\ GoTo(p, call)
      /\ UNCHANGED <<useLocal, table, ttl, raced, early, faults>>
  BY DEF Describe, histories, IInv
<1>1. /\ pc' \in [Procs -> Calls \cup {"ready", "failed"}]
      /\ tries' \in [Procs -> 0..Attempts]
      /\ pc'[p] = call
      /\ tries'[p] < Attempts /\ (p \notin Batches => tries'[p] = 0)
      /\ tries'[p] = tries[p]
      /\ \A q \in Procs \ {p} : pc'[q] = pc[q] /\ tries'[q] = tries[q]
  BY <1>0, GoToOK
<1>2. TypeOK'
  BY <1>0, <1>1 DEF TypeOK
<1>3. raced'[p]["ttl"] # 0 => ttl' # "disabled" /\ pc'[p] # "update"
  BY <1>0, <1>1 DEF Lesson
<1>4. table' # "absent" /\ (ttl # "disabled" => table' = "active") /\ (useLocal => table' # "creating")
  BY <1>0 DEF Progress, TypeOK
<1>5. /\ faults' >= faults
      /\ tries'[p] <= raced'[p]["create"] + raced'[p]["ttl"] + early'[p] + faults'
      /\ useLocal => early'[p] = 0
  BY <1>0, <1>1, StillCounted
<1> QED  BY <1>0, <1>1, <1>2, <1>3, <1>4, <1>5, Moved

LEMMA UpdateOK == ASSUME IInv, NEW p \in Procs, Update(p) PROVE IInv'
<1>0. /\ TypeOK /\ Progress /\ Lesson /\ pc[p] = "update"
      /\ UNCHANGED <<useLocal, table, faults>>
  BY DEF Update, IInv
<1>1. table # "absent" /\ (useLocal => table # "creating") /\ raced[p]["ttl"] = 0
  BY <1>0 DEF Progress, Lesson
<1>2. CASE /\ table = "active" /\ ttl = "disabled" /\ ttl' = "enabling"
           /\ GoTo(p, "ready") /\ UNCHANGED <<raced, early>>
  <2>1. /\ pc' \in [Procs -> Calls \cup {"ready", "failed"}]
        /\ tries' \in [Procs -> 0..Attempts]
        /\ pc'[p] = "ready"
        /\ tries'[p] = tries[p]
        /\ \A q \in Procs \ {p} : pc'[q] = pc[q] /\ tries'[q] = tries[q]
    BY <1>0, <1>2, GoToOK
  <2>2. TypeOK'
    BY <1>0, <1>2, <2>1 DEF TypeOK
  <2>3. /\ faults' >= faults
        /\ tries'[p] <= raced'[p]["create"] + raced'[p]["ttl"] + early'[p] + faults'
        /\ useLocal => early'[p] = 0
    BY <1>0, <1>2, <2>1, StillCounted
  <2> QED  BY <1>0, <1>1, <1>2, <2>1, <2>2, <2>3, Moved
<1>3. CASE table = "creating" /\ TooEarly(p) /\ TtlError(p) /\ UNCHANGED ttl
  <2>1. /\ pc' \in [Procs -> Calls \cup {"ready", "failed"}]
        /\ tries' \in [Procs -> 0..Attempts]
        /\ pc'[p] \in {"load", "failed"}
        /\ pc'[p] = "load" => tries'[p] < Attempts /\ p \in Batches
        /\ tries'[p] <= tries[p] + 1
        /\ \A q \in Procs \ {p} : pc'[q] = pc[q] /\ tries'[q] = tries[q]
    BY <1>0, <1>1, <1>3, TtlErrorOK
  <2>2. /\ early' \in [Procs -> Nat] /\ early'[p] = early[p] + 1 /\ raced' = raced
        /\ \A q \in Procs \ {p} : early'[q] = early[q]
    BY <1>0, <1>3 DEF TooEarly, TypeOK
  <2>3. TypeOK'
    BY <1>0, <1>3, <2>1, <2>2 DEF TypeOK
  <2>4. tries'[p] <= raced[p]["create"] + raced[p]["ttl"] + (early[p] + 1) + faults
    <3>1. /\ raced[p]["create"] \in Nat /\ raced[p]["ttl"] \in Nat
          /\ early[p] \in Nat /\ faults \in Nat /\ tries[p] \in Nat /\ tries'[p] \in Nat
      BY <1>0, <2>1 DEF TypeOK
    <3>2. tries[p] <= raced[p]["create"] + raced[p]["ttl"] + early[p] + faults
      BY DEF IInv, Reasons
    <3> QED  BY <2>1, <3>1, <3>2
  <2>5. faults' >= faults /\ ~useLocal
    BY <1>0, <1>1, <1>3 DEF TypeOK
  <2>6. tries'[p] <= raced'[p]["create"] + raced'[p]["ttl"] + early'[p] + faults'
    BY <1>0, <2>2, <2>4
  <2> QED  BY <1>0, <1>1, <1>3, <2>1, <2>2, <2>3, <2>5, <2>6, Moved
<1>4. CASE ttl # "disabled" /\ Lost(p, "ttl") /\ TtlError(p) /\ UNCHANGED ttl
  <2>1. /\ pc' \in [Procs -> Calls \cup {"ready", "failed"}]
        /\ tries' \in [Procs -> 0..Attempts]
        /\ pc'[p] \in {"load", "failed"} \/ (useLocal /\ pc'[p] = "ready")
        /\ pc'[p] = "load" => tries'[p] < Attempts /\ p \in Batches
        /\ tries'[p] <= tries[p] + 1
        /\ \A q \in Procs \ {p} : pc'[q] = pc[q] /\ tries'[q] = tries[q]
    BY <1>0, <1>4, TtlErrorOK
  <2>2. /\ raced' \in [Procs -> [Races -> Nat]]
        /\ raced'[p]["ttl"] = 1 /\ raced'[p]["create"] = raced[p]["create"]
        /\ \A q \in Procs \ {p} : raced'[q] = raced[q]
        /\ early' = early
    BY <1>0, <1>1, <1>4 DEF Lost, TypeOK
  <2>3. TypeOK'
    BY <1>0, <1>4, <2>1, <2>2 DEF TypeOK
  <2>4. \A k \in Races : raced'[p][k] \in {raced[p][k], 1}
    BY <2>2
  <2>5. table = "active"
    BY <1>0, <1>4 DEF TypeOK
  <2>6. tries'[p] <= raced[p]["create"] + 1 + early[p] + faults
    <3>1. /\ raced[p]["create"] \in Nat /\ early[p] \in Nat /\ faults \in Nat
          /\ tries[p] \in Nat /\ tries'[p] \in Nat
      BY <1>0, <2>1 DEF TypeOK
    <3>2. tries[p] <= raced[p]["create"] + raced[p]["ttl"] + early[p] + faults
      BY DEF IInv, Reasons
    <3> QED  BY <1>1, <2>1, <3>1, <3>2
  <2>7. /\ faults' >= faults
        /\ tries'[p] <= raced'[p]["create"] + raced'[p]["ttl"] + early'[p] + faults'
        /\ useLocal => early'[p] = 0
    BY <1>0, <2>2, <2>6 DEF IInv, RacesCostTwoAttempts, TypeOK
  <2> QED  BY <1>0, <1>1, <1>4, <2>1, <2>2, <2>3, <2>4, <2>5, <2>7, Moved
<1> QED  BY <1>2, <1>3, <1>4 DEF Update

\* A call that fails may have created the table or enabled expiry.
LEMMA CallFailsOK == ASSUME IInv, NEW p \in Procs, CallFails(p) PROVE IInv'
<1>0. /\ TypeOK /\ Progress /\ Lesson /\ pc[p] \in Calls
      /\ UNCHANGED <<useLocal, raced, early>>
      /\ faults' \in 0..MaxFaults /\ faults' = faults + 1
  BY DEF CallFails, Fault, IInv, TypeOK
<1>1. /\ table' \in {"absent", "creating", "active"} /\ ttl' \in {"disabled", "enabling", "enabled"}
      /\ ttl' # "disabled" => table' = "active"
      /\ table # "absent" => table' = table
      /\ ttl # "disabled" => ttl' = ttl
      /\ useLocal => table' # "creating"
  <2>1. CASE pc[p] = "create" /\ table = "absent" /\ NewTable /\ UNCHANGED ttl
    BY <1>0, <2>1 DEF NewTable, TypeOK
  <2>2. CASE /\ pc[p] = "update" /\ table = "active" /\ ttl = "disabled"
             /\ ttl' = "enabling" /\ UNCHANGED table
    BY <1>0, <2>2 DEF TypeOK
  <2>3. CASE UNCHANGED <<table, ttl>>
    BY <1>0, <2>3 DEF TypeOK, Progress
  <2> QED  BY <2>1, <2>2, <2>3 DEF CallFails
<1>2. /\ pc' \in [Procs -> Calls \cup {"ready", "failed"}]
      /\ tries' \in [Procs -> 0..Attempts]
      /\ pc'[p] \in {"load", "failed"} \/ (useLocal /\ table # "absent" /\ pc'[p] = "ready")
      /\ pc'[p] = "load" => tries'[p] < Attempts /\ p \in Batches
      /\ tries'[p] <= tries[p] + 1
      /\ \A q \in Procs \ {p} : pc'[q] = pc[q] /\ tries'[q] = tries[q]
  <2>0. tries[p] \in Nat
    BY <1>0 DEF TypeOK
  <2>1. CASE pc[p] \in {"describe", "update"}
    <3>1. TtlError(p) /\ table # "absent"
      BY <1>0, <2>1 DEF CallFails, Progress
    <3> QED  BY <1>0, <3>1, TtlErrorOK
  <2>2. CASE pc[p] \notin {"describe", "update"}
    <3>1. CacheError(p)
      BY <2>2 DEF CallFails
    <3> QED  BY <1>0, <2>0, <3>1, CacheErrorOK
  <2> QED  BY <2>1, <2>2
<1>3. TypeOK'
  BY <1>0, <1>1, <1>2 DEF TypeOK
<1>4. pc'[p] = "ready" => table' = "active"
  BY <1>0, <1>1, <1>2 DEF TypeOK
<1>5. /\ raced'[p]["create"] # 0 => table' # "absent"
      /\ raced'[p]["ttl"] # 0 => ttl' # "disabled"
  BY <1>0, <1>1 DEF Lesson
<1>6. tries'[p] <= raced[p]["create"] + raced[p]["ttl"] + early[p] + (faults + 1)
  <2>1. /\ raced[p]["create"] \in Nat /\ raced[p]["ttl"] \in Nat /\ early[p] \in Nat
        /\ faults \in Nat /\ tries[p] \in Nat /\ tries'[p] \in Nat
    BY <1>0, <1>2 DEF TypeOK
  <2>2. tries[p] <= raced[p]["create"] + raced[p]["ttl"] + early[p] + faults
    BY DEF IInv, Reasons
  <2> QED  BY <1>2, <2>1, <2>2
<1>7. /\ faults' >= faults
      /\ tries'[p] <= raced'[p]["create"] + raced'[p]["ttl"] + early'[p] + faults'
      /\ useLocal => early'[p] = 0
  BY <1>0, <1>6 DEF IInv, RacesCostTwoAttempts, TypeOK
<1> QED  BY <1>0, <1>1, <1>2, <1>3, <1>4, <1>5, <1>7, Moved

\* Steps that leave the table and the histories alone and put p where it
\* starts from or where it does nothing.
LEMMA StartOK == ASSUME IInv, NEW p \in Procs, Start(p) PROVE IInv'
<1>1. TypeOK'
  BY DEF Start, IInv, TypeOK
<1>2. Progress' /\ ReadyMeansUsable' /\ Lesson'
  BY DEF Start, IInv, TypeOK, Progress, ReadyMeansUsable, Lesson
<1>3. /\ tries' = [tries EXCEPT ![p] = 0] /\ early' = [early EXCEPT ![p] = 0]
      /\ UNCHANGED <<useLocal, raced, faults>>
  BY DEF Start
<1>4. ASSUME NEW q \in Procs PROVE Reasons!(q)'
  <2>1. CASE q = p
    BY <1>1, <1>3, <2>1 DEF IInv, TypeOK
  <2>2. CASE q # p
    BY <1>3, <2>2 DEF IInv, TypeOK, Reasons
  <2> QED  BY <2>1, <2>2
<1>5. Reasons'
  BY <1>4 DEF Reasons
<1>6. \A q \in Procs : /\ \A k \in Races : raced'[q][k] <= 1
                       /\ useLocal' => early'[q] = 0
  BY <1>3 DEF IInv, TypeOK, RacesCostTwoAttempts
<1>7. RacesCostTwoAttempts'
  BY <1>1, <1>5, <1>6, Bounded DEF RacesCostTwoAttempts
<1> QED  BY <1>1, <1>2, <1>5, <1>7 DEF IInv

LEMMA KillOK == ASSUME IInv, NEW p \in Procs, Kill(p) PROVE IInv'
<1>1. TypeOK'
  BY DEF Kill, Fault, GoTo, IInv, TypeOK
<1>2. Progress' /\ ReadyMeansUsable' /\ Lesson'
  BY DEF Kill, Fault, GoTo, IInv, TypeOK, Progress, ReadyMeansUsable, Lesson
<1>3. /\ faults \in Nat /\ faults' = faults + 1 /\ UNCHANGED <<useLocal, tries, raced, early>>
      /\ \A q \in Procs : tries[q] \in Nat /\ early[q] \in Nat
      /\ \A q \in Procs, k \in Races : raced[q][k] \in Nat
  BY DEF Kill, Fault, GoTo, IInv, TypeOK
<1>4. Reasons' /\ RacesCostTwoAttempts'
  BY <1>3 DEF IInv, Reasons, RacesCostTwoAttempts
<1> QED  BY <1>1, <1>2, <1>4 DEF IInv

LEMMA DynamoDBOK == ASSUME IInv, DynamoDB PROVE IInv'
<1>1. TypeOK'
  BY DEF DynamoDB, histories, IInv, TypeOK
<1>2. Progress' /\ ReadyMeansUsable' /\ Lesson'
  BY DEF DynamoDB, histories, IInv, TypeOK, Progress, ReadyMeansUsable, Lesson
<1>3. Reasons' /\ RacesCostTwoAttempts'
  BY DEF DynamoDB, histories, IInv, Reasons, RacesCostTwoAttempts
<1> QED  BY <1>1, <1>2, <1>3 DEF IInv

LEMMA NextOK == ASSUME IInv, [Next]_vars PROVE IInv'
<1>1. CASE UNCHANGED vars
  <2>1. TypeOK' /\ Progress' /\ ReadyMeansUsable' /\ Lesson'
    BY <1>1 DEF vars, histories, IInv, TypeOK, Progress, ReadyMeansUsable, Lesson
  <2>2. Reasons' /\ RacesCostTwoAttempts'
    BY <1>1 DEF vars, histories, IInv, Reasons, RacesCostTwoAttempts
  <2> QED  BY <2>1, <2>2 DEF IInv
<1>2. CASE \E p \in Procs : Step(p) \/ CallFails(p) \/ Start(p) \/ Kill(p)
  BY <1>2, LoadOK, CreateOK, WaitOK, DescribeOK, UpdateOK, CallFailsOK, StartOK, KillOK
     DEF Step
<1> QED  BY <1>1, <1>2, DynamoDBOK DEF Next

-----------------------------------------------------------------------------

THEOREM Invariance == Spec => []IInv
BY InitOK, NextOK, PTL DEF Spec

\* The model of the table is type correct; in particular expiry is enabled only
\* for a table that is active (dynamodb.py:107-155).
THEOREM TypeCorrect == Spec => []TypeOK
<1>1. IInv => TypeOK
  BY DEF IInv
<1> QED  BY <1>1, Invariance, PTL

\* Whoever has set it up, a process whose ensure_table_exists has returned can
\* use the table, and managed DynamoDB expires its rows (dynamodb.py:87-155).
THEOREM Ready == Spec => []ReadyMeansUsable
<1>1. IInv => ReadyMeansUsable
  BY DEF IInv
<1> QED  BY <1>1, Invariance, PTL

\* However many processes start at the same time, each of them loses each race
\* at most once in its life, and what other attempts of its fail is a call that
\* failed or, in cloud mode, a table that is not active yet (dynamodb.py:87-155,
\* batch.py:24-42).
THEOREM RaceCosts == Spec => []RacesCostTwoAttempts
<1>1. IInv => RacesCostTwoAttempts
  BY DEF IInv
<1> QED  BY <1>1, Invariance, PTL
=============================================================================
