---------------------------- MODULE WebApp_proofs ----------------------------
(***************************************************************************)
(* Proofs about the console, the limiters and the web process that is made *)
(* of them, for any number of requests, clients, permits and threads, and  *)
(* for any limits and windows.                                             *)
(*                                                                         *)
(* The inductive invariant of the console is IInv: types, among them       *)
(* PartsOK, which says that a call that is not over belongs to a handler   *)
(* in its timed wait or to a callback; the count of the permits; and that  *)
(* somebody has been woken up when a permit is free and somebody waits:    *)
(* whoever resumes must know that, if it leaves nobody woken up, the       *)
(* others have nothing to wait for.  The cap follows: whoever runs holds a *)
(* permit.                                                                 *)
(*                                                                         *)
(* What a limiter keeps is the end of what it has granted, and what it has *)
(* dropped has expired (Good).  So the request that is one limit before a  *)
(* granted one was dropped, and all requests that a refusal counts are     *)
(* within the window, times being sorted.                                  *)
(*                                                                         *)
(* What the two promise holds in the web process: the envelope and the     *)
(* limiters only decide who enters the console, and nothing else touches a *)
(* limiter.                                                                *)
(***************************************************************************)
EXTENDS WebApp, FiniteSetTheorems, SequenceTheorems, WellFoundedInduction, TLAPS

\* The one who is served first is one of those who wait.
LEMMA FirstWaits ==
  ASSUME NEW waiting, waiting \subseteq Nat, waiting # {}
  PROVE  First(waiting) \in waiting /\ \A u \in waiting : First(waiting) <= u
<1> DEFINE R == OpToRel(<, Nat)
<1>1. \A m, n \in Nat : m < n => <<m, n>> \in R
  BY Zenon DEF OpToRel
<1>2. IsWellFoundedOn(R, Nat)
  BY NatLessThanWellFounded
<1> HIDE DEF R
<1>3. PICK t \in waiting : \A u \in waiting : ~(<<u, t>> \in R)
  BY <1>2, WFMin
<1>4. ASSUME NEW u \in waiting PROVE t <= u
  <2>1. t \in Nat /\ u \in Nat
    OBVIOUS
  <2>2. ~(u < t)
    BY <1>1, <1>3, <2>1
  <2> QED  BY <2>1, <2>2
<1> QED  BY <1>4 DEF First

\* Some more become members.
LEMMA Joined ==
  ASSUME NEW S, IsFiniteSet(S), NEW W, IsFiniteSet(W), S \cap W = {}
  PROVE  Cardinality(S \cup W) = Cardinality(S) + Cardinality(W)
<1>1. Cardinality(S \cup W) = Cardinality(S) + Cardinality(W) - Cardinality(S \cap W)
  BY FS_Union
<1>2. Cardinality(S \cap W) = 0
  BY FS_EmptySet
<1>3. Cardinality(S) \in Nat /\ Cardinality(W) \in Nat
  BY FS_CardinalityType
<1> QED  BY <1>1, <1>2, <1>3

\* A permit moves from one holder to another: as many are held as before.
LEMMA Moved ==
  ASSUME NEW S, IsFiniteSet(S), NEW x \in S, NEW y, y \notin S
  PROVE  Cardinality((S \ {x}) \cup {y}) = Cardinality(S)
<1>1. IsFiniteSet(S \ {x}) /\ Cardinality(S \ {x}) = Cardinality(S) - 1
  BY FS_RemoveElement
<1>2. Cardinality((S \ {x}) \cup {y}) = Cardinality(S \ {x}) + 1
  BY <1>1, FS_AddElement
<1>3. Cardinality(S) \in Nat
  BY FS_CardinalityType
<1> QED  BY <1>1, <1>2, <1>3

-----------------------------------------------------------------------------
(* The console. *)

IInv == TypeOK /\ PermitsAreConserved /\ NoPermitIdles

USE NAssumption, MaxConcurrentAssumption DEF Requests, PCs

LEMMA SetsAreFinite ==
  /\ IsFiniteSet(Requests)
  /\ \A S \in SUBSET Requests : IsFiniteSet(S) /\ Cardinality(S) \in Nat
<1>1. IsFiniteSet(Requests)
  BY FS_Interval
<1>2. ASSUME NEW S \in SUBSET Requests PROVE IsFiniteSet(S)
  BY <1>1, FS_Subset
<1> QED  BY <1>1, <1>2, FS_CardinalityType

LEMMA FiniteHolders ==
  /\ IsFiniteSet(Holders) /\ Cardinality(Holders) \in Nat
  /\ IsFiniteSet(Holders') /\ Cardinality(Holders') \in Nat
BY SetsAreFinite DEF Holders

\* The process starts with every permit free.
LEMMA InitOK == Init => IInv
<1> SUFFICES ASSUME Init PROVE IInv
  OBVIOUS
<1>1. TypeOK
  BY DEF Init, TypeOK, PartsOK
<1>2. PermitsAreConserved
  <2>1. Holders = {}
    BY DEF Init, Holders, Holds
  <2> QED  BY <2>1, FS_EmptySet DEF PermitsAreConserved, Init
<1>3. NoPermitIdles
  BY DEF Init, NoPermitIdles, Waiting
<1> QED  BY <1>1, <1>2, <1>3 DEF IInv

\* Who is handed a permit was waiting, and held none.
LEMMA Heir ==
  ASSUME TypeOK, Waiting # {}
  PROVE  First(Waiting) \in Waiting /\ First(Waiting) \notin Holders
<1>1. First(Waiting) \in Waiting
  BY FirstWaits DEF Waiting
<1> QED  BY <1>1 DEF Waiting, Holders, Holds, TypeOK, PartsOK

\* r gives its permit back, to the first waiter or to the semaphore.
LEMMA ReleaseOK ==
  ASSUME IInv, NEW r \in Holders, NEW cs, Release(cs),
         Waiting = {} => Waiting' = {} /\ Holders' = Holders \ {r},
         Waiting # {} =>
             Woken' # {} /\ Holders' = (Holders \ {r}) \cup {First(Waiting)}
  PROVE  PermitsAreConserved' /\ NoPermitIdles' /\ free' \in 0..MaxConcurrent
<1>1. free \in 0..MaxConcurrent /\ free + Cardinality(Holders) = MaxConcurrent
  BY DEF IInv, TypeOK, PermitsAreConserved
<1>2. CASE Waiting = {}
  <2>1. free' = free + 1
    BY <1>2 DEF Release
  <2>2. Cardinality(Holders') = Cardinality(Holders) - 1
    BY <1>2, FiniteHolders, FS_RemoveElement
  <2>3. Cardinality(Holders') \in Nat /\ Cardinality(Holders) \in Nat
    BY FiniteHolders
  <2> QED  BY <1>1, <1>2, <2>1, <2>2, <2>3 DEF PermitsAreConserved, NoPermitIdles
<1>3. CASE Waiting # {}
  <2>1. free' = free
    BY <1>3 DEF Release
  <2>2. Cardinality(Holders') = Cardinality(Holders)
    BY <1>3, Heir, FiniteHolders, Moved DEF IInv
  <2> QED  BY <1>1, <1>3, <2>1, <2>2 DEF PermitsAreConserved, NoPermitIdles
<1> QED  BY <1>2, <1>3

\* The same, for a handler that leaves its timed wait.
LEMMA HandlerReleases ==
  ASSUME IInv, NEW r \in Requests, pc[r] = "timed",
         Release([pc EXCEPT ![r] = "answered"]), UNCHANGED <<kind, owed>>
  PROVE  /\ PermitsAreConserved' /\ NoPermitIdles' /\ free' \in 0..MaxConcurrent
         /\ pc' \in [Requests -> PCs]
         /\ pc'[r] = "answered"
         /\ \A s \in Requests \ {r} :
               pc'[s] = pc[s] \/ (pc[s] = "waiting" /\ pc'[s] = "granted")
<1> DEFINE cs == [pc EXCEPT ![r] = "answered"]
<1>1. r \in Holders /\ r \notin Waiting
  BY DEF Holders, Holds, Waiting
<1>2. cs \in [Requests -> PCs] /\ ~owed[r]
  BY DEF IInv, TypeOK, PartsOK
<1>3. CASE Waiting = {}
  <2>1. pc' = cs
    BY <1>3 DEF Release
  <2>2. Waiting' = {} /\ Holders' = Holders \ {r}
    BY <1>2, <1>3, <2>1 DEF Waiting, Holders, Holds, IInv, TypeOK
  <2>3. Release(cs)
    OBVIOUS
  <2>4. PermitsAreConserved' /\ NoPermitIdles' /\ free' \in 0..MaxConcurrent
    <3> HIDE DEF cs
    <3> QED  BY <1>1, <1>3, <2>2, <2>3, ReleaseOK
  <2> QED  BY <1>2, <2>1, <2>4 DEF IInv, TypeOK
<1>4. CASE Waiting # {}
  <2> DEFINE w == First(Waiting)
  <2>1. w \in Requests /\ pc[w] = "waiting" /\ w # r /\ w \notin Holders
    BY <1>1, <1>4, Heir DEF Waiting, IInv
  <2>2. pc' = [cs EXCEPT ![w] = "granted"]
    BY <1>4 DEF Release
  <2> HIDE DEF w
  <2>3. Woken' # {} /\ Holders' = (Holders \ {r}) \cup {w}
    <3>1. pc'[w] = "granted"
      BY <1>2, <2>1, <2>2
    <3>2. Woken' # {}
      BY <2>1, <3>1 DEF Woken
    <3>3. Holders' = (Holders \ {r}) \cup {w}
      BY <1>2, <2>1, <2>2 DEF Holders, Holds, IInv, TypeOK
    <3> QED  BY <3>2, <3>3
  <2>4. Release(cs)
    OBVIOUS
  <2>5. PermitsAreConserved' /\ NoPermitIdles' /\ free' \in 0..MaxConcurrent
    <3> HIDE DEF cs
    <3> QED  BY <1>1, <1>4, <2>3, <2>4, ReleaseOK DEF w
  <2> QED  BY <1>2, <2>1, <2>2, <2>5 DEF IInv, TypeOK
<1> QED  BY <1>3, <1>4

\* The same, for a callback.
LEMMA CallbackReleases ==
  ASSUME IInv, NEW r \in Requests, Callback(r)
  PROVE  /\ PermitsAreConserved' /\ NoPermitIdles' /\ free' \in 0..MaxConcurrent
         /\ pc' \in [Requests -> PCs]
         /\ \A s \in Requests :
               pc'[s] = pc[s] \/ (pc[s] = "waiting" /\ pc'[s] = "granted")
<1>1. r \in Holders /\ r \notin Waiting /\ pc[r] = "answered"
  BY DEF Callback, Holders, Holds, Waiting, IInv, TypeOK, PartsOK
<1>2. owed' = [owed EXCEPT ![r] = FALSE] /\ owed \in [Requests -> BOOLEAN] /\ pc \in [Requests -> PCs]
  BY DEF Callback, IInv, TypeOK
<1>3. Release(pc)
  BY DEF Callback
<1>4. CASE Waiting = {}
  <2>1. pc' = pc
    BY <1>3, <1>4 DEF Release
  <2>2. Waiting' = {} /\ Holders' = Holders \ {r}
    BY <1>1, <1>2, <1>4, <2>1 DEF Waiting, Holders, Holds
  <2>3. PermitsAreConserved' /\ NoPermitIdles' /\ free' \in 0..MaxConcurrent
    BY <1>1, <1>3, <1>4, <2>2, ReleaseOK
  <2> QED  BY <1>2, <2>1, <2>3
<1>5. CASE Waiting # {}
  <2> DEFINE w == First(Waiting)
  <2>1. w \in Requests /\ pc[w] = "waiting" /\ w # r /\ w \notin Holders
    BY <1>1, <1>5, Heir DEF Waiting, IInv
  <2>2. pc' = [pc EXCEPT ![w] = "granted"]
    BY <1>3, <1>5 DEF Release
  <2> HIDE DEF w
  <2>3. Woken' # {} /\ Holders' = (Holders \ {r}) \cup {w}
    BY <1>1, <1>2, <2>1, <2>2 DEF Woken, Holders, Holds
  <2>4. PermitsAreConserved' /\ NoPermitIdles' /\ free' \in 0..MaxConcurrent
    BY <1>1, <1>3, <1>5, <2>3, ReleaseOK DEF w
  <2> QED  BY <1>2, <2>1, <2>2, <2>4
<1> QED  BY <1>4, <1>5

\* Steps that move no permit.
LEMMA NobodyReleases ==
  ASSUME IInv, Holders' = Holders, Waiting' = Waiting, Woken' = Woken, free' = free
  PROVE  PermitsAreConserved' /\ NoPermitIdles' /\ free' \in 0..MaxConcurrent
BY DEF IInv, TypeOK, PermitsAreConserved, NoPermitIdles

-----------------------------------------------------------------------------
(* One lemma per step. *)

LEMMA ArriveOK == ASSUME IInv, NEW r \in Requests, Arrive(r) PROVE IInv'
<1> USE DEF Arrive, Submit, IInv
<1>0. PartsOK'
  <2> SUFFICES ASSUME NEW s \in Requests PROVE PartsOK!(s)'
    BY DEF PartsOK
  <2>1. (pc'[s] = pc[s] /\ thread'[s] = thread[s]) \/ s = r
    BY DEF TypeOK
  <2> QED  BY <2>1 DEF TypeOK, PartsOK
<1>1. TypeOK'
  <2>1. CASE kind[r] = "advice"
    BY <1>0, <2>1 DEF TypeOK
  <2>2. CASE kind[r] = "verify" /\ ~Locked(free, Waiting \cup Woken)
    <3>1. free' \in 0..MaxConcurrent
      BY <2>2 DEF Locked, TypeOK
    <3>2. /\ kind' = kind /\ done' = done /\ owed' = owed /\ answer' = answer
          /\ pc' = [pc EXCEPT ![r] = "timed"]
          /\ thread' = [thread EXCEPT ![r] = "queued"]
      BY <2>2
    <3> QED  BY ONLY <1>0, <3>1, <3>2, TypeOK DEF TypeOK, PCs
  <2>3. CASE kind[r] = "verify" /\ Locked(free, Waiting \cup Woken)
    <3>1. /\ kind' = kind /\ done' = done /\ owed' = owed /\ answer' = answer
          /\ pc' = [pc EXCEPT ![r] = "waiting"] /\ thread' = thread /\ free' = free
      BY <2>3
    <3> QED  BY ONLY <1>0, <3>1, TypeOK DEF TypeOK, PCs
  <2> QED  BY <2>1, <2>2, <2>3
<1>2. CASE kind[r] = "advice"
  <2>1. Holders' = Holders /\ Waiting' = Waiting /\ Woken' = Woken /\ free' = free
    BY <1>2 DEF Holders, Holds, Waiting, Woken, TypeOK
  <2> QED  BY <1>1, <2>1, NobodyReleases
<1>3. CASE kind[r] = "verify" /\ ~Locked(free, Waiting \cup Woken)
  <2>1. Holders' = Holders \cup {r} /\ r \notin Holders /\ Waiting' = Waiting
    BY <1>3 DEF Holders, Holds, Waiting, TypeOK, PartsOK
  <2>2. Cardinality(Holders') = Cardinality(Holders) + 1
    BY <2>1, FiniteHolders, FS_AddElement
  <2>3. free' = free - 1 /\ free \in Nat /\ Waiting = {}
    BY <1>3 DEF Locked, TypeOK
  <2>4. Cardinality(Holders) \in Nat
    BY FiniteHolders
  <2>5. PermitsAreConserved'
    BY <2>2, <2>3, <2>4 DEF PermitsAreConserved
  <2> QED  BY <1>1, <2>1, <2>3, <2>5 DEF NoPermitIdles
<1>4. CASE kind[r] = "verify" /\ Locked(free, Waiting \cup Woken)
  <2>1. Holders' = Holders /\ Woken' = Woken /\ free' = free
    BY <1>4 DEF Holders, Holds, Woken, TypeOK
  <2>2. free \in Nat /\ (free > 0 => Woken # {})
    BY <1>4 DEF Locked, NoPermitIdles, TypeOK
  <2> QED  BY <1>1, <2>1, <2>2 DEF PermitsAreConserved, NoPermitIdles
<1> QED  BY <1>2, <1>3, <1>4 DEF TypeOK

LEMMA RefuseOK == ASSUME IInv, NEW r \in Requests, Refuse(r) PROVE IInv'
<1>1. TypeOK'
  BY DEF Refuse, IInv, TypeOK, PartsOK
<1>2. Holders' = Holders /\ Waiting' = Waiting /\ Woken' = Woken /\ free' = free
  BY DEF Refuse, Holders, Holds, Waiting, Woken, IInv, TypeOK
<1> QED  BY <1>1, <1>2, NobodyReleases DEF IInv

\* Those whom r wakes up hold the permits that were free.
LEMMA ResumeOK == ASSUME IInv, NEW r \in Requests, Resume(r) PROVE IInv'
<1>1. PICK woken \in SUBSET Waiting :
          /\ WakesUp(woken, free, Waiting)
          /\ pc' = [s \in Requests |-> IF s = r THEN "timed"
                                       ELSE IF s \in woken THEN "granted"
                                       ELSE pc[s]]
          /\ free' = free - Cardinality(woken)
  BY DEF Resume
<1>2. /\ IsFiniteSet(woken) /\ Cardinality(woken) \in Nat
      /\ Cardinality(woken) <= free /\ free \in 0..MaxConcurrent
      /\ (free > 0 /\ Waiting # {} => woken # {})
      /\ pc[r] = "granted" /\ r \notin woken
      /\ woken \subseteq Requests /\ \A s \in woken : pc[s] = "waiting"
  <2>1. woken \subseteq Requests /\ (\A s \in woken : pc[s] = "waiting") /\ pc[r] = "granted"
    BY DEF Waiting, Resume
  <2>2. IsFiniteSet(woken) /\ Cardinality(woken) \in Nat
    BY <2>1, SetsAreFinite
  <2> QED  BY <1>1, <2>1, <2>2 DEF WakesUp, IInv, TypeOK
<1>3. /\ kind' = kind /\ done' = done /\ owed' = owed /\ answer' = answer
      /\ thread' = [thread EXCEPT ![r] = "queued"]
  BY DEF Resume, Submit
<1>4. PartsOK'
  <2> SUFFICES ASSUME NEW s \in Requests PROVE PartsOK!(s)'
    BY DEF PartsOK
  <2>1. CASE s = r
    BY <1>1, <1>2, <1>3, <2>1 DEF IInv, TypeOK, PartsOK
  <2>2. CASE s \in woken
    BY <1>1, <1>2, <1>3, <2>2 DEF IInv, TypeOK, PartsOK
  <2>3. CASE s # r /\ s \notin woken
    BY <1>1, <1>3, <2>3 DEF IInv, TypeOK, PartsOK
  <2> QED  BY <2>1, <2>2, <2>3
<1>5. TypeOK'
  <2>1. pc' \in [Requests -> PCs]
    BY <1>1 DEF IInv, TypeOK
  <2>2. free' \in 0..MaxConcurrent
    BY <1>1, <1>2
  <2> QED  BY <1>3, <1>4, <2>1, <2>2 DEF IInv, TypeOK
<1>6. PermitsAreConserved'
  <2>1. Holders' = Holders \cup woken
    BY <1>1, <1>2, <1>3 DEF Holders, Holds
  <2>2. Holders \cap woken = {}
    BY <1>2 DEF Holders, Holds, IInv, TypeOK, PartsOK
  <2>3. Cardinality(Holders') = Cardinality(Holders) + Cardinality(woken)
    BY <1>2, <2>1, <2>2, FiniteHolders, Joined
  <2>4. Cardinality(Holders) \in Nat /\ Cardinality(Holders') \in Nat
    BY FiniteHolders
  <2> QED  BY <1>1, <1>2, <2>3, <2>4 DEF IInv, PermitsAreConserved
<1>7. NoPermitIdles'
  <2>1. CASE woken = {}
    <3>1. Cardinality(woken) = 0 /\ Waiting' = Waiting
      BY <1>1, <1>2, <2>1, FS_EmptySet DEF Waiting
    <3> QED  BY <1>1, <1>2, <2>1, <3>1 DEF NoPermitIdles
  <2>2. CASE woken # {}
    <3>1. Woken' # {}
      BY <1>1, <1>2, <2>2 DEF Woken
    <3> QED  BY <3>1 DEF NoPermitIdles
  <2> QED  BY <2>1, <2>2
<1> QED  BY <1>5, <1>6, <1>7 DEF IInv

LEMMA CompleteOK == ASSUME IInv, NEW r \in Requests, Complete(r) PROVE IInv'
<1>1. /\ PermitsAreConserved' /\ NoPermitIdles' /\ free' \in 0..MaxConcurrent
      /\ pc' \in [Requests -> PCs]
      /\ pc'[r] = "answered"
      /\ \A s \in Requests \ {r} :
            pc'[s] = pc[s] \/ (pc[s] = "waiting" /\ pc'[s] = "granted")
  BY HandlerReleases DEF Complete
<1>2. PartsOK'
  BY <1>1 DEF Complete, IInv, TypeOK, PartsOK
<1>3. TypeOK'
  BY <1>1, <1>2 DEF Complete, Reply, IInv, TypeOK
<1> QED  BY <1>1, <1>3 DEF IInv

LEMMA TimeOutOK == ASSUME IInv, NEW r \in Requests, TimeOut(r) PROVE IInv'
<1>1. CASE done[r]
  <2>0. Release([pc EXCEPT ![r] = "answered"]) /\ UNCHANGED <<kind, thread, done, owed>>
        /\ pc[r] = "timed" /\ answer' = [answer EXCEPT ![r] = "timeout"]
    BY <1>1 DEF TimeOut
  <2>1. /\ PermitsAreConserved' /\ NoPermitIdles' /\ free' \in 0..MaxConcurrent
        /\ pc' \in [Requests -> PCs]
        /\ pc'[r] = "answered"
        /\ \A s \in Requests \ {r} :
              pc'[s] = pc[s] \/ (pc[s] = "waiting" /\ pc'[s] = "granted")
    BY <2>0, HandlerReleases
  <2>2. PartsOK'
    BY <1>1, <2>0, <2>1 DEF IInv, TypeOK, PartsOK
  <2>3. TypeOK'
    BY <2>0, <2>1, <2>2 DEF IInv, TypeOK
  <2> QED  BY <2>1, <2>3 DEF IInv
<1>2. CASE ~done[r]
  <2>0. PartsOK'
    BY <1>2 DEF TimeOut, IInv, TypeOK, PartsOK
  <2>1. TypeOK'
    BY <1>2, <2>0 DEF TimeOut, IInv, TypeOK
  <2>2. Holders' = Holders /\ Waiting' = Waiting /\ Woken' = Woken /\ free' = free
    BY <1>2 DEF TimeOut, Holders, Holds, Waiting, Woken, IInv, TypeOK
  <2> QED  BY <2>1, <2>2, NobodyReleases DEF IInv
<1> QED  BY <1>1, <1>2

LEMMA CallbackOK == ASSUME IInv, NEW r \in Requests, Callback(r) PROVE IInv'
<1>1. /\ PermitsAreConserved' /\ NoPermitIdles' /\ free' \in 0..MaxConcurrent
      /\ pc' \in [Requests -> PCs]
      /\ \A s \in Requests :
            pc'[s] = pc[s] \/ (pc[s] = "waiting" /\ pc'[s] = "granted")
  BY CallbackReleases
<1>2. PartsOK'
  BY <1>1 DEF Callback, IInv, TypeOK, PartsOK
<1>3. TypeOK'
  BY <1>1, <1>2 DEF Callback, IInv, TypeOK
<1> QED  BY <1>1, <1>3 DEF IInv

LEMMA AdviseOK == ASSUME IInv, NEW r \in Requests, Advise(r) PROVE IInv'
<1>1. TypeOK'
  BY DEF Advise, IInv, TypeOK, PartsOK
<1>2. Holders' = Holders /\ Waiting' = Waiting /\ Woken' = Woken /\ free' = free
  BY DEF Advise, Holders, Holds, Waiting, Woken, IInv, TypeOK
<1> QED  BY <1>1, <1>2, NobodyReleases DEF IInv

LEMMA ExecutorOK ==
  ASSUME IInv, NEW r \in Requests, Run(r) \/ Finish(r) \/ Hear(r)
  PROVE  IInv'
<1>0. PartsOK'
  <2>1. CASE Run(r)
    BY <2>1 DEF Run, IInv, TypeOK, PartsOK
  <2>2. CASE Finish(r)
    BY <2>2 DEF Finish, IInv, TypeOK, PartsOK
  <2>3. CASE Hear(r)
    BY <2>3 DEF Hear, IInv, TypeOK, PartsOK
  <2> QED  BY <2>1, <2>2, <2>3
<1>1. TypeOK'
  <2>1. CASE Run(r)
    BY <1>0, <2>1 DEF Run, IInv, TypeOK
  <2>2. CASE Finish(r)
    BY <1>0, <2>2 DEF Finish, IInv, TypeOK
  <2>3. CASE Hear(r)
    BY <1>0, <2>3 DEF Hear, IInv, TypeOK
  <2> QED  BY <2>1, <2>2, <2>3
<1>2. Holders' = Holders /\ Waiting' = Waiting /\ Woken' = Woken /\ free' = free
  BY DEF Run, Finish, Hear, Holders, Holds, Waiting, Woken
<1> QED  BY <1>1, <1>2, NobodyReleases DEF IInv

LEMMA NextOK == ASSUME IInv, [Next]_vars PROVE IInv'
<1>1. CASE UNCHANGED vars
  <2>1. Holders' = Holders /\ Waiting' = Waiting /\ Woken' = Woken /\ free' = free
    BY <1>1 DEF vars, Holders, Holds, Waiting, Woken
  <2>2. TypeOK'
    BY <1>1 DEF vars, IInv, TypeOK, PartsOK
  <2> QED  BY <2>1, <2>2, NobodyReleases DEF IInv
<1>2. CASE Next
  <2>1. PICK r \in Requests : Arrive(r) \/ Refuse(r) \/ Loop(r) \/ Run(r) \/ Finish(r)
    BY <1>2 DEF Next
  <2> QED
    BY <2>1, ArriveOK, RefuseOK, ResumeOK, CompleteOK, TimeOutOK, CallbackOK, AdviseOK, ExecutorOK
       DEF Loop
<1> QED  BY <1>1, <1>2

\* Whoever verifies in a thread holds a permit.
LEMMA Capped == IInv => VerificationsAreCapped
<1> SUFFICES ASSUME IInv PROVE VerificationsAreCapped
  OBVIOUS
<1>1. Verifying \subseteq Holders
  BY DEF Verifying, Running, Holders, Holds, IInv, TypeOK, PartsOK
<1>2. Cardinality(Verifying) <= Cardinality(Holders)
  BY <1>1, FiniteHolders, FS_Subset
<1>3. Cardinality(Holders) <= MaxConcurrent
  BY FiniteHolders DEF IInv, TypeOK, PermitsAreConserved
<1>4. Cardinality(Verifying) \in Nat
  BY SetsAreFinite DEF Verifying, Running
<1> QED  BY <1>2, <1>3, <1>4, FiniteHolders DEF VerificationsAreCapped

-----------------------------------------------------------------------------

THEOREM Invariance == Spec => []IInv
BY InitOK, NextOK, PTL DEF Spec

\* The web process is type correct; in particular a call that is not over
\* belongs to a handler that waits for it or to a callback (app.py:110-120).
THEOREM TypeCorrect == Spec => []TypeOK
<1>1. IInv => TypeOK
  BY DEF IInv
<1> QED  BY <1>1, Invariance, PTL

\* Every permit of the verification semaphore is released exactly once,
\* whatever races with the time limit (app.py:96-123).
THEOREM Permits == Spec => []PermitsAreConserved
<1>1. IInv => PermitsAreConserved
  BY DEF IInv
<1> QED  BY <1>1, Invariance, PTL

\* While a permit is free, requests wait for one only behind a request that
\* was woken up and that will wake them up (app.py:101).
THEOREM WakeUps == Spec => []NoPermitIdles
<1>1. IInv => NoPermitIdles
  BY DEF IInv
<1> QED  BY <1>1, Invariance, PTL

\* Never more than WEB_MAX_CONCURRENT verifications run in threads, those that
\* a timed-out request left behind included (app.py:115-120).
THEOREM Cap == Spec => []VerificationsAreCapped
BY Capped, Invariance, PTL

-----------------------------------------------------------------------------
(* The limiters. *)

\* The state of a bucket that has granted at the times g and keeps r, at the
\* time t and with the limit p.
Good(g, r, t, p) ==
    /\ g \in Seq(Nat) /\ r \in Seq(Nat)
    /\ Len(r) <= p /\ Len(r) <= Len(g)
    /\ \A k \in 1..Len(r) : r[k] = g[Len(g) - Len(r) + k]
    /\ \A k \in 1..(Len(g) - Len(r)) : g[k] <= t - Window
    /\ \A k \in 1..Len(g) : g[k] <= t
    /\ \A j, k \in 1..Len(g) : j <= k => g[j] <= g[k]
    /\ \A k \in 1..Len(g) : k + p \in 1..Len(g) => g[k + p] - g[k] >= Window

LimiterInv ==
    /\ LimiterTypeOK
    /\ \A b \in Buckets : Good(granted[b], recent[b], clock, PerMinute[b])
    /\ RefusalIsEarned

USE PerMinuteAssumption, WindowAssumption, MaxTimeAssumption

-----------------------------------------------------------------------------
(* One bucket. *)

LEMMA Older ==
  ASSUME NEW g, NEW r, NEW t \in Nat, NEW p \in Nat \ {0}, Good(g, r, t, p)
  PROVE  Good(g, r, t + 1, p)
<1>1. g \in Seq(Nat) /\ r \in Seq(Nat) /\ Len(g) \in Nat /\ Len(r) \in Nat
  BY LenProperties DEF Good
<1>2. \A k \in 1..Len(g) : g[k] \in Nat
  BY <1>1, ElementOfSeq
<1> QED  BY <1>1, <1>2 DEF Good

\* Expired requests are dropped.
LEMMA Rest ==
  ASSUME NEW g, NEW r, NEW t \in Nat, NEW p \in Nat \ {0}, Good(g, r, t, p),
         NEW n \in 0..Len(r),
         \A k \in 1..n : r[k] <= t - Window,
         n < Len(r) => r[n + 1] > t - Window
  PROVE  LET s == SubSeq(r, n + 1, Len(r))
         IN  Good(g, s, t, p) /\ (Len(s) > 0 => s[1] > t - Window)
<1>1. g \in Seq(Nat) /\ r \in Seq(Nat) /\ Len(g) \in Nat /\ Len(r) \in Nat /\ n \in Nat
  BY LenProperties DEF Good
<1>2. \A k \in 1..Len(r) : r[k] \in Nat
  BY <1>1, ElementOfSeq
<1>3. \A k \in 1..Len(g) : g[k] \in Nat
  BY <1>1, ElementOfSeq
<1> DEFINE s == SubSeq(r, n + 1, Len(r))
<1>4. /\ s \in Seq(Nat)
      /\ Len(s) = IF n + 1 <= Len(r) THEN Len(r) - (n + 1) + 1 ELSE 0
      /\ \A k \in 1..(Len(r) - (n + 1) + 1) : s[k] = r[(n + 1) + k - 1]
  <2>1. n + 1 \in Int /\ Len(r) \in Int /\ \A k \in (n + 1)..Len(r) : r[k] \in Nat
    BY <1>1, <1>2
  <2> HIDE DEF s
  <2> QED  BY <2>1, SubSeqProperties DEF s
<1> HIDE DEF s
<1>5. Len(s) = Len(r) - n /\ Len(s) \in Nat /\ \A k \in 1..Len(s) : s[k] = r[n + k]
  BY <1>1, <1>4
<1>6. ASSUME NEW k \in 1..Len(s) PROVE s[k] = g[Len(g) - Len(s) + k]
  <2>1. n + k \in 1..Len(r) /\ Len(g) - Len(r) + (n + k) = Len(g) - Len(s) + k
    BY <1>1, <1>5
  <2> QED  BY <1>5, <2>1 DEF Good
<1>7. ASSUME NEW k \in 1..(Len(g) - Len(s)) PROVE g[k] <= t - Window
  <2>1. CASE k \in 1..(Len(g) - Len(r))
    BY <2>1 DEF Good
  <2>2. CASE k \notin 1..(Len(g) - Len(r))
    <3> DEFINE j == k - (Len(g) - Len(r))
    <3>1. j \in 1..n /\ j \in 1..Len(r) /\ Len(g) - Len(r) + j = k
      BY <1>1, <1>5, <2>2 DEF Good
    <3> HIDE DEF j
    <3>2. g[k] = r[j]
      BY <3>1 DEF Good
    <3> QED  BY <3>1, <3>2
  <2> QED  BY <2>1, <2>2
<1>8. Len(s) <= p /\ Len(s) <= Len(g)
  BY <1>1, <1>5 DEF Good
<1>9. Good(g, s, t, p)
  BY <1>4, <1>6, <1>7, <1>8 DEF Good
<1>10. ASSUME Len(s) > 0 PROVE s[1] > t - Window
  <2>1. n < Len(r) /\ 1 \in 1..Len(s)
    BY <1>1, <1>5, <1>10
  <2> QED  BY <1>5, <2>1
<1> QED  BY <1>9, <1>10 DEF s

\* A request is granted.
LEMMA Grant ==
  ASSUME NEW g, NEW s, NEW t \in Nat, NEW p \in Nat \ {0}, Good(g, s, t, p), Len(s) < p
  PROVE  Good(Append(g, t), Append(s, t), t, p)
<1>1. g \in Seq(Nat) /\ s \in Seq(Nat) /\ Len(g) \in Nat /\ Len(s) \in Nat
  BY LenProperties DEF Good
<1>2. \A k \in 1..Len(g) : g[k] \in Nat
  BY <1>1, ElementOfSeq
<1> DEFINE h == Append(g, t)
           q == Append(s, t)
<1>3. /\ h \in Seq(Nat) /\ Len(h) = Len(g) + 1 /\ h[Len(g) + 1] = t
      /\ \A k \in 1..Len(g) : h[k] = g[k]
  BY <1>1, AppendProperties
<1>4. /\ q \in Seq(Nat) /\ Len(q) = Len(s) + 1 /\ q[Len(s) + 1] = t
      /\ \A k \in 1..Len(s) : q[k] = s[k]
  BY <1>1, AppendProperties
<1> HIDE DEF h, q
<1>5. Len(q) <= p /\ Len(q) <= Len(h) /\ Len(h) - Len(q) = Len(g) - Len(s)
  BY <1>1, <1>3, <1>4 DEF Good
<1>6. ASSUME NEW k \in 1..Len(q) PROVE q[k] = h[Len(h) - Len(q) + k]
  <2>1. CASE k = Len(s) + 1
    BY <1>1, <1>3, <1>4, <1>5, <2>1
  <2>2. CASE k \in 1..Len(s)
    <3>1. Len(g) - Len(s) + k \in 1..Len(g)
      BY <1>1, <2>2 DEF Good
    <3> QED  BY <1>3, <1>4, <1>5, <2>2, <3>1 DEF Good
  <2> QED  BY <1>1, <1>4, <2>1, <2>2
<1>7. ASSUME NEW k \in 1..(Len(h) - Len(q)) PROVE h[k] <= t - Window
  <2>1. k \in 1..Len(g) /\ k \in 1..(Len(g) - Len(s))
    BY <1>1, <1>5
  <2> QED  BY <1>3, <2>1 DEF Good
<1>8. /\ \A k \in 1..Len(h) : h[k] <= t
      /\ \A j, k \in 1..Len(h) : j <= k => h[j] <= h[k]
  <2>1. /\ \A k \in 1..Len(g) : h[k] \in Nat /\ h[k] <= t
        /\ \A j, k \in 1..Len(g) : j <= k => h[j] <= h[k]
    BY <1>2, <1>3 DEF Good
  <2>2. \A k \in 1..Len(h) : k \in 1..Len(g) \/ k = Len(g) + 1
    BY <1>1, <1>3
  <2>3. \A k \in 1..Len(h) : h[k] <= t
    BY <1>3, <2>1, <2>2
  <2>4. ASSUME NEW j \in 1..Len(h), NEW k \in 1..Len(h), j <= k PROVE h[j] <= h[k]
    <3>1. CASE k = Len(g) + 1
      BY <1>3, <2>3, <3>1
    <3>2. CASE k \in 1..Len(g)
      <4>1. j \in 1..Len(g)
        BY <1>1, <2>4, <3>2
      <4> QED  BY <2>1, <2>4, <3>2, <4>1
    <3> QED  BY <2>2, <3>1, <3>2
  <2> QED  BY <2>3, <2>4
<1>9. ASSUME NEW k \in 1..Len(h), k + p \in 1..Len(h) PROVE h[k + p] - h[k] >= Window
  <2>1. CASE k + p = Len(g) + 1
    <3>1. k \in 1..Len(g) /\ k \in 1..(Len(g) - Len(s))
      BY <1>1, <1>3, <2>1 DEF Good
    <3>2. h[k] \in Nat /\ h[k] <= t - Window
      BY <1>2, <1>3, <3>1 DEF Good
    <3> QED  BY <1>3, <2>1, <3>2
  <2>2. CASE k + p # Len(g) + 1
    <3>1. k + p \in Nat /\ k + p \in 1..(Len(g) + 1) /\ k \in 1..(Len(g) + 1)
      BY <1>1, <1>3, <1>9
    <3>2. k \in Nat /\ k >= 1 /\ p >= 1 /\ k + p <= Len(g)
      BY <1>1, <2>2, <3>1
    <3>3. k \in 1..Len(g) /\ k + p \in 1..Len(g)
      BY <1>1, <3>1, <3>2
    <3> QED  BY <1>3, <3>3 DEF Good
  <2> QED  BY <2>1, <2>2
<1>10. Good(h, q, t, p)
  BY <1>3, <1>4, <1>5, <1>6, <1>7, <1>8, <1>9 DEF Good
<1> QED  BY <1>10 DEF h, q

\* A request is refused.
LEMMA RefusedEarns ==
  ASSUME NEW g, NEW s, NEW t \in Nat, NEW p \in Nat \ {0}, Good(g, s, t, p), ~(Len(s) < p),
         Len(s) > 0 => s[1] > t - Window
  PROVE  Len(g) >= p /\ t - g[Len(g) - p + 1] < Window
<1>1. g \in Seq(Nat) /\ s \in Seq(Nat) /\ Len(g) \in Nat /\ Len(s) \in Nat
  BY LenProperties DEF Good
<1>2. Len(s) = p /\ 1 \in 1..Len(s) /\ Len(g) - p + 1 \in 1..Len(g)
  BY <1>1 DEF Good
<1>3. s[1] = g[Len(g) - p + 1]
  BY <1>2 DEF Good
<1>4. g[Len(g) - p + 1] \in Nat
  BY <1>1, <1>2, ElementOfSeq
<1> QED  BY <1>1, <1>2, <1>3, <1>4

-----------------------------------------------------------------------------
(* All buckets. *)

LEMMA LimiterInitOK == LimiterInit => LimiterInv
<1> SUFFICES ASSUME LimiterInit PROVE LimiterInv
  OBVIOUS
<1>1. 0 \in Times /\ <<>> \in Seq(Times) /\ <<>> \in Seq(Nat) /\ Len(<<>>) = 0
  BY EmptySeq DEF Times
<1>2. LimiterTypeOK
  BY <1>1 DEF LimiterInit, LimiterTypeOK, NoDecision
<1>3. ASSUME NEW b \in Buckets PROVE Good(granted[b], recent[b], clock, PerMinute[b])
  <2>1. granted[b] = <<>> /\ recent[b] = <<>> /\ PerMinute[b] \in Nat
    BY DEF LimiterInit
  <2> QED  BY <1>1, <2>1 DEF Good
<1>4. RefusalIsEarned
  BY DEF LimiterInit, RefusalIsEarned, NoDecision
<1> QED  BY <1>2, <1>3, <1>4 DEF LimiterInv

LEMMA SecondOK == ASSUME LimiterInv, Second PROVE LimiterInv'
<1>1. LimiterTypeOK' /\ clock \in Nat /\ clock' = clock + 1 /\ UNCHANGED <<recent, granted>>
  BY DEF Second, LimiterInv, LimiterTypeOK, Times
<1>2. ASSUME NEW b \in Buckets PROVE Good(granted[b], recent[b], clock, PerMinute[b])'
  <2>1. Good(granted[b], recent[b], clock + 1, PerMinute[b])
    BY <1>1, Older DEF LimiterInv
  <2> QED  BY <1>1, <2>1
<1>3. RefusalIsEarned'
  BY DEF Second, RefusalIsEarned, NoDecision
<1> QED  BY <1>1, <1>2, <1>3 DEF LimiterInv

LEMMA AllowOK == ASSUME LimiterInv, NEW b \in Buckets, Allow(b) PROVE LimiterInv'
<1>1. PICK n \in 0..Len(recent[b]) :
        LET rest == SubSeq(recent[b], n + 1, Len(recent[b]))
            allowed == Len(rest) < PerMinute[b]
        IN  /\ Pops(recent[b], n)
            /\ recent' = [recent EXCEPT ![b] = IF allowed THEN Append(rest, clock) ELSE rest]
            /\ granted' = [granted EXCEPT ![b] = IF allowed THEN Append(@, clock) ELSE @]
            /\ decision' = [bucket |-> b, allowed |-> allowed]
  BY DEF Allow
<1> DEFINE r == recent[b]
           g == granted[b]
           p == PerMinute[b]
           s == SubSeq(r, n + 1, Len(r))
<1>2. /\ clock \in Times /\ clock \in Nat /\ clock' = clock /\ p \in Nat \ {0}
      /\ recent \in [Buckets -> Seq(Times)] /\ granted \in [Buckets -> Seq(Times)]
      /\ r \in Seq(Times) /\ g \in Seq(Times) /\ Len(r) \in Nat
      /\ \A c \in Buckets : Good(granted[c], recent[c], clock, PerMinute[c])
      /\ \A c \in Buckets : Len(recent[c]) <= PerMinute[c]
  <2>1. LimiterTypeOK /\ \A c \in Buckets : Good(granted[c], recent[c], clock, PerMinute[c])
    BY DEF LimiterInv
  <2>2. /\ clock \in Times
        /\ recent \in [Buckets -> Seq(Times)] /\ granted \in [Buckets -> Seq(Times)]
        /\ \A c \in Buckets : Len(recent[c]) <= PerMinute[c]
    BY <2>1 DEF LimiterTypeOK
  <2>3. clock \in Nat /\ p \in Nat \ {0}
    BY <2>2 DEF Times
  <2>4. clock' = clock
    BY DEF Allow
  <2>5. r \in Seq(Times) /\ g \in Seq(Times)
    BY <2>2
  <2>6. Len(r) \in Nat
    BY <2>5, LenProperties
  <2> QED  BY <2>1, <2>2, <2>3, <2>4, <2>5, <2>6
<1>3. Good(g, s, clock, p) /\ (Len(s) > 0 => s[1] > clock - Window)
  <2>1. \A k \in 1..Len(r) : r[k] \in Nat
    BY <1>2, ElementOfSeq DEF Times
  <2>2. /\ \A k \in 1..n : r[k] <= clock - Window
        /\ n < Len(r) => r[n + 1] > clock - Window
    <3>1. /\ \A k \in 1..n : Expired(r[k])
          /\ n < Len(r) => ~Expired(r[n + 1])
      BY <1>1 DEF Pops
    <3>2. n < Len(r) => n + 1 \in 1..Len(r)
      BY <1>2
    <3> QED  BY <1>2, <2>1, <3>1, <3>2 DEF Expired
  <2>3. Good(g, r, clock, p) /\ n \in 0..Len(r)
    BY <1>2
  <2> HIDE DEF r, g, p
  <2> QED  BY <1>2, <2>2, <2>3, Rest
<1>4. s \in Seq(Times) /\ Len(s) \in Nat
  <2>1. \A k \in (n + 1)..Len(r) : r[k] \in Times
    BY <1>2, ElementOfSeq
  <2>2. n + 1 \in Int /\ Len(r) \in Int
    BY <1>2
  <2> HIDE DEF r
  <2>3. s \in Seq(Times)
    BY <2>1, <2>2, SubSeqProperties
  <2> QED  BY <2>3, LenProperties
<1>5. /\ recent' = [recent EXCEPT ![b] = IF Len(s) < p THEN Append(s, clock) ELSE s]
      /\ granted' = [granted EXCEPT ![b] = IF Len(s) < p THEN Append(g, clock) ELSE g]
      /\ decision' = [bucket |-> b, allowed |-> Len(s) < p]
  BY <1>1
<1> HIDE DEF r, g, p, s
<1>6. Append(s, clock) \in Seq(Times) /\ Append(g, clock) \in Seq(Times)
  BY <1>2, <1>4, AppendProperties
<1>7. Good(granted'[b], recent'[b], clock, p)
  <2>1. CASE Len(s) < p
    BY <1>2, <1>3, <1>5, <2>1, Grant
  <2>2. CASE ~(Len(s) < p)
    BY <1>2, <1>3, <1>5, <2>2
  <2> QED  BY <2>1, <2>2
<1>8. \A c \in Buckets \ {b} : recent'[c] = recent[c] /\ granted'[c] = granted[c]
  BY <1>2, <1>5
<1>9. \A c \in Buckets : Good(granted'[c], recent'[c], clock', PerMinute[c])
  BY <1>2, <1>7, <1>8 DEF p
<1>10. recent' \in [Buckets -> Seq(Times)] /\ granted' \in [Buckets -> Seq(Times)]
  BY <1>2, <1>4, <1>5, <1>6 DEF g
<1>11. decision' \in [bucket : Buckets, allowed : BOOLEAN]
  BY <1>5
<1>12. \A c \in Buckets : Len(recent'[c]) <= PerMinute[c]
  BY <1>9 DEF Good
<1>13. RefusalIsEarned'
  <2>1. CASE Len(s) < p
    BY <1>5, <2>1 DEF RefusalIsEarned
  <2>2. CASE ~(Len(s) < p)
    <3>1. Len(g) >= p /\ clock - g[Len(g) - p + 1] < Window
      BY <1>2, <1>3, <2>2, RefusedEarns
    <3>2. granted'[b] = g /\ decision'.bucket = b
      BY <1>2, <1>5, <2>2
    <3> QED  BY <1>2, <3>1, <3>2 DEF RefusalIsEarned, p
  <2> QED  BY <2>1, <2>2
<1> QED  BY <1>2, <1>9, <1>10, <1>11, <1>12, <1>13 DEF LimiterInv, LimiterTypeOK

LEMMA LimiterNextOK == ASSUME LimiterInv, [LimiterNext]_limiterVars PROVE LimiterInv'
<1>1. CASE UNCHANGED limiterVars
  BY <1>1 DEF limiterVars, LimiterInv, LimiterTypeOK, RefusalIsEarned
<1> QED  BY <1>1, SecondOK, AllowOK DEF LimiterNext

-----------------------------------------------------------------------------

THEOREM LimiterInvariance == LimiterSpec => []LimiterInv
BY LimiterInitOK, LimiterNextOK, PTL DEF LimiterSpec

\* No client is ever allowed more requests within a window than its limit, for
\* any limits and windows (app.py:58-79).
THEOREM WindowsAreBounded == LimiterSpec => []WindowIsBounded
<1>1. LimiterInv => WindowIsBounded
  <2> SUFFICES ASSUME LimiterInv, NEW b \in Buckets, NEW i \in DOMAIN granted[b],
                      i + PerMinute[b] \in DOMAIN granted[b]
               PROVE  granted[b][i + PerMinute[b]] - granted[b][i] >= Window
    BY DEF WindowIsBounded
  <2>1. Good(granted[b], recent[b], clock, PerMinute[b])
    BY DEF LimiterInv
  <2>2. DOMAIN granted[b] = 1..Len(granted[b])
    BY <2>1, LenProperties DEF Good
  <2> QED  BY <2>1, <2>2 DEF Good
<1> QED  BY <1>1, LimiterInvariance, PTL

\* Nobody is refused for less than a full limit of granted requests within the
\* window (app.py:58-79).
THEOREM RefusalsAreEarned == LimiterSpec => []RefusalIsEarned
<1>1. LimiterInv => RefusalIsEarned
  BY DEF LimiterInv
<1> QED  BY <1>1, LimiterInvariance, PTL

-----------------------------------------------------------------------------
(* The web process. *)

LEMMA AppIsConsole == AppSpec => Spec
<1>1. AppInit => Init
  BY DEF AppInit
<1>2. [AppNext]_appVars => [Next]_vars
  <2> SUFFICES ASSUME [AppNext]_appVars PROVE [Next]_vars
    OBVIOUS
  <2>1. ASSUME NEW r \in Requests, Malformed(r) \/ Inside(r) PROVE Next
    BY <2>1 DEF Malformed, Inside, Next
  <2>2. ASSUME NEW r \in Requests, NEW host \in Hosts, Enter(r, host) PROVE Next
    BY <2>2 DEF Enter, Next
  <2>3. CASE Outside \/ UNCHANGED appVars
    BY <2>3 DEF Outside, appVars
  <2> QED  BY <2>1, <2>2, <2>3 DEF AppNext
<1> QED  BY <1>1, <1>2, PTL DEF AppSpec, Spec

LEMMA AppIsLimiter == AppSpec => LimiterSpec
<1>1. AppInit => LimiterInit
  BY DEF AppInit
<1>2. TypeOK /\ [AppNext]_appVars => [LimiterNext]_limiterVars
  <2> SUFFICES ASSUME TypeOK, [AppNext]_appVars PROVE [LimiterNext]_limiterVars
    OBVIOUS
  <2>1. ASSUME NEW r \in Requests, Malformed(r) \/ Inside(r) PROVE UNCHANGED limiterVars
    BY <2>1 DEF Malformed, Inside
  <2>2. ASSUME NEW r \in Requests, NEW host \in Hosts, Enter(r, host) PROVE LimiterNext
    <3>1. kind[r] \in {"verify", "advice"}
      BY DEF TypeOK
    <3>2. <<kind[r], host>> \in Buckets
      BY <3>1, BucketsAssumption
    <3> QED  BY <2>2, <3>2 DEF Enter, LimiterNext
  <2>3. CASE Outside \/ UNCHANGED appVars
    BY <2>3 DEF Outside, LimiterNext, appVars
  <2> QED  BY <2>1, <2>2, <2>3 DEF AppNext
<1>3. AppSpec => []TypeOK
  BY AppIsConsole, TypeCorrect, PTL
<1> QED  BY <1>1, <1>2, <1>3, PTL DEF AppSpec, LimiterSpec

\* In the web process, whoever the limiters let in and whatever happens to the
\* requests, each permit is released exactly once, and when one is free while
\* a request waits, a request that was woken up is about to resume and to wake
\* it up (app.py:90-123).
THEOREM AppPermits == AppSpec => [](PermitsAreConserved /\ NoPermitIdles)
BY AppIsConsole, Permits, WakeUps, PTL

\* ... and never more verifications than WEB_MAX_CONCURRENT are in threads.
THEOREM AppCap == AppSpec => []VerificationsAreCapped
BY AppIsConsole, Cap, PTL

\* In the web process no client is let in more often within a window than its
\* limit allows, neither to verifications nor to advice (app.py:58-79).
THEOREM AppWindows == AppSpec => []WindowIsBounded
BY AppIsLimiter, WindowsAreBounded, PTL

\* ... and nobody is refused for less than that, so that malformed requests
\* and those of other clients cost nothing (app.py:198-231, 262-296).
THEOREM AppRefusals == AppSpec => []RefusalIsEarned
BY AppIsLimiter, RefusalsAreEarned, PTL
=============================================================================
