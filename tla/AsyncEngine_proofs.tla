------------------------- MODULE AsyncEngine_proofs -------------------------
(***************************************************************************)
(* Proofs about AsyncEngine, for batches of any size, any domains and any  *)
(* limits.                                                                 *)
(*                                                                         *)
(* The inductive invariant IInv joins the count of the permits with two    *)
(* facts: who waits for a free permit has somebody before it who was woken *)
(* up, and once the batch has failed every coroutine is over.  The second  *)
(* keeps the caps when the permits of running threads are given back: from *)
(* then on threads only end.                                               *)
(***************************************************************************)
EXTENDS AsyncEngine, FiniteSetTheorems, WellFoundedInduction, TLAPS

\* The one who is served first is one of those who wait.
LEMMA FirstWaits ==
  ASSUME NEW waiting, waiting \subseteq Nat, waiting # {}
  PROVE  First(waiting) \in waiting /\ \A u \in waiting : First(waiting) <= u
<1> DEFINE R == OpToRel(<, Nat)
<1>1. \A m, n \in Nat : m < n => <<m, n>> \in R
  BY Zenon DEF OpToRel
<1>2. IsWellFoundedOn(R, Nat)
  BY NatLessThanWellFounded
<1> HIDE DEF R
<1>3. PICK t \in waiting : \A u \in waiting : ~(<<u, t>> \in R)
  BY <1>2, WFMin
<1>4. ASSUME NEW u \in waiting PROVE t <= u
  <2>1. t \in Nat /\ u \in Nat
    OBVIOUS
  <2>2. ~(u < t)
    BY <1>1, <1>3, <2>1
  <2> QED  BY <2>1, <2>2
<1> QED  BY <1>4 DEF First

\* Some more become members.
LEMMA Joined ==
  ASSUME NEW S, IsFiniteSet(S), NEW W, IsFiniteSet(W), S \cap W = {}
  PROVE  Cardinality(S \cup W) = Cardinality(S) + Cardinality(W)
<1>1. Cardinality(S \cup W) = Cardinality(S) + Cardinality(W) - Cardinality(S \cap W)
  BY FS_Union
<1>2. Cardinality(S \cap W) = 0
  BY FS_EmptySet
<1>3. Cardinality(S) \in Nat /\ Cardinality(W) \in Nat
  BY FS_CardinalityType
<1> QED  BY <1>1, <1>2, <1>3

\* A permit moves from one holder to another: as many are held as before.
LEMMA Moved ==
  ASSUME NEW S, IsFiniteSet(S), NEW x \in S, NEW y, y \notin S
  PROVE  Cardinality((S \ {x}) \cup {y}) = Cardinality(S)
<1>1. IsFiniteSet(S \ {x}) /\ Cardinality(S \ {x}) = Cardinality(S) - 1
  BY FS_RemoveElement
<1>2. Cardinality((S \ {x}) \cup {y}) = Cardinality(S \ {x}) + 1
  BY <1>1, FS_AddElement
<1>3. Cardinality(S) \in Nat
  BY FS_CardinalityType
<1> QED  BY <1>1, <1>2, <1>3

\* While the batch is gathered nothing is cancelled, and afterwards nothing is
\* left to do.
PhaseOK ==
    /\ main = "gather" => \A t \in Tasks : pc[t] # "cancelled"
    /\ main # "gather" => \A t \in Tasks : pc[t] \in Over

IInv == TypeOK /\ PermitsAreConserved /\ NoPermitIdles /\ PhaseOK /\ ProbesAreCapped

USE NAssumption, GlobalLimitAssumption, DomainLimitAssumption
    DEF Tasks, PCs, Over, Threads

LEMMA SetsAreFinite ==
  ASSUME NEW S \in SUBSET Tasks
  PROVE  IsFiniteSet(S) /\ Cardinality(S) \in Nat
<1>1. IsFiniteSet(Tasks)
  BY FS_Interval
<1>2. IsFiniteSet(S)
  BY <1>1, FS_Subset
<1> QED  BY <1>2, FS_CardinalityType

LEMMA Counted ==
  PermitsAreConserved <=>
      /\ globalFree + Cardinality(GlobalHolders) = GlobalLimit
      /\ \A d \in Domains : domainFree[d] + Cardinality(DomainHolders(d)) = DomainLimit
BY DEF PermitsAreConserved, GlobalHolders, DomainHolders

\* The engine starts with every permit free.
LEMMA InitOK == Init => IInv
<1> SUFFICES ASSUME Init PROVE IInv
  OBVIOUS
<1>1. TypeOK
  BY DEF Init, TypeOK, ThreadsOK
<1>2. PermitsAreConserved
  <2>1. GlobalHolders = {} /\ \A d \in Domains : DomainHolders(d) = {}
    BY DEF Init, GlobalHolders, DomainHolders, HoldsGlobal, HoldsDomain, Members
  <2>2. /\ Cardinality(GlobalHolders) = 0
        /\ \A d \in Domains : Cardinality(DomainHolders(d)) = 0
    BY <2>1, FS_EmptySet
  <2>3. globalFree = GlobalLimit /\ \A d \in Domains : domainFree[d] = DomainLimit
    BY DEF Init
  <2>4. /\ globalFree + Cardinality(GlobalHolders) = GlobalLimit
        /\ \A d \in Domains : domainFree[d] + Cardinality(DomainHolders(d)) = DomainLimit
    BY <2>2, <2>3
  <2> QED  BY <2>4, Counted
<1>3. NoPermitIdles
  BY DEF Init, NoPermitIdles, GlobalWaiters, DomainWaiters
<1>4. PhaseOK
  BY DEF Init, PhaseOK
<1>5. ProbesAreCapped
  <2>1. Running = {}
    BY DEF Init, Running
  <2>2. \A d \in Domains : Running \cap Members(d) = {}
    BY <2>1
  <2> QED  BY <2>1, <2>2, FS_EmptySet DEF ProbesAreCapped
<1> QED  BY <1>1, <1>2, <1>3, <1>4, <1>5 DEF IInv

\* The caps hold for any set of tasks whose members hold both permits.
LEMMA Capped ==
  ASSUME TypeOK, PermitsAreConserved, NEW R \in SUBSET GlobalHolders,
         \A d \in Domains : R \cap Members(d) \subseteq DomainHolders(d)
  PROVE  /\ Cardinality(R) <= GlobalLimit
         /\ \A d \in Domains : Cardinality(R \cap Members(d)) <= DomainLimit
<1>1. Cardinality(R) <= GlobalLimit
  <2>1. Cardinality(R) <= Cardinality(GlobalHolders)
    BY SetsAreFinite, FS_Subset DEF GlobalHolders
  <2>2. Cardinality(R) \in Nat /\ Cardinality(GlobalHolders) \in Nat
    BY SetsAreFinite DEF GlobalHolders
  <2>3. globalFree \in Nat
    BY DEF TypeOK
  <2> QED  BY <2>1, <2>2, <2>3, Counted
<1>2. ASSUME NEW d \in Domains PROVE Cardinality(R \cap Members(d)) <= DomainLimit
  <2>1. Cardinality(R \cap Members(d)) <= Cardinality(DomainHolders(d))
    BY SetsAreFinite, FS_Subset DEF DomainHolders, Members
  <2>2. /\ Cardinality(R \cap Members(d)) \in Nat
        /\ Cardinality(DomainHolders(d)) \in Nat
    BY SetsAreFinite DEF DomainHolders, Members
  <2>3. domainFree[d] \in Nat
    BY DEF TypeOK
  <2> QED  BY <2>1, <2>2, <2>3, Counted
<1> QED  BY <1>1, <1>2

\* Fewer threads: the caps still hold.
LEMMA StillCapped ==
  ASSUME ProbesAreCapped, Running' \subseteq Running, domain' = domain
  PROVE  ProbesAreCapped'
<1>1. Cardinality(Running') <= Cardinality(Running)
  BY SetsAreFinite, FS_Subset DEF Running
<1>2. Cardinality(Running') \in Nat /\ Cardinality(Running) \in Nat
  BY SetsAreFinite DEF Running
<1>3. ASSUME NEW d \in Domains
      PROVE  Cardinality(Running' \cap Members(d)') <= DomainLimit
  <2>1. Members(d)' = Members(d)
    BY DEF Members
  <2>2. Running' \cap Members(d) \subseteq Running \cap Members(d)
    OBVIOUS
  <2>3. Cardinality(Running' \cap Members(d)) <= Cardinality(Running \cap Members(d))
    BY <2>2, SetsAreFinite, FS_Subset DEF Running
  <2>4. /\ Cardinality(Running' \cap Members(d)) \in Nat
        /\ Cardinality(Running \cap Members(d)) \in Nat
    BY SetsAreFinite DEF Members
  <2> QED  BY <2>1, <2>3, <2>4 DEF ProbesAreCapped
<1> QED  BY <1>1, <1>2, <1>3 DEF ProbesAreCapped

-----------------------------------------------------------------------------
(* The semaphores. *)

\* What AcquireDomain does for t, which holds the global permit, or takes it
\* in the same step: the permits of the domains are still counted, and who
\* waits for a free one waits behind somebody who was woken up.
LEMMA AcquireDomainOK ==
  ASSUME IInv, NEW t \in Tasks, pc[t] \in {"new", "gotGlobal"},
         AcquireDomain(t), domain' = domain
  PROVE  /\ domainFree' \in [Domains -> 0..DomainLimit]
         /\ pc' \in [Tasks -> PCs] /\ thread' \in [Tasks -> Threads]
         /\ \/ pc'[t] = "submitted" /\ thread'[t] = "queued"
            \/ pc'[t] = "waitDomain" /\ thread'[t] = "none"
         /\ \A u \in Tasks \ {t} : pc'[u] = pc[u] /\ thread'[u] = thread[u]
         /\ \A d \in Domains :
               /\ domainFree'[d] + Cardinality(DomainHolders(d)') = DomainLimit
               /\ domainFree'[d] > 0 /\ DomainWaiters(d)' # {} => DomainWoken(d)' # {}
<1> DEFINE d0 == domain[t]
<1>1. /\ d0 \in Domains /\ t \in Members(d0) /\ thread[t] = "none"
      /\ domainFree \in [Domains -> 0..DomainLimit]
      /\ pc \in [Tasks -> PCs] /\ thread \in [Tasks -> Threads]
  BY DEF IInv, TypeOK, ThreadsOK, Members
<1>2. ASSUME NEW d \in Domains
      PROVE  /\ domainFree[d] + Cardinality(DomainHolders(d)) = DomainLimit
             /\ domainFree[d] > 0 /\ DomainWaiters(d) # {} => DomainWoken(d) # {}
             /\ t \notin DomainHolders(d) /\ t \notin DomainWaiters(d)
             /\ IsFiniteSet(DomainHolders(d))
             /\ Cardinality(DomainHolders(d)) \in Nat
             /\ domainFree[d] \in Nat
  <2>1. IsFiniteSet(DomainHolders(d)) /\ Cardinality(DomainHolders(d)) \in Nat
    BY SetsAreFinite DEF DomainHolders, Members
  <2>2. domainFree[d] \in Nat
    BY <1>1
  <2> QED
    BY Counted, <2>1, <2>2
       DEF IInv, NoPermitIdles, DomainHolders, HoldsDomain, Members, DomainWaiters
<1>3. CASE /\ ~DomainLocked(d0)
           /\ domainFree' = [domainFree EXCEPT ![d0] = @ - 1]
           /\ pc' = [pc EXCEPT ![t] = "submitted"]
           /\ thread' = [thread EXCEPT ![t] = "queued"]
  <2>1. ASSUME NEW d \in Domains
        PROVE  /\ domainFree'[d] + Cardinality(DomainHolders(d)') = DomainLimit
               /\ domainFree'[d] > 0 /\ DomainWaiters(d)' # {} => DomainWoken(d)' # {}
    <3>0. /\ domainFree[d] + Cardinality(DomainHolders(d)) = DomainLimit
          /\ domainFree[d] > 0 /\ DomainWaiters(d) # {} => DomainWoken(d) # {}
          /\ t \notin DomainHolders(d) /\ t \notin DomainWaiters(d)
          /\ IsFiniteSet(DomainHolders(d))
          /\ Cardinality(DomainHolders(d)) \in Nat
          /\ domainFree[d] \in Nat
      BY <1>2
    <3>1. DomainWaiters(d)' = DomainWaiters(d) /\ DomainWoken(d)' = DomainWoken(d) \ {t}
      BY <1>1, <1>3 DEF DomainWaiters, DomainWoken
    <3>2. CASE d = d0
      <4>1. DomainHolders(d)' = DomainHolders(d) \cup {t}
        BY <1>1, <1>3, <3>2 DEF DomainHolders, HoldsDomain, Members
      <4>2. Cardinality(DomainHolders(d)') = Cardinality(DomainHolders(d)) + 1
        BY <3>0, <4>1, FS_AddElement
      <4>3. domainFree'[d] = domainFree[d] - 1 /\ DomainWaiters(d) = {}
        BY <1>1, <1>3, <3>2 DEF DomainLocked, Locked
      <4> QED  BY ONLY <3>0, <3>1, <4>2, <4>3
    <3>3. CASE d # d0
      <4>1. DomainHolders(d)' = DomainHolders(d)
        BY <1>1, <1>3, <3>3 DEF DomainHolders, HoldsDomain, Members
      <4>2. domainFree'[d] = domainFree[d]
        BY <1>1, <1>3, <3>3
      <4>3. t \notin DomainWoken(d)
        BY <3>3 DEF DomainWoken
      <4> QED  BY ONLY <3>0, <3>1, <4>1, <4>2, <4>3
    <3> QED  BY <3>2, <3>3
  <2>2. domainFree' \in [Domains -> 0..DomainLimit]
    <3>1. domainFree[d0] - 1 \in 0..DomainLimit
      BY <1>1, <1>3 DEF DomainLocked, Locked
    <3> QED  BY <1>1, <1>3, <3>1
  <2> QED  BY <1>1, <1>3, <2>1, <2>2
<1>4. CASE /\ DomainLocked(d0)
           /\ pc' = [pc EXCEPT ![t] = "waitDomain"]
           /\ UNCHANGED <<domainFree, thread>>
  <2>1. ASSUME NEW d \in Domains
        PROVE  /\ DomainHolders(d)' = DomainHolders(d)
               /\ domainFree'[d] > 0 /\ DomainWaiters(d)' # {} => DomainWoken(d)' # {}
    <3>0. /\ domainFree[d] + Cardinality(DomainHolders(d)) = DomainLimit
          /\ domainFree[d] > 0 /\ DomainWaiters(d) # {} => DomainWoken(d) # {}
          /\ t \notin DomainHolders(d) /\ t \notin DomainWaiters(d)
          /\ IsFiniteSet(DomainHolders(d))
          /\ Cardinality(DomainHolders(d)) \in Nat
          /\ domainFree[d] \in Nat
      BY <1>2
    <3>1. DomainHolders(d)' = DomainHolders(d)
      BY <1>1, <1>4 DEF DomainHolders, HoldsDomain, Members
    <3>2. DomainWoken(d)' = DomainWoken(d) \ {t}
      BY <1>1, <1>4 DEF DomainWoken
    <3>3. domainFree'[d] = domainFree[d]
      BY <1>4
    <3>4. CASE d = d0
      <4>1. t \notin DomainWoken(d)
        BY DEF DomainWoken
      <4>2. domainFree[d] > 0 => DomainWoken(d) # {}
        BY <1>4, <3>0, <3>4 DEF DomainLocked, Locked
      <4> QED  BY ONLY <3>1, <3>2, <3>3, <4>1, <4>2
    <3>5. CASE d # d0
      <4>1. t \notin DomainWoken(d) /\ DomainWaiters(d)' = DomainWaiters(d)
        BY <1>1, <1>4, <3>5 DEF DomainWoken, DomainWaiters
      <4> QED  BY ONLY <3>0, <3>1, <3>2, <3>3, <4>1
    <3> QED  BY <3>4, <3>5
  <2>2. ASSUME NEW d \in Domains
        PROVE  domainFree'[d] + Cardinality(DomainHolders(d)') = DomainLimit
    <3>1. domainFree'[d] = domainFree[d] /\ DomainHolders(d)' = DomainHolders(d)
      BY <1>4, <2>1
    <3> QED  BY <1>2, <3>1
  <2> QED  BY <1>1, <1>4, <2>1, <2>2
<1> QED  BY <1>3, <1>4 DEF AcquireDomain

\* What HandOver does to the coroutines.
LEMMA Heirs ==
  ASSUME IInv, NEW t \in Tasks, pc[t] = "submitted", NEW end \in {"done", "failed"},
         HandOver(t, end), domain' = domain,
         NEW h, h = First(DomainWaiters(domain[t])),
         NEW g, g = First(GlobalWaiters)
  PROVE  /\ pc' \in [Tasks -> PCs]
         /\ pc'[t] = end
         /\ DomainWaiters(domain[t]) # {} =>
               h \in Tasks /\ pc[h] = "waitDomain" /\ domain[h] = domain[t]
                 /\ pc'[h] = "gotDomain"
         /\ GlobalWaiters # {} =>
               g \in Tasks /\ pc[g] = "waitGlobal" /\ pc'[g] = "gotGlobal"
         /\ \A u \in Tasks \ {t} :
               \/ pc'[u] = pc[u]
               \/ u = h /\ DomainWaiters(domain[t]) # {}
               \/ u = g /\ GlobalWaiters # {}
<1>1. pc \in [Tasks -> PCs]
  BY DEF IInv, TypeOK
<1>2. DomainWaiters(domain[t]) # {} => h \in DomainWaiters(domain[t])
  BY FirstWaits DEF DomainWaiters
<1>3. GlobalWaiters # {} => g \in GlobalWaiters
  BY FirstWaits DEF GlobalWaiters
<1> DEFINE heirs == (IF DomainWaiters(domain[t]) = {} THEN {} ELSE {h})
           next == IF GlobalWaiters = {} THEN {} ELSE {g}
<1>4. pc' = [u \in Tasks |-> IF u = t THEN end
                             ELSE IF u \in heirs THEN "gotDomain"
                             ELSE IF u \in next THEN "gotGlobal"
                             ELSE pc[u]]
  BY DEF HandOver
<1>5. \A u \in heirs : u \in Tasks /\ pc[u] = "waitDomain" /\ domain[u] = domain[t]
  BY <1>2 DEF DomainWaiters
<1>6. \A u \in next : u \in Tasks /\ pc[u] = "waitGlobal"
  BY <1>3 DEF GlobalWaiters
<1>7. heirs \cap next = {} /\ t \notin heirs /\ t \notin next
  BY <1>5, <1>6
<1> HIDE DEF heirs, next
<1>8. /\ pc' \in [Tasks -> PCs]
      /\ pc'[t] = end
      /\ \A u \in heirs : pc'[u] = "gotDomain"
      /\ \A u \in next : pc'[u] = "gotGlobal"
      /\ \A u \in Tasks \ {t} : pc'[u] = pc[u] \/ u \in heirs \/ u \in next
  BY <1>1, <1>4, <1>5, <1>6, <1>7
<1> QED  BY <1>5, <1>6, <1>8 DEF heirs, next

\* A task leaves both blocks: the permits are still counted, and the first who
\* waits for them is woken up.
LEMMA HandOverOK ==
  ASSUME IInv, NEW t \in Tasks, pc[t] = "submitted", NEW end \in {"done", "failed"},
         HandOver(t, end), domain' = domain
  PROVE  /\ PermitsAreConserved' /\ NoPermitIdles'
         /\ globalFree' \in 0..GlobalLimit
         /\ domainFree' \in [Domains -> 0..DomainLimit]
         /\ pc' \in [Tasks -> PCs]
         /\ pc'[t] = end
         /\ \A u \in Tasks \ {t} :
               \/ pc'[u] = pc[u]
               \/ pc[u] = "waitDomain" /\ pc'[u] = "gotDomain"
               \/ pc[u] = "waitGlobal" /\ pc'[u] = "gotGlobal"
<1>0. PICK d0 \in Domains : d0 = domain[t]
  BY DEF IInv, TypeOK
<1>h. PICK h : h = First(DomainWaiters(domain[t]))
  OBVIOUS
<1>g. PICK g : g = First(GlobalWaiters)
  OBVIOUS
<1>1. /\ pc' \in [Tasks -> PCs]
      /\ pc'[t] = end
      /\ DomainWaiters(d0) # {} =>
            h \in Tasks /\ pc[h] = "waitDomain" /\ domain[h] = d0 /\ pc'[h] = "gotDomain"
      /\ GlobalWaiters # {} =>
            g \in Tasks /\ pc[g] = "waitGlobal" /\ pc'[g] = "gotGlobal"
      /\ \A u \in Tasks \ {t} :
            \/ pc'[u] = pc[u]
            \/ u = h /\ DomainWaiters(d0) # {}
            \/ u = g /\ GlobalWaiters # {}
  <2>1. /\ pc' \in [Tasks -> PCs]
        /\ pc'[t] = end
        /\ DomainWaiters(domain[t]) # {} =>
              h \in Tasks /\ pc[h] = "waitDomain" /\ domain[h] = domain[t]
                /\ pc'[h] = "gotDomain"
        /\ GlobalWaiters # {} =>
              g \in Tasks /\ pc[g] = "waitGlobal" /\ pc'[g] = "gotGlobal"
        /\ \A u \in Tasks \ {t} :
              \/ pc'[u] = pc[u]
              \/ u = h /\ DomainWaiters(domain[t]) # {}
              \/ u = g /\ GlobalWaiters # {}
    BY ONLY IInv, t \in Tasks, pc[t] = "submitted", end \in {"done", "failed"},
            HandOver(t, end), domain' = domain, <1>h, <1>g, Heirs
  <2> QED  BY <1>0, <2>1
<1>2. /\ d0 = domain[t] /\ domain' = domain /\ domain \in [Tasks -> Domains] /\ pc \in [Tasks -> PCs]
      /\ domainFree \in [Domains -> 0..DomainLimit] /\ globalFree \in 0..GlobalLimit
  BY <1>0 DEF IInv, TypeOK
<1>3. /\ domainFree' = IF DomainWaiters(d0) # {} THEN domainFree
                       ELSE [domainFree EXCEPT ![d0] = @ + 1]
      /\ globalFree' = IF GlobalWaiters # {} THEN globalFree ELSE globalFree + 1
  BY <1>0 DEF HandOver
\* The global permits.
<1>4. /\ globalFree' \in 0..GlobalLimit
      /\ globalFree' + Cardinality(GlobalHolders') = GlobalLimit
      /\ globalFree' > 0 => GlobalWaiters' = {}
  <2>1. /\ IsFiniteSet(GlobalHolders) /\ Cardinality(GlobalHolders) \in Nat
        /\ t \in GlobalHolders
        /\ globalFree + Cardinality(GlobalHolders) = GlobalLimit
    BY Counted, SetsAreFinite DEF GlobalHolders, HoldsGlobal, IInv
  <2>2. CASE GlobalWaiters = {}
    <3>1. GlobalHolders' = GlobalHolders \ {t}
      BY <1>1, <2>2 DEF GlobalHolders, HoldsGlobal
    <3>2. GlobalWaiters' = {}
      BY <1>1, <2>2 DEF GlobalWaiters
    <3>3. Cardinality(GlobalHolders') = Cardinality(GlobalHolders) - 1
      BY <2>1, <3>1, FS_RemoveElement
    <3>4. Cardinality(GlobalHolders') \in Nat
      BY <2>1, <3>1, SetsAreFinite, FS_RemoveElement, FS_CardinalityType
    <3> QED  BY <1>2, <1>3, <2>1, <2>2, <3>2, <3>3, <3>4
  <2>3. CASE GlobalWaiters # {}
    <3>1. g \notin GlobalHolders /\ GlobalHolders' = (GlobalHolders \ {t}) \cup {g}
      BY <1>1, <2>3 DEF GlobalHolders, HoldsGlobal
    <3>2. Cardinality(GlobalHolders') = Cardinality(GlobalHolders)
      BY <2>1, <3>1, Moved
    <3>3. globalFree' = globalFree /\ globalFree = 0
      BY <1>2, <1>3, <2>3 DEF IInv, NoPermitIdles
    <3> QED  BY <1>2, <2>1, <3>2, <3>3
  <2> QED  BY <2>2, <2>3
\* The permits of a domain that is not t's.
<1>5. ASSUME NEW d \in Domains, d # d0
      PROVE  /\ domainFree'[d] + Cardinality(DomainHolders(d)') = DomainLimit
             /\ domainFree'[d] > 0 /\ DomainWaiters(d)' # {} => DomainWoken(d)' # {}
  <2>1. DomainHolders(d)' = DomainHolders(d)
    <3>1. ASSUME NEW u \in Tasks, domain[u] = d
          PROVE  pc'[u] \in {"gotDomain", "submitted"} <=> pc[u] \in {"gotDomain", "submitted"}
      BY <1>1, <1>2, <1>5, <3>1
    <3> QED  BY <1>2, <3>1 DEF DomainHolders, HoldsDomain, Members
  <2>2. DomainWaiters(d)' = DomainWaiters(d)
    BY <1>1, <1>2, <1>5 DEF DomainWaiters
  <2>3. domainFree'[d] = domainFree[d] /\ DomainWoken(d)' = DomainWoken(d)
    BY <1>1, <1>2, <1>3, <1>5 DEF DomainWoken
  <2>4. /\ domainFree[d] + Cardinality(DomainHolders(d)) = DomainLimit
        /\ domainFree[d] > 0 /\ DomainWaiters(d) # {} => DomainWoken(d) # {}
    BY Counted DEF IInv, NoPermitIdles
  <2> QED  BY ONLY <2>1, <2>2, <2>3, <2>4
\* The permits of t's domain.
<1>6. /\ domainFree'[d0] \in 0..DomainLimit
      /\ domainFree'[d0] + Cardinality(DomainHolders(d0)') = DomainLimit
      /\ domainFree'[d0] > 0 /\ DomainWaiters(d0)' # {} => DomainWoken(d0)' # {}
  <2>1. /\ IsFiniteSet(DomainHolders(d0)) /\ Cardinality(DomainHolders(d0)) \in Nat
        /\ t \in DomainHolders(d0)
    BY <1>2, SetsAreFinite DEF DomainHolders, HoldsDomain, Members
  <2>2. /\ domainFree[d0] + Cardinality(DomainHolders(d0)) = DomainLimit
        /\ domainFree[d0] > 0 /\ DomainWaiters(d0) # {} => DomainWoken(d0) # {}
        /\ domainFree[d0] \in 0..DomainLimit
    BY <1>2, Counted DEF IInv, NoPermitIdles
  <2>3. CASE DomainWaiters(d0) = {}
    <3>1. DomainHolders(d0)' = DomainHolders(d0) \ {t}
      BY <1>1, <1>2, <2>3 DEF DomainHolders, HoldsDomain, Members
    <3>2. DomainWaiters(d0)' = {}
      BY <1>1, <1>2, <2>3 DEF DomainWaiters
    <3>3. Cardinality(DomainHolders(d0)') = Cardinality(DomainHolders(d0)) - 1
      BY <2>1, <3>1, FS_RemoveElement
    <3>4. Cardinality(DomainHolders(d0)') \in Nat
      BY <2>1, <3>1, FS_RemoveElement, FS_CardinalityType
    <3>5. domainFree'[d0] = domainFree[d0] + 1
      BY <1>2, <1>3, <2>3
    <3> QED  BY ONLY <2>1, <2>2, <3>2, <3>3, <3>4, <3>5, DomainLimitAssumption
  <2>4. CASE DomainWaiters(d0) # {}
    <3>1. h \notin DomainHolders(d0) /\ DomainHolders(d0)' = (DomainHolders(d0) \ {t}) \cup {h}
      BY <1>1, <1>2, <2>4 DEF DomainHolders, HoldsDomain, Members
    <3>2. Cardinality(DomainHolders(d0)') = Cardinality(DomainHolders(d0))
      BY <2>1, <3>1, Moved
    <3>3. domainFree' = domainFree
      BY <1>3, <2>4
    <3>4. DomainWoken(d0)' # {}
      BY <1>1, <1>2, <2>4 DEF DomainWoken
    <3> QED  BY ONLY <2>2, <3>2, <3>3, <3>4
  <2> QED  BY <2>3, <2>4
<1>7. domainFree' \in [Domains -> 0..DomainLimit]
  BY <1>2, <1>3, <1>6
<1>8. ASSUME NEW d \in Domains
      PROVE  /\ domainFree'[d] + Cardinality(DomainHolders(d)') = DomainLimit
             /\ domainFree'[d] > 0 /\ DomainWaiters(d)' # {} => DomainWoken(d)' # {}
  <2>1. CASE d = d0
    BY <1>6, <2>1
  <2>2. CASE d # d0
    BY <1>5, <2>2
  <2> QED  BY <2>1, <2>2
<1>9. PermitsAreConserved'
  BY <1>4, <1>8 DEF PermitsAreConserved, GlobalHolders, DomainHolders
<1>10. NoPermitIdles'
  BY <1>4, <1>8 DEF NoPermitIdles
<1>11. \A u \in Tasks \ {t} :
          \/ pc'[u] = pc[u]
          \/ pc[u] = "waitDomain" /\ pc'[u] = "gotDomain"
          \/ pc[u] = "waitGlobal" /\ pc'[u] = "gotGlobal"
  BY <1>1
<1> QED  BY <1>1, <1>4, <1>7, <1>9, <1>10, <1>11

-----------------------------------------------------------------------------
(* One lemma per step. *)

\* While somebody is not over, the batch is gathered.
LEMMA Gathering ==
  ASSUME IInv, NEW t \in Tasks, pc[t] \notin Over
  PROVE  main = "gather" /\ \A u \in Tasks : pc[u] # "cancelled"
BY DEF IInv, PhaseOK

LEMMA StartOK == ASSUME IInv, NEW t \in Tasks, Start(t) PROVE IInv'
<1>0. /\ pc[t] = "new" /\ domain' = domain /\ main' = main /\ main = "gather"
      /\ \A u \in Tasks : pc[u] # "cancelled"
  BY Gathering DEF Start
<1>1. CASE globalFree > 0
  <2>0. AcquireDomain(t) /\ globalFree' = globalFree - 1
    BY <1>1 DEF Start
  <2>1. /\ domainFree' \in [Domains -> 0..DomainLimit]
        /\ pc' \in [Tasks -> PCs] /\ thread' \in [Tasks -> Threads]
        /\ \/ pc'[t] = "submitted" /\ thread'[t] = "queued"
           \/ pc'[t] = "waitDomain" /\ thread'[t] = "none"
        /\ \A u \in Tasks \ {t} : pc'[u] = pc[u] /\ thread'[u] = thread[u]
        /\ \A d \in Domains :
              /\ domainFree'[d] + Cardinality(DomainHolders(d)') = DomainLimit
              /\ domainFree'[d] > 0 /\ DomainWaiters(d)' # {} => DomainWoken(d)' # {}
    BY <1>0, <2>0, AcquireDomainOK
  <2>2. globalFree' \in 0..GlobalLimit
    BY <1>1, <2>0 DEF IInv, TypeOK
  <2>3. ThreadsOK'
    BY <2>1 DEF IInv, TypeOK, ThreadsOK
  <2>4. TypeOK'
    BY <1>0, <2>1, <2>2, <2>3 DEF IInv, TypeOK
  <2>5. globalFree' + Cardinality(GlobalHolders') = GlobalLimit
    <3>1. GlobalHolders' = GlobalHolders \cup {t} /\ t \notin GlobalHolders
      BY <1>0, <2>1 DEF GlobalHolders, HoldsGlobal
    <3>2. /\ IsFiniteSet(GlobalHolders) /\ Cardinality(GlobalHolders) \in Nat
          /\ globalFree + Cardinality(GlobalHolders) = GlobalLimit
          /\ globalFree \in Nat
      BY SetsAreFinite, Counted DEF GlobalHolders, IInv, TypeOK
    <3>3. Cardinality(GlobalHolders') = Cardinality(GlobalHolders) + 1
      BY <3>1, <3>2, FS_AddElement
    <3> QED  BY ONLY <2>0, <3>2, <3>3
  <2>6. NoPermitIdles'
    <3>1. GlobalWaiters' = GlobalWaiters /\ (globalFree > 0 => GlobalWaiters = {})
      BY <1>0, <2>1 DEF GlobalWaiters, IInv, NoPermitIdles
    <3> QED  BY <1>1, <2>1, <3>1 DEF NoPermitIdles
  <2>7. PermitsAreConserved'
    BY <2>1, <2>5 DEF PermitsAreConserved, GlobalHolders, DomainHolders
  <2>8. PhaseOK'
    BY <1>0, <2>1 DEF PhaseOK
  <2>9. ProbesAreCapped'
    <3>1. Running' \subseteq Running
      BY <1>0, <2>1 DEF Running, IInv, TypeOK, ThreadsOK
    <3> QED  BY <1>0, <3>1, StillCapped DEF IInv
  <2> QED  BY <2>4, <2>6, <2>7, <2>8, <2>9 DEF IInv
<1>2. CASE globalFree = 0
  <2>1. /\ pc' = [pc EXCEPT ![t] = "waitGlobal"]
        /\ UNCHANGED <<thread, globalFree, domainFree, domain, main>>
    BY <1>2 DEF Start
  <2>2. TypeOK'
    BY <1>0, <2>1 DEF IInv, TypeOK, ThreadsOK
  <2>3. /\ GlobalHolders' = GlobalHolders
        /\ \A d \in Domains : DomainHolders(d)' = DomainHolders(d)
    BY <1>0, <2>1 DEF GlobalHolders, HoldsGlobal, DomainHolders, HoldsDomain, Members, IInv, TypeOK
  <2>4. PermitsAreConserved'
    BY <2>1, <2>3 DEF PermitsAreConserved, GlobalHolders, DomainHolders, IInv
  <2>5. NoPermitIdles'
    <3>1. \A d \in Domains : DomainWaiters(d)' = DomainWaiters(d)
                            /\ DomainWoken(d)' = DomainWoken(d)
      BY <1>0, <2>1 DEF DomainWaiters, DomainWoken, IInv, TypeOK
    <3> QED  BY <1>2, <2>1, <3>1 DEF NoPermitIdles, IInv
  <2>6. PhaseOK'
    BY <1>0, <2>1 DEF PhaseOK, IInv, TypeOK
  <2>7. ProbesAreCapped'
    BY <2>1, StillCapped DEF Running, IInv
  <2> QED  BY <2>2, <2>4, <2>5, <2>6, <2>7 DEF IInv
<1>3. globalFree > 0 \/ globalFree = 0
  BY DEF IInv, TypeOK
<1> QED  BY <1>1, <1>2, <1>3

LEMMA ResumeGlobalOK == ASSUME IInv, NEW t \in Tasks, ResumeGlobal(t) PROVE IInv'
<1>0. /\ pc[t] = "gotGlobal" /\ domain' = domain /\ main' = main /\ main = "gather"
      /\ globalFree' = globalFree /\ AcquireDomain(t)
      /\ \A u \in Tasks : pc[u] # "cancelled"
  BY Gathering DEF ResumeGlobal
<1>1. /\ domainFree' \in [Domains -> 0..DomainLimit]
      /\ pc' \in [Tasks -> PCs] /\ thread' \in [Tasks -> Threads]
      /\ \/ pc'[t] = "submitted" /\ thread'[t] = "queued"
         \/ pc'[t] = "waitDomain" /\ thread'[t] = "none"
      /\ \A u \in Tasks \ {t} : pc'[u] = pc[u] /\ thread'[u] = thread[u]
      /\ \A d \in Domains :
            /\ domainFree'[d] + Cardinality(DomainHolders(d)') = DomainLimit
            /\ domainFree'[d] > 0 /\ DomainWaiters(d)' # {} => DomainWoken(d)' # {}
  BY <1>0, AcquireDomainOK
<1>2. ThreadsOK'
  BY <1>1 DEF IInv, TypeOK, ThreadsOK
<1>3. TypeOK'
  BY <1>0, <1>1, <1>2 DEF IInv, TypeOK
<1>4. GlobalHolders' = GlobalHolders /\ GlobalWaiters' = GlobalWaiters
  BY <1>0, <1>1 DEF GlobalHolders, HoldsGlobal, GlobalWaiters
<1>5. PermitsAreConserved'
  <2>1. globalFree + Cardinality(GlobalHolders) = GlobalLimit
    BY Counted DEF IInv
  <2>2. globalFree' + Cardinality(GlobalHolders') = GlobalLimit
    BY <1>0, <1>4, <2>1
  <2> QED  BY <1>1, <2>2 DEF PermitsAreConserved, GlobalHolders, DomainHolders
<1>6. NoPermitIdles'
  BY <1>0, <1>1, <1>4 DEF NoPermitIdles, IInv
<1>7. PhaseOK'
  BY <1>0, <1>1 DEF PhaseOK
<1>8. ProbesAreCapped'
  <2>1. Running' \subseteq Running
    BY <1>0, <1>1 DEF Running, IInv, TypeOK, ThreadsOK
  <2> QED  BY <1>0, <2>1, StillCapped DEF IInv
<1> QED  BY <1>3, <1>5, <1>6, <1>7, <1>8 DEF IInv

\* Those whom t wakes up hold the permits of the domain that were free.
LEMMA ResumeDomainOK == ASSUME IInv, NEW t \in Tasks, ResumeDomain(t) PROVE IInv'
<1> DEFINE d0 == domain[t]
<1>0. /\ pc[t] = "gotDomain" /\ main = "gather" /\ d0 \in Domains
      /\ thread' = [thread EXCEPT ![t] = "queued"]
      /\ UNCHANGED <<domain, globalFree, main>>
      /\ \A u \in Tasks : pc[u] # "cancelled"
      /\ domainFree \in [Domains -> 0..DomainLimit]
      /\ pc \in [Tasks -> PCs] /\ thread \in [Tasks -> Threads]
  BY Gathering DEF ResumeDomain, IInv, TypeOK
<1>1. PICK woken \in SUBSET DomainWaiters(d0) :
          /\ WakesUp(woken, domainFree[d0], DomainWaiters(d0))
          /\ pc' = [u \in Tasks |-> IF u = t THEN "submitted"
                                    ELSE IF u \in woken THEN "gotDomain"
                                    ELSE pc[u]]
          /\ domainFree' = [domainFree EXCEPT ![d0] = @ - Cardinality(woken)]
  BY DEF ResumeDomain
<1>2. /\ woken \subseteq Tasks /\ t \notin woken
      /\ \A u \in woken : pc[u] = "waitDomain" /\ domain[u] = d0
      /\ IsFiniteSet(woken) /\ Cardinality(woken) \in Nat
      /\ Cardinality(woken) <= domainFree[d0]
      /\ domainFree[d0] > 0 /\ DomainWaiters(d0) # {} => woken # {}
  <2>1. woken \subseteq Tasks /\ \A u \in woken : pc[u] = "waitDomain" /\ domain[u] = d0
    BY DEF DomainWaiters
  <2>2. IsFiniteSet(woken) /\ Cardinality(woken) \in Nat
    BY <2>1, SetsAreFinite
  <2> QED  BY <1>0, <1>1, <2>1, <2>2 DEF WakesUp
<1>3. /\ pc' \in [Tasks -> PCs] /\ pc'[t] = "submitted"
      /\ \A u \in woken : pc'[u] = "gotDomain"
      /\ \A u \in Tasks \ (woken \cup {t}) : pc'[u] = pc[u]
  BY <1>0, <1>1, <1>2
<1> HIDE DEF d0
<1>4. TypeOK'
  <2>1. ThreadsOK'
    <3> SUFFICES ASSUME NEW u \in Tasks PROVE ThreadsOK!(u)'
      BY DEF ThreadsOK
    <3>1. CASE u = t
      BY <1>0, <1>3, <3>1
    <3>2. CASE u \in woken
      BY <1>0, <1>2, <1>3, <3>2 DEF IInv, TypeOK, ThreadsOK
    <3>3. CASE u # t /\ u \notin woken
      BY <1>0, <1>3, <3>3 DEF IInv, TypeOK, ThreadsOK
    <3> QED  BY <3>1, <3>2, <3>3
  <2>2. domainFree' \in [Domains -> 0..DomainLimit]
    <3>1. domainFree[d0] - Cardinality(woken) \in 0..DomainLimit
      BY <1>0, <1>2
    <3> QED  BY <1>0, <1>1, <3>1
  <2> QED  BY <1>0, <1>3, <2>1, <2>2 DEF IInv, TypeOK
<1>5. GlobalHolders' = GlobalHolders /\ GlobalWaiters' = GlobalWaiters
  <2>1. ASSUME NEW u \in Tasks
        PROVE  (HoldsGlobal(u)' <=> HoldsGlobal(u))
               /\ (pc'[u] = "waitGlobal" <=> pc[u] = "waitGlobal")
    BY <1>0, <1>2, <1>3 DEF HoldsGlobal
  <2> QED  BY <2>1 DEF GlobalHolders, GlobalWaiters
<1>6. ASSUME NEW d \in Domains
      PROVE  /\ domainFree'[d] + Cardinality(DomainHolders(d)') = DomainLimit
             /\ domainFree'[d] > 0 /\ DomainWaiters(d)' # {} => DomainWoken(d)' # {}
  <2>0. /\ domainFree[d] + Cardinality(DomainHolders(d)) = DomainLimit
        /\ domainFree[d] > 0 /\ DomainWaiters(d) # {} => DomainWoken(d) # {}
        /\ IsFiniteSet(DomainHolders(d)) /\ Cardinality(DomainHolders(d)) \in Nat
        /\ domainFree[d] \in Nat
    <3>1. IsFiniteSet(DomainHolders(d)) /\ Cardinality(DomainHolders(d)) \in Nat
      BY SetsAreFinite DEF DomainHolders, Members
    <3> QED  BY <1>0, <3>1, Counted DEF IInv, NoPermitIdles
  <2>1. CASE d = d0
    <3>1. DomainHolders(d)' = DomainHolders(d) \cup woken
      BY <1>0, <1>2, <1>3, <2>1 DEF DomainHolders, HoldsDomain, Members
    <3>2. DomainHolders(d) \cap woken = {}
      BY <1>2 DEF DomainHolders, HoldsDomain
    <3>3. Cardinality(DomainHolders(d)') = Cardinality(DomainHolders(d)) + Cardinality(woken)
      BY <1>2, <2>0, <3>1, <3>2, Joined
    <3>4. domainFree'[d] = domainFree[d] - Cardinality(woken)
      BY <1>0, <1>1, <2>1
    <3>5. CASE woken = {}
      <4>1. Cardinality(woken) = 0
        BY <3>5, FS_EmptySet
      <4>2. DomainWaiters(d)' = DomainWaiters(d)
        BY <1>0, <1>3, <3>5 DEF DomainWaiters
      <4>3. domainFree[d] > 0 => DomainWaiters(d) = {}
        BY <1>2, <2>1, <3>5
      <4> QED  BY ONLY <2>0, <3>3, <3>4, <4>1, <4>2, <4>3
    <3>6. CASE woken # {}
      <4>1. DomainWoken(d)' # {}
        BY <1>0, <1>2, <1>3, <2>1, <3>6 DEF DomainWoken
      <4> QED  BY ONLY <1>2, <2>0, <3>3, <3>4, <4>1
    <3> QED  BY <3>5, <3>6
  <2>2. CASE d # d0
    <3>1. DomainHolders(d)' = DomainHolders(d)
      BY <1>0, <1>2, <1>3, <2>2 DEF DomainHolders, HoldsDomain, Members
    <3>2. DomainWaiters(d)' = DomainWaiters(d)
      BY <1>0, <1>2, <1>3, <2>2 DEF DomainWaiters, d0
    <3>3. DomainWoken(d)' = DomainWoken(d)
      BY <1>0, <1>2, <1>3, <2>2 DEF DomainWoken, d0
    <3>4. domainFree'[d] = domainFree[d]
      BY <1>0, <1>1, <2>2
    <3> QED  BY ONLY <2>0, <3>1, <3>2, <3>3, <3>4
  <2> QED  BY <2>1, <2>2
<1>7. PermitsAreConserved'
  <2>1. globalFree + Cardinality(GlobalHolders) = GlobalLimit
    BY Counted DEF IInv
  <2>2. globalFree' + Cardinality(GlobalHolders') = GlobalLimit
    BY <1>0, <1>5, <2>1
  <2> QED  BY <1>6, <2>2 DEF PermitsAreConserved
<1>8. NoPermitIdles'
  BY <1>0, <1>5, <1>6 DEF NoPermitIdles, IInv
<1>9. PhaseOK'
  <2>1. \A u \in Tasks : pc'[u] # "cancelled"
    BY <1>0, <1>2, <1>3
  <2> QED  BY <1>0, <2>1 DEF PhaseOK
<1>10. ProbesAreCapped'
  <2>1. Running' \subseteq Running
    BY <1>0 DEF Running
  <2> QED  BY <1>0, <2>1, StillCapped DEF IInv
<1> QED  BY <1>4, <1>7, <1>8, <1>9, <1>10 DEF IInv

LEMMA DeliverOK == ASSUME IInv, NEW t \in Tasks, Deliver(t) PROVE IInv'
<1>0. PICK end \in {"done", "failed"} :
        /\ HandOver(t, end)
        /\ end = "done" => thread[t] = "returned"
        /\ end = "failed" => thread[t] = "raised"
  BY DEF Deliver
<1>1. /\ pc[t] = "submitted" /\ UNCHANGED <<domain, thread, main>> /\ main = "gather"
      /\ \A u \in Tasks : pc[u] # "cancelled"
  BY Gathering DEF Deliver
<1>2. /\ PermitsAreConserved' /\ NoPermitIdles'
      /\ globalFree' \in 0..GlobalLimit
      /\ domainFree' \in [Domains -> 0..DomainLimit]
      /\ pc' \in [Tasks -> PCs]
      /\ pc'[t] = end
      /\ \A u \in Tasks \ {t} :
            \/ pc'[u] = pc[u]
            \/ pc[u] = "waitDomain" /\ pc'[u] = "gotDomain"
            \/ pc[u] = "waitGlobal" /\ pc'[u] = "gotGlobal"
  BY <1>0, <1>1, HandOverOK
<1>3. ThreadsOK'
  BY <1>0, <1>1, <1>2 DEF IInv, TypeOK, ThreadsOK
<1>4. TypeOK'
  BY <1>1, <1>2, <1>3 DEF IInv, TypeOK
<1>5. PhaseOK'
  BY <1>0, <1>1, <1>2 DEF PhaseOK
<1>6. ProbesAreCapped'
  BY <1>1, StillCapped DEF Running, IInv
<1> QED  BY <1>2, <1>4, <1>5, <1>6 DEF IInv

\* A batch that ends gives back every permit: nobody holds one any more.
LEMMA CancelAllOK == ASSUME IInv, CancelAll PROVE IInv'
<1>0. /\ main' = "closing" /\ domain' = domain
      /\ pc' = [t \in Tasks |-> IF pc[t] \in Over THEN pc[t] ELSE "cancelled"]
      /\ thread' = [t \in Tasks |-> IF thread[t] = "queued" THEN "none" ELSE thread[t]]
      /\ globalFree' = GlobalLimit
      /\ domainFree' = [d \in Domains |-> DomainLimit]
  <2>1. globalFree + Cardinality(GlobalHolders) = GlobalLimit
    BY Counted DEF IInv
  <2>2. ASSUME NEW d \in Domains
        PROVE  domainFree[d] + Cardinality(DomainHolders(d)) = DomainLimit
    BY Counted DEF IInv
  <2> QED  BY <2>1, <2>2 DEF CancelAll
<1>1. \A t \in Tasks : pc'[t] \in Over
  BY <1>0
<1>2. TypeOK'
  <2>1. ThreadsOK'
    BY <1>0, <1>1 DEF IInv, TypeOK, ThreadsOK
  <2>2. globalFree' \in 0..GlobalLimit /\ domainFree' \in [Domains -> 0..DomainLimit]
    BY <1>0
  <2> QED  BY <1>0, <2>1, <2>2 DEF IInv, TypeOK
<1>3. PermitsAreConserved'
  <2>1. GlobalHolders' = {} /\ \A d \in Domains : DomainHolders(d)' = {}
    BY <1>1 DEF GlobalHolders, HoldsGlobal, DomainHolders, HoldsDomain, Members
  <2>2. globalFree' + Cardinality(GlobalHolders') = GlobalLimit
    BY <1>0, <2>1, FS_EmptySet
  <2>3. ASSUME NEW d \in Domains
        PROVE  domainFree'[d] + Cardinality(DomainHolders(d)') = DomainLimit
    <3>1. domainFree'[d] = DomainLimit /\ DomainHolders(d)' = {}
      BY <1>0, <2>1
    <3> QED  BY <3>1, FS_EmptySet
  <2> QED  BY <2>2, <2>3 DEF PermitsAreConserved, GlobalHolders, DomainHolders
<1>4. NoPermitIdles'
  <2>1. GlobalWaiters' = {} /\ \A d \in Domains : DomainWaiters(d)' = {}
    BY <1>1 DEF GlobalWaiters, DomainWaiters
  <2> QED  BY <2>1 DEF NoPermitIdles
<1>5. PhaseOK'
  BY <1>0, <1>1 DEF PhaseOK
<1>6. ProbesAreCapped'
  <2>1. Running' \subseteq Running
    BY <1>0 DEF Running
  <2> QED  BY <1>0, <2>1, StillCapped DEF IInv
<1> QED  BY <1>2, <1>3, <1>4, <1>5, <1>6 DEF IInv

LEMMA MainOK == ASSUME IInv, Return \/ Raise PROVE IInv'
<1>0. UNCHANGED <<domain, pc, thread, globalFree, domainFree>> /\ main' # "gather"
      /\ main' \in {"returned", "raised"}
  BY DEF Return, Raise
<1>1. TypeOK'
  BY <1>0 DEF IInv, TypeOK, ThreadsOK
<1>2. PermitsAreConserved' /\ NoPermitIdles'
  BY <1>0 DEF IInv, PermitsAreConserved, NoPermitIdles, GlobalHolders, DomainHolders,
              HoldsGlobal, HoldsDomain, Members, GlobalWaiters, DomainWaiters, DomainWoken
<1>3. PhaseOK'
  BY <1>0 DEF IInv, PhaseOK, Return, Raise
<1>4. ProbesAreCapped'
  BY <1>0, StillCapped DEF Running, IInv
<1> QED  BY <1>1, <1>2, <1>3, <1>4 DEF IInv

\* The executor moves no permit.
LEMMA ThreadMoves ==
  ASSUME IInv, UNCHANGED <<domain, pc, globalFree, domainFree, main>>
  PROVE  PermitsAreConserved' /\ NoPermitIdles' /\ PhaseOK'
BY DEF IInv, PermitsAreConserved, NoPermitIdles, GlobalHolders, DomainHolders,
       HoldsGlobal, HoldsDomain, Members, GlobalWaiters, DomainWaiters, DomainWoken,
       PhaseOK

\* A call that begins belongs to a coroutine that holds both permits, and so,
\* while the batch is gathered, do all the calls that run already.
LEMMA RunOK == ASSUME IInv, NEW t \in Tasks, Run(t) PROVE IInv'
<1>0. /\ UNCHANGED <<domain, pc, globalFree, domainFree, main>>
      /\ thread[t] = "queued" /\ thread' = [thread EXCEPT ![t] = "running"]
  BY DEF Run
<1>1. TypeOK'
  BY <1>0 DEF IInv, TypeOK, ThreadsOK
<1>2. PermitsAreConserved' /\ NoPermitIdles' /\ PhaseOK'
  BY <1>0, ThreadMoves
<1>3. ProbesAreCapped'
  <2>1. pc[t] = "submitted" /\ \A u \in Tasks : pc[u] # "cancelled"
    BY <1>0, Gathering DEF IInv, TypeOK, ThreadsOK
  <2>2. PICK R \in SUBSET Tasks : R = Running \cup {t}
    BY DEF Running
  <2>3. \A u \in R : pc[u] = "submitted"
    BY <2>1, <2>2 DEF Running, IInv, TypeOK, ThreadsOK
  <2>4. /\ R \in SUBSET GlobalHolders
        /\ \A d \in Domains : R \cap Members(d) \subseteq DomainHolders(d)
    BY <2>3 DEF GlobalHolders, HoldsGlobal, DomainHolders, HoldsDomain, Members
  <2>5. /\ Cardinality(R) <= GlobalLimit
        /\ \A d \in Domains : Cardinality(R \cap Members(d)) <= DomainLimit
    BY <2>4, Capped DEF IInv
  <2>6. Running' = R /\ \A d \in Domains : Members(d)' = Members(d)
    BY <1>0, <2>2 DEF Running, Members, IInv, TypeOK
  <2> QED  BY <2>5, <2>6 DEF ProbesAreCapped
<1> QED  BY <1>1, <1>2, <1>3 DEF IInv

LEMMA FinishOK == ASSUME IInv, NEW t \in Tasks, Finish(t) PROVE IInv'
<1>0. PICK end \in {"returned", "raised"} :
        /\ UNCHANGED <<domain, pc, globalFree, domainFree, main>>
        /\ thread[t] = "running" /\ thread' = [thread EXCEPT ![t] = end]
  BY DEF Finish
<1>1. TypeOK'
  BY <1>0 DEF IInv, TypeOK, ThreadsOK
<1>2. PermitsAreConserved' /\ NoPermitIdles' /\ PhaseOK'
  BY <1>0, ThreadMoves
<1>3. ProbesAreCapped'
  <2>1. Running' \subseteq Running
    BY <1>0 DEF Running, IInv, TypeOK
  <2> QED  BY <1>0, <2>1, StillCapped DEF IInv
<1> QED  BY <1>1, <1>2, <1>3 DEF IInv

LEMMA NextOK == ASSUME IInv, [Next]_vars PROVE IInv'
<1>1. CASE UNCHANGED vars
  <2>1. PermitsAreConserved' /\ NoPermitIdles' /\ PhaseOK'
    BY <1>1, ThreadMoves DEF vars
  <2>2. TypeOK'
    BY <1>1 DEF vars, IInv, TypeOK, ThreadsOK
  <2>3. ProbesAreCapped'
    BY <1>1, StillCapped DEF vars, Running, IInv
  <2> QED  BY <2>1, <2>2, <2>3 DEF IInv
<1>2. CASE Next
  BY <1>2, StartOK, ResumeGlobalOK, ResumeDomainOK, DeliverOK, CancelAllOK, MainOK,
     RunOK, FinishOK
     DEF Next, Loop
<1> QED  BY <1>1, <1>2

\* Once the batch has failed no call is queued, and only a queued one begins.
LEMMA NothingStarts ==
  ASSUME IInv, [Next]_vars, main # "gather"
  PROVE  Running' \subseteq Running
<1>1. \A t \in Tasks : pc[t] \in Over /\ thread[t] # "queued"
  BY DEF IInv, PhaseOK, TypeOK, ThreadsOK
<1>2. thread' = thread \/ \E t \in Tasks : Finish(t)
  BY <1>1 DEF Next, Loop, Start, ResumeGlobal, ResumeDomain, Deliver, Return,
              CancelAll, Raise, Run, vars
<1>3. CASE thread' = thread
  BY <1>3 DEF Running
<1>4. CASE \E t \in Tasks : Finish(t)
  BY <1>4 DEF Finish, Running, IInv, TypeOK
<1> QED  BY <1>2, <1>3, <1>4

\* With a global limit no larger than that of a domain nobody lines up for a
\* domain: those who hold its permits, and the one who comes, hold global ones.
NobodyLinesUp ==
    GlobalLimit <= DomainLimit => \A t \in Tasks : pc[t] \notin {"waitDomain", "gotDomain"}

LEMMA Unlocked ==
  ASSUME IInv, NobodyLinesUp, GlobalLimit <= DomainLimit, NEW t \in Tasks,
         pc[t] = "gotGlobal" \/ (pc[t] = "new" /\ globalFree > 0)
  PROVE  ~DomainLocked(domain[t])
<1>0. PICK d \in Domains : d = domain[t]
  BY DEF IInv, TypeOK
<1>1. DomainWaiters(d) = {} /\ DomainWoken(d) = {}
  BY DEF NobodyLinesUp, DomainWaiters, DomainWoken
<1>2. /\ DomainHolders(d) \subseteq GlobalHolders \ {t}
      /\ IsFiniteSet(GlobalHolders) /\ Cardinality(GlobalHolders) \in Nat
      /\ Cardinality(DomainHolders(d)) \in Nat /\ IsFiniteSet(GlobalHolders \ {t})
  BY SetsAreFinite DEF DomainHolders, HoldsDomain, GlobalHolders, HoldsGlobal, Members
<1>3. /\ domainFree[d] + Cardinality(DomainHolders(d)) = DomainLimit
      /\ globalFree + Cardinality(GlobalHolders) = GlobalLimit
      /\ globalFree \in Nat /\ domainFree[d] \in Nat
  BY Counted DEF IInv, TypeOK
<1>4. Cardinality(DomainHolders(d)) <= Cardinality(GlobalHolders \ {t})
  BY <1>2, FS_Subset
<1>5. Cardinality(GlobalHolders \ {t}) < GlobalLimit
  <2>1. CASE pc[t] = "gotGlobal"
    <3>1. t \in GlobalHolders
      BY <2>1 DEF GlobalHolders, HoldsGlobal
    <3>2. Cardinality(GlobalHolders \ {t}) = Cardinality(GlobalHolders) - 1
      BY <1>2, <3>1, FS_RemoveElement
    <3> QED  BY <1>2, <1>3, <3>2
  <2>2. CASE pc[t] = "new" /\ globalFree > 0
    <3>1. GlobalHolders \ {t} = GlobalHolders
      BY <2>2 DEF GlobalHolders, HoldsGlobal
    <3>2. Cardinality(GlobalHolders) < GlobalLimit
      BY <1>2, <1>3, <2>2
    <3> QED  BY <3>1, <3>2
  <2> QED  BY <2>1, <2>2
<1>6. domainFree[d] # 0
  <2>1. Cardinality(GlobalHolders \ {t}) \in Nat
    BY <1>2, FS_CardinalityType
  <2> QED  BY <1>2, <1>3, <1>4, <1>5, <2>1
<1> QED  BY <1>0, <1>1, <1>6 DEF DomainLocked, Locked

LEMMA StillNobody == ASSUME IInv, NobodyLinesUp, [Next]_vars PROVE NobodyLinesUp'
<1> SUFFICES ASSUME GlobalLimit <= DomainLimit
             PROVE  \A t \in Tasks : pc'[t] \notin {"waitDomain", "gotDomain"}
  BY DEF NobodyLinesUp
<1>0. pc \in [Tasks -> PCs] /\ \A t \in Tasks : pc[t] \notin {"waitDomain", "gotDomain"}
  BY DEF IInv, TypeOK, NobodyLinesUp
<1>1. ASSUME NEW t \in Tasks, Start(t) \/ ResumeGlobal(t)
      PROVE  \A u \in Tasks : pc'[u] \notin {"waitDomain", "gotDomain"}
  <2>1. CASE AcquireDomain(t) /\ (pc[t] = "gotGlobal" \/ (pc[t] = "new" /\ globalFree > 0))
    <3>1. ~DomainLocked(domain[t])
      BY <2>1, Unlocked
    <3>2. pc' = [pc EXCEPT ![t] = "submitted"]
      BY <2>1, <3>1 DEF AcquireDomain
    <3> QED  BY <1>0, <3>2
  <2>2. CASE pc' = [pc EXCEPT ![t] = "waitGlobal"]
    BY <1>0, <2>2
  <2> QED  BY <1>1, <2>1, <2>2 DEF Start, ResumeGlobal
<1>2. ASSUME NEW t \in Tasks, Deliver(t)
      PROVE  \A u \in Tasks : pc'[u] \notin {"waitDomain", "gotDomain"}
  <2>1. PICK end \in {"done", "failed"} : HandOver(t, end)
    BY <1>2 DEF Deliver
  <2>2. DomainWaiters(domain[t]) = {}
    BY <1>0 DEF DomainWaiters
  <2>3. \A u \in Tasks : pc'[u] \in {end, "gotGlobal", pc[u]}
    BY <2>1, <2>2 DEF HandOver
  <2> QED  BY <1>0, <2>3
<1>3. ASSUME NEW t \in Tasks PROVE ~ResumeDomain(t)
  BY <1>0 DEF ResumeDomain
<1>4. CASE CancelAll
  BY <1>0, <1>4 DEF CancelAll
<1>5. CASE UNCHANGED pc
  BY <1>0, <1>5
<1> QED
  BY <1>1, <1>2, <1>3, <1>4, <1>5 DEF Next, Loop, Return, Raise, Run, Finish, vars

-----------------------------------------------------------------------------

THEOREM Invariance == Spec => []IInv
BY InitOK, NextOK, PTL DEF Spec

\* The engine is type correct; in particular a thread works only for a
\* coroutine that has submitted its call or was cancelled (verifier.py:750-755).
THEOREM TypeCorrect == Spec => []TypeOK
<1>1. IInv => TypeOK
  BY DEF IInv
<1> QED  BY <1>1, Invariance, PTL

\* No permit of either kind is lost or made (verifier.py:750-755).
THEOREM Permits == Spec => []PermitsAreConserved
<1>1. IInv => PermitsAreConserved
  BY DEF IInv
<1> QED  BY <1>1, Invariance, PTL

\* Both limits hold for the calls that run in threads, those that cancelled
\* coroutines left behind included (verifier.py:736-755).
THEOREM Caps == Spec => []ProbesAreCapped
<1>1. IInv => ProbesAreCapped
  BY DEF IInv
<1> QED  BY <1>1, Invariance, PTL

\* No global permit is free while a coroutine waits for it, and while one of a
\* domain is free coroutines wait for it only behind one that was woken up and
\* will wake them up (verifier.py:750-751).
THEOREM WakeUps == Spec => []NoPermitIdles
<1>1. IInv => NoPermitIdles
  BY DEF IInv
<1> QED  BY <1>1, Invariance, PTL

\* With one number for both limits, as batch.py has it, the semaphores of the
\* domains never make anybody wait (batch.py:109, verifier.py:726-730).
THEOREM OneLimitIsEnough == Spec => []DomainLimitIsIdle
<1>1. Init => NobodyLinesUp
  BY DEF Init, NobodyLinesUp
<1>2. IInv /\ NobodyLinesUp /\ [Next]_vars => NobodyLinesUp'
  BY StillNobody
<1>3. NobodyLinesUp => DomainLimitIsIdle
  BY DEF NobodyLinesUp, DomainLimitIsIdle, DomainWaiters
<1> QED  BY <1>1, <1>2, <1>3, Invariance, PTL DEF Spec

\* Once asyncio.run has begun to cancel what is left of a failed batch, no
\* further engine call begins (verifier.py:757-759, batch.py:107-110).
THEOREM FailureStopsTheBatch == Spec => NothingStartsAfterFailure
<1>1. IInv /\ [Next]_vars => [main # "gather" => Running' \subseteq Running]_vars
  BY NothingStarts
<1> QED  BY <1>1, Invariance, PTL DEF Spec, NothingStartsAfterFailure
=============================================================================
