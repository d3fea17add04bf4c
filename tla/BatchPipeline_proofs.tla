------------------------ MODULE BatchPipeline_proofs ------------------------
(***************************************************************************)
(* What holds of the batch run of BatchPipeline for any number of          *)
(* contacts, any limit, any chunk size and any clock.                      *)
(*                                                                         *)
(* The inductive invariant BatchInv has four parts besides the types and   *)
(* the bound on the clock.  RunInv keeps the books: the outcomes and the   *)
(* misses of a run partition the targets it dealt with, by contact and     *)
(* address.  SoundInv follows results from where they are made through the *)
(* cache, the run and HubSpot: a definitive one that a run made was stored *)
(* first, and none is of the future.  WrittenInv says that the chunks that *)
(* were answered are in HubSpot, and DueInv that a target is due until the *)
(* run writes to it.  The last section maps a run to VerificationCycle.    *)
(***************************************************************************)
EXTENDS BatchPipeline, SequenceTheorems, FiniteSetTheorems, TLAPS

USE ContactsAssumption, LimitAssumption, ChunkSizeAssumption, StartTimeAssumption,
    MaxTimeAssumption, TTLAssumption

-----------------------------------------------------------------------------
(* Types. *)

\* The part of TypeOK that is about a run, and the rest.
RunTypeOK ==
    /\ step \in Steps
    /\ exit \in {"none", "success", "failure"}
    /\ targets \in Seq(Target) /\ Len(targets) <= Limit
    /\ i \in Nat \ {0}
    /\ item \in Item \cup {None}
    /\ misses \in Seq(Target)
    /\ results \in Seq(Verdict \cup {None})
    /\ outcomes \in Seq(Outcome)
    /\ LocalsOK

WorldTypeOK ==
    /\ StoreTypeOK
    /\ email \in [Contacts -> Addresses]
    /\ written \in [Contacts -> Verdict \cup {None}]
    /\ late \subseteq Outcome
    /\ overtaken \subseteq Contacts
    /\ stored \subseteq Verdict
    /\ meddled \in 0..MaxMeddling

LEMMA Parts ==
  /\ TypeOK <=> RunTypeOK /\ WorldTypeOK
  /\ TypeOK' <=> RunTypeOK' /\ WorldTypeOK'
BY DEF TypeOK, RunTypeOK, WorldTypeOK

LEMMA Lens ==
  ASSUME NEW S, NEW s \in Seq(S)
  PROVE  /\ Len(s) \in Nat /\ DOMAIN s = 1..Len(s) /\ s \in [1..Len(s) -> S]
         /\ \A n \in 1..Len(s) : s[n] \in S
BY LenProperties, ElementOfSeq

\* A function on 1..n is a sequence of length n.
LEMMA FunSeq ==
  ASSUME NEW S, NEW n \in Nat, NEW f \in [1..n -> S]
  PROVE  f \in Seq(S) /\ Len(f) = n
<1>1. f \in Seq(S)
  BY SeqDef
<1>2. Len(f) \in Nat /\ 1..Len(f) = 1..n
  BY <1>1, LenProperties
<1> QED  BY <1>1, <1>2

LEMMA EndOK ==
  ASSUME RunTypeOK, NEW code \in {"success", "failure"}, End(code)
  PROVE  RunTypeOK'
<1>1. /\ step' = "idle" /\ exit' = code /\ i' = 1 /\ item' = None
      /\ misses' = <<>> /\ results' = <<>>
  BY DEF End
<1>2. \/ targets' = targets /\ outcomes' = outcomes
      \/ targets' = <<>> /\ outcomes' = <<>>
  BY DEF End
<1>3. /\ <<>> \in Seq(Target) /\ <<>> \in Seq(Outcome) /\ <<>> \in Seq(Verdict \cup {None})
      /\ Len(<<>>) = 0
  BY EmptySeq
<1>4. targets' \in Seq(Target) /\ Len(targets') <= Limit /\ outcomes' \in Seq(Outcome)
  BY <1>2, <1>3, 0 <= Limit DEF RunTypeOK
<1>5. LocalsOK'
  BY <1>1 DEF LocalsOK
<1> QED  BY <1>1, <1>3, <1>4, <1>5 DEF RunTypeOK, Steps

\* The loop over the targets goes on when one of them is dealt with.
LEMMA NextTargetOK ==
  ASSUME RunTypeOK, step \in {"get", "check", "delete"}, NextTarget,
         misses' \in Seq(Target), outcomes' \in Seq(Outcome),
         Len(misses') + Len(outcomes') = i
  PROVE  RunTypeOK'
<1>1. /\ targets \in Seq(Target) /\ Len(targets) \in Nat /\ Len(targets) <= Limit
      /\ i \in 1..Len(targets) /\ i \in Nat \ {0}
  BY Lens DEF RunTypeOK, LocalsOK
<1>2. Len(misses') \in Nat /\ Len(outcomes') \in Nat /\ DOMAIN misses' = 1..Len(misses')
      /\ DOMAIN outcomes' = 1..Len(outcomes')
  BY Lens
<1>3. item' = None /\ UNCHANGED <<exit, targets>>
  BY DEF NextTarget
<1>4. CASE i < Len(targets)
  <2>1. i' = i + 1 /\ step' = "get" /\ UNCHANGED results
    BY <1>4 DEF NextTarget
  <2>2. i' \in DOMAIN targets' /\ Len(misses') + Len(outcomes') = i' - 1
    BY <1>1, <1>2, <1>3, <1>4, <2>1, Lens
  <2>3. LocalsOK'
    BY <1>3, <2>1, <2>2 DEF LocalsOK
  <2> QED  BY <1>1, <1>3, <2>1, <2>3 DEF RunTypeOK, Steps
<1>5. CASE ~(i < Len(targets))
  <2>1. /\ i' = 1 /\ step' = (IF misses' # <<>> THEN "verify" ELSE "write")
        /\ results' = [n \in DOMAIN misses' |-> None]
    BY <1>5 DEF NextTarget
  <2>2. i = Len(targets)
    BY <1>1, <1>5
  <2>3. results' \in [1..Len(misses') -> Verdict \cup {None}]
    BY <1>2, <2>1
  <2>4. results' \in Seq(Verdict \cup {None}) /\ Len(results') = Len(misses')
    BY <1>2, <2>3, FunSeq
  <2>5. CASE misses' # <<>>
    <3>1. step' = "verify" /\ Len(outcomes') = Len(targets) - Len(misses') + 1 - 1
      BY <1>1, <1>2, <2>1, <2>2, <2>5
    <3>2. LocalsOK'
      BY <1>3, <2>1, <2>4, <2>5, <3>1 DEF LocalsOK
    <3> QED  BY <1>1, <1>3, <2>1, <2>4, <3>1, <3>2 DEF RunTypeOK, Steps
  <2>6. CASE misses' = <<>>
    <3>1. step' = "write" /\ Len(misses') = 0
      BY <2>1, <2>6, EmptySeq
    <3>2. Len(outcomes') = Len(targets) /\ 1 \in DOMAIN outcomes'
      BY <1>1, <1>2, <2>2, <3>1
    <3>3. LocalsOK'
      BY <1>3, <2>1, <3>1, <3>2 DEF LocalsOK
    <3> QED  BY <1>1, <1>3, <2>1, <2>4, <3>1, <3>3 DEF RunTypeOK, Steps
  <2> QED  BY <2>5, <2>6
<1> QED  BY <1>4, <1>5

LEMMA MissedOK ==
  ASSUME RunTypeOK, step \in {"get", "check", "delete"}, Missed
  PROVE  RunTypeOK'
<1>1. /\ targets[i] \in Target /\ misses \in Seq(Target) /\ outcomes \in Seq(Outcome)
      /\ Len(misses) + Len(outcomes) = i - 1 /\ i \in Nat
      /\ Len(misses) \in Nat /\ Len(outcomes) \in Nat
  BY Lens DEF RunTypeOK, LocalsOK
<1>2. misses' = Append(misses, targets[i]) /\ outcomes' = outcomes /\ NextTarget
  BY DEF Missed
<1>3. misses' \in Seq(Target) /\ Len(misses') = Len(misses) + 1
  BY <1>1, <1>2, AppendProperties
<1> QED  BY <1>1, <1>2, <1>3, NextTargetOK

LEMMA HitOK ==
  ASSUME RunTypeOK, step = "check", AddOutcome(targets[i], item.verdict),
         UNCHANGED misses, NextTarget
  PROVE  RunTypeOK'
<1>1. /\ targets[i] \in Target /\ misses \in Seq(Target) /\ outcomes \in Seq(Outcome)
      /\ Len(misses) + Len(outcomes) = i - 1 /\ i \in Nat /\ item \in Item
      /\ Len(misses) \in Nat /\ Len(outcomes) \in Nat
  BY Lens DEF RunTypeOK, LocalsOK
<1>2. [contact |-> targets[i].contact, verdict |-> item.verdict] \in Outcome
  BY <1>1 DEF Target, Outcome, Item
<1>3. outcomes' \in Seq(Outcome) /\ Len(outcomes') = Len(outcomes) + 1
  BY <1>1, <1>2, AppendProperties DEF AddOutcome
<1> QED  BY <1>1, <1>3, NextTargetOK

\* A result of the engine joins the outcomes.
LEMMA PutOK ==
  ASSUME RunTypeOK, step = "put", AddOutcome(misses[i], results[i]), NextResult
  PROVE  RunTypeOK'
<1>1. /\ misses \in Seq(Target) /\ results \in Seq(Verdict \cup {None}) /\ outcomes \in Seq(Outcome)
      /\ Len(misses) \in Nat /\ Len(outcomes) \in Nat /\ Len(targets) \in Nat
      /\ targets \in Seq(Target) /\ Len(targets) <= Limit /\ i \in Nat \ {0}
  BY Lens DEF RunTypeOK
<1>2. /\ Len(results) = Len(misses) /\ misses # <<>> /\ i \in 1..Len(misses)
      /\ Len(outcomes) = Len(targets) - Len(misses) + i - 1
      /\ \A n \in DOMAIN results : results[n] # None
      /\ item = None
  BY <1>1, Lens DEF RunTypeOK, LocalsOK
<1>3. misses[i] \in Target /\ results[i] \in Verdict
  BY <1>1, <1>2, Lens
<1>4. [contact |-> misses[i].contact, verdict |-> results[i]] \in Outcome
  BY <1>3 DEF Target, Outcome
<1>5. outcomes' \in Seq(Outcome) /\ Len(outcomes') = Len(outcomes) + 1
  BY <1>1, <1>4, AppendProperties DEF AddOutcome
<1>6. UNCHANGED <<exit, targets, item, misses, results>>
  BY DEF NextResult
<1>7. CASE i < Len(misses)
  <2>1. i' = i + 1 /\ step' = "put"
    BY <1>7 DEF NextResult
  <2>2. i' \in DOMAIN misses' /\ Len(outcomes') = Len(targets) - Len(misses) + i' - 1
    BY <1>1, <1>2, <1>5, <1>6, <1>7, <2>1, Lens
  <2>3. LocalsOK'
    BY <1>2, <1>6, <2>1, <2>2 DEF LocalsOK
  <2> QED  BY <1>1, <1>5, <1>6, <2>1, <2>3 DEF RunTypeOK, Steps
<1>8. CASE ~(i < Len(misses))
  <2>1. i' = 1 /\ step' = "write" /\ i = Len(misses)
    BY <1>1, <1>2, <1>8 DEF NextResult
  <2>2. Len(outcomes') = Len(targets)
    BY <1>1, <1>2, <1>5, <2>1
  <2>3. 1 \in DOMAIN outcomes'
    <3>1. Len(outcomes') \in Nat /\ DOMAIN outcomes' = 1..Len(outcomes')
      BY <1>5, Lens
    <3> QED  BY <1>1, <1>5, <3>1
  <2>4. LocalsOK'
    BY <1>2, <1>6, <2>1, <2>2, <2>3 DEF LocalsOK
  <2> QED  BY <1>1, <1>5, <1>6, <2>1, <2>4 DEF RunTypeOK, Steps
<1> QED  BY <1>7, <1>8

\* What the search returns.
LEMMA FetchedOK ==
  ASSUME RunTypeOK, WorldTypeOK, NEW s \in FetchedContacts
  PROVE  /\ s \in Seq(Contacts) /\ Len(s) <= Limit
         /\ \A n \in 1..Len(s) : s[n] \in DueContacts
         /\ \A m, n \in 1..Len(s) : s[m] = s[n] => m = n
         /\ Len(s) = IF Cardinality(DueContacts) < Limit
                     THEN Cardinality(DueContacts) ELSE Limit
<1>1. DueContacts \subseteq Contacts /\ IsFiniteSet(DueContacts)
  BY FS_Subset DEF DueContacts
<1>2. Cardinality(DueContacts) \in Nat
  BY <1>1, FS_CardinalityType
<1>3. PICK k \in 0..Cardinality(DueContacts) : s \in [1..k -> DueContacts]
  BY DEF FetchedContacts
<1>4. s \in [1..k -> Contacts] /\ k \in Nat
  BY <1>1, <1>2, <1>3
<1>5. s \in Seq(Contacts) /\ Len(s) = k
  BY <1>4, FunSeq
<1>6. DOMAIN s = 1..Len(s)
  BY <1>3, <1>5
<1> QED  BY <1>2, <1>3, <1>5, <1>6 DEF FetchedContacts

LEMMA FetchOK == ASSUME TypeOK, Fetch PROVE RunTypeOK'
<1>0. RunTypeOK /\ WorldTypeOK /\ step = "fetch"
  BY Parts DEF Fetch
<1>1. PICK s \in FetchedContacts :
        IF s = <<>> THEN End("success")
        ELSE /\ targets' = [n \in DOMAIN s |-> [contact |-> s[n], addr |-> email[s[n]]]]
             /\ step' = "get"
             /\ UNCHANGED <<exit, i, item, misses, results, outcomes>>
  BY DEF Fetch
<1>2. CASE s = <<>>
  BY <1>0, <1>1, <1>2, EndOK
<1>3. CASE s # <<>>
  <2>1. s \in Seq(Contacts) /\ Len(s) <= Limit /\ Len(s) \in Nat /\ DOMAIN s = 1..Len(s)
        /\ \A n \in 1..Len(s) : s[n] \in Contacts
    BY <1>0, FetchedOK, Lens
  <2>2. Len(s) # 0
    BY <1>3, <2>1, EmptySeq
  <2>3. targets' \in [1..Len(s) -> Target]
    BY <1>0, <1>1, <1>3, <2>1 DEF Target, WorldTypeOK
  <2>4. targets' \in Seq(Target) /\ Len(targets') = Len(s) /\ DOMAIN targets' = 1..Len(s)
    BY <2>1, <2>3, FunSeq
  <2>5. /\ step' = "get" /\ UNCHANGED <<exit, i, item, misses, results, outcomes>>
        /\ i = 1 /\ misses = <<>> /\ outcomes = <<>> /\ item = None
    BY <1>0, <1>1, <1>3 DEF RunTypeOK, LocalsOK
  <2>6. i' \in DOMAIN targets' /\ Len(misses') + Len(outcomes') = i' - 1
    BY <2>1, <2>2, <2>4, <2>5, EmptySeq
  <2>7. LocalsOK'
    BY <2>5, <2>6 DEF LocalsOK
  <2> QED  BY <1>0, <2>1, <2>4, <2>5, <2>7 DEF RunTypeOK, Steps
<1> QED  BY <1>2, <1>3

LEMMA BeginOK == ASSUME TypeOK, Begin PROVE RunTypeOK'
<1>1. /\ <<>> \in Seq(Target) /\ <<>> \in Seq(Outcome) /\ <<>> \in Seq(Verdict \cup {None})
      /\ Len(<<>>) = 0
  BY EmptySeq
<1>2. LocalsOK'
  BY DEF Begin, LocalsOK
<1> QED  BY <1>1, <1>2, 0 <= Limit DEF Begin, RunTypeOK, Steps

LEMMA GetItemOK == ASSUME TypeOK, GetItem PROVE RunTypeOK'
<1>0. RunTypeOK /\ WorldTypeOK /\ step = "get"
  BY Parts DEF GetItem
<1>1. targets[i] \in Target /\ item = None
  BY <1>0, Lens DEF RunTypeOK, LocalsOK
<1> DEFINE row == table[targets[i].addr]
<1>2. row \in Item \cup {None}
  BY <1>0, <1>1 DEF Target, WorldTypeOK, StoreTypeOK
<1>3. CASE row = None
  BY <1>0, <1>3, MissedOK DEF GetItem
<1>4. CASE row # None
  <2>1. item' = row /\ step' = "check" /\ UNCHANGED <<exit, targets, i, misses, results, outcomes>>
    BY <1>4 DEF GetItem
  <2> HIDE DEF row
  <2>2. LocalsOK'
    BY <1>0, <1>4, <2>1 DEF LocalsOK, RunTypeOK
  <2> QED  BY <1>0, <1>2, <2>1, <2>2 DEF RunTypeOK, Steps
<1> QED  BY <1>3, <1>4

LEMMA CheckItemOK == ASSUME TypeOK, CheckItem PROVE RunTypeOK'
<1>0. RunTypeOK /\ step = "check"
  BY Parts DEF CheckItem
<1>1. CASE step' = "delete" /\ UNCHANGED <<exit, targets, i, item, misses, results, outcomes>>
  <2>1. LocalsOK'
    BY <1>0, <1>1 DEF LocalsOK, RunTypeOK
  <2> QED  BY <1>0, <1>1, <2>1 DEF RunTypeOK, Steps
<1>2. CASE End("failure")
  BY <1>0, <1>2, EndOK
<1>3. CASE Missed
  BY <1>0, <1>3, MissedOK
<1>4. CASE AddOutcome(targets[i], item.verdict) /\ UNCHANGED misses /\ NextTarget
  BY <1>0, <1>4, HitOK
<1> QED  BY <1>1, <1>2, <1>3, <1>4 DEF CheckItem

LEMMA VerifyOneOK == ASSUME TypeOK, NEW n \in DOMAIN results, VerifyOne(n) PROVE RunTypeOK'
<1>0. RunTypeOK /\ WorldTypeOK /\ step = "verify"
  BY Parts DEF VerifyOne
<1>1. PICK status \in Outcomes :
        results' = [results EXCEPT ![n] = [addr |-> misses[n].addr, status |-> status,
                                           at |-> now, by |-> misses[n].contact]]
  BY DEF VerifyOne
<1> DEFINE v == [addr |-> misses[n].addr, status |-> status, at |-> now, by |-> misses[n].contact]
<1>2. /\ results \in Seq(Verdict \cup {None}) /\ n \in 1..Len(results)
      /\ misses \in Seq(Target) /\ Len(results) = Len(misses)
  BY <1>0, Lens DEF RunTypeOK, LocalsOK
<1>3. misses[n] \in Target
  BY <1>2, Lens
<1>4. v \in Verdict
  BY <1>0, <1>3 DEF Verdict, Target, WorldTypeOK, StoreTypeOK
<1> HIDE DEF v
<1>5. results' \in Seq(Verdict \cup {None}) /\ Len(results') = Len(results)
  BY <1>1, <1>2, <1>4, ExceptSeq DEF v
<1>6. UNCHANGED <<step, exit, targets, i, item, misses, outcomes>>
  BY DEF VerifyOne
<1>7. LocalsOK'
  BY <1>0, <1>5, <1>6 DEF LocalsOK, RunTypeOK
<1> QED  BY <1>0, <1>5, <1>6, <1>7 DEF RunTypeOK

LEMMA VerifiedOK == ASSUME TypeOK, Verified PROVE RunTypeOK'
<1>0. RunTypeOK /\ step = "verify" /\ step' = "put"
      /\ UNCHANGED <<exit, targets, i, item, misses, results, outcomes>>
      /\ \A n \in DOMAIN results : results[n] # None
  BY Parts DEF Verified
<1>1. misses \in Seq(Target) /\ misses # <<>> /\ i = 1
  BY <1>0 DEF RunTypeOK, LocalsOK
<1>2. i \in DOMAIN misses
  <2>1. Len(misses) \in Nat \ {0} /\ DOMAIN misses = 1..Len(misses)
    BY <1>1, EmptySeq, Lens
  <2> QED  BY <1>1, <2>1
<1>3. LocalsOK'
  BY <1>0, <1>2 DEF LocalsOK, RunTypeOK
<1> QED  BY <1>0, <1>3 DEF RunTypeOK, Steps

LEMMA WriteChunkOK == ASSUME TypeOK, WriteChunk PROVE RunTypeOK'
<1>0. RunTypeOK /\ step = "write"
  BY Parts DEF WriteChunk
<1>1. CASE End("success")
  BY <1>0, <1>1, EndOK
<1>2. CASE /\ i + ChunkSize <= Len(outcomes) /\ i' = i + ChunkSize
           /\ UNCHANGED <<step, exit, targets, item, misses, results, outcomes>>
  <2>1. i' \in DOMAIN outcomes' /\ i' \in Nat \ {0}
    <3>1. i \in Nat \ {0} /\ Len(outcomes) \in Nat /\ DOMAIN outcomes = 1..Len(outcomes)
      BY <1>0, Lens DEF RunTypeOK
    <3> QED  BY <1>2, <3>1
  <2>2. LocalsOK'
    BY <1>0, <1>2, <2>1 DEF LocalsOK, RunTypeOK
  <2> QED  BY <1>0, <1>2, <2>1, <2>2 DEF RunTypeOK
<1> QED  BY <1>1, <1>2 DEF WriteChunk

LEMMA PutItemOK ==
  ASSUME StoreTypeOK, NEW v \in Verdict, PutItem(v), UNCHANGED now
  PROVE  StoreTypeOK'
<1>1. now + TTL \in Nat /\ [verdict |-> v, ttl |-> now + TTL, readable |-> TRUE] \in Item
  BY DEF StoreTypeOK, Item
<1> QED  BY <1>1 DEF PutItem, StoreTypeOK, Verdict

\* The results of the engine that are put, and those that are written back.
LEMMA PutResult ==
  ASSUME RunTypeOK, step = "put"
  PROVE  /\ misses[i] \in Target /\ results[i] \in Verdict /\ i \in DOMAIN misses
         /\ i \in DOMAIN results
<1>1. /\ misses \in Seq(Target) /\ results \in Seq(Verdict \cup {None})
      /\ Len(results) = Len(misses) /\ i \in DOMAIN misses
      /\ \A n \in DOMAIN results : results[n] # None
  BY DEF RunTypeOK, LocalsOK
<1> QED  BY <1>1, Lens

LEMMA OutcomeOK ==
  ASSUME RunTypeOK, NEW n \in DOMAIN outcomes
  PROVE  /\ outcomes[n] \in Outcome /\ outcomes[n].contact \in Contacts
         /\ outcomes[n].verdict \in Verdict
<1>1. outcomes[n] \in Outcome
  BY Lens DEF RunTypeOK
<1> QED  BY <1>1 DEF Outcome

LEMMA ApplyOK ==
  ASSUME RunTypeOK, WorldTypeOK, NEW P \in SUBSET DOMAIN outcomes, Apply(P)
  PROVE  written' \in [Contacts -> Verdict \cup {None}] /\ overtaken' \subseteq Contacts
<1>1. ASSUME NEW c \in Contacts, \E n \in P : outcomes[n].contact = c
      PROVE  outcomes[CHOOSE n \in P : outcomes[n].contact = c].verdict \in Verdict
  BY <1>1, OutcomeOK
<1> QED  BY <1>1 DEF Apply, WorldTypeOK

LEMMA LateOK ==
  ASSUME RunTypeOK, WorldTypeOK, LeaveLate
  PROVE  late' \subseteq Outcome /\ meddled' \in 0..MaxMeddling
<1>1. Chunk \subseteq DOMAIN outcomes
  BY DEF Chunk
<1> QED  BY <1>1, OutcomeOK, MaxMeddlingAssumption DEF LeaveLate, Meddle, WorldTypeOK

LEMMA NextTypeOK == ASSUME TypeOK, [Next]_vars PROVE TypeOK'
<1>0. RunTypeOK /\ WorldTypeOK
  BY Parts
<1> USE DEF cache, crm, hubspot, run
<1>1. CASE UNCHANGED vars
  BY <1>1 DEF vars, TypeOK, StoreTypeOK, LocalsOK
<1>2. ASSUME UNCHANGED <<now, cache, crm>> PROVE WorldTypeOK'
  BY <1>0, <1>2 DEF WorldTypeOK, StoreTypeOK
<1>3. CASE Begin
  BY <1>2, <1>3, BeginOK, Parts DEF Begin
<1>4. CASE Fetch
  BY <1>2, <1>4, FetchOK, Parts DEF Fetch
<1>5. CASE GetItem
  BY <1>2, <1>5, GetItemOK, Parts DEF GetItem
<1>6. CASE CheckItem
  BY <1>2, <1>6, CheckItemOK, Parts DEF CheckItem
<1>7. CASE RemoveExpired
  <2>1. RunTypeOK'
    BY <1>0, <1>7, MissedOK DEF RemoveExpired
  <2>2. StoreTypeOK'
    BY <1>0, <1>7 DEF RemoveExpired, DeleteItem, WorldTypeOK, StoreTypeOK
  <2> QED  BY <1>0, <1>7, <2>1, <2>2, Parts DEF RemoveExpired, WorldTypeOK
<1>8. ASSUME NEW n \in DOMAIN results, VerifyOne(n) PROVE TypeOK'
  BY <1>2, <1>8, VerifyOneOK, Parts DEF VerifyOne
<1>9. CASE Verified
  BY <1>2, <1>9, VerifiedOK, Parts DEF Verified
<1>10. ASSUME step = "put", Store(results[i]) \/ UNCHANGED cache, UNCHANGED <<now, crm>>
       PROVE  WorldTypeOK'
  <2>1. results[i] \in Verdict
    BY <1>0, <1>10, PutResult
  <2>2. StoreTypeOK' /\ stored' \subseteq Verdict
    BY <1>0, <1>10, <2>1, PutItemOK DEF Store, WorldTypeOK, StoreTypeOK
  <2> QED  BY <1>0, <1>10, <2>2 DEF WorldTypeOK
<1>11. CASE Put
  <2>1. RunTypeOK'
    BY <1>0, <1>11, PutOK, EndOK DEF Put
  <2> QED  BY <1>10, <1>11, <2>1, Parts DEF Put
<1>12. CASE PutFails
  BY <1>0, <1>10, <1>12, EndOK, Parts DEF PutFails
<1>13. CASE Fail
  BY <1>0, <1>2, <1>13, EndOK, Parts DEF Fail
<1>14. ASSUME NEW P \in SUBSET Chunk, Apply(P), LeaveLate, UNCHANGED <<now, cache, email>>
       PROVE  WorldTypeOK'
  <2>1. P \in SUBSET DOMAIN outcomes
    BY DEF Chunk
  <2> QED  BY <1>0, <1>14, <2>1, ApplyOK, LateOK DEF WorldTypeOK, StoreTypeOK
<1>15. CASE WriteChunk
  <2>1. Chunk \in SUBSET Chunk
    OBVIOUS
  <2> QED  BY <1>14, <1>15, <2>1, WriteChunkOK, Parts DEF WriteChunk
<1>16. CASE WriteFails
  <2>1. PICK P \in SUBSET Chunk : Apply(P)
    BY <1>16 DEF WriteFails
  <2> QED  BY <1>0, <1>14, <1>16, <2>1, EndOK, Parts DEF WriteFails
<1>17. ASSUME UNCHANGED run PROVE RunTypeOK'
  BY <1>0, <1>17 DEF RunTypeOK, LocalsOK
<1>18. CASE Server
  BY <1>0, <1>17, <1>18, Parts DEF Server, Tick, Reap, WorldTypeOK, StoreTypeOK
<1>19. ASSUME NEW r \in Requests \ Contacts, NEW a \in Addresses, OtherPut(r, a) PROVE TypeOK'
  <2>1. PICK status \in Outcomes, at \in 0..now :
          PutItem([addr |-> a, status |-> status, at |-> at, by |-> r])
    BY <1>19 DEF OtherPut
  <2>2. [addr |-> a, status |-> status, at |-> at, by |-> r] \in Verdict
    BY <1>0 DEF Verdict, WorldTypeOK, StoreTypeOK
  <2>3. StoreTypeOK'
    BY <1>0, <1>19, <2>1, <2>2, PutItemOK DEF OtherPut, WorldTypeOK
  <2>4. meddled' \in 0..MaxMeddling
    BY <1>0, <1>19, MaxMeddlingAssumption DEF OtherPut, Meddle, WorldTypeOK
  <2> QED  BY <1>0, <1>17, <1>19, <2>3, <2>4, Parts DEF OtherPut, WorldTypeOK
<1>20. ASSUME NEW c \in Contacts, NEW a \in Addresses, EditEmail(c, a) PROVE TypeOK'
  BY <1>0, <1>17, <1>20, MaxMeddlingAssumption, Parts
     DEF EditEmail, Meddle, WorldTypeOK, StoreTypeOK
<1>21. ASSUME NEW o \in late, TakeEffect(o) PROVE TypeOK'
  BY <1>0, <1>17, <1>21, Parts DEF TakeEffect, WorldTypeOK, StoreTypeOK, Outcome
<1> QED
  BY <1>1, <1>3, <1>4, <1>5, <1>6, <1>7, <1>8, <1>9, <1>11, <1>12, <1>13, <1>15, <1>16,
     <1>18, <1>19, <1>20, <1>21 DEF Next, Work, Failure, World

-----------------------------------------------------------------------------
(* What a run owes to whom. *)

Distinct == \A m, n \in 1..Len(targets) : targets[m].contact = targets[n].contact => m = n

\* The first k targets.
Known(k) == {targets[n] : n \in 1..k}

\* The contact of an outcome and the address that its result is about.
Pair(o) == [contact |-> o.contact, addr |-> o.verdict.addr]

\* The outcomes os and the misses ms from position j on are about the targets
\* T, each of them once.
Split(T, ms, j, os) ==
    /\ ms \in Seq(Target) /\ os \in Seq(Outcome) /\ j \in 1..(Len(ms) + 1)
    /\ T = {ms[n] : n \in j..Len(ms)} \cup {Pair(os[n]) : n \in 1..Len(os)}
    /\ \A m, n \in j..Len(ms) : ms[m].contact = ms[n].contact => m = n
    /\ \A m, n \in 1..Len(os) : os[m].contact = os[n].contact => m = n
    /\ \A m \in j..Len(ms), n \in 1..Len(os) : ms[m].contact # os[n].contact

Accounted ==
    /\ step \in {"get", "check", "delete"} => Split(Known(i - 1), misses, 1, outcomes)
    /\ step = "verify" => Split(Known(Len(targets)), misses, 1, outcomes)
    /\ step = "put" => Split(Known(Len(targets)), misses, i, outcomes)
    /\ step = "write" \/ (step = "idle" /\ exit = "success") =>
          Split(Known(Len(targets)), <<>>, 1, outcomes)

RunInv == Distinct /\ Accounted

LEMMA SplitMiss ==
  ASSUME NEW T, NEW ms, NEW os, NEW t \in Target, Split(T, ms, 1, os),
         \A u \in T : u.contact # t.contact
  PROVE  Split(T \cup {t}, Append(ms, t), 1, os)
<1>1. ms \in Seq(Target) /\ os \in Seq(Outcome) /\ Len(ms) \in Nat /\ Len(os) \in Nat
  BY Lens DEF Split
<1> DEFINE ns == Append(ms, t)
<1>2. /\ ns \in Seq(Target) /\ Len(ns) = Len(ms) + 1 /\ ns[Len(ms) + 1] = t
      /\ \A n \in 1..Len(ms) : ns[n] = ms[n]
  BY <1>1, AppendProperties
<1> HIDE DEF ns
<1>3. 1..Len(ns) = (1..Len(ms)) \cup {Len(ms) + 1}
  BY <1>1, <1>2
<1>4. {ns[n] : n \in 1..Len(ns)} = {ms[n] : n \in 1..Len(ms)} \cup {t}
  BY <1>2, <1>3
<1>5. T \cup {t} = {ns[n] : n \in 1..Len(ns)} \cup {Pair(os[n]) : n \in 1..Len(os)}
  BY <1>4 DEF Split
<1>6. /\ \A n \in 1..Len(ms) : ms[n].contact # t.contact
      /\ \A n \in 1..Len(os) : os[n].contact # t.contact
  <2>1. /\ \A n \in 1..Len(ms) : ms[n] \in T
        /\ \A n \in 1..Len(os) : Pair(os[n]) \in T
    BY DEF Split
  <2> QED  BY <2>1 DEF Pair
<1>7. \A m, n \in 1..Len(ns) : ns[m].contact = ns[n].contact => m = n
  BY <1>2, <1>3, <1>6 DEF Split
<1>8. \A m \in 1..Len(ns), n \in 1..Len(os) : ns[m].contact # os[n].contact
  BY <1>2, <1>3, <1>6 DEF Split
<1>9. Split(T \cup {t}, ns, 1, os)
  BY <1>1, <1>2, <1>5, <1>7, <1>8 DEF Split
<1> QED  BY <1>9 DEF ns

LEMMA SplitHit ==
  ASSUME NEW T, NEW ms, NEW os, NEW t \in Target, NEW v \in Verdict, Split(T, ms, 1, os),
         t.addr = v.addr, \A u \in T : u.contact # t.contact
  PROVE  Split(T \cup {t}, ms, 1, Append(os, [contact |-> t.contact, verdict |-> v]))
<1>1. ms \in Seq(Target) /\ os \in Seq(Outcome) /\ Len(ms) \in Nat /\ Len(os) \in Nat
  BY Lens DEF Split
<1> DEFINE o == [contact |-> t.contact, verdict |-> v]
           ps == Append(os, o)
<1>2. o \in Outcome /\ Pair(o) = t /\ o.contact = t.contact
  BY DEF Outcome, Target, Pair
<1> HIDE DEF o
<1>3. /\ ps \in Seq(Outcome) /\ Len(ps) = Len(os) + 1 /\ ps[Len(os) + 1] = o
      /\ \A n \in 1..Len(os) : ps[n] = os[n]
  BY <1>1, <1>2, AppendProperties
<1> HIDE DEF ps
<1>4. 1..Len(ps) = (1..Len(os)) \cup {Len(os) + 1}
  BY <1>1, <1>3
<1>5. {Pair(ps[n]) : n \in 1..Len(ps)} = {Pair(os[n]) : n \in 1..Len(os)} \cup {t}
  BY <1>2, <1>3, <1>4
<1>6. T \cup {t} = {ms[n] : n \in 1..Len(ms)} \cup {Pair(ps[n]) : n \in 1..Len(ps)}
  BY <1>5 DEF Split
<1>7. /\ \A n \in 1..Len(ms) : ms[n].contact # t.contact
      /\ \A n \in 1..Len(os) : os[n].contact # t.contact
  <2>1. /\ \A n \in 1..Len(ms) : ms[n] \in T
        /\ \A n \in 1..Len(os) : Pair(os[n]) \in T
    BY DEF Split
  <2> QED  BY <2>1 DEF Pair
<1>8. \A m, n \in 1..Len(ps) : ps[m].contact = ps[n].contact => m = n
  BY <1>2, <1>3, <1>4, <1>7 DEF Split
<1>9. ASSUME NEW m \in 1..Len(ms), NEW n \in 1..Len(ps)
      PROVE  ms[m].contact # ps[n].contact
  <2>1. CASE n \in 1..Len(os)
    BY <1>3, <2>1 DEF Split
  <2>2. CASE n = Len(os) + 1
    BY <1>2, <1>3, <1>7, <2>2
  <2> QED  BY <1>4, <2>1, <2>2
<1>10. Split(T \cup {t}, ms, 1, ps)
  BY <1>1, <1>3, <1>6, <1>8, <1>9 DEF Split
<1> QED  BY <1>10 DEF ps, o

LEMMA SplitPut ==
  ASSUME NEW T, NEW ms, NEW j, NEW os, NEW v \in Verdict, Split(T, ms, j, os),
         j <= Len(ms), ms[j].addr = v.addr
  PROVE  Split(T, ms, j + 1, Append(os, [contact |-> ms[j].contact, verdict |-> v]))
<1>1. /\ ms \in Seq(Target) /\ os \in Seq(Outcome) /\ Len(ms) \in Nat /\ Len(os) \in Nat
      /\ j \in 1..Len(ms) /\ j \in Nat
  BY Lens DEF Split
<1>2. ms[j] \in Target
  BY <1>1, Lens
<1> DEFINE o == [contact |-> ms[j].contact, verdict |-> v]
           ps == Append(os, o)
<1>3. o \in Outcome /\ Pair(o) = ms[j] /\ o.contact = ms[j].contact
  BY <1>2 DEF Outcome, Target, Pair
<1> HIDE DEF o
<1>4. /\ ps \in Seq(Outcome) /\ Len(ps) = Len(os) + 1 /\ ps[Len(os) + 1] = o
      /\ \A n \in 1..Len(os) : ps[n] = os[n]
  BY <1>1, <1>3, AppendProperties
<1> HIDE DEF ps
<1>5. /\ 1..Len(ps) = (1..Len(os)) \cup {Len(os) + 1}
      /\ j..Len(ms) = ((j + 1)..Len(ms)) \cup {j} /\ j \notin (j + 1)..Len(ms)
  BY <1>1, <1>4
<1>6. /\ {Pair(ps[n]) : n \in 1..Len(ps)} = {Pair(os[n]) : n \in 1..Len(os)} \cup {ms[j]}
      /\ {ms[n] : n \in j..Len(ms)} = {ms[n] : n \in (j + 1)..Len(ms)} \cup {ms[j]}
  BY <1>3, <1>4, <1>5
<1>7. T = {ms[n] : n \in (j + 1)..Len(ms)} \cup {Pair(ps[n]) : n \in 1..Len(ps)}
  BY <1>6 DEF Split
<1>8. \A n \in 1..Len(os) : os[n].contact # ms[j].contact
  BY <1>5 DEF Split
<1>9. \A m, n \in 1..Len(ps) : ps[m].contact = ps[n].contact => m = n
  BY <1>3, <1>4, <1>5, <1>8 DEF Split
<1>10. \A m, n \in (j + 1)..Len(ms) : ms[m].contact = ms[n].contact => m = n
  BY <1>5 DEF Split
<1>11. \A m \in (j + 1)..Len(ms), n \in 1..Len(ps) : ms[m].contact # ps[n].contact
  BY <1>3, <1>4, <1>5 DEF Split
<1>12. Split(T, ms, j + 1, ps)
  BY <1>1, <1>4, <1>7, <1>9, <1>10, <1>11 DEF Split
<1> QED  BY <1>12 DEF ps, o

\* When no misses are left there are only outcomes.
LEMMA SplitDone ==
  ASSUME NEW T, NEW ms, NEW os, Split(T, ms, Len(ms) + 1, os)
  PROVE  Split(T, <<>>, 1, os)
<1>1. <<>> \in Seq(Target) /\ Len(<<>>) = 0 /\ Len(ms) \in Nat
  BY EmptySeq, Lens DEF Split
<1>2. (Len(ms) + 1)..Len(ms) = {} /\ 1..Len(<<>>) = {}
  BY <1>1
<1> QED  BY <1>1, <1>2 DEF Split

LEMMA SplitNothing == Split({}, <<>>, 1, <<>>)
<1>1. <<>> \in Seq(Target) /\ <<>> \in Seq(Outcome) /\ Len(<<>>) = 0 /\ 1..0 = {}
  BY EmptySeq
<1> QED  BY <1>1 DEF Split

\* The target that the loop is at is not among the earlier ones.
LEMMA Current ==
  ASSUME RunTypeOK, RunInv, step \in {"get", "check", "delete"}
  PROVE  /\ i \in 1..Len(targets) /\ targets[i] \in Target
         /\ Known(i) = Known(i - 1) \cup {targets[i]}
         /\ \A u \in Known(i - 1) : u.contact # targets[i].contact
<1>1. i \in 1..Len(targets) /\ targets[i] \in Target /\ Len(targets) \in Nat
  BY Lens DEF RunTypeOK, LocalsOK
<1>2. 1..i = (1..(i - 1)) \cup {i} /\ i \notin 1..(i - 1) /\ 1..(i - 1) \subseteq 1..Len(targets)
  BY <1>1
<1>3. Known(i) = Known(i - 1) \cup {targets[i]}
  BY <1>2 DEF Known
<1>4. \A u \in Known(i - 1) : u.contact # targets[i].contact
  BY <1>1, <1>2 DEF Known, RunInv, Distinct
<1> QED  BY <1>1, <1>3, <1>4

LEMMA NextTargetInv ==
  ASSUME RunTypeOK, RunInv, step \in {"get", "check", "delete"}, NextTarget,
         Split(Known(i), misses', 1, outcomes')
  PROVE  RunInv'
<1>1. UNCHANGED targets /\ i \in 1..Len(targets) /\ Len(targets) \in Nat
  BY Current, Lens DEF NextTarget, RunTypeOK
<1>2. Distinct'
  BY <1>1 DEF RunInv, Distinct
<1>3. \A k : Known(k)' = Known(k)
  BY <1>1 DEF Known
<1>4. CASE i < Len(targets)
  <2>1. step' = "get" /\ i' - 1 = i
    BY <1>1, <1>4 DEF NextTarget
  <2> QED  BY <1>2, <1>3, <2>1 DEF RunInv, Accounted
<1>5. CASE ~(i < Len(targets))
  <2>1. i = Len(targets) /\ step' = IF misses' # <<>> THEN "verify" ELSE "write"
    BY <1>1, <1>5 DEF NextTarget
  <2>2. CASE misses' = <<>>
    BY <1>1, <1>2, <1>3, <2>1, <2>2 DEF RunInv, Accounted
  <2>3. CASE misses' # <<>>
    BY <1>1, <1>2, <1>3, <2>1, <2>3 DEF RunInv, Accounted
  <2> QED  BY <2>2, <2>3
<1> QED  BY <1>4, <1>5

LEMMA MissedInv ==
  ASSUME RunTypeOK, RunInv, step \in {"get", "check", "delete"}, Missed
  PROVE  RunInv'
<1>1. Split(Known(i - 1), misses, 1, outcomes)
  BY DEF RunInv, Accounted
<1>2. Split(Known(i), misses', 1, outcomes')
  BY <1>1, Current, SplitMiss DEF Missed
<1> QED  BY <1>2, NextTargetInv DEF Missed

LEMMA EndInv ==
  ASSUME RunTypeOK, RunInv, NEW code \in {"success", "failure"}, End(code),
         code = "success" => Split(Known(Len(targets)), <<>>, 1, outcomes)
  PROVE  RunInv'
<1>1. step' = "idle" /\ exit' = code
  BY DEF End
<1>2. CASE code = "success"
  <2>1. UNCHANGED <<targets, outcomes>>
    BY <1>2 DEF End
  <2> QED  BY <1>1, <1>2, <2>1 DEF RunInv, Distinct, Accounted, Known
<1>3. CASE code = "failure"
  <2>1. targets' = <<>> /\ 1..Len(<<>>) = {}
    BY <1>3, EmptySeq DEF End
  <2> QED  BY <1>1, <1>3, <2>1 DEF RunInv, Distinct, Accounted
<1> QED  BY <1>2, <1>3

LEMMA FetchInv == ASSUME TypeOK, RunInv, Fetch PROVE RunInv'
<1>0. RunTypeOK /\ WorldTypeOK /\ step = "fetch"
  BY Parts DEF Fetch
<1>1. PICK s \in FetchedContacts :
        IF s = <<>> THEN End("success")
        ELSE /\ targets' = [n \in DOMAIN s |-> [contact |-> s[n], addr |-> email[s[n]]]]
             /\ step' = "get"
             /\ UNCHANGED <<exit, i, item, misses, results, outcomes>>
  BY DEF Fetch
<1>2. /\ targets = <<>> /\ misses = <<>> /\ outcomes = <<>> /\ i = 1 /\ Len(<<>>) = 0
      /\ Known(0) = {}
  BY <1>0, EmptySeq DEF RunTypeOK, LocalsOK, Known
<1>3. CASE s = <<>>
  BY <1>0, <1>1, <1>2, <1>3, EndInv, SplitNothing
<1>4. CASE s # <<>>
  <2>1. /\ DOMAIN s = 1..Len(s) /\ Len(s) \in Nat /\ \A n \in 1..Len(s) : s[n] \in Contacts
        /\ \A m, n \in 1..Len(s) : s[m] = s[n] => m = n
    BY <1>0, FetchedOK, Lens
  <2>2. targets' \in [1..Len(s) -> Target]
    BY <1>0, <1>1, <1>4, <2>1 DEF Target, WorldTypeOK
  <2>3. Len(targets') = Len(s)
    BY <2>1, <2>2, FunSeq
  <2>4. Distinct'
    BY <1>1, <1>4, <2>1, <2>3 DEF Distinct
  <2>5. i' - 1 = 0 /\ misses' = <<>> /\ outcomes' = <<>> /\ step' = "get"
    BY <1>1, <1>2, <1>4
  <2>6. Known(i - 1)' = {}
    BY <2>5 DEF Known
  <2>7. Split(Known(i - 1)', misses', 1, outcomes')
    BY <2>5, <2>6, SplitNothing
  <2>8. Accounted'
    BY <2>5, <2>7 DEF Accounted
  <2> QED  BY <2>4, <2>8 DEF RunInv
<1> QED  BY <1>3, <1>4

LEMMA CheckItemInv == ASSUME TypeOK, RunInv, CheckItem PROVE RunInv'
<1>0. RunTypeOK /\ step = "check"
  BY Parts DEF CheckItem
<1>1. CASE step' = "delete" /\ UNCHANGED <<exit, targets, i, item, misses, results, outcomes>>
  BY <1>0, <1>1 DEF RunInv, Distinct, Accounted, Known
<1>2. CASE End("failure")
  BY <1>0, <1>2, EndInv
<1>3. CASE Missed
  BY <1>0, <1>3, MissedInv
<1>4. CASE /\ Paired(targets[i], item.verdict) /\ AddOutcome(targets[i], item.verdict)
           /\ UNCHANGED misses /\ NextTarget
  <2>1. Split(Known(i - 1), misses, 1, outcomes) /\ item.verdict \in Verdict
    BY <1>0 DEF RunInv, Accounted, RunTypeOK, LocalsOK, Item
  <2>2. Split(Known(i), misses', 1, outcomes')
    BY <1>0, <1>4, <2>1, Current, SplitHit DEF Paired, AddOutcome
  <2> QED  BY <1>0, <1>4, <2>2, NextTargetInv
<1> QED  BY <1>1, <1>2, <1>3, <1>4 DEF CheckItem

LEMMA PutInv ==
  ASSUME RunTypeOK, RunInv, step = "put", Paired(misses[i], results[i]),
         AddOutcome(misses[i], results[i]), NextResult
  PROVE  RunInv'
<1>1. /\ i \in 1..Len(misses) /\ results[i] \in Verdict /\ misses \in Seq(Target)
      /\ Len(misses) \in Nat
  BY PutResult, Lens DEF RunTypeOK
<1>2. Split(Known(Len(targets)), misses, i + 1, outcomes')
  <2>1. Split(Known(Len(targets)), misses, i, outcomes) /\ misses[i].addr = results[i].addr
    BY DEF RunInv, Accounted, Paired
  <2>2. outcomes' = Append(outcomes, [contact |-> misses[i].contact, verdict |-> results[i]])
    BY DEF AddOutcome
  <2>3. i <= Len(misses)
    BY <1>1
  <2>4. Split(Known(Len(targets)), misses, i + 1,
              Append(outcomes, [contact |-> misses[i].contact, verdict |-> results[i]]))
    BY <1>1, <2>1, <2>3, SplitPut
  <2> QED  BY <2>2, <2>4
<1>3. UNCHANGED <<exit, targets, misses>>
  BY DEF NextResult
<1>4. Distinct' /\ \A k : Known(k)' = Known(k)
  BY <1>3 DEF RunInv, Distinct, Known
<1>5. CASE i < Len(misses)
  <2>1. i' = i + 1 /\ step' = "put"
    BY <1>5 DEF NextResult
  <2> QED  BY <1>2, <1>3, <1>4, <2>1 DEF RunInv, Accounted
<1>6. CASE ~(i < Len(misses))
  <2>1. step' = "write" /\ i + 1 = Len(misses) + 1
    BY <1>1, <1>6 DEF NextResult
  <2>2. Split(Known(Len(targets)), <<>>, 1, outcomes')
    BY <1>2, <2>1, SplitDone
  <2> QED  BY <1>3, <1>4, <2>1, <2>2 DEF RunInv, Accounted
<1> QED  BY <1>5, <1>6

LEMMA NextRunInv == ASSUME TypeOK, RunInv, [Next]_vars PROVE RunInv'
<1>0. RunTypeOK /\ WorldTypeOK
  BY Parts
<1>1. CASE UNCHANGED run
  BY <1>1 DEF run, RunInv, Distinct, Accounted, Known
<1>2. CASE Begin
  <2>1. step' = "fetch" /\ targets' = <<>> /\ 1..Len(<<>>) = {}
    BY <1>2, EmptySeq DEF Begin
  <2> QED  BY <2>1 DEF RunInv, Distinct, Accounted
<1>3. CASE Fetch
  BY <1>3, FetchInv
<1>4. CASE GetItem
  <2>1. CASE Missed
    BY <1>0, <1>4, <2>1, MissedInv DEF GetItem
  <2>2. CASE step' = "check" /\ UNCHANGED <<exit, targets, i, misses, results, outcomes>>
    BY <1>4, <2>2 DEF GetItem, RunInv, Distinct, Accounted, Known
  <2> QED  BY <1>4, <2>1, <2>2 DEF GetItem
<1>5. CASE CheckItem
  BY <1>5, CheckItemInv
<1>6. CASE RemoveExpired
  BY <1>0, <1>6, MissedInv DEF RemoveExpired
<1>7. ASSUME NEW n \in DOMAIN results, VerifyOne(n) PROVE RunInv'
  BY <1>7 DEF VerifyOne, RunInv, Distinct, Accounted, Known
<1>8. CASE Verified
  <2>1. step = "verify" /\ step' = "put" /\ i = 1
    BY <1>0, <1>8 DEF Verified, RunTypeOK, LocalsOK
  <2> QED  BY <1>8, <2>1 DEF Verified, RunInv, Distinct, Accounted, Known
<1>9. CASE Put
  <2>1. CASE End("failure")
    BY <1>0, <2>1, EndInv
  <2> QED  BY <1>0, <1>9, <2>1, PutInv DEF Put
<1>10. CASE End("failure")
  BY <1>0, <1>10, EndInv
<1>11. CASE WriteChunk
  <2>1. Split(Known(Len(targets)), <<>>, 1, outcomes) /\ step = "write"
    BY <1>11 DEF WriteChunk, RunInv, Accounted
  <2>2. CASE End("success")
    BY <1>0, <2>1, <2>2, EndInv
  <2>3. CASE UNCHANGED <<step, exit, targets, item, misses, results, outcomes>>
    BY <2>1, <2>3 DEF RunInv, Distinct, Accounted, Known
  <2> QED  BY <1>11, <2>2, <2>3 DEF WriteChunk
<1>12. CASE Failure
  BY <1>10, <1>12 DEF Failure, Fail, PutFails, WriteFails
<1>13. CASE World
  BY <1>1, <1>13 DEF World, Server, OtherPut, EditEmail, TakeEffect
<1>14. CASE UNCHANGED vars
  BY <1>1, <1>14 DEF vars, run
<1> QED
  BY <1>2, <1>3, <1>4, <1>5, <1>6, <1>7, <1>8, <1>9, <1>11, <1>12, <1>13, <1>14
     DEF Next, Work

-----------------------------------------------------------------------------
(* Where results come from. *)

\* At time t, a result is not of the future, and if a run found it and it is
\* definitive, it was put into the cache, as st tells.
SoundAt(v, t, st) ==
    /\ v.at <= t
    /\ DefinitiveStatus(v.status) /\ v.by \in Contacts => v \in st
Sound(v) == SoundAt(v, now, stored)

TableSound == \A a \in Addresses : table[a] # None => Sound(table[a].verdict)
ItemSound == item # None => Sound(item.verdict)
ResultsDated == \A n \in 1..Len(results) : results[n] # None => results[n].at <= now
OutcomesSound == \A n \in 1..Len(outcomes) : Sound(outcomes[n].verdict)
WrittenSound == \A c \in Contacts : written[c] # None => Sound(written[c])
LateSound == \A o \in late : Sound(o.verdict)

SoundInv ==
    /\ TableSound /\ ItemSound /\ ResultsDated
    /\ OutcomesSound /\ WrittenSound /\ LateSound

\* What does not make a sound thing unsound.
LEMMA SoundKept ==
  ASSUME SoundInv, now \in Nat, now' \in Nat, now <= now', stored \subseteq stored',
         RunTypeOK, WorldTypeOK
  PROVE  /\ (\A a \in Addresses : table'[a] \in {table[a], None}) => TableSound'
         /\ item' \in {item, None} => ItemSound'
         /\ UNCHANGED results \/ results' = <<>> => ResultsDated'
         /\ UNCHANGED outcomes \/ outcomes' = <<>> => OutcomesSound'
         /\ UNCHANGED written => WrittenSound'
         /\ UNCHANGED late => LateSound'
<1>1. ASSUME NEW v \in Verdict, Sound(v) PROVE SoundAt(v, now', stored')
  <2>1. v.at \in Nat
    BY DEF Verdict
  <2> QED  BY <1>1, <2>1 DEF Sound, SoundAt
<1>2. ASSUME \A a \in Addresses : table'[a] \in {table[a], None} PROVE TableSound'
  <2>1. ASSUME NEW a \in Addresses, table'[a] # None
        PROVE  SoundAt(table'[a].verdict, now', stored')
    <3>1. table'[a] = table[a] /\ table[a].verdict \in Verdict /\ Sound(table[a].verdict)
      BY <1>2, <2>1 DEF SoundInv, TableSound, WorldTypeOK, StoreTypeOK, Item
    <3> QED  BY <1>1, <3>1
  <2> QED  BY <2>1 DEF TableSound, Sound
<1>3. ASSUME item' \in {item, None} PROVE ItemSound'
  <2>1. ASSUME item' # None PROVE SoundAt(item'.verdict, now', stored')
    <3>1. item' = item /\ item.verdict \in Verdict /\ Sound(item.verdict)
      BY <1>3, <2>1 DEF SoundInv, ItemSound, RunTypeOK, Item
    <3> QED  BY <1>1, <3>1
  <2> QED  BY <2>1 DEF ItemSound, Sound
<1>4. ASSUME UNCHANGED results \/ results' = <<>> PROVE ResultsDated'
  <2>1. CASE results' = <<>>
    <3>1. 1..Len(<<>>) = {}
      BY EmptySeq
    <3> QED  BY <2>1, <3>1 DEF ResultsDated
  <2>2. CASE UNCHANGED results
    <3>1. \A n \in 1..Len(results) : results[n] # None => results[n].at \in Nat
      BY Lens DEF RunTypeOK, Verdict
    <3> QED  BY <2>2, <3>1 DEF SoundInv, ResultsDated
  <2> QED  BY <1>4, <2>1, <2>2
<1>5. ASSUME UNCHANGED outcomes \/ outcomes' = <<>> PROVE OutcomesSound'
  <2>1. CASE outcomes' = <<>>
    <3>1. 1..Len(<<>>) = {}
      BY EmptySeq
    <3> QED  BY <2>1, <3>1 DEF OutcomesSound
  <2>2. CASE UNCHANGED outcomes
    <3>1. ASSUME NEW n \in 1..Len(outcomes)
          PROVE  SoundAt(outcomes[n].verdict, now', stored')
      <4>1. n \in DOMAIN outcomes
        BY Lens DEF RunTypeOK
      <4>2. outcomes[n].verdict \in Verdict /\ Sound(outcomes[n].verdict)
        BY <4>1, OutcomeOK DEF SoundInv, OutcomesSound
      <4> QED  BY <1>1, <4>2
    <3> QED  BY <2>2, <3>1 DEF OutcomesSound, Sound
  <2> QED  BY <1>5, <2>1, <2>2
<1>6. ASSUME UNCHANGED written PROVE WrittenSound'
  <2>1. ASSUME NEW c \in Contacts, written[c] # None PROVE SoundAt(written[c], now', stored')
    <3>1. written[c] \in Verdict /\ Sound(written[c])
      BY <2>1 DEF SoundInv, WrittenSound, WorldTypeOK
    <3> QED  BY <1>1, <3>1
  <2> QED  BY <1>6, <2>1 DEF WrittenSound, Sound
<1>7. ASSUME UNCHANGED late PROVE LateSound'
  <2>1. ASSUME NEW o \in late PROVE SoundAt(o.verdict, now', stored')
    <3>1. o.verdict \in Verdict /\ Sound(o.verdict)
      BY DEF SoundInv, LateSound, WorldTypeOK, Outcome
    <3> QED  BY <1>1, <3>1
  <2> QED  BY <1>7, <2>1 DEF LateSound, Sound
<1> QED  BY <1>2, <1>3, <1>4, <1>5, <1>6, <1>7

LEMMA NextTargetDated ==
  ASSUME RunTypeOK, RunTypeOK', ResultsDated, UNCHANGED now, NextTarget
  PROVE  ResultsDated'
<1>1. CASE UNCHANGED results
  BY <1>1 DEF ResultsDated
<1>2. CASE results' = [n \in DOMAIN misses' |-> None]
  <2>1. /\ results' \in Seq(Verdict \cup {None}) /\ misses' \in Seq(Target)
    BY DEF RunTypeOK
  <2>2. DOMAIN results' = 1..Len(results') /\ DOMAIN results' = DOMAIN misses'
    BY <1>2, <2>1, Lens
  <2>3. \A n \in 1..Len(results') : results'[n] = None
    BY <1>2, <2>2
  <2> QED  BY <2>3 DEF ResultsDated
<1> QED  BY <1>1, <1>2 DEF NextTarget

\* A sound result joins the outcomes.
LEMMA SoundAppended ==
  ASSUME RunTypeOK, NEW target \in Target, NEW v \in Verdict, AddOutcome(target, v),
         NEW t \in Nat, NEW st, SoundAt(v, t, st),
         \A n \in 1..Len(outcomes) : SoundAt(outcomes[n].verdict, t, st)
  PROVE  \A n \in 1..Len(outcomes') : SoundAt(outcomes'[n].verdict, t, st)
<1> DEFINE o == [contact |-> target.contact, verdict |-> v]
<1>1. outcomes \in Seq(Outcome) /\ Len(outcomes) \in Nat /\ o \in Outcome /\ o.verdict = v
  BY Lens DEF RunTypeOK, Outcome, Target
<1> HIDE DEF o
<1>2. /\ outcomes' = Append(outcomes, o)
      /\ Len(outcomes') = Len(outcomes) + 1
      /\ outcomes'[Len(outcomes) + 1] = o
      /\ \A n \in 1..Len(outcomes) : outcomes'[n] = outcomes[n]
  BY <1>1, AppendProperties DEF AddOutcome, o
<1>3. ASSUME NEW n \in 1..Len(outcomes') PROVE SoundAt(outcomes'[n].verdict, t, st)
  <2>1. CASE n \in 1..Len(outcomes)
    BY <1>2, <2>1
  <2>2. CASE n = Len(outcomes) + 1
    BY <1>1, <1>2, <2>2
  <2> QED  BY <1>1, <1>2, <2>1, <2>2
<1> QED  BY <1>3

\* What a call to HubSpot writes, or leaves to be written.
LEMMA WriteSound ==
  ASSUME RunTypeOK, WorldTypeOK, SoundInv, UNCHANGED <<now, stored>>,
         NEW P \in SUBSET Chunk, Apply(P), LeaveLate
  PROVE  WrittenSound' /\ LateSound'
<1>1. \A n \in Chunk : SoundAt(outcomes[n].verdict, now, stored)
  <2>1. \A n \in Chunk : n \in 1..Len(outcomes)
    BY Lens DEF RunTypeOK, Chunk
  <2> QED  BY <2>1 DEF SoundInv, OutcomesSound, Sound
<1>2. ASSUME NEW c \in Contacts, written'[c] # None
      PROVE  SoundAt(written'[c], now, stored)
  <2>1. CASE \E n \in P : outcomes[n].contact = c
    <3>1. PICK n \in P : written'[c] = outcomes[n].verdict
      BY <2>1 DEF Apply
    <3> QED  BY <1>1, <3>1
  <2>2. CASE ~\E n \in P : outcomes[n].contact = c
    <3>1. written'[c] = written[c]
      BY <2>2 DEF Apply
    <3> QED  BY <1>2, <3>1 DEF SoundInv, WrittenSound, Sound
  <2> QED  BY <2>1, <2>2
<1>3. \A o \in late' : SoundAt(o.verdict, now, stored)
  BY <1>1 DEF LeaveLate, SoundInv, LateSound, Sound
<1> QED  BY <1>2, <1>3 DEF WrittenSound, LateSound, Sound

LEMMA PutItemSound ==
  ASSUME WorldTypeOK, NEW v \in Verdict, PutItem(v), NEW t \in Nat, NEW st, SoundAt(v, t, st),
         \A a \in Addresses : table[a] # None => SoundAt(table[a].verdict, t, st)
  PROVE  \A a \in Addresses : table'[a] # None => SoundAt(table'[a].verdict, t, st)
<1> DEFINE row == [verdict |-> v, ttl |-> now + TTL, readable |-> TRUE]
<1>1. row.verdict = v
  OBVIOUS
<1> HIDE DEF row
<1>2. \A a \in Addresses : table'[a] = IF a = v.addr THEN row ELSE table[a]
  BY DEF PutItem, row, WorldTypeOK, StoreTypeOK
<1> QED  BY <1>1, <1>2

\* Others store results of their own.
LEMMA OthersSound ==
  ASSUME TypeOK, SoundInv, NEW r \in Requests \ Contacts, NEW a \in Addresses, OtherPut(r, a)
  PROVE  TableSound'
<1>0. WorldTypeOK
  BY Parts
<1>1. PICK status \in Outcomes, at \in 0..now :
        PutItem([addr |-> a, status |-> status, at |-> at, by |-> r])
  BY DEF OtherPut
<1> DEFINE v == [addr |-> a, status |-> status, at |-> at, by |-> r]
<1>2. v \in Verdict /\ now \in Nat
  BY <1>0 DEF Verdict, WorldTypeOK, StoreTypeOK
<1>3. SoundAt(v, now, stored)
  BY <1>2 DEF SoundAt
<1>4. PutItem(v) /\ UNCHANGED <<now, stored>>
  BY <1>1 DEF OtherPut
<1> HIDE DEF v
<1> QED  BY <1>0, <1>2, <1>3, <1>4, PutItemSound DEF SoundInv, TableSound, Sound

\* A run stores a result of its own, or has none to store.
LEMMA StoreSound ==
  ASSUME TypeOK, SoundInv, step = "put", UNCHANGED now,
         IF DefinitiveStatus(results[i].status) THEN Store(results[i]) ELSE UNCHANGED cache
  PROVE  TableSound' /\ SoundAt(results[i], now, stored') /\ stored \subseteq stored'
<1>0. RunTypeOK /\ WorldTypeOK
  BY Parts
<1> DEFINE v == results[i]
<1>1. v \in Verdict /\ v.at <= now
  <2>1. i \in 1..Len(results) /\ v \in Verdict
    BY <1>0, PutResult, Lens DEF RunTypeOK
  <2>2. v # None
    BY <1>0, <2>1 DEF RunTypeOK, LocalsOK
  <2> QED  BY <2>1, <2>2 DEF SoundInv, ResultsDated
<1>2. now \in Nat /\ \A a \in Addresses : table[a] # None => SoundAt(table[a].verdict, now, stored)
  BY <1>0 DEF SoundInv, TableSound, Sound, WorldTypeOK, StoreTypeOK
<1> HIDE DEF v
<1>3. CASE DefinitiveStatus(v.status)
  <2>1. PutItem(v) /\ stored' = stored \cup {v}
    BY <1>3 DEF Store, v
  <2>2. SoundAt(v, now, stored')
    BY <1>1, <2>1 DEF SoundAt
  <2>3. \A a \in Addresses : table[a] # None => SoundAt(table[a].verdict, now, stored')
    BY <1>2, <2>1 DEF SoundAt
  <2>4. \A a \in Addresses : table'[a] # None => SoundAt(table'[a].verdict, now, stored')
    BY <1>0, <1>1, <1>2, <2>1, <2>2, <2>3, PutItemSound
  <2> QED  BY <2>1, <2>2, <2>4 DEF TableSound, Sound, v
<1>4. CASE ~DefinitiveStatus(v.status)
  <2>1. UNCHANGED <<table, stored>>
    BY <1>4 DEF v, cache
  <2> QED  BY <1>1, <1>2, <1>4, <2>1 DEF TableSound, Sound, SoundAt, v
<1> QED  BY <1>3, <1>4

LEMMA NextSound == ASSUME TypeOK, TypeOK', SoundInv, [Next]_vars PROVE SoundInv'
<1>0. RunTypeOK /\ WorldTypeOK /\ RunTypeOK' /\ now \in Nat /\ now' \in Nat
  BY Parts DEF WorldTypeOK, StoreTypeOK
<1>a. (now <= now' /\ stored \subseteq stored') =>
             /\ (\A a \in Addresses : table'[a] \in {table[a], None}) => TableSound'
             /\ item' \in {item, None} => ItemSound'
             /\ UNCHANGED results \/ results' = <<>> => ResultsDated'
             /\ UNCHANGED outcomes \/ outcomes' = <<>> => OutcomesSound'
             /\ UNCHANGED written => WrittenSound'
             /\ UNCHANGED late => LateSound'
  BY <1>0, SoundKept
<1> USE DEF cache, crm, hubspot, run
<1>1. CASE UNCHANGED vars
  <2>1. now <= now' /\ UNCHANGED <<now, cache, crm, item, results, outcomes>>
    BY <1>0, <1>1 DEF vars
  <2> QED  BY <1>a, <2>1 DEF SoundInv
\* The run works on what it has.
<1>2. ASSUME UNCHANGED <<now, stored, crm>>,
             \A a \in Addresses : table'[a] \in {table[a], None}
      PROVE  /\ TableSound' /\ WrittenSound' /\ LateSound'
             /\ item' \in {item, None} => ItemSound'
             /\ UNCHANGED results \/ results' = <<>> => ResultsDated'
             /\ UNCHANGED outcomes \/ outcomes' = <<>> => OutcomesSound'
  BY <1>0, <1>a, <1>2
<1>3. ASSUME UNCHANGED <<now, stored, crm>>,
             \A a \in Addresses : table'[a] \in {table[a], None}, NEW code, End(code)
      PROVE  SoundInv'
  <2>1. item' = None /\ results' = <<>> /\ (UNCHANGED outcomes \/ outcomes' = <<>>)
    BY <1>3 DEF End
  <2> QED  BY <1>2, <1>3, <2>1 DEF SoundInv
<1>4. ASSUME UNCHANGED <<now, stored, crm>>,
             \A a \in Addresses : table'[a] \in {table[a], None}, Missed
      PROVE  SoundInv'
  <2>1. item' = None /\ UNCHANGED outcomes /\ NextTarget
    BY <1>4 DEF Missed, NextTarget
  <2>2. ResultsDated'
    BY <1>0, <1>4, <2>1, NextTargetDated DEF SoundInv
  <2> QED  BY <1>2, <1>4, <2>1, <2>2 DEF SoundInv
<1>5. CASE Begin
  BY <1>2, <1>5 DEF Begin, SoundInv
<1>6. CASE Fetch
  <2>1. CASE End("success")
    BY <1>3, <1>6, <2>1 DEF Fetch
  <2>2. CASE UNCHANGED <<exit, i, item, misses, results, outcomes>>
    BY <1>2, <1>6, <2>2 DEF Fetch, SoundInv
  <2> QED  BY <1>6, <2>1, <2>2 DEF Fetch
<1>7. CASE GetItem
  <2>1. CASE Missed
    BY <1>4, <1>7, <2>1 DEF GetItem
  <2>2. CASE ~Missed
    <3>1. /\ item' = table[targets[i].addr] /\ item' # None
          /\ UNCHANGED <<exit, targets, i, misses, results, outcomes>>
      BY <1>7, <2>2 DEF GetItem
    <3>2. targets[i].addr \in Addresses
      <4>1. targets[i] \in Target
        BY <1>0, <1>7, Lens DEF GetItem, RunTypeOK, LocalsOK
      <4> QED  BY <4>1 DEF Target
    <3>3. SoundAt(item'.verdict, now, stored)
      BY <3>1, <3>2 DEF SoundInv, TableSound, Sound
    <3>4. ItemSound'
      BY <1>7, <3>3 DEF GetItem, ItemSound, Sound
    <3> QED  BY <1>2, <1>7, <3>1, <3>4 DEF GetItem, SoundInv
  <2> QED  BY <2>1, <2>2
<1>8. CASE CheckItem
  <2>0. step = "check" /\ UNCHANGED <<now, cache, crm>>
    BY <1>8 DEF CheckItem
  <2>1. CASE UNCHANGED <<exit, targets, i, item, misses, results, outcomes>>
    BY <1>2, <2>0, <2>1 DEF SoundInv
  <2>2. CASE End("failure")
    BY <1>3, <2>0, <2>2
  <2>3. CASE Missed
    BY <1>4, <2>0, <2>3
  <2>4. CASE AddOutcome(targets[i], item.verdict) /\ NextTarget
    <3>1. item' = None
      BY <2>4 DEF NextTarget
    <3>2. ResultsDated'
      BY <1>0, <2>0, <2>4, NextTargetDated DEF SoundInv
    <3>3. /\ targets[i] \in Target /\ item.verdict \in Verdict
          /\ SoundAt(item.verdict, now, stored)
      BY <1>0, <2>0, Lens DEF RunTypeOK, LocalsOK, Item, SoundInv, ItemSound, Sound
    <3>4. \A n \in 1..Len(outcomes) : SoundAt(outcomes[n].verdict, now, stored)
      BY DEF SoundInv, OutcomesSound, Sound
    <3>5. \A n \in 1..Len(outcomes') : SoundAt(outcomes'[n].verdict, now, stored)
      BY <1>0, <2>4, <3>3, <3>4, SoundAppended
    <3>6. OutcomesSound'
      BY <2>0, <3>5 DEF OutcomesSound, Sound
    <3> QED  BY <1>2, <2>0, <3>1, <3>2, <3>6 DEF SoundInv
  <2> QED  BY <1>8, <2>1, <2>2, <2>3, <2>4 DEF CheckItem
<1>9. CASE RemoveExpired
  <2>1. \A a \in Addresses : table'[a] \in {table[a], None}
    BY <1>0, <1>9 DEF RemoveExpired, DeleteItem, WorldTypeOK, StoreTypeOK
  <2> QED  BY <1>4, <1>9, <2>1 DEF RemoveExpired
<1>10. ASSUME NEW n \in DOMAIN results, VerifyOne(n) PROVE SoundInv'
  <2>1. PICK status \in Outcomes :
          results' = [results EXCEPT ![n] = [addr |-> misses[n].addr, status |-> status,
                                             at |-> now, by |-> misses[n].contact]]
    BY <1>10 DEF VerifyOne
  <2>2. results \in Seq(Verdict \cup {None}) /\ results' \in Seq(Verdict \cup {None})
        /\ DOMAIN results' = DOMAIN results
    BY <1>0, <2>1 DEF RunTypeOK
  <2>3. DOMAIN results = 1..Len(results) /\ DOMAIN results' = 1..Len(results')
    BY <2>2, Lens
  <2>4. \A m \in 1..Len(results') :
          \/ results'[m] = results[m] /\ m \in 1..Len(results)
          \/ results'[m].at = now
    BY <2>1, <2>2, <2>3
  <2>5. \A m \in 1..Len(results') : results'[m] # None => results'[m].at <= now
    BY <1>0, <2>4 DEF SoundInv, ResultsDated
  <2>6. ResultsDated'
    BY <1>10, <2>5 DEF VerifyOne, ResultsDated
  <2> QED  BY <1>2, <1>10, <2>6 DEF VerifyOne, SoundInv
<1>11. CASE Verified
  BY <1>2, <1>11 DEF Verified, SoundInv
\* It stores what it found.
<1>12. ASSUME step = "put", UNCHANGED <<now, crm>>,
              IF DefinitiveStatus(results[i].status) THEN Store(results[i])
                                                     ELSE UNCHANGED cache
       PROVE  /\ TableSound' /\ WrittenSound' /\ LateSound'
              /\ item' \in {item, None} => ItemSound'
              /\ UNCHANGED results \/ results' = <<>> => ResultsDated'
              /\ UNCHANGED outcomes \/ outcomes' = <<>> => OutcomesSound'
              /\ SoundAt(results[i], now, stored') /\ stored \subseteq stored'
  BY <1>0, <1>a, <1>12, StoreSound
<1>13. ASSUME step = "put", UNCHANGED <<now, crm>>, End("failure"),
              IF DefinitiveStatus(results[i].status) THEN Store(results[i])
                                                     ELSE UNCHANGED cache
       PROVE  SoundInv'
  <2>1. item' = None /\ results' = <<>> /\ outcomes' = <<>>
    BY <1>13 DEF End
  <2> QED  BY <1>12, <1>13, <2>1 DEF SoundInv
<1>14. CASE Put
  <2>1. CASE End("failure")
    BY <1>13, <1>14, <2>1 DEF Put
  <2>2. CASE AddOutcome(misses[i], results[i]) /\ NextResult
    <3>1. step = "put" /\ UNCHANGED <<now, item, results>>
      BY <1>14, <2>2 DEF Put, NextResult
    <3>2. misses[i] \in Target /\ results[i] \in Verdict
      BY <1>0, <3>1, PutResult
    <3>3. SoundAt(results[i], now, stored') /\ stored \subseteq stored'
      BY <1>12, <1>14 DEF Put
    <3>4. \A n \in 1..Len(outcomes) : SoundAt(outcomes[n].verdict, now, stored')
      BY <3>3 DEF SoundInv, OutcomesSound, Sound, SoundAt
    <3>5. \A n \in 1..Len(outcomes') : SoundAt(outcomes'[n].verdict, now, stored')
      BY <1>0, <2>2, <3>2, <3>3, <3>4, SoundAppended
    <3>6. OutcomesSound'
      BY <3>1, <3>5 DEF OutcomesSound, Sound
    <3> QED  BY <1>12, <1>14, <3>1, <3>6 DEF Put, SoundInv
  <2> QED  BY <1>14, <2>1, <2>2 DEF Put
<1>15. CASE PutFails
  BY <1>13, <1>15 DEF PutFails
<1>16. CASE Fail
  BY <1>3, <1>16 DEF Fail
\* It writes back.
<1>17. ASSUME NEW P \in SUBSET Chunk, Apply(P), LeaveLate, UNCHANGED <<now, cache, email>>,
              item' \in {item, None}, UNCHANGED results \/ results' = <<>>,
              UNCHANGED outcomes \/ outcomes' = <<>>
       PROVE  SoundInv'
  <2>1. WrittenSound' /\ LateSound'
    BY <1>0, <1>17, WriteSound
  <2> QED  BY <1>0, <1>a, <1>17, <2>1 DEF SoundInv
<1>18. ASSUME NEW code, End(code)
       PROVE  /\ item' \in {item, None} /\ results' = <<>>
              /\ UNCHANGED outcomes \/ outcomes' = <<>>
  BY <1>18 DEF End
<1>19. CASE WriteChunk
  <2>1. Chunk \in SUBSET Chunk
    OBVIOUS
  <2>2. CASE End("success")
    BY <1>17, <1>18, <1>19, <2>1, <2>2 DEF WriteChunk
  <2>3. CASE UNCHANGED <<step, exit, targets, item, misses, results, outcomes>>
    BY <1>17, <1>19, <2>1, <2>3 DEF WriteChunk
  <2> QED  BY <1>19, <2>2, <2>3 DEF WriteChunk
<1>20. CASE WriteFails
  <2>1. PICK P \in SUBSET Chunk : Apply(P)
    BY <1>20 DEF WriteFails
  <2> QED  BY <1>17, <1>18, <1>20, <2>1 DEF WriteFails
\* The world changes.
<1>21. CASE Server
  <2>1. now <= now' /\ \A a \in Addresses : table'[a] \in {table[a], None}
    BY <1>0, <1>21 DEF Server, Tick, Reap, WorldTypeOK, StoreTypeOK
  <2> QED  BY <1>a, <1>21, <2>1 DEF Server, SoundInv
<1>22. ASSUME NEW r \in Requests \ Contacts, NEW a \in Addresses, OtherPut(r, a) PROVE SoundInv'
  <2>1. TableSound'
    BY <1>22, OthersSound
  <2> QED  BY <1>0, <1>a, <1>22, <2>1 DEF OtherPut, SoundInv
<1>23. ASSUME NEW c \in Contacts, NEW a \in Addresses, EditEmail(c, a) PROVE SoundInv'
  <2>1. /\ now <= now'
        /\ UNCHANGED <<stored, table, written, late, item, results, outcomes>>
    BY <1>0, <1>23 DEF EditEmail
  <2> QED  BY <1>a, <2>1 DEF SoundInv
<1>24. ASSUME NEW o \in late, TakeEffect(o) PROVE SoundInv'
  <2>1. SoundAt(o.verdict, now, stored)
    BY DEF SoundInv, LateSound, Sound
  <2>2. \A c \in Contacts : written'[c] = IF c = o.contact THEN o.verdict ELSE written[c]
    BY <1>0, <1>24 DEF TakeEffect, WorldTypeOK
  <2>3. WrittenSound' /\ LateSound'
    BY <1>24, <2>1, <2>2 DEF TakeEffect, SoundInv, WrittenSound, LateSound, Sound
  <2> QED  BY <1>0, <1>a, <1>24, <2>3 DEF TakeEffect, SoundInv
<1> QED
  BY <1>1, <1>5, <1>6, <1>7, <1>8, <1>9, <1>10, <1>11, <1>14, <1>15, <1>16, <1>19, <1>20,
     <1>21, <1>22, <1>23, <1>24 DEF Next, Work, Failure, World

-----------------------------------------------------------------------------
(* What was written, and who was due. *)

\* The first k outcomes were written, unless a late update took their place.
WrittenUpTo(k) ==
    \A n \in 1..k : outcomes[n].contact \notin overtaken =>
                        written[outcomes[n].contact] = outcomes[n].verdict

WrittenInv ==
    /\ step = "write" => WrittenUpTo(i - 1)
    /\ step = "idle" /\ exit = "success" => WrittenUpTo(Len(outcomes))

\* Until the outcomes are complete every target is due for what it was.
DueInv ==
    step \in {"get", "check", "delete"} =>
        \A n \in 1..Len(targets) :
            targets[n].contact \notin overtaken => Due(targets[n].contact)

\* The outcomes that a run writes: one for every target, and about its address.
LEMMA WriteSplit ==
  ASSUME RunTypeOK, RunInv, step = "write" \/ (step = "idle" /\ exit = "success")
  PROVE  /\ Len(outcomes) \in Nat /\ DOMAIN outcomes = 1..Len(outcomes)
         /\ Len(targets) \in Nat /\ DOMAIN targets = 1..Len(targets)
         /\ {targets[n] : n \in 1..Len(targets)} = {Pair(outcomes[n]) : n \in 1..Len(outcomes)}
         /\ \A m, n \in 1..Len(outcomes) :
               outcomes[m].contact = outcomes[n].contact => m = n
         /\ \A n \in 1..Len(outcomes) : outcomes[n] \in Outcome
         /\ \A n \in 1..Len(targets) : targets[n] \in Target
<1>1. Split(Known(Len(targets)), <<>>, 1, outcomes)
  BY DEF RunInv, Accounted
<1>2. Len(<<>>) = 0 /\ 1..0 = {}
  BY EmptySeq
<1>3. {<<>>[n] : n \in 1..Len(<<>>)} = {}
  BY <1>2
<1>4. Known(Len(targets)) = {Pair(outcomes[n]) : n \in 1..Len(outcomes)}
  BY <1>1, <1>3 DEF Split
<1>5. \A m, n \in 1..Len(outcomes) : outcomes[m].contact = outcomes[n].contact => m = n
  BY <1>1 DEF Split
<1>6. {targets[n] : n \in 1..Len(targets)} = {Pair(outcomes[n]) : n \in 1..Len(outcomes)}
  BY <1>4 DEF Known
<1> QED  BY <1>5, <1>6, Lens DEF RunTypeOK

\* What an update call does to the contact of each outcome.
LEMMA ApplyWrites ==
  ASSUME RunTypeOK, WorldTypeOK, RunInv, step = "write", NEW P \in SUBSET Chunk, Apply(P),
         NEW n \in 1..Len(outcomes)
  PROVE  /\ n \in P => /\ written'[outcomes[n].contact] = outcomes[n].verdict
                       /\ outcomes[n].contact \notin overtaken'
         /\ n \notin P => /\ written'[outcomes[n].contact] = written[outcomes[n].contact]
                          /\ outcomes[n].contact \in overtaken' <=>
                                outcomes[n].contact \in overtaken
<1>1. /\ P \subseteq 1..Len(outcomes) /\ outcomes[n].contact \in Contacts
      /\ \A m \in 1..Len(outcomes) : outcomes[m].contact = outcomes[n].contact => m = n
  BY WriteSplit DEF Chunk, Outcome
<1> DEFINE c == outcomes[n].contact
<1>2. written'[c] = IF \E m \in P : outcomes[m].contact = c
                    THEN outcomes[CHOOSE m \in P : outcomes[m].contact = c].verdict
                    ELSE written[c]
  BY <1>1 DEF Apply
<1>3. CASE n \in P
  <2>1. (CHOOSE m \in P : outcomes[m].contact = c) = n
    BY <1>1, <1>3
  <2>2. c \notin overtaken'
    BY <1>3 DEF Apply
  <2> QED  BY <1>2, <1>3, <2>1, <2>2
<1>4. CASE n \notin P
  <2>1. ~\E m \in P : outcomes[m].contact = c
    BY <1>1, <1>4
  <2>2. c \in overtaken' <=> c \in overtaken
    BY <2>1 DEF Apply
  <2> QED  BY <1>2, <1>4, <2>1, <2>2
<1> QED  BY <1>3, <1>4

LEMMA NextWritten == ASSUME TypeOK, TypeOK', RunInv, WrittenInv, [Next]_vars PROVE WrittenInv'
<1>0. RunTypeOK /\ WorldTypeOK /\ RunTypeOK'
  BY Parts
<1> USE DEF hubspot, crm, run
<1>1. CASE UNCHANGED <<hubspot, run>>
  BY <1>1 DEF WrittenInv, WrittenUpTo
\* Nothing is written when the last step before is done.
<1>2. ASSUME step' \notin {"write", "idle"} \/ (step' = "idle" /\ exit' # "success")
             \/ (step' = "write" /\ i' = 1)
      PROVE  WrittenInv'
  BY <1>2 DEF WrittenInv, WrittenUpTo
<1>3. ASSUME End("failure") PROVE WrittenInv'
  BY <1>2, <1>3 DEF End
<1>4. ASSUME NextTarget PROVE WrittenInv'
  BY <1>2, <1>4 DEF NextTarget
<1>5. CASE Begin
  BY <1>2, <1>5 DEF Begin
<1>6. CASE Fetch
  <2>1. CASE End("success")
    <3>1. outcomes' = <<>> /\ step' = "idle" /\ Len(<<>>) = 0
      BY <1>0, <1>6, <2>1, EmptySeq DEF Fetch, End, RunTypeOK, LocalsOK
    <3>2. 1..Len(outcomes)' = {}
      BY <3>1
    <3> QED  BY <3>1, <3>2 DEF WrittenInv, WrittenUpTo
  <2>2. CASE step' = "get"
    BY <1>2, <2>2
  <2> QED  BY <1>6, <2>1, <2>2 DEF Fetch
<1>7. CASE GetItem
  BY <1>2, <1>4, <1>7 DEF GetItem, Missed
<1>8. CASE CheckItem
  BY <1>2, <1>3, <1>4, <1>8 DEF CheckItem, Missed
<1>9. CASE RemoveExpired
  BY <1>4, <1>9 DEF RemoveExpired, Missed
<1>10. ASSUME NEW n \in DOMAIN results, VerifyOne(n) PROVE WrittenInv'
  BY <1>2, <1>10 DEF VerifyOne
<1>11. CASE Verified
  BY <1>2, <1>11 DEF Verified
<1>12. CASE Put
  BY <1>2, <1>3, <1>12 DEF Put, NextResult
<1>13. CASE Failure
  BY <1>3, <1>13 DEF Failure, Fail, PutFails, WriteFails
<1>14. CASE WriteChunk
  <2>0. step = "write" /\ Apply(Chunk) /\ Chunk \in SUBSET Chunk
    BY <1>14 DEF WriteChunk
  <2>1. /\ Len(outcomes) \in Nat /\ DOMAIN outcomes = 1..Len(outcomes) /\ i \in Nat \ {0}
    BY <1>0, <2>0, WriteSplit DEF RunTypeOK
  <2>2. ASSUME NEW n \in 1..Len(outcomes), n < i + ChunkSize,
               outcomes[n].contact \notin overtaken'
        PROVE  written'[outcomes[n].contact] = outcomes[n].verdict
    <3>1. CASE n < i
      <4>1. n \notin Chunk /\ n \in 1..(i - 1)
        BY <2>1, <3>1 DEF Chunk
      <4>2. outcomes[n].contact \notin overtaken
        BY <1>0, <2>0, <2>2, <4>1, ApplyWrites
      <4>3. written[outcomes[n].contact] = outcomes[n].verdict
        BY <2>0, <4>1, <4>2 DEF WrittenInv, WrittenUpTo
      <4> QED  BY <1>0, <2>0, <4>1, <4>3, ApplyWrites
    <3>2. CASE ~(n < i)
      <4>1. n \in Chunk
        BY <2>1, <2>2, <3>2 DEF Chunk
      <4> QED  BY <1>0, <2>0, <4>1, ApplyWrites
    <3> QED  BY <3>1, <3>2
  <2>3. CASE i + ChunkSize <= Len(outcomes)
    <3>1. i' = i + ChunkSize /\ step' = "write" /\ UNCHANGED outcomes
      BY <1>14, <2>0, <2>3 DEF WriteChunk
    <3>2. ASSUME NEW n \in 1..(i' - 1) PROVE n \in 1..Len(outcomes) /\ n < i + ChunkSize
      BY <2>1, <2>3, <3>1
    <3> QED  BY <2>2, <3>1, <3>2 DEF WrittenInv, WrittenUpTo
  <2>4. CASE ~(i + ChunkSize <= Len(outcomes))
    <3>1. End("success")
      BY <1>14, <2>4 DEF WriteChunk
    <3>2. step' = "idle" /\ UNCHANGED outcomes
      BY <3>1 DEF End
    <3>3. \A n \in 1..Len(outcomes) : n < i + ChunkSize
      BY <2>1, <2>4
    <3> QED  BY <2>2, <3>2, <3>3 DEF WrittenInv, WrittenUpTo
  <2> QED  BY <2>3, <2>4
<1>15. ASSUME NEW o \in late, TakeEffect(o) PROVE WrittenInv'
  <2>1. /\ \A c \in Contacts : c # o.contact => written'[c] = written[c]
        /\ overtaken' = overtaken \cup {o.contact} /\ UNCHANGED <<step, exit, i, outcomes>>
    BY <1>0, <1>15 DEF TakeEffect, WorldTypeOK
  <2>2. ASSUME NEW k \in Nat, k <= Len(outcomes), WrittenUpTo(k)
        PROVE  \A n \in 1..k : outcomes[n].contact \notin overtaken' =>
                   written'[outcomes[n].contact] = outcomes[n].verdict
    <3>1. \A n \in 1..k : outcomes[n].contact \in Contacts
      <4>1. Len(outcomes) \in Nat /\ DOMAIN outcomes = 1..Len(outcomes)
        BY <1>0, Lens DEF RunTypeOK
      <4> QED  BY <1>0, <2>2, <4>1, OutcomeOK
    <3> QED  BY <2>1, <2>2, <3>1 DEF WrittenUpTo
  <2>3. Len(outcomes) \in Nat
    BY <1>0, Lens DEF RunTypeOK
  <2>4. CASE step = "write"
    <3>1. i - 1 \in Nat /\ i - 1 <= Len(outcomes)
      BY <1>0, <2>4, Lens DEF RunTypeOK, LocalsOK
    <3> QED  BY <2>1, <2>2, <2>4, <3>1 DEF WrittenInv, WrittenUpTo
  <2>5. CASE step # "write"
    BY <2>1, <2>2, <2>3, <2>5 DEF WrittenInv, WrittenUpTo
  <2> QED  BY <2>4, <2>5
<1>16. CASE Server
  BY <1>1, <1>16 DEF Server
<1>17. ASSUME NEW r, NEW a, OtherPut(r, a) \/ EditEmail(r, a) PROVE WrittenInv'
  BY <1>1, <1>17 DEF OtherPut, EditEmail
<1>18. CASE UNCHANGED vars
  BY <1>1, <1>18 DEF vars
<1> QED
  BY <1>5, <1>6, <1>7, <1>8, <1>9, <1>10, <1>11, <1>12, <1>13, <1>14, <1>15, <1>16, <1>17,
     <1>18 DEF Next, Work, World

\* Who is due remains so as long as nobody writes.
LEMMA DueKept ==
  ASSUME WorldTypeOK, now' \in Nat, now <= now', NEW c \in Contacts, Due(c),
         written'[c] = written[c]
  PROVE  Due(c)'
<1>1. written[c] # None => written[c].at \in Nat
  BY DEF WorldTypeOK, Verdict
<1>2. now \in Nat
  BY DEF WorldTypeOK, StoreTypeOK
<1> QED  BY <1>1, <1>2, ReverifyAssumption, UnknownRetryAssumption
         DEF Due, Stale, Retryable

LEMMA NextDue == ASSUME TypeOK, TypeOK', DueInv, [Next]_vars PROVE DueInv'
<1>0. RunTypeOK /\ WorldTypeOK /\ RunTypeOK' /\ now \in Nat /\ now' \in Nat
  BY Parts DEF WorldTypeOK, StoreTypeOK
<1> USE DEF hubspot, crm, run
<1>1. \A n \in 1..Len(targets) : targets[n].contact \in Contacts
  <2>1. \A n \in 1..Len(targets) : targets[n] \in Target
    BY <1>0, Lens DEF RunTypeOK
  <2> QED  BY <2>1 DEF Target
<1>2. ASSUME now <= now', UNCHANGED <<targets, written, overtaken>>,
             step' \in {"get", "check", "delete"} => step \in {"get", "check", "delete"}
      PROVE  DueInv'
  BY <1>0, <1>1, <1>2, DueKept DEF DueInv
<1>3. ASSUME step' \notin {"get", "check", "delete"} PROVE DueInv'
  BY <1>3 DEF DueInv
<1>4. CASE Fetch
  <2>1. CASE End("success")
    BY <1>3, <2>1 DEF End
  <2>2. CASE ~End("success")
    <3>1. PICK s \in FetchedContacts :
            /\ targets' = [n \in DOMAIN s |-> [contact |-> s[n], addr |-> email[s[n]]]]
            /\ UNCHANGED <<now, written>>
      BY <1>4, <2>2 DEF Fetch
    <3>2. DOMAIN s = 1..Len(s) /\ \A n \in 1..Len(s) : s[n] \in DueContacts
      BY <1>0, FetchedOK, Lens
    <3>3. DOMAIN targets' = 1..Len(targets')
      BY <1>0, Lens DEF RunTypeOK
    <3>4. \A n \in 1..Len(targets') : targets'[n].contact \in DueContacts
      BY <3>1, <3>2, <3>3
    <3>5. \A c \in DueContacts : c \in Contacts /\ Due(c)
      BY DEF DueContacts
    <3>6. \A c \in DueContacts : Due(c)'
      BY <1>0, <3>1, <3>5, DueKept
    <3> QED  BY <3>4, <3>6 DEF DueInv
  <2> QED  BY <2>1, <2>2
<1>5. CASE GetItem \/ CheckItem \/ RemoveExpired
  <2>1. step \in {"get", "check", "delete"} /\ UNCHANGED <<now, written, overtaken>>
    BY <1>5 DEF GetItem, CheckItem, RemoveExpired
  <2>2. CASE UNCHANGED targets
    BY <1>0, <1>2, <2>1, <2>2
  <2>3. CASE End("failure")
    BY <1>3, <2>3 DEF End
  <2> QED  BY <1>5, <2>2, <2>3 DEF GetItem, CheckItem, RemoveExpired, Missed, NextTarget
<1>6. ASSUME NEW n \in DOMAIN results, VerifyOne(n) PROVE DueInv'
  BY <1>3, <1>6 DEF VerifyOne
<1>7. CASE Begin \/ Verified
  BY <1>3, <1>7 DEF Begin, Verified
<1>8. CASE Put \/ WriteChunk
  BY <1>3, <1>8 DEF Put, NextResult, WriteChunk, End
<1>9. CASE Failure
  BY <1>3, <1>9 DEF Failure, Fail, PutFails, WriteFails, End
<1>10. CASE Server
  BY <1>0, <1>2, <1>10 DEF Server, Tick, Reap
<1>11. ASSUME NEW r, NEW a, OtherPut(r, a) \/ EditEmail(r, a) PROVE DueInv'
  BY <1>0, <1>2, <1>11 DEF OtherPut, EditEmail
<1>12. ASSUME NEW o \in late, TakeEffect(o) PROVE DueInv'
  <2>1. \A c \in Contacts : c \notin overtaken' => c \notin overtaken /\ written'[c] = written[c]
    BY <1>0, <1>12 DEF TakeEffect, WorldTypeOK
  <2>2. UNCHANGED <<now, step, targets>>
    BY <1>12 DEF TakeEffect
  <2> QED  BY <1>0, <1>1, <2>1, <2>2, DueKept DEF DueInv
<1>13. CASE UNCHANGED vars
  BY <1>0, <1>2, <1>13 DEF vars
<1> QED
  BY <1>4, <1>5, <1>6, <1>7, <1>8, <1>9, <1>10, <1>11, <1>12, <1>13
     DEF Next, Work, World

-----------------------------------------------------------------------------
(* The invariant and what follows from it. *)

BatchInv ==
    /\ TypeOK
    /\ now <= MaxTime
    /\ RunInv
    /\ SoundInv
    /\ WrittenInv
    /\ DueInv

LEMMA InitInv == ASSUME Init PROVE BatchInv
<1>1. /\ <<>> \in Seq(Target) /\ <<>> \in Seq(Outcome) /\ <<>> \in Seq(Verdict \cup {None})
      /\ Len(<<>>) = 0 /\ 1..Len(<<>>) = {}
  BY EmptySeq
<1>2. StartTime \in Nat /\ StartTime <= MaxTime /\ now = StartTime
  BY DEF Init
<1>3. ASSUME NEW a \in Addresses, NEW p \in PriorRows(a)
      PROVE  p \in Item /\ SoundAt(p.verdict, StartTime, {})
  <2>1. PICK v \in [ addr : {a}, status : {s \in Outcomes : DefinitiveStatus(s)},
                     at : {0}, by : {Prior} ],
             t \in 0..StartTime, b \in BOOLEAN :
          p = [verdict |-> v, ttl |-> t + TTL, readable |-> b]
    BY <1>3 DEF PriorRows
  <2>2. v \in Verdict /\ v.at = 0 /\ v.by \notin Contacts
    BY PriorAssumption DEF Verdict
  <2>3. t + TTL \in Nat
    BY <1>2
  <2> QED  BY <1>2, <2>1, <2>2, <2>3 DEF Item, SoundAt
<1>4. /\ \A a \in Addresses : table[a] \in PriorRows(a) \cup {None}
      /\ table \in [Addresses -> UNION {PriorRows(a) : a \in Addresses} \cup {None}]
  BY DEF Init
<1>5. StoreTypeOK /\ TableSound
  <2>1. \A a \in Addresses : table[a] \in Item \cup {None}
    BY <1>3, <1>4
  <2>2. table \in [Addresses -> Item \cup {None}]
    BY <1>4, <2>1
  <2>3. stored = {}
    BY DEF Init
  <2> QED  BY <1>2, <1>3, <1>4, <2>2, <2>3 DEF StoreTypeOK, TableSound, Sound
<1> DEFINE W == [addr : Addresses, status : Outcomes, at : {0}, by : {Prior}]
<1>6. \A w \in W : w \in Verdict /\ SoundAt(w, StartTime, {})
  BY <1>2, PriorAssumption DEF Verdict, SoundAt
<1>7. written \in [Contacts -> W \cup {None}] /\ stored = {} /\ late = {}
  BY DEF Init
<1> HIDE DEF W
<1>8. written \in [Contacts -> Verdict \cup {None}] /\ WrittenSound /\ LateSound
  BY <1>2, <1>6, <1>7 DEF WrittenSound, LateSound, Sound
<1>9. WorldTypeOK
  BY <1>5, <1>8, MaxMeddlingAssumption DEF Init, WorldTypeOK
<1>10. LocalsOK
  BY DEF Init, LocalsOK
<1>11. RunTypeOK
  BY <1>1, <1>10, 0 <= Limit DEF Init, RunTypeOK, Steps
<1>12. RunInv /\ WrittenInv /\ DueInv
  BY <1>1 DEF Init, RunInv, Distinct, Accounted, WrittenInv, DueInv
<1>13. SoundInv
  BY <1>1, <1>5, <1>8
     DEF Init, SoundInv, ItemSound, ResultsDated, OutcomesSound
<1> QED  BY <1>2, <1>9, <1>11, <1>12, <1>13, Parts DEF BatchInv

LEMMA NextInv == ASSUME BatchInv, [Next]_vars PROVE BatchInv'
<1>1. TypeOK'
  BY NextTypeOK DEF BatchInv
<1>2. now' <= MaxTime
  <2>1. now \in Nat /\ now <= MaxTime
    BY DEF BatchInv, TypeOK, StoreTypeOK
  <2>2. now' = now \/ (now < MaxTime /\ now' = now + 1)
    BY DEF Next, Work, Failure, World, vars, cache, crm, Begin, Fetch, GetItem, CheckItem,
           RemoveExpired, VerifyOne, Verified, Put, PutFails, WriteChunk, WriteFails, Fail,
           Server, Tick, Reap, OtherPut, EditEmail, TakeEffect
  <2> QED  BY <2>1, <2>2
<1> QED
  BY <1>1, <1>2, NextRunInv, NextSound, NextWritten, NextDue DEF BatchInv

LEMMA Invariance == Spec => []BatchInv
<1> QED  BY InitInv, NextInv, PTL DEF Spec

\* Every variable keeps its type, and what a run has at hand fits how far it has
\* come: nothing is written before there is an outcome for every target.
THEOREM TypeCorrect == Spec => []TypeOK
<1>1. BatchInv => TypeOK
  BY DEF BatchInv
<1> QED  BY <1>1, Invariance, PTL

\* However runs fail, and whoever else uses the table, definitive evidence in
\* HubSpot that a run found was put into the cache before.
THEOREM StoredFirst == Spec => []WriteBackAfterStore
<1>1. BatchInv => WriteBackAfterStore
  BY DEF BatchInv, SoundInv, WrittenSound, Sound, SoundAt, WriteBackAfterStore
<1> QED  BY <1>1, Invariance, PTL

LEMMA SuccessIsWritten == ASSUME BatchInv PROVE SuccessMeansWritten
<1> SUFFICES ASSUME step = "idle", exit = "success", NEW n \in DOMAIN targets,
                    targets[n].contact \notin overtaken
             PROVE  /\ written[targets[n].contact] # None
                    /\ written[targets[n].contact].addr = targets[n].addr
                    /\ \E m \in DOMAIN outcomes :
                          outcomes[m] = [contact |-> targets[n].contact,
                                         verdict |-> written[targets[n].contact]]
  BY DEF SuccessMeansWritten
<1>1. RunTypeOK /\ RunInv /\ WrittenUpTo(Len(outcomes))
  BY Parts DEF BatchInv, WrittenInv
<1>2. /\ DOMAIN outcomes = 1..Len(outcomes) /\ n \in 1..Len(targets)
      /\ {targets[k] : k \in 1..Len(targets)} = {Pair(outcomes[m]) : m \in 1..Len(outcomes)}
      /\ \A m \in 1..Len(outcomes) : outcomes[m] \in Outcome
  BY <1>1, WriteSplit
<1>3. PICK m \in 1..Len(outcomes) : targets[n] = Pair(outcomes[m])
  BY <1>2
<1>4. targets[n].contact = outcomes[m].contact /\ targets[n].addr = outcomes[m].verdict.addr
  BY <1>3 DEF Pair
<1>5. written[targets[n].contact] = outcomes[m].verdict
  BY <1>1, <1>4 DEF WrittenUpTo
<1>6. outcomes[m].verdict \in Verdict
      /\ outcomes[m] = [contact |-> outcomes[m].contact, verdict |-> outcomes[m].verdict]
  BY <1>2 DEF Outcome
<1> QED  BY <1>2, <1>4, <1>5, <1>6, NoneAssumption

\* A run that reports success has written a result for every contact it fetched,
\* about the address it was fetched with, for any number of contacts, any limit
\* and any size of the chunks.
THEOREM SuccessTheorem == Spec => []SuccessMeansWritten
<1> QED  BY SuccessIsWritten, Invariance, PTL

LEMMA RightAddress ==
  ASSUME BatchInv, Next, NEW c \in Contacts, written'[c] # written[c]
  PROVE  \/ \E n \in DOMAIN targets :
               targets[n] = [contact |-> c, addr |-> written'[c].addr]
         \/ [contact |-> c, verdict |-> written'[c]] \in late
<1>0. RunTypeOK /\ WorldTypeOK /\ RunInv
  BY Parts DEF BatchInv
<1>1. ASSUME step = "write", NEW P \in SUBSET Chunk, Apply(P)
      PROVE  \E n \in DOMAIN targets :
                targets[n] = [contact |-> c, addr |-> written'[c].addr]
  <2>1. PICK n \in P : outcomes[n].contact = c /\ written'[c] = outcomes[n].verdict
    BY <1>1 DEF Apply
  <2>2. /\ n \in 1..Len(outcomes) /\ DOMAIN targets = 1..Len(targets)
        /\ {targets[k] : k \in 1..Len(targets)} = {Pair(outcomes[m]) : m \in 1..Len(outcomes)}
    BY <1>0, <1>1, WriteSplit DEF Chunk
  <2>3. PICK k \in 1..Len(targets) : targets[k] = Pair(outcomes[n])
    BY <2>2
  <2> QED  BY <2>1, <2>2, <2>3 DEF Pair
<1>2. CASE WriteChunk
  <2>1. Chunk \in SUBSET Chunk
    OBVIOUS
  <2> QED  BY <1>1, <1>2, <2>1 DEF WriteChunk
<1>3. CASE WriteFails
  BY <1>1, <1>3 DEF WriteFails
<1>4. ASSUME NEW o \in late, TakeEffect(o)
      PROVE  [contact |-> c, verdict |-> written'[c]] \in late
  <2>1. c = o.contact /\ written'[c] = o.verdict
    BY <1>0, <1>4 DEF TakeEffect, WorldTypeOK
  <2>2. o \in Outcome
    BY <1>0 DEF WorldTypeOK
  <2>3. o = [contact |-> o.contact, verdict |-> o.verdict]
    BY <2>2 DEF Outcome
  <2> QED  BY <2>1, <2>3
<1>5. CASE UNCHANGED written
  BY <1>5
<1>6. CASE Work
  BY <1>2, <1>5, <1>6
     DEF Work, cache, crm, hubspot, Begin, Fetch, GetItem, CheckItem, RemoveExpired,
         VerifyOne, Verified, Put
<1>7. CASE Failure
  BY <1>3, <1>5, <1>7 DEF Failure, Fail, PutFails, crm, hubspot
<1>8. CASE World
  BY <1>4, <1>5, <1>8 DEF World, Server, OtherPut, EditEmail, crm, hubspot
<1> QED  BY <1>6, <1>7, <1>8 DEF Next

\* A contact never gets a result that is about another address than the one it
\* was fetched with, whoever edits it meanwhile.
THEOREM RightAddresses == Spec => WrittenForTheFetchedAddress
<1>1. BatchInv /\ [Next]_vars =>
        [\A c \in Contacts : written'[c] # written[c] =>
            \/ \E n \in DOMAIN targets :
                  targets[n] = [contact |-> c, addr |-> written'[c].addr]
            \/ [contact |-> c, verdict |-> written'[c]] \in late]_vars
  BY RightAddress
<1> QED  BY <1>1, Invariance, PTL DEF Spec, WrittenForTheFetchedAddress

LEMMA LateStoreNeeded ==
  ASSUME BatchInv, Next, step = "check", Len(outcomes') > Len(outcomes),
         item.verdict = written[targets[i].contact], targets[i].contact \notin overtaken
  PROVE  item.ttl - TTL > item.verdict.at + (ReverifyAfter - TTL)
<1>0. RunTypeOK /\ WorldTypeOK /\ DueInv /\ now \in Nat
  BY Parts DEF BatchInv, WorldTypeOK, StoreTypeOK
<1>1. /\ outcomes \in Seq(Outcome) /\ Len(outcomes) \in Nat /\ Len(<<>>) = 0
      /\ i \in 1..Len(targets) /\ item \in Item
  BY <1>0, EmptySeq, Lens DEF RunTypeOK, LocalsOK
<1>2. ~UNCHANGED outcomes /\ outcomes' # <<>>
  BY <1>1
<1>3. ~Expired(item, now) /\ DefinitiveStatus(item.verdict.status)
  BY <1>2 DEF Next, Work, Failure, World, run, cache, crm, Begin, Fetch, GetItem, CheckItem,
              RemoveExpired, VerifyOne, Verified, Put, PutFails, WriteChunk, WriteFails, Fail,
              Server, OtherPut, EditEmail, TakeEffect, Missed, End
<1>4. Due(targets[i].contact)
  BY <1>0, <1>1 DEF DueInv
<1>5. item.verdict \in Verdict /\ item.ttl \in Nat
  BY <1>1 DEF Item
<1>6. item.verdict # None /\ item.verdict.at \in Nat
  BY <1>5, NoneAssumption DEF Verdict
<1>7. item.verdict.at < now - ReverifyAfter
  BY <1>3, <1>4, <1>6 DEF Due, Retryable, Stale
<1>8. item.ttl > now
  BY <1>0, <1>3, <1>5 DEF Expired
<1> QED  BY <1>0, <1>5, <1>6, <1>7, <1>8, ReverifyAssumption

\* A contact whose result is old gets the very same result again only if that
\* was stored late, for any lifetime of the cache and any REVERIFY_AFTER_DAYS.
THEOREM LateStores == Spec => SameResultNeedsLateStore
<1>1. BatchInv /\ [Next]_vars =>
        [step = "check" /\ Len(outcomes') > Len(outcomes)
           /\ item.verdict = written[targets[i].contact]
           /\ targets[i].contact \notin overtaken =>
              item.ttl - TTL > item.verdict.at + (ReverifyAfter - TTL)]_vars
  BY LateStoreNeeded
<1> QED  BY <1>1, Invariance, PTL DEF Spec, SameResultNeedsLateStore

-----------------------------------------------------------------------------
(* The refinement of VerificationCycle. *)

\* What the mapping makes of the contacts, and the variables it defines.
KindOf == [c \in Contacts |-> Kind(written[c])]
AgeOf == [c \in Contacts |-> IF written[c] = None THEN 0 ELSE now - written[c].at]

LEMMA KindResult == ASSUME NEW v \in Verdict PROVE Kind(v) \in {"unknown", "definitive"}
BY NoneAssumption DEF Kind

LEMMA WrittenAges ==
  ASSUME BatchInv, NEW c \in Contacts, written[c] # None
  PROVE  written[c] \in Verdict /\ written[c].at \in Nat /\ now - written[c].at \in 0..MaxTime
<1>1. written[c] \in Verdict /\ now \in Nat /\ now <= MaxTime
  BY DEF BatchInv, TypeOK, StoreTypeOK
<1>2. written[c].at \in Nat /\ written[c].at <= now
  BY <1>1 DEF Verdict, BatchInv, SoundInv, WrittenSound, Sound, SoundAt
<1> QED  BY <1>1, <1>2

LEMMA InitCycle == ASSUME Init PROVE Cycle!CycleInit
<1>1. BatchInv
  BY InitInv
<1>2. KindOf \in [Contacts -> {"unknown", "definitive"} \cup {"new"}]
  BY <1>1, WrittenAges, KindResult DEF KindOf, Kind
<1>3. AgeOf \in [Contacts -> 0..MaxTime]
  BY <1>1, WrittenAges, 0 \in 0..MaxTime DEF AgeOf
<1>4. \A c \in Contacts : KindOf[c] = "new" => AgeOf[c] = 0
  BY <1>1, WrittenAges, KindResult DEF KindOf, AgeOf
<1>5. Chosen = {}
  BY DEF Init, Chosen
<1> QED  BY <1>2, <1>3, <1>4, <1>5
         DEF Cycle!CycleInit, Cycle!Results, Cycle!Ages, KindOf, AgeOf

\* A contact is due in the one sense if it is in the other.
LEMMA SameDue == ASSUME BatchInv PROVE Cycle!DueContacts = DueContacts
<1>1. ASSUME NEW c \in Contacts PROVE Cycle!Due(c) <=> Due(c)
  <2>1. CASE written[c] = None
    BY <2>1 DEF Cycle!Due, Due, Kind
  <2>2. CASE written[c] # None
    <3>1. /\ written[c] \in Verdict /\ written[c].at \in Nat /\ now \in Nat
          /\ KindOf[c] = (IF DefinitiveStatus(written[c].status) THEN "definitive" ELSE "unknown")
          /\ AgeOf[c] = now - written[c].at
      BY <2>2, WrittenAges DEF KindOf, AgeOf, Kind, BatchInv, TypeOK, StoreTypeOK
    <3>2. now - written[c].at > ReverifyAfter <=> written[c].at < now - ReverifyAfter
      BY <3>1, ReverifyAssumption
    <3>3. now - written[c].at > UnknownRetryAfter <=> written[c].at < now - UnknownRetryAfter
      BY <3>1, UnknownRetryAssumption
    <3>4. Cycle!Due(c) <=>
             \/ KindOf[c] = "new"
             \/ KindOf[c] = "unknown" /\ AgeOf[c] > UnknownRetryAfter
             \/ KindOf[c] = "definitive" /\ ReverifyAfter > 0 /\ AgeOf[c] > ReverifyAfter
      BY DEF Cycle!Due, KindOf, AgeOf
    <3> QED  BY <2>2, <3>1, <3>2, <3>3, <3>4 DEF Due, Retryable, Stale
  <2> QED  BY <2>1, <2>2
<1> QED  BY <1>1 DEF Cycle!DueContacts, DueContacts

\* The steps of which the cycle sees nothing.
LEMMA Stutter ==
  ASSUME UNCHANGED <<written, now>>, Chosen' = Chosen
  PROVE  UNCHANGED Cycle!cycleVars
BY DEF Cycle!cycleVars

\* Contacts of S are written to, and no others.
LEMMA GiveStep ==
  ASSUME BatchInv', UNCHANGED now, NEW S \in SUBSET Contacts,
         \A c \in Contacts : c \notin S => written'[c] = written[c],
         \A c \in S : written'[c] # None
  PROVE  Cycle!Give(S, Cycle!Ages)
<1>1. \A c \in S : /\ Kind(written'[c]) \in {"unknown", "definitive"}
                   /\ now' - written'[c].at \in 0..MaxTime
  <2> TAKE c \in S
  <2>1. written'[c] \in Verdict /\ now' \in Nat /\ now' <= MaxTime
    BY DEF BatchInv, TypeOK, StoreTypeOK
  <2>2. written'[c].at \in Nat /\ written'[c].at <= now'
    BY <2>1 DEF Verdict, BatchInv, SoundInv, WrittenSound, Sound, SoundAt
  <2> QED  BY <2>1, <2>2, KindResult
<1> DEFINE r == [c \in S |-> Kind(written'[c])]
           t == [c \in S |-> now' - written'[c].at]
<1>2. r \in [S -> Cycle!Results] /\ t \in [S -> Cycle!Ages]
  BY <1>1 DEF Cycle!Results, Cycle!Ages
<1>3. KindOf' = [c \in Contacts |-> IF c \in S THEN r[c] ELSE KindOf[c]]
  BY DEF KindOf
<1>4. AgeOf' = [c \in Contacts |-> IF c \in S THEN t[c] ELSE AgeOf[c]]
  BY DEF AgeOf
<1> HIDE DEF r, t
<1> QED  BY <1>2, <1>3, <1>4 DEF Cycle!Give, KindOf, AgeOf

\* A run gives up with nothing written.
LEMMA GiveUp ==
  ASSUME BatchInv', UNCHANGED <<written, now>>, Chosen' = {}
  PROVE  Cycle!Fail(Cycle!Ages)
<1>1. \A c \in {} : written'[c] # None
  OBVIOUS
<1>2. Cycle!Give({}, Cycle!Ages)
  BY <1>1, GiveStep
<1> QED  BY <1>2 DEF Cycle!Fail

LEMMA EndChosen == ASSUME NEW code, End(code) PROVE Chosen' = {}
BY DEF End, Chosen

\* What remains of a run when its outcomes are complete, or some are written.
LEMMA UnwrittenChosen ==
  ASSUME RunTypeOK, RunInv, step = "write"
  PROVE  /\ Chosen = {outcomes[n].contact : n \in i..Len(outcomes)}
         /\ i = 1 => Chosen = {targets[n].contact : n \in DOMAIN targets}
<1>1. /\ DOMAIN outcomes = 1..Len(outcomes) /\ Len(outcomes) \in Nat /\ i \in Nat \ {0}
      /\ DOMAIN targets = 1..Len(targets)
      /\ {targets[n] : n \in 1..Len(targets)} = {Pair(outcomes[n]) : n \in 1..Len(outcomes)}
  BY WriteSplit DEF RunTypeOK
<1>2. Unwritten = i..Len(outcomes)
  BY <1>1 DEF Unwritten
<1>3. Chosen = {outcomes[n].contact : n \in i..Len(outcomes)}
  BY <1>2 DEF Chosen
<1>4. {targets[n].contact : n \in 1..Len(targets)}
        = {outcomes[n].contact : n \in 1..Len(outcomes)}
  <2>1. ASSUME NEW n \in 1..Len(targets)
        PROVE  \E m \in 1..Len(outcomes) : outcomes[m].contact = targets[n].contact
    <3>1. PICK m \in 1..Len(outcomes) : targets[n] = Pair(outcomes[m])
      BY <1>1
    <3> QED  BY <3>1 DEF Pair
  <2>2. ASSUME NEW m \in 1..Len(outcomes)
        PROVE  \E n \in 1..Len(targets) : outcomes[m].contact = targets[n].contact
    <3>1. PICK n \in 1..Len(targets) : targets[n] = Pair(outcomes[m])
      BY <1>1
    <3> QED  BY <3>1 DEF Pair
  <2>3. ASSUME NEW c PROVE (\E n \in 1..Len(targets) : c = targets[n].contact)
                              <=> \E m \in 1..Len(outcomes) : c = outcomes[m].contact
    BY <2>1, <2>2
  <2> QED  BY <2>3
<1> QED  BY <1>1, <1>3, <1>4

\* The targets stay chosen while the run looks them up and verifies them.
LEMMA Working ==
  ASSUME RunTypeOK', RunInv', UNCHANGED targets, step \in Steps \ {"idle", "fetch", "write"},
         step' \in Steps \ {"idle", "fetch"}, step' = "write" => i' = 1
  PROVE  Chosen' = Chosen
<1>1. Chosen = {targets[n].contact : n \in DOMAIN targets}
  BY DEF Chosen, Steps
<1>2. CASE step' # "write"
  BY <1>1, <1>2 DEF Chosen, Steps
<1>3. CASE step' = "write"
  <2>1. /\ Split(Known(Len(targets))', <<>>, 1, outcomes') /\ Len(<<>>) = 0 /\ 1..0 = {}
    BY <1>3, EmptySeq DEF RunInv, Accounted
  <2>2. /\ DOMAIN outcomes' = 1..Len(outcomes') /\ Len(outcomes') \in Nat
        /\ DOMAIN targets = 1..Len(targets)
    BY Lens DEF RunTypeOK
  <2>3. {targets[n] : n \in 1..Len(targets)} = {Pair(outcomes'[n]) : n \in 1..Len(outcomes')}
    <3>1. {<<>>[n] : n \in 1..Len(<<>>)} = {}
      BY <2>1
    <3>2. Known(Len(targets))' = {targets[n] : n \in 1..Len(targets)}
      BY DEF Known
    <3> QED  BY <2>1, <3>1, <3>2 DEF Split
  <2>4. ASSUME NEW n \in 1..Len(targets)
        PROVE  \E m \in 1..Len(outcomes') : outcomes'[m].contact = targets[n].contact
    <3>1. PICK m \in 1..Len(outcomes') : targets[n] = Pair(outcomes'[m])
      BY <2>3
    <3> QED  BY <3>1 DEF Pair
  <2>5. ASSUME NEW m \in 1..Len(outcomes')
        PROVE  \E n \in 1..Len(targets) : outcomes'[m].contact = targets[n].contact
    <3>1. PICK n \in 1..Len(targets) : targets[n] = Pair(outcomes'[m])
      BY <2>3
    <3> QED  BY <3>1 DEF Pair
  <2>6. Unwritten' = 1..Len(outcomes')
    BY <1>3, <2>2 DEF Unwritten
  <2>7. Chosen' = {outcomes'[m].contact : m \in 1..Len(outcomes')}
    BY <1>3, <2>6 DEF Chosen
  <2>8. ASSUME NEW c PROVE (\E n \in 1..Len(targets) : c = targets[n].contact)
                              <=> \E m \in 1..Len(outcomes') : c = outcomes'[m].contact
    BY <2>4, <2>5
  <2>9. {targets[n].contact : n \in 1..Len(targets)}
          = {outcomes'[m].contact : m \in 1..Len(outcomes')}
    BY <2>8
  <2> QED  BY <1>1, <2>2, <2>7, <2>9
<1> QED  BY <1>2, <1>3

\* The search hands the run its contacts.
LEMMA FetchStep ==
  ASSUME BatchInv, BatchInv', Fetch PROVE Cycle!Choose \/ UNCHANGED Cycle!cycleVars
<1>0. RunTypeOK /\ WorldTypeOK /\ RunTypeOK' /\ step = "fetch" /\ Chosen = {}
      /\ UNCHANGED <<now, written>>
  BY Parts DEF Fetch, BatchInv, Chosen, crm, hubspot
<1>1. CASE End("success")
  BY <1>0, <1>1, EndChosen, Stutter
<1>2. CASE ~End("success")
  <2>1. PICK s \in FetchedContacts :
          /\ targets' = [n \in DOMAIN s |-> [contact |-> s[n], addr |-> email[s[n]]]]
          /\ step' = "get"
    BY <1>2 DEF Fetch
  <2>2. /\ DOMAIN s = 1..Len(s) /\ Len(s) \in Nat
        /\ \A n \in 1..Len(s) : s[n] \in DueContacts
        /\ \A m, n \in 1..Len(s) : s[m] = s[n] => m = n
        /\ Len(s) = IF Cardinality(DueContacts) < Limit
                    THEN Cardinality(DueContacts) ELSE Limit
    BY <1>0, FetchedOK, Lens
  <2> DEFINE C == {s[n] : n \in 1..Len(s)}
  <2>3. Chosen' = C
    <3>1. Chosen' = {targets'[n].contact : n \in DOMAIN targets'}
      BY <2>1 DEF Chosen
    <3>2. DOMAIN targets' = 1..Len(s) /\ \A n \in 1..Len(s) : targets'[n].contact = s[n]
      BY <2>1, <2>2
    <3> QED  BY <3>1, <3>2
  <2>4. Cardinality(C) = Len(s)
    <3>1. s \in Bijection(1..Len(s), C)
      <4>1. s \in [1..Len(s) -> C]
        <5>1. s \in Seq(Contacts)
          BY <1>0, FetchedOK
        <5>2. s \in [1..Len(s) -> Contacts]
          BY <5>1, Lens
        <5> QED  BY <5>2
      <4> QED  BY <2>2, <4>1 DEF Bijection, Injection, Surjection, IsInjective
    <3>2. IsFiniteSet(1..Len(s)) /\ Cardinality(1..Len(s)) = Len(s)
      BY <2>2, FS_Interval
    <3> QED  BY <3>1, <3>2, FS_Bijection DEF ExistsBijection
  <2>5. C \in SUBSET DueContacts
    BY <2>2
  <2> HIDE DEF C
  <2>6. Cycle!DueContacts = DueContacts
    BY SameDue
  <2>7. Cycle!Cardinality(C) = Cardinality(C)
        /\ Cycle!Cardinality(DueContacts) = Cardinality(DueContacts)
    BY DEF Cycle!Cardinality, Cardinality
  <2> QED  BY <1>0, <2>2, <2>3, <2>4, <2>5, <2>6, <2>7 DEF Cycle!Choose
<1> QED  BY <1>1, <1>2

\* Of the contacts of the run, those of the chunk get a result.
LEMMA GiveChunk ==
  ASSUME BatchInv, BatchInv', step = "write", NEW P \in SUBSET Chunk, Apply(P), UNCHANGED now
  PROVE  /\ {outcomes[n].contact : n \in P} \in SUBSET Chosen
         /\ Cycle!Give({outcomes[n].contact : n \in P}, Cycle!Ages)
<1>0. RunTypeOK /\ RunInv /\ i \in Nat \ {0}
  BY Parts DEF BatchInv, RunTypeOK
<1>1. /\ DOMAIN outcomes = 1..Len(outcomes) /\ Len(outcomes) \in Nat
      /\ \A n \in 1..Len(outcomes) : outcomes[n] \in Outcome
  BY <1>0, WriteSplit
<1>2. P \subseteq i..Len(outcomes) /\ i..Len(outcomes) \subseteq 1..Len(outcomes)
  BY <1>0, <1>1 DEF Chunk
<1>3. \A n \in P : outcomes[n].contact \in Contacts /\ outcomes[n].verdict \in Verdict
  BY <1>1, <1>2 DEF Outcome
<1> DEFINE S == {outcomes[n].contact : n \in P}
<1>4. S \in SUBSET Contacts
  BY <1>3
<1>5. \A c \in Contacts : c \notin S => written'[c] = written[c]
  BY DEF Apply
<1>6. ASSUME NEW c \in S PROVE written'[c] # None
  <2>1. PICK n \in P : written'[c] = outcomes[n].verdict
    BY <1>4 DEF Apply
  <2> QED  BY <1>3, <2>1, NoneAssumption
<1>7. S \in SUBSET Chosen
  <2>1. Chosen = {outcomes[n].contact : n \in i..Len(outcomes)}
    BY <1>0, UnwrittenChosen
  <2> QED  BY <1>2, <2>1
<1>8. Cycle!Give(S, Cycle!Ages)
  <2> HIDE DEF S
  <2> QED  BY <1>4, <1>5, <1>6, GiveStep
<1> QED  BY <1>7, <1>8

LEMMA WriteChunkStep ==
  ASSUME BatchInv, BatchInv', WriteChunk PROVE Cycle!Write(Cycle!Ages)
<1>0. /\ RunTypeOK /\ RunInv /\ RunTypeOK' /\ RunInv' /\ i \in Nat \ {0} /\ step = "write"
      /\ Apply(Chunk) /\ Chunk \in SUBSET Chunk /\ UNCHANGED now
  BY Parts DEF BatchInv, RunTypeOK, WriteChunk
<1>1. /\ DOMAIN outcomes = 1..Len(outcomes) /\ Len(outcomes) \in Nat
      /\ \A m, n \in 1..Len(outcomes) : outcomes[m].contact = outcomes[n].contact => m = n
  BY <1>0, WriteSplit
<1> DEFINE S == {outcomes[n].contact : n \in Chunk}
<1>2. Chosen = {outcomes[n].contact : n \in i..Len(outcomes)}
  BY <1>0, UnwrittenChosen
<1>3. Chosen' = Chosen \ S
  <2>1. Chunk = {n \in i..Len(outcomes) : n < i + ChunkSize}
    BY <1>0, <1>1 DEF Chunk
  <2>2. Chosen \ S = {outcomes[n].contact : n \in {m \in i..Len(outcomes) : ~(m < i + ChunkSize)}}
    <3>1. i..Len(outcomes) \subseteq 1..Len(outcomes)
      BY <1>0
    <3> QED  BY <1>1, <1>2, <2>1, <3>1
  <2>3. CASE i + ChunkSize <= Len(outcomes)
    <3>1. i' = i + ChunkSize /\ step' = "write" /\ UNCHANGED outcomes
      BY <1>0, <2>3 DEF WriteChunk
    <3>2. Unwritten' = i'..Len(outcomes)
      BY <1>0, <1>1, <3>1 DEF Unwritten
    <3>3. Chosen' = {outcomes[n].contact : n \in i'..Len(outcomes)}
      BY <3>1, <3>2 DEF Chosen
    <3>4. i'..Len(outcomes) = {m \in i..Len(outcomes) : ~(m < i + ChunkSize)}
      BY <1>0, <1>1, <3>1
    <3> QED  BY <2>2, <3>3, <3>4
  <2>4. CASE ~(i + ChunkSize <= Len(outcomes))
    <3>1. {m \in i..Len(outcomes) : ~(m < i + ChunkSize)} = {}
      BY <1>0, <1>1, <2>4
    <3>2. Chosen' = {}
      BY <2>4, EndChosen DEF WriteChunk
    <3> QED  BY <2>2, <3>1, <3>2
  <2> QED  BY <2>3, <2>4
<1>4. S \in SUBSET Chosen /\ Cycle!Give(S, Cycle!Ages)
  BY <1>0, GiveChunk
<1> HIDE DEF S
<1> QED  BY <1>3, <1>4 DEF Cycle!Write

LEMMA WriteFailsStep ==
  ASSUME BatchInv, BatchInv', WriteFails PROVE Cycle!Fail(Cycle!Ages)
<1>1. PICK P \in SUBSET Chunk : Apply(P)
  BY DEF WriteFails
<1>2. step = "write" /\ UNCHANGED now /\ Chosen' = {}
  BY EndChosen DEF WriteFails
<1> DEFINE S == {outcomes[n].contact : n \in P}
<1>3. S \in SUBSET Chosen /\ Cycle!Give(S, Cycle!Ages)
  BY <1>1, <1>2, GiveChunk
<1> HIDE DEF S
<1> QED  BY <1>2, <1>3 DEF Cycle!Fail

LEMMA TakeEffectStep ==
  ASSUME BatchInv, BatchInv', NEW o \in late, TakeEffect(o) PROVE Cycle!Overtake
<1>0. WorldTypeOK
  BY Parts DEF BatchInv
<1>1. o \in Outcome
  BY <1>0 DEF WorldTypeOK
<1>2. o.contact \in Contacts /\ o.verdict \in Verdict
  BY <1>1 DEF Outcome
<1>3. /\ \A c \in Contacts : written'[c] = IF c = o.contact THEN o.verdict ELSE written[c]
      /\ UNCHANGED <<now, run>>
  BY <1>0 DEF TakeEffect, WorldTypeOK
<1>4. Cycle!Give({o.contact}, Cycle!Ages)
  <2>1. \A c \in {o.contact} : written'[c] # None
    BY <1>2, <1>3, NoneAssumption
  <2>2. {o.contact} \in SUBSET Contacts
    BY <1>2
  <2> QED  BY <1>3, <2>1, <2>2, GiveStep
<1>5. Chosen' = Chosen
  BY <1>3 DEF run, Chosen, Unwritten
<1> QED  BY <1>2, <1>4, <1>5 DEF Cycle!Overtake

LEMMA TickStep ==
  ASSUME BatchInv, Tick, UNCHANGED <<crm, run>> PROVE Cycle!Older
<1>1. now \in Nat /\ now < MaxTime /\ now' = now + 1 /\ UNCHANGED written
  BY DEF Tick, BatchInv, TypeOK, StoreTypeOK, crm, hubspot
<1>2. KindOf' = KindOf
  BY <1>1 DEF KindOf
<1>3. Chosen' = Chosen
  BY DEF run, Chosen, Unwritten
<1>4. ASSUME NEW c \in Contacts
      PROVE  AgeOf'[c] = CASE KindOf[c] = "new"    -> 0
                           [] AgeOf[c] = MaxTime   -> MaxTime
                           [] OTHER                -> AgeOf[c] + 1
  <2>1. CASE written[c] = None
    <3>1. KindOf[c] = "new" /\ AgeOf'[c] = 0
      BY <1>1, <2>1 DEF KindOf, AgeOf, Kind
    <3>2. AgeOf[c] = 0
      BY <2>1 DEF AgeOf
    <3> QED  BY <1>1, <3>1, <3>2
  <2>2. CASE written[c] # None
    <3>1. written[c] \in Verdict /\ written[c].at \in Nat
      BY <2>2, WrittenAges
    <3>2. KindOf[c] # "new" /\ AgeOf[c] = now - written[c].at
          /\ AgeOf'[c] = now + 1 - written[c].at
      <4>1. KindOf[c] \in {"unknown", "definitive"}
        BY <3>1, KindResult DEF KindOf
      <4>2. AgeOf[c] = now - written[c].at /\ AgeOf'[c] = now' - written'[c].at
        BY <1>1, <2>2 DEF AgeOf
      <4>3. KindOf[c] # "new"
        BY <4>1
      <4>4. AgeOf'[c] = now + 1 - written[c].at
        <5>1. now' = now + 1 /\ written' = written
          BY <1>1
        <5>2. written'[c].at = written[c].at
          BY <5>1
        <5>3. now' - written'[c].at = now + 1 - written[c].at
          BY <1>1, <3>1, <5>1, <5>2
        <5> QED  BY <4>2, <5>3
      <4> QED  BY <4>2, <4>3, <4>4
    <3>3. AgeOf[c] # MaxTime /\ AgeOf'[c] = AgeOf[c] + 1
      BY <1>1, <3>1, <3>2
    <3> QED  BY <3>2, <3>3
  <2> QED  BY <2>1, <2>2
<1>5. AgeOf' = [c \in Contacts |-> CASE KindOf[c] = "new"    -> 0
                                     [] AgeOf[c] = MaxTime   -> MaxTime
                                     [] OTHER                -> AgeOf[c] + 1]
  BY <1>4 DEF AgeOf
<1> QED  BY <1>2, <1>3, <1>5 DEF Cycle!Older, KindOf, AgeOf

LEMMA CycleStep ==
  ASSUME BatchInv, BatchInv', [Next]_vars
  PROVE  [Cycle!CycleNext]_(Cycle!cycleVars)
<1>0. RunTypeOK /\ WorldTypeOK /\ RunTypeOK' /\ RunInv'
  BY Parts DEF BatchInv
<1> USE DEF cache, crm, hubspot
<1>1. ASSUME UNCHANGED <<written, now, run>> PROVE UNCHANGED Cycle!cycleVars
  <2>1. Chosen' = Chosen
    BY <1>1 DEF run, Chosen, Unwritten
  <2> QED  BY <1>1, <2>1, Stutter
<1>2. ASSUME NEW code, End(code), UNCHANGED <<now, written>> PROVE Cycle!Fail(Cycle!Ages)
  BY <1>2, EndChosen, GiveUp
<1>3. ASSUME UNCHANGED <<now, written, targets>>, step \in Steps \ {"idle", "fetch", "write"},
             step' \in Steps \ {"idle", "fetch"}, step' = "write" => i' = 1
      PROVE  UNCHANGED Cycle!cycleVars
  BY <1>0, <1>3, Working, Stutter
<1>4. CASE Begin
  <2>1. Chosen = {} /\ Chosen' = {}
    BY <1>4 DEF Begin, Chosen
  <2> QED  BY <1>4, <2>1, Stutter DEF Begin
<1>5. CASE Fetch
  BY <1>5, FetchStep DEF Cycle!CycleNext
<1>6. CASE GetItem \/ CheckItem \/ RemoveExpired
  <2>0. step \in {"get", "check", "delete"} /\ UNCHANGED <<now, written>>
    BY <1>6 DEF GetItem, CheckItem, RemoveExpired
  <2>1. CASE NextTarget
    <3>1. UNCHANGED targets /\ step' \in {"get", "verify", "write"}
          /\ (step' = "write" => i' = 1)
      BY <2>1 DEF NextTarget
    <3> QED  BY <1>3, <2>0, <3>1 DEF Steps
  <2>2. CASE UNCHANGED targets /\ step' \in {"check", "delete"}
    BY <1>3, <2>0, <2>2 DEF Steps
  <2>3. CASE End("failure")
    BY <1>2, <2>0, <2>3 DEF Cycle!CycleNext
  <2> QED  BY <1>6, <2>1, <2>2, <2>3 DEF GetItem, CheckItem, RemoveExpired, Missed
<1>7. ASSUME NEW n \in DOMAIN results, VerifyOne(n) PROVE UNCHANGED Cycle!cycleVars
  BY <1>3, <1>7 DEF VerifyOne, Steps
<1>8. CASE Verified
  BY <1>3, <1>8 DEF Verified, Steps
<1>9. CASE Put
  <2>1. CASE End("failure")
    BY <1>2, <1>9, <2>1 DEF Put, Cycle!CycleNext
  <2>2. CASE NextResult
    BY <1>3, <1>9, <2>2 DEF Put, NextResult, Steps
  <2> QED  BY <1>9, <2>1, <2>2 DEF Put
<1>10. CASE PutFails \/ Fail
  BY <1>2, <1>10 DEF PutFails, Fail, Cycle!CycleNext
<1>11. CASE WriteFails
  BY <1>11, WriteFailsStep DEF Cycle!CycleNext
<1>12. CASE WriteChunk
  BY <1>12, WriteChunkStep DEF Cycle!CycleNext
<1>13. CASE Server
  BY <1>1, <1>13, TickStep DEF Server, Reap, Cycle!CycleNext
<1>14. ASSUME NEW r, NEW a, OtherPut(r, a) \/ EditEmail(r, a)
       PROVE  UNCHANGED Cycle!cycleVars
  BY <1>1, <1>14 DEF OtherPut, EditEmail
<1>15. ASSUME NEW o \in late, TakeEffect(o) PROVE Cycle!CycleNext
  BY <1>15, TakeEffectStep DEF Cycle!CycleNext
<1>16. CASE UNCHANGED vars
  BY <1>1, <1>16 DEF vars, run
<1> QED
  BY <1>4, <1>5, <1>6, <1>7, <1>8, <1>9, <1>10, <1>11, <1>12, <1>13, <1>14, <1>15, <1>16
     DEF Next, Work, Failure, World

\* Every behaviour of the batch is one of the cycle: a run writes to the contacts
\* that were due when it fetched them, to no other and to none twice, for any
\* number of contacts, any limit, any chunk size and any point of failure.
THEOREM BatchImplementsCycle == Spec => ImplementsCycle
<1> QED  BY InitCycle, InitInv, CycleStep, Invariance, PTL DEF Spec, ImplementsCycle, Cycle!CycleSpec
=============================================================================
