------------------------ MODULE EvidenceCache_proofs ------------------------
(***************************************************************************)
(* Proofs about EvidenceCache, for any sets of requests and addresses, any *)
(* lifetime and any initial contents of the table.                         *)
(*                                                                         *)
(* IInv is the inductive invariant.  The part the properties cannot be     *)
(* proved without is ProvenanceOf: what a request carries in its local     *)
(* variables (the row it read, the answer it gave) is evidence about its   *)
(* own address just as much as what the table holds.                       *)
(*                                                                         *)
(* HInv adds what the history variables are for.  Its core says which      *)
(* evidence may follow which: TableFollows for what the table holds,       *)
(* WindowFollows for what an open request has seen, AnswerFollows for what *)
(* requests were answered.  A row that is stored may follow anything that  *)
(* is recorded (StoredFollows): a verification that began after another    *)
(* one ended has no older result (OrderOK).                                *)
(*                                                                         *)
(* Shape says what a step of a request comes to (it goes on, is answered,  *)
(* stores or forgets); each of the four is a step of the register.         *)
(***************************************************************************)
EXTENDS EvidenceCacheHistory, TLAPS

\* The row a request looks at, its own result and the answer it gave are
\* evidence about its address.
ProvenanceOf(r) ==
    /\ item[r] # None => Genuine(item[r].verdict, addr[r])
    /\ result[r] # None => result[r].addr = addr[r] /\ result[r].by = r
    /\ pc[r] = "put" => DefinitiveStatus(result[r].status)
    /\ outcome[r].verdict # None =>
          \/ outcome[r].verdict = result[r]
          \/ Genuine(outcome[r].verdict, addr[r]) /\ kind[r] # "refresh"

\* A refresh is never about to look a row up, and advice never verifies.
PathOf(r) ==
    /\ kind[r] = "refresh" => pc[r] \notin {"get", "check", "delete"}
    /\ kind[r] = "advise" => pc[r] \notin {"config", "engine", "put"}

\* Who is about to delete has read a row that had expired.
DeletesExpired(r) == pc[r] = "delete" => item[r].ttl <= now

\* The bodies of WarningNeedsInvalidEvidence and AdviceFailsOpen.
WarningOf(r) ==
    outcome[r].action = "warn" =>
        \/ addr[r] = Malformed
        \/ /\ outcome[r].verdict # None
           /\ Genuine(outcome[r].verdict, addr[r])
           /\ outcome[r].verdict.status = "Invalid"

AdviceOf(r) ==
    pc[r] = "done" /\ kind[r] = "advise" /\ addr[r] # Malformed =>
        \/ outcome[r].tag = "killed"
        \/ outcome[r].action = "allow"
        \/ outcome[r].verdict # None /\ outcome[r].verdict.status = "Invalid"

RequestOK(r) ==
    ProvenanceOf(r) /\ PathOf(r) /\ DeletesExpired(r) /\ WarningOf(r) /\ AdviceOf(r)

IInv ==
    /\ TypeOK
    /\ StoredEvidenceIsGenuine
    /\ \A r \in Requests : RequestOK(r)

-----------------------------------------------------------------------------
(* Type correctness. *)

USE DEF StoreTypeOK, PCs, Kinds, Tags

\* The program starts in a well-typed state.
LEMMA InitTypes == Init => TypeOK
<1> SUFFICES ASSUME Init PROVE TypeOK
  OBVIOUS
<1>1. StoreTypeOK
  <2>1. PriorItems \subseteq Item
    BY OutcomesAssumption, TTLAssumption DEF PriorItems, Item, Verdict
  <2> QED  BY <2>1 DEF Init, StoreInit
<1>2. LocalsOK
  BY DEF Init, LocalsOK, Open
<1> QED  BY <1>1, <1>2 DEF Init, TypeOK, NoOutcome

\* A verdict of an engine call and a row with it are well typed.
LEMMA VerdictTypes ==
    ASSUME TypeOK, NEW r \in Requests, addr[r] \in Addresses, NEW s \in Outcomes
    PROVE  [addr |-> addr[r], status |-> s, at |-> now, by |-> r] \in Verdict
BY DEF TypeOK, Verdict

LEMMA ItemTypes ==
    ASSUME TypeOK, NEW v \in Verdict
    PROVE  [verdict |-> v, ttl |-> now + TTL, readable |-> TRUE] \in Item
BY TTLAssumption DEF TypeOK, Item

\* None is told apart from every row and every verdict.
LEMMA NoneIsNone ==
    /\ None \notin Item /\ None \notin Verdict /\ None \notin Addresses
    /\ None # Malformed /\ Malformed \notin Addresses
BY NoneAssumption, NoneInputAssumption, MalformedAssumption

\* What every step of a request leaves typed, besides pc, outcome and item.
Carries(r) ==
    /\ now' = now /\ kind' = kind /\ addr' = addr
    /\ table' \in [Addresses -> Item \cup {None}]
    /\ result' \in [Requests -> Verdict \cup {None}]
    /\ \A q \in Requests \ {r} : result'[q] = result[q]

\* An open request may be closed with any answer of the right type.
LEMMA CloseTypes ==
    ASSUME TypeOK, NEW r \in Requests, Open(r), Carries(r),
           NEW t \in Tags, NEW a \in {"none", "allow", "warn"},
           NEW v \in Verdict \cup {None}, Close(r, t, a, v)
    PROVE  TypeOK'
<1>1. LocalsOK'
  BY NoneIsNone DEF TypeOK, LocalsOK, Open, Close, Carries
<1>2. outcome' \in [Requests -> [ tag : Tags \cup {"none"},
                                 action : {"none", "allow", "warn"},
                                 verdict : Verdict \cup {None} ]]
  BY DEF TypeOK, Close
<1> QED  BY <1>1, <1>2 DEF TypeOK, Close, Carries

\* An open request may go on to any step whose locals it has.
LEMMA GoToTypes ==
    ASSUME TypeOK, NEW r \in Requests, Open(r), Carries(r),
           NEW s \in PCs \ {"new", "get", "done"}, GoTo(r, s),
           s \in {"check", "delete"} => item[r] # None,
           s # "put" => result'[r] = None,
           s = "put" => result'[r] # None
    PROVE  TypeOK'
<1>1. LocalsOK'
  BY NoneIsNone DEF TypeOK, LocalsOK, Open, GoTo, Carries
<1> QED  BY <1>1 DEF TypeOK, GoTo, Carries

LEMMA UnavailableTypes ==
    ASSUME TypeOK, NEW r \in Requests, Open(r), Carries(r), Unavailable(r)
    PROVE  TypeOK'
<1>1. CASE Close(r, "advice_unavailable", "allow", None)
  BY <1>1, CloseTypes
<1>2. CASE Close(r, "cache_unavailable", "none", None)
  BY <1>2, CloseTypes
<1> QED  BY <1>1, <1>2 DEF Unavailable

LEMMA MissedTypes ==
    ASSUME TypeOK, NEW r \in Requests, Open(r), Carries(r), Missed(r),
           result'[r] = None
    PROVE  TypeOK'
<1>1. CASE Close(r, "advice_miss", "allow", None)
  BY <1>1, CloseTypes
<1>2. CASE GoTo(r, "config")
  BY <1>2, GoToTypes
<1> QED  BY <1>1, <1>2 DEF Missed

\* What the steps of a request have in common.
LEMMA StepCarries ==
    ASSUME TypeOK, NEW r \in Requests, Step(r)
    PROVE  Open(r) /\ Carries(r)
<1> USE DEF Open, Carries, TypeOK
<1>1. CASE GetItem(r)
  BY <1>1 DEF GetItem
<1>2. CASE CheckItem(r)
  BY <1>2 DEF CheckItem
<1>3. CASE RemoveExpired(r)
  BY <1>3 DEF RemoveExpired, DeleteItem
<1>4. CASE ValidateConfiguration(r)
  BY <1>4 DEF ValidateConfiguration
<1>5. CASE Verify(r)
  <2>1. addr[r] \in Addresses /\ now' = now /\ kind' = kind /\ addr' = addr
        /\ table' = table
    BY <1>5 DEF Verify, LocalsOK
  <2>2. \/ result' = result
        \/ \E v \in Verdict : result' = [result EXCEPT ![r] = v]
    BY <1>5, <2>1, VerdictTypes DEF Verify
  <2> QED  BY <1>5, <2>1, <2>2 DEF Verify
<1>6. CASE Put(r)
  <2>1. result[r] \in Verdict /\ result[r].addr \in Addresses
    BY <1>6 DEF Put, LocalsOK, Verdict
  <2> QED  BY <1>6, <2>1, ItemTypes DEF Put, PutItem
<1> QED  BY <1>1, <1>2, <1>3, <1>4, <1>5, <1>6 DEF Step

\* Every step keeps the types and the locals.
LEMMA StepTypes == TypeOK /\ [Next]_vars => TypeOK'
<1> SUFFICES ASSUME TypeOK, [Next]_vars PROVE TypeOK'
  OBVIOUS
<1> USE NoneIsNone
<1>1. ASSUME NEW r \in Requests, NEW k \in Kinds,
             NEW input \in Addresses \cup {Malformed}, Start(r, k, input)
      PROVE  TypeOK'
  BY <1>1 DEF TypeOK, LocalsOK, Open, Start, Close, GoTo, FirstStep
<1>2. ASSUME NEW r \in Requests, GetItem(r) PROVE TypeOK'
  <2>1. Open(r) /\ Carries(r) /\ result'[r] = None
    BY <1>2, StepCarries DEF GetItem, Step, TypeOK, LocalsOK
  <2>2. CASE Unavailable(r)
    BY <2>1, <2>2, UnavailableTypes
  <2>3. CASE Missed(r)
    BY <2>1, <2>3, MissedTypes
  <2>4. CASE /\ table[addr[r]] # None
             /\ item' = [item EXCEPT ![r] = table[addr[r]]]
             /\ pc' = [pc EXCEPT ![r] = "check"]
             /\ UNCHANGED outcome
    BY <1>2, <2>1, <2>4 DEF TypeOK, LocalsOK, Open, GetItem
  <2> QED  BY <1>2, <2>2, <2>3, <2>4 DEF GetItem
<1>3. ASSUME NEW r \in Requests, CheckItem(r) PROVE TypeOK'
  <2>1. Open(r) /\ Carries(r) /\ result'[r] = None
    BY <1>3, StepCarries DEF CheckItem, Step, TypeOK, LocalsOK
  <2>2. item[r] \in Item /\ item[r].verdict \in Verdict
    BY <1>3 DEF TypeOK, LocalsOK, CheckItem, Item
  <2>3. AdviceFor(item[r].verdict) \in {"none", "allow", "warn"}
    BY DEF AdviceFor
  <2>4. CASE GoTo(r, "delete")
    BY <2>1, <2>2, <2>4, GoToTypes
  <2>5. CASE Unavailable(r)
    BY <2>1, <2>5, UnavailableTypes
  <2>6. CASE Served(r, item[r].verdict)
    <3>1. CASE Close(r, "advice_cache", AdviceFor(item[r].verdict), item[r].verdict)
      BY <2>1, <2>2, <2>3, <3>1, CloseTypes
    <3>2. CASE Close(r, "hit", "none", item[r].verdict)
      BY <2>1, <2>2, <3>2, CloseTypes
    <3>3. CASE GoTo(r, "config")
      BY <2>1, <3>3, GoToTypes
    <3> QED  BY <2>6, <3>1, <3>2, <3>3 DEF Served
  <2> QED  BY <1>3, <2>4, <2>5, <2>6 DEF CheckItem
<1>4. ASSUME NEW r \in Requests, RemoveExpired(r) PROVE TypeOK'
  <2>1. Open(r) /\ Carries(r) /\ result'[r] = None
    BY <1>4, StepCarries DEF RemoveExpired, Step, TypeOK, LocalsOK
  <2> QED  BY <1>4, <2>1, MissedTypes DEF RemoveExpired
<1>5. ASSUME NEW r \in Requests, ValidateConfiguration(r) PROVE TypeOK'
  <2>1. Open(r) /\ Carries(r) /\ result'[r] = None
    BY <1>5, StepCarries DEF ValidateConfiguration, Step, TypeOK, LocalsOK
  <2> QED  BY <1>5, <2>1, CloseTypes, GoToTypes DEF ValidateConfiguration
<1>6. ASSUME NEW r \in Requests, Verify(r) PROVE TypeOK'
  <2>1. Open(r) /\ Carries(r) /\ addr[r] \in Addresses
    BY <1>6, StepCarries DEF Verify, Step, TypeOK, LocalsOK, Open
  <2>2. CASE Close(r, "verification_failed", "none", None) /\ UNCHANGED result
    BY <2>1, <2>2, CloseTypes
  <2>3. ASSUME NEW v \in Verdict, result' = [result EXCEPT ![r] = v],
               GoTo(r, "put") \/ Close(r, FreshTag(r), "none", v)
        PROVE  TypeOK'
    <3>1. result'[r] # None
      BY <2>3 DEF TypeOK
    <3>2. FreshTag(r) \in Tags
      BY DEF FreshTag
    <3> QED  BY <2>1, <2>3, <3>1, <3>2, CloseTypes, GoToTypes
  <2> QED  BY <1>6, <2>1, <2>2, <2>3, VerdictTypes DEF Verify
<1>7. ASSUME NEW r \in Requests, Put(r) PROVE TypeOK'
  <2>1. Open(r) /\ Carries(r)
    BY <1>7, StepCarries DEF Step
  <2>2. result[r] \in Verdict
    BY <1>7 DEF Put, TypeOK, LocalsOK
  <2>3. FreshTag(r) \in Tags
    BY DEF FreshTag
  <2>4. CASE Close(r, FreshTag(r), "none", result[r])
    BY <2>1, <2>2, <2>3, <2>4, CloseTypes
  <2> QED  BY <1>7, <2>1, <2>2, <2>4, UnavailableTypes DEF Put
<1>8. ASSUME NEW r \in Requests, Kill(r) PROVE TypeOK'
  <2>1. Carries(r)
    BY <1>8 DEF Kill, Carries, TypeOK
  <2> QED  BY <1>8, <2>1, CloseTypes DEF Kill
<1>9. ASSUME Server PROVE TypeOK'
  BY <1>9 DEF TypeOK, LocalsOK, Open, Server, reqVars, Tick, Reap
<1>10. CASE UNCHANGED vars
  BY <1>10 DEF TypeOK, LocalsOK, Open, vars
<1> QED
  BY <1>1, <1>2, <1>3, <1>4, <1>5, <1>6, <1>7, <1>8, <1>9, <1>10 DEF Next, Step

\* Type correctness, for every value of the constants.
THEOREM TypeCorrect == Spec => []TypeOK
BY InitTypes, StepTypes, PTL DEF Spec

-----------------------------------------------------------------------------
(* Evidence. *)

\* What an engine call returned is never changed.
LEMMA ResultsStay ==
    ASSUME TypeOK, [Next]_vars, NEW q \in Requests, result[q] # None
    PROVE  result'[q] = result[q]
<1>1. CASE UNCHANGED vars
  BY <1>1 DEF vars
<1>2. CASE Server
  BY <1>2 DEF Server, reqVars
<1>3. ASSUME NEW r \in Requests, Verify(r) PROVE result'[q] = result[q]
  BY <1>3 DEF Verify, TypeOK, LocalsOK
<1>4. ASSUME NEW r \in Requests, NEW k \in Kinds,
             NEW input \in Addresses \cup {Malformed}, Start(r, k, input)
      PROVE  result'[q] = result[q]
  BY <1>4 DEF Start
<1>5. ASSUME NEW r \in Requests,
             \/ GetItem(r) \/ CheckItem(r) \/ RemoveExpired(r)
             \/ ValidateConfiguration(r) \/ Put(r) \/ Kill(r)
      PROVE  result'[q] = result[q]
  BY <1>5 DEF GetItem, CheckItem, RemoveExpired, ValidateConfiguration, Put, Kill
<1> QED  BY <1>1, <1>2, <1>3, <1>4, <1>5 DEF Next, Step

\* Hence genuine evidence stays genuine.
LEMMA GenuineStays ==
    ASSUME TypeOK, [Next]_vars, NEW v \in Verdict, NEW a, Genuine(v, a)
    PROVE  Genuine(v, a)'
BY ResultsStay, NoneIsNone DEF Genuine, TypeOK, Verdict

\* The table holds genuine evidence only: a row is written by the verification
\* that got the verdict, under the address it asked about.
LEMMA StepStored == IInv /\ [Next]_vars => StoredEvidenceIsGenuine'
<1> SUFFICES ASSUME IInv, [Next]_vars,
                    NEW a \in Addresses, table'[a] # None,
                    NEW v, v = table'[a].verdict
             PROVE  Genuine(v, a)'
  BY DEF StoredEvidenceIsGenuine, Genuine
<1>1. CASE table'[a] = table[a]
  <2>1. v \in Verdict /\ Genuine(v, a)
    BY <1>1 DEF IInv, TypeOK, Item, StoredEvidenceIsGenuine
  <2> QED  BY <1>1, <2>1, GenuineStays DEF IInv
<1>2. ASSUME NEW r \in Requests, Put(r), table'[a] # table[a]
      PROVE  Genuine(v, a)'
  <2>1. /\ result[r] \in Verdict /\ result[r].addr = addr[r] /\ result[r].by = r
        /\ DefinitiveStatus(result[r].status) /\ result' = result
    BY <1>2 DEF Put, IInv, TypeOK, LocalsOK, RequestOK, ProvenanceOf
  <2>2. PutItem(result[r])
    BY <1>2 DEF Put
  <2>3. CASE a = addr[r]
    BY <2>1, <2>2, <2>3 DEF PutItem, IInv, TypeOK, Genuine
  <2>4. CASE a # addr[r]
    <3>1. table'[a] = table[a]
      BY <2>1, <2>2, <2>4 DEF PutItem, IInv, TypeOK
    <3> QED  BY <1>1, <3>1
  <2> QED  BY <2>3, <2>4
<1>3. CASE ~ \E r \in Requests : Put(r)
  <2>1. ASSUME NEW r \in Requests, RemoveExpired(r)
        PROVE  table'[a] \in {table[a], None}
    BY <2>1 DEF RemoveExpired, DeleteItem, IInv, TypeOK
  <2>2. ASSUME NEW r \in Requests,
               \/ GetItem(r) \/ CheckItem(r) \/ ValidateConfiguration(r)
               \/ Verify(r) \/ Kill(r)
        PROVE  table' = table
    BY <2>2 DEF GetItem, CheckItem, ValidateConfiguration, Verify, Kill
  <2>3. ASSUME NEW r \in Requests, NEW k \in Kinds,
               NEW input \in Addresses \cup {Malformed}, Start(r, k, input)
        PROVE  table' = table
    BY <2>3 DEF Start
  <2>4. Server => table'[a] \in {table[a], None}
    BY DEF Server, Tick, Reap, IInv, TypeOK
  <2>5. UNCHANGED vars => table' = table
    BY DEF vars
  <2>6. table'[a] \in {table[a], None}
    BY <1>3, <2>1, <2>2, <2>3, <2>4, <2>5 DEF Next, Step
  <2> QED  BY <1>1, <2>6
<1> QED  BY <1>1, <1>2, <1>3

\* A request that does not move keeps its part of the invariant.
LEMMA Frame ==
    ASSUME IInv, [Next]_vars, now' \in Nat, now' >= now, NEW q \in Requests,
           /\ pc'[q] = pc[q] /\ kind'[q] = kind[q] /\ addr'[q] = addr[q]
           /\ item'[q] = item[q] /\ outcome'[q] = outcome[q]
           /\ result'[q] = result[q]
    PROVE  RequestOK(q)'
<1> USE DEF IInv
<1>1. /\ item[q] # None => item[q].verdict \in Verdict /\ item[q].ttl \in Nat
      /\ outcome[q].verdict # None => outcome[q].verdict \in Verdict
      /\ pc[q] = "delete" => item[q] # None
      /\ now \in Nat
  BY DEF TypeOK, LocalsOK, Item
<1>2. ProvenanceOf(q)'
  BY <1>1, GenuineStays DEF RequestOK, ProvenanceOf
<1>3. WarningOf(q)'
  BY <1>1, GenuineStays DEF RequestOK, WarningOf
<1>4. DeletesExpired(q)'
  <2> SUFFICES ASSUME pc[q] = "delete" PROVE item[q].ttl <= now'
    BY DEF DeletesExpired
  <2>1. item[q].ttl \in Nat /\ item[q].ttl <= now
    BY <1>1 DEF RequestOK, DeletesExpired
  <2> QED  BY <1>1, <2>1
<1>5. PathOf(q)' /\ AdviceOf(q)'
  BY DEF RequestOK, PathOf, AdviceOf
<1> QED  BY <1>2, <1>3, <1>4, <1>5 DEF RequestOK

\* A request keeps its part of the invariant when it goes on to a step that
\* its kind may take, with what that step needs.
LEMMA GoToOK ==
    ASSUME IInv, [Next]_vars, NEW r \in Requests, Open(r), Carries(r),
           NEW s \in PCs \ {"new", "get", "done"}, GoTo(r, s),
           s \in {"check", "delete"} => kind[r] # "refresh",
           s \in {"config", "engine", "put"} => kind[r] # "advise",
           s = "delete" => item[r].ttl <= now,
           s = "put" => DefinitiveStatus(result'[r].status),
           result'[r] # None => result'[r].addr = addr[r] /\ result'[r].by = r
    PROVE  RequestOK(r)'
<1> USE DEF IInv
<1>1. /\ item[r] # None => item[r].verdict \in Verdict
      /\ outcome[r] = NoOutcome
      /\ pc'[r] = s /\ item'[r] = item[r] /\ outcome'[r] = outcome[r]
      /\ kind'[r] = kind[r] /\ addr'[r] = addr[r] /\ now' = now
  BY DEF TypeOK, LocalsOK, Item, GoTo, Carries, Open
<1>2. ProvenanceOf(r)'
  BY <1>1, GenuineStays DEF RequestOK, ProvenanceOf, NoOutcome
<1> QED
  BY <1>1, <1>2
  DEF RequestOK, PathOf, DeletesExpired, WarningOf, AdviceOf, NoOutcome

\* A request keeps its part of the invariant when it is closed with an answer
\* it may give.
LEMMA CloseOK ==
    ASSUME IInv, [Next]_vars, NEW r \in Requests, Open(r), Carries(r),
           NEW t \in Tags, NEW a \in {"none", "allow", "warn"},
           NEW v \in Verdict \cup {None}, Close(r, t, a, v),
           result'[r] # None => result'[r].addr = addr[r] /\ result'[r].by = r,
           v # None => v = result'[r] \/ (Genuine(v, addr[r]) /\ kind[r] # "refresh"),
           a = "warn" => v # None /\ Genuine(v, addr[r]) /\ v.status = "Invalid",
           kind[r] = "advise" => t = "killed" \/ a \in {"allow", "warn"}
    PROVE  RequestOK(r)'
<1> USE DEF IInv
<1>1. /\ outcome'[r] = [tag |-> t, action |-> a, verdict |-> v]
      /\ pc'[r] = "done" /\ item'[r] = None
      /\ kind'[r] = kind[r] /\ addr'[r] = addr[r] /\ now' = now
  BY DEF TypeOK, Close, Carries
<1>2. v # None /\ Genuine(v, addr[r]) => Genuine(v, addr[r])'
  <2> SUFFICES ASSUME v # None, Genuine(v, addr[r]) PROVE Genuine(v, addr[r])'
    OBVIOUS
  <2>1. PICK b : b = addr[r]
    OBVIOUS
  <2>2. Genuine(v, b)'
    BY <2>1, GenuineStays
  <2> QED  BY <1>1, <2>1, <2>2 DEF Genuine
<1>3. ProvenanceOf(r)'
  BY <1>1, <1>2 DEF ProvenanceOf, Genuine
<1>4. WarningOf(r)'
  BY <1>1, <1>2 DEF WarningOf, Genuine
<1> QED
  BY <1>1, <1>3, <1>4 DEF RequestOK, PathOf, DeletesExpired, AdviceOf

\* A step of r moves no other request.
LEMMA OthersStay ==
    ASSUME IInv, [Next]_vars, NEW r \in Requests, Step(r) \/ Kill(r),
           NEW q \in Requests \ {r}
    PROVE  RequestOK(q)'
<1>1. /\ pc'[q] = pc[q] /\ item'[q] = item[q] /\ outcome'[q] = outcome[q]
      /\ result'[q] = result[q] /\ kind' = kind /\ addr' = addr /\ now' = now
  <2> USE DEF IInv, TypeOK, Close, GoTo, Missed, Unavailable, Served
  <2>1. CASE GetItem(r)
    BY <2>1 DEF GetItem
  <2>2. CASE CheckItem(r)
    BY <2>2 DEF CheckItem
  <2>3. CASE RemoveExpired(r)
    BY <2>3 DEF RemoveExpired
  <2>4. CASE ValidateConfiguration(r)
    BY <2>4 DEF ValidateConfiguration
  <2>5. CASE Verify(r)
    BY <2>5 DEF Verify
  <2>6. CASE Put(r)
    BY <2>6 DEF Put
  <2>7. CASE Kill(r)
    BY <2>7 DEF Kill
  <2> QED  BY <2>1, <2>2, <2>3, <2>4, <2>5, <2>6, <2>7 DEF Step
<1> QED  BY <1>1, Frame DEF IInv, TypeOK

\* A verification or a lookup that missed goes on, advice that missed ends.
LEMMA MissedOK ==
    ASSUME IInv, [Next]_vars, NEW r \in Requests, Open(r), Carries(r),
           result' = result, Missed(r)
    PROVE  RequestOK(r)'
<1>1. result'[r] # None => result'[r].addr = addr[r] /\ result'[r].by = r
  BY DEF IInv, RequestOK, ProvenanceOf
<1>2. CASE Advising(r)
  BY <1>1, <1>2, CloseOK DEF Missed, Advising
<1>3. CASE ~Advising(r)
  BY <1>1, <1>3, GoToOK DEF Missed, Advising
<1> QED  BY <1>2, <1>3

LEMMA UnavailableOK ==
    ASSUME IInv, [Next]_vars, NEW r \in Requests, Open(r), Carries(r),
           result' = result, Unavailable(r)
    PROVE  RequestOK(r)'
<1>1. result'[r] # None => result'[r].addr = addr[r] /\ result'[r].by = r
  BY DEF IInv, RequestOK, ProvenanceOf
<1>2. CASE Advising(r)
  BY <1>1, <1>2, CloseOK DEF Unavailable, Advising
<1>3. CASE ~Advising(r)
  BY <1>1, <1>3, CloseOK DEF Unavailable, Advising
<1> QED  BY <1>2, <1>3

\* The step of a request keeps its own part of the invariant.
LEMMA StepRequest ==
    ASSUME IInv, [Next]_vars, NEW r \in Requests, Step(r)
    PROVE  RequestOK(r)'
<1> USE NoneIsNone
<1> USE DEF IInv
<1>0. Open(r) /\ Carries(r)
  BY StepCarries
<1>1. result[r] # None => result[r].addr = addr[r] /\ result[r].by = r
  BY DEF RequestOK, ProvenanceOf
<1>2. CASE GetItem(r)
  <2>1. result' = result /\ kind[r] # "refresh"
    BY <1>2 DEF GetItem, RequestOK, PathOf
  <2>2. CASE table[addr[r]] # None /\ item' = [item EXCEPT ![r] = table[addr[r]]]
             /\ pc' = [pc EXCEPT ![r] = "check"] /\ UNCHANGED outcome
    <3>1. Genuine(table[addr[r]].verdict, addr[r])
      BY <1>0, <2>2 DEF StoredEvidenceIsGenuine, TypeOK, LocalsOK
    <3>2. outcome[r] = NoOutcome
      BY <1>2 DEF GetItem, TypeOK, LocalsOK
    <3> QED
      BY <1>0, <1>1, <2>1, <2>2, <3>1, <3>2
      DEF Carries, TypeOK, RequestOK, ProvenanceOf, PathOf, DeletesExpired, WarningOf,
          AdviceOf, NoOutcome, Genuine
  <2> QED  BY <1>0, <1>2, <2>1, <2>2, MissedOK, UnavailableOK DEF GetItem
<1>3. CASE CheckItem(r)
  <2>1. /\ item[r].verdict \in Verdict /\ Genuine(item[r].verdict, addr[r])
        /\ kind[r] # "refresh" /\ result' = result
    BY <1>3 DEF CheckItem, TypeOK, LocalsOK, Item, RequestOK, ProvenanceOf, PathOf
  <2>2. CASE Expired(item[r], now) /\ GoTo(r, "delete")
    BY <1>0, <1>1, <2>1, <2>2, GoToOK DEF Expired
  <2>3. CASE Advising(r) /\ Served(r, item[r].verdict)
    <3>1. Close(r, "advice_cache", AdviceFor(item[r].verdict), item[r].verdict)
      BY <2>3 DEF Served
    <3>2. AdviceFor(item[r].verdict) \in {"allow", "warn"}
      BY DEF AdviceFor
    <3>3. AdviceFor(item[r].verdict) = "warn" => item[r].verdict.status = "Invalid"
      BY DEF AdviceFor
    <3> QED  BY <1>0, <1>1, <2>1, <3>1, <3>2, <3>3, CloseOK
  <2>4. CASE ~Advising(r) /\ Served(r, item[r].verdict)
    <3>1. CASE Close(r, "hit", "none", item[r].verdict)
      BY <1>0, <1>1, <2>1, <2>4, <3>1, CloseOK DEF Advising
    <3>2. CASE GoTo(r, "config")
      BY <1>0, <1>1, <2>1, <2>4, <3>2, GoToOK DEF Advising
    <3> QED  BY <2>4, <3>1, <3>2 DEF Served
  <2> QED  BY <1>0, <1>3, <2>1, <2>2, <2>3, <2>4, UnavailableOK DEF CheckItem
<1>4. CASE RemoveExpired(r)
  BY <1>0, <1>4, MissedOK DEF RemoveExpired
<1>5. CASE ValidateConfiguration(r)
  <2>1. kind[r] # "advise" /\ result' = result
    BY <1>5 DEF ValidateConfiguration, RequestOK, PathOf
  <2> QED  BY <1>0, <1>1, <1>5, <2>1, CloseOK, GoToOK DEF ValidateConfiguration
<1>6. CASE Verify(r)
  <2>1. kind[r] # "advise" /\ addr[r] \in Addresses
    BY <1>6 DEF Verify, RequestOK, PathOf, TypeOK, LocalsOK, Open
  <2>2. CASE Close(r, "verification_failed", "none", None) /\ UNCHANGED result
    BY <1>0, <1>1, <2>1, <2>2, CloseOK
  <2>3. ASSUME NEW v \in Verdict, v.addr = addr[r], v.by = r,
               result' = [result EXCEPT ![r] = v],
               \/ Storable(v) /\ GoTo(r, "put")
               \/ Close(r, FreshTag(r), "none", v)
        PROVE  RequestOK(r)'
    <3>1. result'[r] = v
      BY <2>3 DEF TypeOK
    <3>2. CASE Close(r, FreshTag(r), "none", v)
      <4>1. FreshTag(r) \in Tags
        BY DEF FreshTag
      <4> QED  BY <1>0, <2>1, <2>3, <3>1, <3>2, <4>1, CloseOK
    <3>3. CASE Storable(v) /\ GoTo(r, "put")
      BY <1>0, <2>1, <2>3, <3>1, <3>3, GoToOK DEF Storable
    <3> QED  BY <2>3, <3>2, <3>3
  <2> QED  BY <1>6, <2>1, <2>2, <2>3, VerdictTypes DEF Verify
<1>7. CASE Put(r)
  <2>1. kind[r] # "advise" /\ result' = result /\ result[r] \in Verdict
    BY <1>7 DEF Put, RequestOK, PathOf, TypeOK, LocalsOK
  <2>2. CASE Close(r, FreshTag(r), "none", result[r])
    <3>1. FreshTag(r) \in Tags
      BY DEF FreshTag
    <3> QED  BY <1>0, <1>1, <2>1, <2>2, <3>1, CloseOK
  <2> QED  BY <1>0, <1>7, <2>1, <2>2, UnavailableOK DEF Put
<1> QED  BY <1>2, <1>3, <1>4, <1>5, <1>6, <1>7 DEF Step

\* Every step keeps the invariant of every request.
LEMMA StepRequests ==
    ASSUME IInv, [Next]_vars, NEW q \in Requests
    PROVE  RequestOK(q)'
<1> USE NoneIsNone
<1> USE DEF IInv
<1>1. ASSUME NEW r \in Requests, NEW k \in Kinds,
             NEW input \in Addresses \cup {Malformed}, Start(r, k, input)
      PROVE  RequestOK(q)'
  <2>1. CASE q # r
    BY <1>1, <2>1, Frame DEF TypeOK, Start, Close, GoTo
  <2>2. CASE q = r
    <3>1. result'[r] = None /\ item'[r] = None /\ kind'[r] = k /\ addr'[r] = input
      BY <1>1 DEF Start, TypeOK, LocalsOK, Close, GoTo
    <3>2. CASE input = Malformed
      BY <1>1, <2>2, <3>1, <3>2
      DEF Start, TypeOK, Close, RequestOK, ProvenanceOf, PathOf, DeletesExpired,
          WarningOf, AdviceOf
    <3>3. CASE input # Malformed
      <4>1. outcome'[r] = NoOutcome /\ pc'[r] = FirstStep(k)
        BY <1>1, <3>3 DEF Start, TypeOK, LocalsOK, GoTo
      <4> QED
        BY <2>2, <3>1, <4>1
        DEF FirstStep, RequestOK, ProvenanceOf, PathOf, DeletesExpired, WarningOf,
            AdviceOf, NoOutcome
    <3> QED  BY <3>2, <3>3
  <2> QED  BY <2>1, <2>2
<1>2. ASSUME NEW r \in Requests, Kill(r) PROVE RequestOK(q)'
  <2>1. CASE q # r
    BY <1>2, <2>1, OthersStay
  <2>2. CASE q = r
    <3>1. Open(r) /\ Carries(r) /\ result' = result
      BY <1>2 DEF Kill, Carries, TypeOK
    <3> QED  BY <1>2, <2>2, <3>1, CloseOK DEF Kill, RequestOK, ProvenanceOf
  <2> QED  BY <2>1, <2>2
<1>3. ASSUME NEW r \in Requests, Step(r) PROVE RequestOK(q)'
  BY <1>3, OthersStay, StepRequest
<1>4. CASE Server
  BY <1>4, Frame DEF Server, Tick, Reap, reqVars, TypeOK
<1>5. CASE UNCHANGED vars
  BY <1>5, Frame DEF vars, TypeOK
<1> QED  BY <1>1, <1>2, <1>3, <1>4, <1>5 DEF Next

LEMMA InitInv == Init => IInv
<1> SUFFICES ASSUME Init PROVE IInv
  OBVIOUS
<1>1. TypeOK
  BY InitTypes
<1>2. StoredEvidenceIsGenuine
  BY PriorAssumption DEF Init, StoreInit, PriorItems, StoredEvidenceIsGenuine, Genuine
<1>3. ASSUME NEW r \in Requests PROVE RequestOK(r)
  BY DEF Init, NoOutcome, RequestOK, ProvenanceOf, PathOf, DeletesExpired, WarningOf,
         AdviceOf
<1> QED  BY <1>1, <1>2, <1>3 DEF IInv

\* The inductive invariant.
THEOREM Invariance == Spec => []IInv
<1>1. IInv /\ [Next]_vars => IInv'
  BY StepTypes, StepStored, StepRequests DEF IInv
<1> QED  BY <1>1, InitInv, PTL DEF Spec

-----------------------------------------------------------------------------
(* The properties. *)

\* Whatever calls fail or are cut off, the table holds definitive evidence
\* only, under the address it is about, as an engine call returned it.
THEOREM StoredEvidence == Spec => []StoredEvidenceIsGenuine
BY Invariance, PTL DEF IInv

\* A warning is about a malformed input, or about an address that an engine
\* call found Invalid.
THEOREM Warnings == Spec => []WarningNeedsInvalidEvidence
<1>1. IInv => WarningNeedsInvalidEvidence
  BY DEF IInv, RequestOK, WarningOf, WarningNeedsInvalidEvidence
<1> QED  BY <1>1, Invariance, PTL

\* Advice is given, and to allow, whenever the cache has nothing or fails.
THEOREM FailsOpen == Spec => []AdviceFailsOpen
<1>1. IInv => AdviceFailsOpen
  BY DEF IInv, RequestOK, AdviceOf, AdviceFailsOpen, Done
<1> QED  BY <1>1, Invariance, PTL

\* A refresh answers with nothing but its own engine result.
THEOREM Refreshes == Spec => []RefreshAnswersOwnResult
<1>1. IInv => RefreshAnswersOwnResult
  BY DEF IInv, RequestOK, ProvenanceOf, RefreshAnswersOwnResult
<1> QED  BY <1>1, Invariance, PTL

\* Where a step can change the table.
LEMMA TableSteps ==
    ASSUME IInv, [Next]_vars, table' # table
    PROVE  \/ \E r \in Requests : /\ Put(r) /\ PutItem(result[r])
                                 /\ result[r] \in Verdict
                                 /\ result[r].addr \in Addresses
           \/ \E r \in Requests : RemoveExpired(r) /\ DeleteItem(addr[r])
           \/ \E a \in Addresses : Reap(a)
<1> USE DEF IInv
<1>1. ASSUME NEW r \in Requests,
             \/ GetItem(r) \/ CheckItem(r) \/ ValidateConfiguration(r)
             \/ Verify(r) \/ Kill(r)
      PROVE  FALSE
  BY <1>1 DEF GetItem, CheckItem, ValidateConfiguration, Verify, Kill
<1>2. ASSUME NEW r \in Requests, NEW k \in Kinds,
             NEW input \in Addresses \cup {Malformed}, Start(r, k, input)
      PROVE  FALSE
  BY <1>2 DEF Start
<1>3. ASSUME NEW r \in Requests, Put(r)
      PROVE  PutItem(result[r]) /\ result[r] \in Verdict /\ result[r].addr \in Addresses
  BY <1>3 DEF Put, TypeOK, LocalsOK, Verdict
<1>4. ASSUME NEW r \in Requests, RemoveExpired(r) PROVE DeleteItem(addr[r])
  BY <1>4 DEF RemoveExpired
<1>5. ~ UNCHANGED vars /\ ~Tick
  BY DEF vars, Tick
<1> QED  BY <1>1, <1>2, <1>3, <1>4, <1>5 DEF Next, Step, Server

\* Only the verification that produced a verdict stores it.
THEOREM Storing == Spec => OnlyTheProducerStores
<1>1. ASSUME IInv, [Next]_vars, NEW a \in Addresses,
             table'[a] # table[a], table'[a] # None
      PROVE  LET r == table'[a].verdict.by IN
             r \in Requests /\ pc[r] = "put" /\ table'[a].verdict = result[r]
  <2>1. PICK r \in Requests : Put(r) /\ PutItem(result[r])
    BY <1>1, TableSteps DEF RemoveExpired, DeleteItem, Reap, IInv, TypeOK
  <2>2. result[r].by = r
    BY <1>1, <2>1 DEF Put, IInv, TypeOK, LocalsOK, RequestOK, ProvenanceOf
  <2> QED  BY <1>1, <2>1, <2>2 DEF PutItem, Put, IInv, TypeOK
<1>2. IInv /\ [Next]_vars =>
        [\A a \in Addresses : table'[a] # table[a] /\ table'[a] # None =>
            LET r == table'[a].verdict.by IN
            /\ r \in Requests
            /\ pc[r] = "put"
            /\ table'[a].verdict = result[r]]_vars
  BY <1>1
<1> QED  BY <1>2, Invariance, PTL DEF Spec, OnlyTheProducerStores

\* Fresh evidence is lost only to a reader of an older row.
THEOREM FreshLoss == Spec => FreshLossNeedsRacingReader
<1>1. ASSUME IInv, [Next]_vars, NEW a \in Addresses,
             table[a] # None, table[a].ttl > now, table'[a] = None
      PROVE  \E r \in Requests : pc[r] = "delete" /\ addr[r] = a /\ item[r] # table[a]
  <2>1. table[a].ttl \in Nat /\ now \in Nat
    BY <1>1 DEF IInv, TypeOK, Item
  <2>2. ASSUME NEW b \in Addresses, Reap(b) PROVE FALSE
    BY <1>1, <2>1, <2>2 DEF Reap, IInv, TypeOK
  <2>3. ASSUME NEW r \in Requests, PutItem(result[r]), result[r] \in Verdict
        PROVE  FALSE
    <3>1. table'[a] = table[a] \/ table'[a] \in Item
      BY <1>1, <2>3, ItemTypes DEF PutItem, IInv, TypeOK
    <3> QED  BY <1>1, <3>1, NoneIsNone
  <2>4. PICK r \in Requests : RemoveExpired(r) /\ DeleteItem(addr[r])
    BY <1>1, <2>2, <2>3, TableSteps
  <2>5. pc[r] = "delete" /\ addr[r] = a
    BY <1>1, <2>4 DEF RemoveExpired, DeleteItem, IInv, TypeOK
  <2>6. item[r] \in Item /\ item[r].ttl <= now
    BY <1>1, <2>5 DEF IInv, TypeOK, LocalsOK, RequestOK, DeletesExpired
  <2> QED  BY <1>1, <2>1, <2>5, <2>6 DEF Item
<1>2. IInv /\ [Next]_vars =>
        [\A a \in Addresses :
            table[a] # None /\ table[a].ttl > now /\ table'[a] = None =>
               \E r \in Requests : /\ pc[r] = "delete"
                                  /\ addr[r] = a
                                  /\ item[r] # table[a]]_vars
  BY <1>1
<1> QED  BY <1>2, Invariance, PTL DEF Spec, FreshLossNeedsRacingReader

\* Nothing is served from a row whose ttl has been reached.
THEOREM Serving == Spec => NothingExpiredIsServed
<1>1. ASSUME IInv, [Next]_vars, NEW r \in Requests, outcome'[r] # outcome[r],
             outcome'[r].tag \in {"hit", "advice_cache"}
      PROVE  item[r].ttl > now
  <2>1. ASSUME NEW q \in Requests, NEW t \in Tags \ {"hit", "advice_cache"}, NEW a,
               NEW v, Close(q, t, a, v)
        PROVE  FALSE
    BY <1>1, <2>1 DEF Close, IInv, TypeOK
  <2>2. ASSUME NEW q \in Requests, NEW s, GoTo(q, s) PROVE FALSE
    BY <1>1, <2>2 DEF GoTo
  <2>3. ASSUME NEW q \in Requests, Unavailable(q) \/ Missed(q) PROVE FALSE
    BY <2>1, <2>2, <2>3 DEF Unavailable, Missed
  <2>4. ASSUME NEW q \in Requests PROVE FreshTag(q) \in Tags \ {"hit", "advice_cache"}
    BY DEF FreshTag
  <2>5. ASSUME NEW q \in Requests,
               \/ GetItem(q) \/ RemoveExpired(q) \/ ValidateConfiguration(q)
               \/ Verify(q) \/ Put(q) \/ Kill(q)
        PROVE  FALSE
    BY <1>1, <2>1, <2>2, <2>3, <2>4, <2>5
    DEF GetItem, RemoveExpired, ValidateConfiguration, Verify, Put, Kill
  <2>6. ASSUME NEW q \in Requests, NEW k \in Kinds,
               NEW input \in Addresses \cup {Malformed}, Start(q, k, input)
        PROVE  FALSE
    BY <2>1, <2>2, <2>6 DEF Start
  <2>7. ~Server /\ ~UNCHANGED vars
    BY <1>1 DEF Server, reqVars, vars
  <2>8. PICK q \in Requests : CheckItem(q)
    BY <1>1, <2>5, <2>6, <2>7 DEF Next, Step
  <2>9. q = r /\ ~Expired(item[q], now)
    <3>1. CASE Expired(item[q], now)
      BY <2>2, <2>8, <3>1 DEF CheckItem
    <3>2. CASE q # r
      BY <1>1, <2>3, <2>8, <3>2
      DEF CheckItem, Served, Unavailable, Missed, Close, GoTo, IInv, TypeOK
    <3> QED  BY <3>1, <3>2
  <2>10. item[r].ttl \in Nat /\ now \in Nat
    BY <1>1, <2>8, <2>9 DEF CheckItem, IInv, TypeOK, LocalsOK, Item
  <2> QED  BY <2>9, <2>10 DEF Expired
<1>2. IInv /\ [Next]_vars =>
        [\A r \in Requests :
            outcome'[r] # outcome[r] /\ outcome'[r].tag \in {"hit", "advice_cache"} =>
               item[r].ttl > now]_vars
  BY <1>1
<1> QED  BY <1>2, Invariance, PTL DEF Spec, NothingExpiredIsServed

-----------------------------------------------------------------------------
(* What a step of a request comes to, for the two theorems about history.  *)

\* A step of r leaves the other requests where they are.
LEMMA Others ==
    ASSUME IInv, NEW r \in Requests, Step(r) \/ Kill(r), NEW q \in Requests \ {r}
    PROVE  /\ pc'[q] = pc[q] /\ item'[q] = item[q] /\ outcome'[q] = outcome[q]
           /\ result'[q] = result[q]
<1> USE DEF IInv, TypeOK, Close, GoTo, Missed, Unavailable, Served
<1>1. CASE GetItem(r)
  BY <1>1 DEF GetItem
<1>2. CASE CheckItem(r)
  BY <1>2 DEF CheckItem
<1>3. CASE RemoveExpired(r)
  BY <1>3 DEF RemoveExpired
<1>4. CASE ValidateConfiguration(r)
  BY <1>4 DEF ValidateConfiguration
<1>5. CASE Verify(r)
  <2>1. \/ \E v : result' = [result EXCEPT ![r] = v]
        \/ result' = result
    BY <1>5 DEF Verify
  <2> DEFINE Stay == pc'[q] = pc[q] /\ item'[q] = item[q] /\ outcome'[q] = outcome[q]
  <2>2. ASSUME NEW t, NEW a, NEW v, Close(r, t, a, v) PROVE Stay
    BY <2>2
  <2>3. ASSUME NEW s, GoTo(r, s) PROVE Stay
    BY <2>3
  <2> HIDE DEF Stay, Close, GoTo
  <2>4. Stay
    BY <1>5, <2>2, <2>3 DEF Verify
  <2> USE DEF Stay
  <2> QED  BY <2>1, <2>4
<1>6. CASE Put(r)
  BY <1>6 DEF Put
<1>7. CASE Kill(r)
  BY <1>7 DEF Kill
<1> QED  BY <1>1, <1>2, <1>3, <1>4, <1>5, <1>6, <1>7 DEF Step

\* What a step of a request comes to: it goes on, possibly after deleting the
\* row; it is answered; it stores its result and ends; or it ends with the row
\* deleted.
GoesOn(r) ==
    /\ pc'[r] \notin {"new", "done"}
    /\ outcome'[r] = outcome[r]
    /\ \/ item'[r] = item[r]
       \/ table[addr[r]] # None /\ item'[r] = table[addr[r]] /\ table' = table
    /\ table' = table \/ DeleteItem(addr[r])

Ends(r) == pc'[r] = "done"

Answers(r) ==
    /\ Ends(r)
    /\ table' = table
    /\ \/ outcome'[r].verdict = None
       \/ /\ item[r] # None /\ ~Expired(item[r], now)
          /\ outcome'[r].verdict = item[r].verdict
       \/ /\ outcome'[r].verdict = result'[r] /\ result'[r] # None
          /\ result[r] = None
          /\ ~DefinitiveStatus(result'[r].status)

Stores(r) ==
    /\ Ends(r)
    /\ pc[r] = "put"
    /\ PutItem(result[r])
    /\ result' = result
    /\ outcome'[r].verdict \in {result[r], None}

Forgets(r) ==
    /\ Ends(r)
    /\ DeleteItem(addr[r])
    /\ outcome'[r].verdict = None

\* Only the engine's answer is a new result, and it carries the time.
Found(r) ==
    \/ result'[r] = result[r]
    \/ /\ result[r] = None /\ result'[r] # None /\ result'[r].at = now
       /\ result'[r].by = r /\ result'[r].addr = addr[r]

LEMMA Closes ==
    ASSUME TypeOK, NEW r \in Requests, NEW t, NEW a, NEW v, Close(r, t, a, v)
    PROVE  Ends(r) /\ outcome'[r].verdict = v /\ item'[r] = None
BY DEF TypeOK, Close, Ends

LEMMA GoesTo ==
    ASSUME TypeOK, NEW r \in Requests, NEW s, GoTo(r, s)
    PROVE  pc'[r] = s /\ outcome'[r] = outcome[r] /\ item'[r] = item[r]
BY DEF TypeOK, GoTo

LEMMA Shape ==
    ASSUME IInv, NEW r \in Requests, Step(r) \/ Kill(r)
    PROVE  /\ GoesOn(r) \/ Answers(r) \/ Stores(r) \/ Forgets(r)
           /\ Found(r)
<1>1. TypeOK
  BY DEF IInv
<1>2. CASE GetItem(r)
  <2>1. table' = table /\ result' = result
    BY <1>2 DEF GetItem
  <2>2. CASE table[addr[r]] # None /\ item' = [item EXCEPT ![r] = table[addr[r]]]
             /\ pc' = [pc EXCEPT ![r] = "check"] /\ UNCHANGED outcome
    <3>1. item'[r] = table[addr[r]] /\ pc'[r] = "check"
      BY <1>1, <2>2 DEF TypeOK
    <3> QED  BY <2>1, <2>2, <3>1 DEF GoesOn, Found
  <2>3. CASE Unavailable(r)
    BY <1>1, <2>1, <2>3, Closes DEF Unavailable, Answers, Found
  <2>4. CASE Missed(r)
    BY <1>1, <2>1, <2>4, Closes, GoesTo DEF Missed, Answers, GoesOn, Found
  <2> QED  BY <1>2, <2>2, <2>3, <2>4 DEF GetItem
<1>3. CASE CheckItem(r)
  <2>1. table' = table /\ result' = result /\ item[r] # None
    BY <1>1, <1>3 DEF CheckItem, TypeOK, LocalsOK
  <2>2. CASE Expired(item[r], now)
    BY <1>1, <1>3, <2>1, <2>2, GoesTo DEF CheckItem, GoesOn, Found
  <2>3. CASE ~Expired(item[r], now) /\ Unavailable(r)
    BY <1>1, <2>1, <2>3, Closes DEF Unavailable, Answers, Found
  <2>4. CASE ~Expired(item[r], now) /\ Served(r, item[r].verdict)
    BY <1>1, <2>1, <2>4, Closes, GoesTo DEF Served, Answers, GoesOn, Found
  <2> QED  BY <1>3, <2>2, <2>3, <2>4 DEF CheckItem
<1>4. CASE RemoveExpired(r)
  <2>1. result' = result /\ (table' = table \/ DeleteItem(addr[r])) /\ Missed(r)
    BY <1>4 DEF RemoveExpired
  <2> QED
    BY <1>1, <2>1, Closes, GoesTo DEF Missed, Answers, GoesOn, Forgets, Found
<1>5. CASE ValidateConfiguration(r)
  <2>1. table' = table /\ result' = result
    BY <1>5 DEF ValidateConfiguration
  <2> QED
    BY <1>1, <1>5, <2>1, Closes, GoesTo DEF ValidateConfiguration, Answers, GoesOn, Found
<1>6. CASE Verify(r)
  <2>1. table' = table /\ result[r] = None /\ addr[r] \in Addresses
    BY <1>1, <1>6 DEF Verify, TypeOK, LocalsOK, Open
  <2>2. CASE Close(r, "verification_failed", "none", None) /\ UNCHANGED result
    BY <1>1, <2>1, <2>2, Closes DEF Answers, Found
  <2>3. ASSUME NEW v \in Verdict, v.addr = addr[r], v.by = r, v.at = now,
               result' = [result EXCEPT ![r] = v],
               IF Storable(v) THEN GoTo(r, "put") ELSE Close(r, FreshTag(r), "none", v)
        PROVE  (GoesOn(r) \/ Answers(r)) /\ Found(r)
    <3>1. result'[r] = v /\ v # None
      BY <1>1, <2>3, NoneIsNone DEF TypeOK
    <3>2. Found(r)
      BY <2>1, <2>3, <3>1 DEF Found
    <3>3. CASE Storable(v)
      BY <1>1, <2>1, <2>3, <3>2, <3>3, GoesTo DEF GoesOn
    <3>4. CASE ~Storable(v)
      BY <1>1, <2>1, <2>3, <3>1, <3>2, <3>4, Closes DEF Answers, Storable
    <3> QED  BY <3>2, <3>3, <3>4
  <2> QED  BY <1>1, <1>6, <2>1, <2>2, <2>3, VerdictTypes DEF Verify
<1>7. CASE Put(r)
  <2>1. result' = result /\ pc[r] = "put"
    BY <1>7 DEF Put
  <2>2. CASE PutItem(result[r]) /\ Unavailable(r)
    BY <1>1, <2>1, <2>2, Closes DEF Unavailable, Stores, Found
  <2>3. CASE PutItem(result[r]) /\ Close(r, FreshTag(r), "none", result[r])
    BY <1>1, <2>1, <2>3, Closes DEF Stores, Found
  <2>4. CASE Unavailable(r) /\ UNCHANGED table
    BY <1>1, <2>1, <2>4, Closes DEF Unavailable, Answers, Found
  <2> QED  BY <1>7, <2>2, <2>3, <2>4 DEF Put
<1>8. CASE Kill(r)
  <2>1. Close(r, "killed", "none", None) /\ table' = table /\ result' = result
    BY <1>8 DEF Kill
  <2> QED  BY <1>1, <2>1, Closes DEF Answers, Found
<1> QED  BY <1>2, <1>3, <1>4, <1>5, <1>6, <1>7, <1>8 DEF Step

-----------------------------------------------------------------------------
(* The register. *)

\* A request starts.
LEMMA StartShape ==
    ASSUME IInv, NEW r \in Requests, NEW k \in Kinds,
           NEW input \in Addresses \cup {Malformed}, Start(r, k, input)
    PROVE  /\ pc[r] = "new" /\ addr' = [addr EXCEPT ![r] = input] /\ item'[r] = None
           /\ now' = now /\ table' = table /\ result' = result
           /\ \A q \in Requests \ {r} : pc'[q] = pc[q] /\ item'[q] = item[q]
                                       /\ outcome'[q] = outcome[q]
           /\ input = Malformed => Ends(r) /\ outcome'[r].verdict = None
           /\ input # Malformed => pc'[r] \notin {"new", "done"} /\ outcome'[r] = outcome[r]
<1>1. /\ pc[r] = "new" /\ addr' = [addr EXCEPT ![r] = input] /\ now' = now
      /\ table' = table /\ result' = result /\ item[r] = None
  BY DEF Start, IInv, TypeOK, LocalsOK
<1>2. CASE input = Malformed
  <2>1. \E t, a : Close(r, t, a, None)
    BY <1>2 DEF Start
  <2> QED  BY <1>1, <1>2, <2>1 DEF Close, Ends, IInv, TypeOK
<1>3. CASE input # Malformed
  <2>1. GoTo(r, FirstStep(k)) /\ FirstStep(k) \notin {"new", "done"}
    BY <1>3 DEF Start, FirstStep
  <2> QED  BY <1>1, <1>3, <2>1 DEF GoTo, IInv, TypeOK
<1> QED  BY <1>2, <1>3

\* The rows of a request that stays open are the same until its row is replaced.
LEMMA TableOfPut ==
    ASSUME IInv, NEW r \in Requests, Stores(r)
    PROVE  /\ result[r] \in Verdict /\ result[r].addr = addr[r] /\ result[r].by = r
           /\ addr[r] \in Addresses /\ DefinitiveStatus(result[r].status)
           /\ table' = [table EXCEPT ![addr[r]] =
                          [verdict |-> result[r], ttl |-> now + TTL, readable |-> TRUE]]
           /\ table'[addr[r]] \in Item /\ table'[addr[r]].verdict = result[r]
<1>1. /\ result[r] \in Verdict /\ result[r].addr = addr[r] /\ result[r].by = r
      /\ addr[r] \in Addresses /\ DefinitiveStatus(result[r].status)
  BY DEF Stores, IInv, TypeOK, LocalsOK, Open, RequestOK, ProvenanceOf
<1>2. [verdict |-> result[r], ttl |-> now + TTL, readable |-> TRUE] \in Item
  BY <1>1, ItemTypes DEF IInv
<1> QED  BY <1>1, <1>2 DEF Stores, PutItem, IInv, TypeOK

\* What can happen to the row of an address.
LEMMA RowMoves ==
    ASSUME IInv, [Next]_vars, NEW a \in Addresses
    PROVE  \/ table'[a] \in {table[a], None}
           \/ \E p \in Requests : Stores(p) /\ addr[p] = a
<1> USE DEF IInv, TypeOK
<1>1. ASSUME NEW r \in Requests, Step(r) \/ Kill(r)
      PROVE  \/ table'[a] \in {table[a], None}
             \/ \E p \in Requests : Stores(p) /\ addr[p] = a
  <2>1. CASE table' = table \/ DeleteItem(addr[r])
    BY <2>1 DEF DeleteItem
  <2>2. CASE Stores(r)
    <3>1. table' = [table EXCEPT ![addr[r]] =
                      [verdict |-> result[r], ttl |-> now + TTL, readable |-> TRUE]]
      BY <2>2, TableOfPut
    <3> QED  BY <2>2, <3>1
  <2> QED  BY <1>1, <2>1, <2>2, Shape DEF GoesOn, Answers, Forgets
<1>2. CASE UNCHANGED vars \/ Server
  BY <1>2 DEF vars, Server, Tick, Reap
<1>3. ASSUME NEW r \in Requests, NEW k \in Kinds,
             NEW input \in Addresses \cup {Malformed}, Start(r, k, input)
      PROVE  table' = table
  BY <1>3 DEF Start
<1> QED  BY <1>1, <1>2, <1>3 DEF Next

\* What can happen to a request.
Moves(q) ==
    /\ Found(q)
    /\ pc[q] = "done" => Ends(q) /\ outcome'[q] = outcome[q] /\ addr'[q] = addr[q]
    /\ Open(q) => addr'[q] = addr[q] /\ pc'[q] # "new"
    /\ Open(q)' /\ item'[q] # None =>
          /\ Open(q)
          /\ item'[q] \in {item[q], table[addr[q]]}
    /\ Ends(q) /\ pc[q] # "done" =>
          \/ outcome'[q].verdict = None
          \/ /\ Open(q) /\ item[q] # None /\ outcome'[q].verdict = item[q].verdict
             /\ table' = table
          \/ /\ Open(q) /\ result'[q] # None /\ outcome'[q].verdict = result'[q]
             /\ DefinitiveStatus(result'[q].status) =>
                   table'[addr[q]] \in Item /\ table'[addr[q]].verdict = result'[q]

LEMMA RequestMoves ==
    ASSUME IInv, [Next]_vars, NEW q \in Requests
    PROVE  Moves(q)
<1>1. ASSUME pc'[q] = pc[q], item'[q] = item[q], outcome'[q] = outcome[q],
             result'[q] = result[q], addr'[q] = addr[q]
      PROVE  Moves(q)
  <2>1. Found(q)
    BY <1>1 DEF Found
  <2>2. pc[q] = "new" => item[q] = None
    BY DEF IInv, TypeOK, LocalsOK
  <2> QED  BY <1>1, <2>1, <2>2 DEF Moves, Ends, Open
<1>2. CASE UNCHANGED vars \/ Server
  BY <1>1, <1>2 DEF vars, Server, reqVars
<1>3. ASSUME NEW r \in Requests, NEW k \in Kinds,
             NEW input \in Addresses \cup {Malformed}, Start(r, k, input)
      PROVE  Moves(q)
  <2>1. CASE q # r
    BY <1>1, <1>3, <2>1, StartShape DEF IInv, TypeOK
  <2>2. CASE q = r
    BY <1>3, <2>2, StartShape DEF Moves, Found, Ends, Open
  <2> QED  BY <2>1, <2>2
<1>4. ASSUME NEW r \in Requests, Step(r) \/ Kill(r)
      PROVE  Moves(q)
  <2>1. addr' = addr /\ Open(r)
    BY <1>4, StepCarries DEF Carries, Kill, IInv
  <2>2. CASE q # r
    BY <1>1, <1>4, <2>1, <2>2, Others
  <2>3. CASE q = r
    <3>1. Found(q) /\ (GoesOn(q) \/ Answers(q) \/ Stores(q) \/ Forgets(q))
      BY <1>4, <2>3, Shape
    <3>2. pc[q] \notin {"new", "done"}
      BY <2>1, <2>3 DEF Open
    <3>3. CASE GoesOn(q)
      BY <2>1, <2>3, <3>1, <3>2, <3>3 DEF Moves, GoesOn, Ends, Open
    <3>4. CASE Answers(q)
      BY <2>1, <2>3, <3>1, <3>2, <3>4 DEF Moves, Answers, Ends, Open
    <3>5. CASE Stores(q)
      <4>1. result[q] # None /\ result'[q] = result[q]
            /\ table'[addr[q]] \in Item /\ table'[addr[q]].verdict = result[q]
        BY <3>5, TableOfPut, NoneIsNone DEF Stores
      <4> QED  BY <2>1, <2>3, <3>1, <3>2, <3>5, <4>1 DEF Moves, Stores, Ends, Open
    <3>6. CASE Forgets(q)
      BY <2>1, <2>3, <3>1, <3>2, <3>6 DEF Moves, Forgets, Ends, Open
    <3> QED  BY <3>1, <3>3, <3>4, <3>5, <3>6
  <2> QED  BY <2>2, <2>3
<1> QED  BY <1>2, <1>3, <1>4 DEF Next

-----------------------------------------------------------------------------
(* The order of the evidence. *)

\* v is the verdict of the verification it names, or an old one.
Recorded(v, results) ==
    /\ v \in Verdict
    /\ v.by \in Requests => v = results[v.by]
    /\ v.by = Prior => v.at = 0

\* Who was answered v may be answered w later: w is not older, or the two
\* verifications ran at the same time.
MayFollow(v, w, ended) ==
    w.at < v.at => w.by # Prior /\ v.by \notin ended[w.by] /\ w.by \notin ended[v.by]

\* The window of an open request holds the present row of its address and the
\* row it looks at.
WindowOK ==
    \A r \in Requests :
        /\ ~Open(r) => window[r] = {}
        /\ Open(r) => RowOf(addr[r]) \subseteq window[r]
        /\ Open(r) /\ item[r] # None => item[r] \in window[r]
        /\ \A row \in window[r] : row \in Item /\ row.verdict.addr = addr[r]
                                 /\ DefinitiveStatus(row.verdict.status)
                                 /\ Recorded(row.verdict, result)

WindowTypeOK == window \in [Requests -> SUBSET Item]

Answered(r) == pc[r] = "done" /\ outcome[r].verdict # None

AnswersOK ==
    /\ \A a \in Addresses : table[a] # None => Recorded(table[a].verdict, result)
    /\ \A r \in Requests : Answered(r) => Recorded(outcome[r].verdict, result)

\* A request that began after another one ended has no older result.
OrderOK ==
    /\ \A r \in Requests : result[r] # None => result[r].at <= now
    /\ \A q \in Requests : \A r \in before[q] :
          /\ r \in Requests /\ pc[r] = "done"
          /\ result[q] # None =>
                /\ result[r] # None => result[r].at <= result[q].at
                /\ outcome[r].verdict # None => outcome[r].verdict.at <= result[q].at

Definite(r) == Answered(r) /\ DefinitiveStatus(outcome[r].verdict.status)

\* What the table holds may follow what was answered and what was held before,
\* and so may what a request has seen that began later, or is answered.
TableFollows ==
    \A r \in Requests : addr[r] \in Addresses /\ table[addr[r]] # None =>
        /\ Definite(r) => MayFollow(outcome[r].verdict, table[addr[r]].verdict, before)
        /\ \A row \in window[r] : MayFollow(row.verdict, table[addr[r]].verdict, before)

WindowFollows ==
    \A r, q \in Requests : Definite(r) /\ r \in before[q] /\ addr[q] = addr[r] =>
        \A row \in window[q] : MayFollow(outcome[r].verdict, row.verdict, before)

AnswerFollows ==
    \A r, q \in Requests :
        Definite(r) /\ Answered(q) /\ r \in before[q] /\ addr[q] = addr[r] =>
            MayFollow(outcome[r].verdict, outcome[q].verdict, before)

HInv ==
    /\ IInv
    /\ WindowTypeOK /\ WindowOK /\ AnswersOK /\ OrderOK
    /\ TableFollows /\ WindowFollows /\ AnswerFollows

LEMMA HistoryInitOK == ASSUME HistoryInit PROVE HInv
<1>1. IInv
  BY InitInv DEF HistoryInit
<1>2. \A r \in Requests : pc[r] = "new" /\ window[r] = {} /\ before[r] = {} /\ result[r] = None
                          /\ item[r] = None
  BY DEF HistoryInit, Init
<1>3. ASSUME NEW a \in Addresses, table[a] # None PROVE Recorded(table[a].verdict, result)
  <2>1. table[a].verdict \in Verdict
    BY <1>1, <1>3 DEF IInv, TypeOK, Item
  <2>2. table[a].verdict.by = Prior /\ table[a].verdict.at = 0
    BY <1>3 DEF HistoryInit, Init, StoreInit, PriorItems
  <2> QED  BY <2>1, <2>2, PriorAssumption DEF Recorded
<1>4. WindowOK /\ OrderOK /\ TableFollows /\ WindowFollows /\ AnswerFollows
  BY <1>2 DEF WindowOK, OrderOK, TableFollows, WindowFollows, AnswerFollows, Open, Answered,
              Definite
<1>5. AnswersOK
  BY <1>2, <1>3 DEF AnswersOK, Answered
<1>6. WindowTypeOK
  BY DEF WindowTypeOK, HistoryInit
<1> QED  BY <1>1, <1>4, <1>5, <1>6 DEF HInv

\* What the history variables do in a step.
Recording(q) ==
    /\ Open(q)' => window'[q] = window[q] \cup RowOf(addr[q])'
    /\ ~Open(q)' => window'[q] = {}
    /\ before'[q] = before[q] \/ (pc[q] = "new" /\ before'[q] = Done)

LEMMA Recordings ==
    ASSUME HInv, [HistoryNext]_historyVars, NEW q \in Requests
    PROVE  [Next]_vars /\ Recording(q)
<1>1. CASE HistoryNext
  BY <1>1 DEF HistoryNext, Record, Recording
<1>2. CASE UNCHANGED historyVars
  <2>1. UNCHANGED vars /\ window' = window /\ before' = before
    BY <1>2 DEF historyVars, vars
  <2>2. Open(q)' = Open(q) /\ RowOf(addr[q])' = RowOf(addr[q])
    BY <2>1 DEF Open, RowOf, vars
  <2> QED  BY <2>1, <2>2 DEF Recording, HInv, WindowOK
<1> QED  BY <1>1, <1>2

\* A verdict stays recorded, and what may follow it does not change.
LEMMA RecordedStays ==
    ASSUME IInv, [Next]_vars, NEW v, Recorded(v, result)
    PROVE  Recorded(v, result')
<1>1. v.by \in Requests => result[v.by] # None
  BY NoneIsNone DEF Recorded
<1> QED  BY <1>1, ResultsStay DEF Recorded, IInv

LEMMA FollowStays ==
    ASSUME HInv, [HistoryNext]_historyVars, NEW v, NEW w,
           Recorded(v, result), Recorded(w, result), MayFollow(v, w, before)
    PROVE  MayFollow(v, w, before')
<1> SUFFICES ASSUME w.at < v.at
             PROVE  w.by # Prior /\ v.by \notin before'[w.by] /\ w.by \notin before'[v.by]
  BY DEF MayFollow
<1>1. v.at \in Nat /\ w.at \in Nat /\ v.by \in Requests \cup {Prior}
      /\ w.by \in Requests \cup {Prior}
  BY DEF Recorded, Verdict
<1>2. w.by # Prior /\ v.by \notin before[w.by] /\ w.by \notin before[v.by]
  BY DEF MayFollow
<1>3. v.by # Prior
  BY <1>1 DEF Recorded
<1>4. ASSUME NEW u, Recorded(u, result), u.by \in Requests PROVE before'[u.by] = before[u.by]
  <2>1. result[u.by] # None
    BY <1>4, NoneIsNone DEF Recorded
  <2>2. pc[u.by] # "new"
    BY <1>4, <2>1 DEF HInv, IInv, TypeOK, LocalsOK
  <2> QED  BY <1>4, <2>2, Recordings DEF Recording
<1> QED  BY <1>1, <1>2, <1>3, <1>4

\* What a request is about to store may follow anything.
LEMMA StoredFollows ==
    ASSUME HInv, NEW p \in Requests, Stores(p), NEW v, Recorded(v, result)
    PROVE  MayFollow(v, result[p], before)
<1>1. result[p] \in Verdict /\ result[p].by = p /\ result[p] # None /\ p # Prior
  BY TableOfPut, NoneIsNone, PriorAssumption DEF HInv
<1> SUFFICES ASSUME result[p].at < v.at
             PROVE  v.by \notin before[p] /\ p \notin before[v.by]
  BY <1>1 DEF MayFollow
<1>2. v.at \in Nat /\ result[p].at \in Nat /\ v.by \in Requests \cup {Prior}
  BY <1>1 DEF Recorded, Verdict
<1>3. v.by \in Requests /\ v = result[v.by] /\ result[v.by] # None
  BY <1>2, NoneIsNone DEF Recorded
<1>4. v.by \notin before[p]
  BY <1>1, <1>2, <1>3 DEF HInv, OrderOK
<1>5. pc[p] = "put"
  BY DEF Stores
<1>6. p \notin before[v.by]
  BY <1>3, <1>5 DEF HInv, OrderOK
<1> QED  BY <1>4, <1>6

\* Only a request whose engine call runs gets a result.
LEMMA NewKeepsResult ==
    ASSUME IInv, [Next]_vars, NEW q \in Requests, pc[q] \in {"new", "done"}
    PROVE  result'[q] = result[q]
<1>1. ASSUME NEW r \in Requests, Step(r) \/ Kill(r) PROVE result'[q] = result[q]
  <2>1. Open(r)
    BY <1>1, StepCarries DEF Kill, IInv
  <2>2. q # r
    BY <2>1 DEF Open
  <2> QED  BY <1>1, <2>2, Others
<1>2. CASE UNCHANGED vars \/ Server
  BY <1>2 DEF vars, Server, reqVars
<1>3. ASSUME NEW r \in Requests, NEW k \in Kinds,
             NEW input \in Addresses \cup {Malformed}, Start(r, k, input)
      PROVE  result' = result
  BY <1>3 DEF Start
<1> QED  BY <1>1, <1>2, <1>3 DEF Next

LEMMA IInvStep == ASSUME IInv, [Next]_vars PROVE IInv'
BY StepTypes, StepStored, StepRequests DEF IInv

LEMMA IsStep ==
    ASSUME HInv, [HistoryNext]_historyVars
    PROVE  IInv /\ [Next]_vars /\ IInv'
<1>1. [Next]_vars
  BY DEF HistoryNext, historyVars, vars
<1> QED  BY <1>1, IInvStep DEF HInv

LEMMA RowsRecorded ==
    ASSUME HInv, [HistoryNext]_historyVars, NEW a \in Addresses, table'[a] # None
    PROVE  /\ table'[a] \in Item /\ table'[a].verdict.addr = a
           /\ DefinitiveStatus(table'[a].verdict.status)
           /\ Recorded(table'[a].verdict, result')
<1>1. IInv /\ [Next]_vars
  BY IsStep
<1>2. IInv'
  BY IsStep
<1>3. table'[a] \in Item /\ Genuine(table[a].verdict, a)'
  BY <1>2 DEF IInv, TypeOK, StoredEvidenceIsGenuine
<1>4. Recorded(table'[a].verdict, result')
  <2>1. CASE table'[a] = table[a]
    <3>1. Recorded(table[a].verdict, result)
      BY <2>1 DEF HInv, AnswersOK
    <3> QED  BY <1>1, <2>1, <3>1, RecordedStays
  <2>2. ASSUME NEW p \in Requests, Stores(p), addr[p] = a
        PROVE  Recorded(table'[a].verdict, result')
    <3>1. table'[a].verdict = result[p] /\ result' = result /\ result[p].by = p
          /\ result[p] \in Verdict
      BY <1>1, <2>2, TableOfPut DEF Stores
    <3> QED  BY <3>1, PriorAssumption DEF Recorded
  <2> QED  BY <1>1, <2>1, <2>2, RowMoves
<1> QED  BY <1>3, <1>4 DEF Genuine

LEMMA WindowStep ==
    ASSUME HInv, [HistoryNext]_historyVars PROVE WindowOK'
<1>1. IInv /\ [Next]_vars /\ IInv'
  BY IsStep
<1> SUFFICES ASSUME NEW q \in Requests
             PROVE  /\ ~Open(q)' => window'[q] = {}
                    /\ Open(q)' => RowOf(addr[q])' \subseteq window'[q]
                    /\ Open(q)' /\ item'[q] # None => item'[q] \in window'[q]
                    /\ \A row \in window'[q] :
                          /\ row \in Item /\ row.verdict.addr = addr'[q]
                          /\ DefinitiveStatus(row.verdict.status)
                          /\ Recorded(row.verdict, result')
  BY DEF WindowOK, Recorded
<1>2. Moves(q) /\ Recording(q)
  BY <1>1, RequestMoves, Recordings
<1>3. Open(q)' /\ item'[q] # None => item'[q] \in window'[q]
  <2> SUFFICES ASSUME Open(q)', item'[q] # None PROVE item'[q] \in window'[q]
    OBVIOUS
  <2>1. Open(q) /\ item'[q] \in {item[q], table[addr[q]]}
    BY <1>2 DEF Moves
  <2>2. item'[q] \in window[q]
    BY <2>1 DEF HInv, WindowOK, RowOf
  <2> QED  BY <1>2, <2>2 DEF Recording
<1>4. ASSUME NEW row \in window'[q]
      PROVE  /\ row \in Item /\ row.verdict.addr = addr'[q]
             /\ DefinitiveStatus(row.verdict.status)
             /\ Recorded(row.verdict, result')
  <2>1. Open(q)' /\ row \in window[q] \cup RowOf(addr[q])'
    BY <1>2 DEF Recording
  <2>2. CASE row \in window[q]
    <3>1. Open(q) /\ addr'[q] = addr[q]
      BY <1>2, <2>2 DEF HInv, WindowOK, Moves
    <3>2. /\ row \in Item /\ row.verdict.addr = addr[q]
          /\ DefinitiveStatus(row.verdict.status) /\ Recorded(row.verdict, result)
      BY <2>2 DEF HInv, WindowOK
    <3> QED  BY <1>1, <3>1, <3>2, RecordedStays
  <2>3. CASE row \in RowOf(addr[q])'
    <3>1. addr'[q] \in Addresses
      BY <1>1, <2>1 DEF IInv, TypeOK, LocalsOK
    <3>2. row = table'[addr'[q]] /\ row # None
      BY <2>3 DEF RowOf
    <3> QED  BY <3>1, <3>2, RowsRecorded
  <2> QED  BY <2>1, <2>2, <2>3
<1> QED  BY <1>2, <1>3, <1>4 DEF Recording

LEMMA WindowTypeStep ==
    ASSUME HInv, [HistoryNext]_historyVars PROVE WindowTypeOK'
<1>1. CASE HistoryNext
  <2>1. window' = [r \in Requests |-> IF Open(r)' THEN window[r] \cup RowOf(addr[r])' ELSE {}]
    BY <1>1 DEF HistoryNext, Record
  <2>2. \A r \in Requests : window'[r] \in SUBSET Item
    BY WindowStep DEF WindowOK
  <2> QED  BY <2>1, <2>2 DEF WindowTypeOK
<1>2. CASE UNCHANGED historyVars
  BY <1>2 DEF historyVars, HInv, WindowTypeOK
<1> QED  BY <1>1, <1>2

\* Where the verdict of a request that ends comes from.
LEMMA EndsWith ==
    ASSUME HInv, [HistoryNext]_historyVars, NEW q \in Requests, Answered(q)'
    PROVE  \/ /\ Answered(q) /\ outcome'[q] = outcome[q] /\ addr'[q] = addr[q]
           \/ /\ Open(q) /\ addr'[q] = addr[q] /\ table' = table
              /\ item[q] \in window[q] /\ outcome'[q].verdict = item[q].verdict
           \/ /\ Open(q) /\ addr'[q] = addr[q]
              /\ result'[q] # None /\ outcome'[q].verdict = result'[q]
              /\ DefinitiveStatus(result'[q].status) =>
                    table'[addr[q]] \in Item /\ table'[addr[q]].verdict = result'[q]
<1>1. Moves(q)
  BY Recordings, RequestMoves DEF HInv
<1>2. pc'[q] = "done" /\ outcome'[q].verdict # None
  BY DEF Answered
<1> QED  BY <1>1, <1>2 DEF Moves, Ends, Answered, HInv, WindowOK

LEMMA AnswersStep ==
    ASSUME HInv, [HistoryNext]_historyVars PROVE AnswersOK'
<1>1. IInv /\ [Next]_vars /\ IInv'
  BY IsStep
<1>2. ASSUME NEW q \in Requests, Answered(q)'
      PROVE  Recorded(outcome'[q].verdict, result')
  <2>1. CASE Answered(q) /\ outcome'[q] = outcome[q]
    <3>1. Recorded(outcome[q].verdict, result)
      BY <2>1 DEF HInv, AnswersOK
    <3> QED  BY <1>1, <2>1, <3>1, RecordedStays
  <2>2. CASE item[q] \in window[q] /\ outcome'[q].verdict = item[q].verdict
    <3>1. Recorded(item[q].verdict, result)
      BY <2>2 DEF HInv, WindowOK
    <3> QED  BY <1>1, <2>2, <3>1, RecordedStays
  <2>3. CASE result'[q] # None /\ outcome'[q].verdict = result'[q]
    <3>1. result'[q] \in Verdict /\ result'[q].by = q
      BY <1>1, <2>3 DEF IInv, TypeOK, RequestOK, ProvenanceOf
    <3> QED  BY <2>3, <3>1, PriorAssumption DEF Recorded
  <2> QED  BY <1>2, <2>1, <2>2, <2>3, EndsWith
<1> QED  BY <1>2, RowsRecorded DEF AnswersOK, Recorded

LEMMA OrderStep ==
    ASSUME HInv, [HistoryNext]_historyVars PROVE OrderOK'
<1>1. IInv /\ [Next]_vars /\ IInv'
  BY IsStep
<1>2. now \in Nat /\ now' \in Nat /\ now <= now'
  <2>1. CASE Server
    BY <1>1, <2>1 DEF Server, Tick, Reap, IInv, TypeOK
  <2>2. CASE UNCHANGED vars
    BY <1>1, <2>2 DEF vars, IInv, TypeOK
  <2>3. ASSUME NEW r \in Requests, NEW k \in Kinds,
               NEW input \in Addresses \cup {Malformed}, Start(r, k, input)
        PROVE  now' = now
    BY <2>3 DEF Start
  <2>4. ASSUME NEW r \in Requests, Step(r) \/ Kill(r) PROVE now' = now
    BY <1>1, <2>4, StepCarries DEF Carries, Kill, IInv
  <2> QED  BY <1>1, <2>1, <2>2, <2>3, <2>4 DEF Next, IInv, TypeOK
<1>3. \A r \in Requests : result'[r] # None => result'[r].at \in Nat /\ result[r] \in Verdict \cup {None}
  BY <1>1 DEF IInv, TypeOK, Verdict
<1>4. ASSUME NEW r \in Requests, result'[r] # None PROVE result'[r].at <= now'
  <2>1. Found(r)
    BY <1>1, <1>4, RequestMoves DEF Moves
  <2> QED  BY <1>2, <1>3, <1>4, <2>1 DEF Found, HInv, OrderOK
<1>5. ASSUME NEW q \in Requests, NEW r \in before'[q] PROVE r \in Requests /\ pc'[r] = "done"
  <2>1. r \in Requests /\ pc[r] = "done"
    BY Recordings DEF Recording, Done, HInv, OrderOK
  <2> QED  BY <1>1, <2>1, RequestMoves DEF Moves, Ends
<1>6. ASSUME NEW q \in Requests, NEW r \in before'[q], result'[q] # None
      PROVE  /\ result'[r] # None => result'[r].at <= result'[q].at
             /\ outcome'[r].verdict # None => outcome'[r].verdict.at <= result'[q].at
  <2>1. pc[q] # "new"
    <3>1. pc[q] = "new" => result[q] = None
      BY <1>1 DEF IInv, TypeOK, LocalsOK
    <3>2. pc[q] = "new" => result'[q] = None
      BY <1>1, <3>1, NewKeepsResult
    <3> QED  BY <1>6, <3>2
  <2>2. r \in before[q] /\ r \in Requests /\ pc[r] = "done"
    BY <2>1, Recordings DEF Recording, HInv, OrderOK
  <2>3. outcome'[r] = outcome[r] /\ result'[r] = result[r]
    BY <1>1, <2>2, RequestMoves, NewKeepsResult DEF Moves
  <2>4. CASE result'[q] = result[q]
    BY <1>6, <2>2, <2>3, <2>4 DEF HInv, OrderOK
  <2>5. CASE result'[q].at = now
    <3>1. result[r] # None => result[r].at <= now
      BY <2>2 DEF HInv, OrderOK
    <3>2. ASSUME NEW v, v = outcome[r].verdict, v # None PROVE v.at <= now
      <4>1. Recorded(v, result)
        BY <2>2, <3>2 DEF HInv, AnswersOK, Answered
      <4>2. CASE v.by = Prior
        BY <1>2, <4>1, <4>2 DEF Recorded
      <4>3. CASE v.by \in Requests
        BY <4>1, <4>3, NoneIsNone DEF Recorded, HInv, OrderOK
      <4> QED  BY <4>1, <4>2, <4>3 DEF Recorded, Verdict
    <3> QED  BY <2>3, <2>5, <3>1, <3>2
  <2> QED  BY <1>1, <2>4, <2>5, RequestMoves DEF Moves, Found
<1> QED  BY <1>4, <1>5, <1>6 DEF OrderOK

\* What may follow the present row may follow the next one.
LEMMA RowFollows ==
    ASSUME HInv, [HistoryNext]_historyVars, NEW a \in Addresses, table'[a] # None,
           NEW v, Recorded(v, result),
           table[a] # None => MayFollow(v, table[a].verdict, before)
    PROVE  MayFollow(v, table'[a].verdict, before')
<1>1. IInv /\ [Next]_vars
  BY IsStep
<1>2. CASE table'[a] = table[a]
  <2>1. Recorded(table[a].verdict, result) /\ MayFollow(v, table[a].verdict, before)
    BY <1>2 DEF HInv, AnswersOK
  <2> QED  BY <1>2, <2>1, FollowStays
<1>3. ASSUME NEW p \in Requests, Stores(p), addr[p] = a
      PROVE  MayFollow(v, table'[a].verdict, before')
  <2>1. table'[a].verdict = result[p] /\ result[p] \in Verdict /\ result[p].by = p
    BY <1>1, <1>3, TableOfPut
  <2>2. Recorded(result[p], result)
    BY <2>1, PriorAssumption DEF Recorded
  <2>3. MayFollow(v, result[p], before)
    BY <1>3, StoredFollows
  <2> QED  BY <2>1, <2>2, <2>3, FollowStays
<1> QED  BY <1>1, <1>2, <1>3, RowMoves

\* Evidence may follow itself.
LEMMA Reflexive ==
    ASSUME NEW v \in Verdict, NEW ended PROVE MayFollow(v, v, ended)
BY DEF MayFollow, Verdict

LEMMA TableFollowsStep ==
    ASSUME HInv, [HistoryNext]_historyVars PROVE TableFollows'
<1> SUFFICES ASSUME NEW r \in Requests, NEW a \in Addresses, addr'[r] = a, table'[a] # None
             PROVE  /\ Definite(r)' =>
                          MayFollow(outcome'[r].verdict, table'[a].verdict, before')
                    /\ \A row \in window'[r] :
                          MayFollow(row.verdict, table'[a].verdict, before')
  BY DEF TableFollows, MayFollow
<1>1. IInv /\ [Next]_vars /\ table'[a].verdict \in Verdict
  BY IsStep, RowsRecorded DEF Recorded
<1>2. ASSUME NEW row \in window[r]
      PROVE  Recorded(row.verdict, result) /\ MayFollow(row.verdict, table'[a].verdict, before')
  <2>1. Open(r) /\ Recorded(row.verdict, result)
    BY DEF HInv, WindowOK
  <2>2. addr[r] = a
    BY <1>1, <2>1, RequestMoves DEF Moves
  <2>3. table[a] # None => MayFollow(row.verdict, table[a].verdict, before)
    BY <2>2 DEF HInv, TableFollows
  <2> QED  BY <2>1, <2>3, RowFollows
<1>3. ASSUME Definite(r)'
      PROVE  MayFollow(outcome'[r].verdict, table'[a].verdict, before')
  <2>1. Answered(r)' /\ DefinitiveStatus(outcome'[r].verdict.status)
    BY <1>3 DEF Definite
  <2>2. CASE Answered(r) /\ outcome'[r] = outcome[r] /\ addr'[r] = addr[r]
    <3>1. Recorded(outcome[r].verdict, result) /\ Definite(r)
      BY <2>1, <2>2 DEF HInv, AnswersOK, Definite
    <3>2. table[a] # None => MayFollow(outcome[r].verdict, table[a].verdict, before)
      BY <2>2, <3>1 DEF HInv, TableFollows
    <3> QED  BY <2>2, <3>1, <3>2, RowFollows
  <2>3. CASE item[r] \in window[r] /\ outcome'[r].verdict = item[r].verdict
    BY <1>2, <2>3
  <2>4. CASE /\ addr'[r] = addr[r] /\ outcome'[r].verdict = result'[r]
             /\ DefinitiveStatus(result'[r].status) =>
                   table'[addr[r]] \in Item /\ table'[addr[r]].verdict = result'[r]
    <3>1. outcome'[r].verdict = table'[a].verdict
      BY <2>1, <2>4
    <3> QED  BY <1>1, <3>1, Reflexive
  <2> QED  BY <2>1, <2>2, <2>3, <2>4, EndsWith
<1>4. ASSUME NEW row \in window'[r] PROVE MayFollow(row.verdict, table'[a].verdict, before')
  <2>1. CASE row \in window[r]
    BY <1>2, <2>1
  <2>2. CASE row \in RowOf(addr[r])'
    <3>1. row = table'[a]
      BY <2>2 DEF RowOf
    <3> QED  BY <1>1, <3>1, Reflexive
  <2> QED  BY <1>4, <2>1, <2>2, Recordings DEF Recording
<1> QED  BY <1>3, <1>4

\* Who had ended when a request began.
LEMMA Earlier ==
    ASSUME HInv, [HistoryNext]_historyVars, NEW q \in Requests, pc[q] # "new",
           NEW r \in Requests, r \in before'[q], Definite(r)'
    PROVE  r \in before[q] /\ Definite(r) /\ outcome'[r] = outcome[r] /\ addr'[r] = addr[r]
<1>1. r \in before[q] /\ pc[r] = "done"
  BY Recordings DEF Recording, HInv, OrderOK
<1>2. outcome'[r] = outcome[r] /\ addr'[r] = addr[r]
  BY <1>1, IsStep, RequestMoves DEF Moves
<1> QED  BY <1>1, <1>2 DEF Definite, Answered

LEMMA WindowFollowsStep ==
    ASSUME HInv, [HistoryNext]_historyVars PROVE WindowFollows'
<1> SUFFICES ASSUME NEW r \in Requests, NEW q \in Requests, Definite(r)', r \in before'[q],
                    addr'[q] = addr'[r], NEW row \in window'[q]
             PROVE  MayFollow(outcome'[r].verdict, row.verdict, before')
  BY DEF WindowFollows, MayFollow
<1>1. CASE row \in window[q]
  <2>1. Open(q) /\ Recorded(row.verdict, result)
    BY <1>1 DEF HInv, WindowOK
  <2>2. addr'[q] = addr[q] /\ pc[q] # "new"
    BY <2>1, IsStep, RequestMoves DEF Moves, Open
  <2>3. r \in before[q] /\ Definite(r) /\ outcome'[r] = outcome[r] /\ addr'[r] = addr[r]
    BY <2>2, Earlier
  <2>4. Recorded(outcome[r].verdict, result)
    BY <2>3 DEF HInv, AnswersOK, Definite
  <2>5. MayFollow(outcome[r].verdict, row.verdict, before)
    BY <1>1, <2>2, <2>3 DEF HInv, WindowFollows
  <2> QED  BY <2>1, <2>3, <2>4, <2>5, FollowStays
<1>2. CASE row \in RowOf(addr[q])'
  <2>1. row = table'[addr'[r]] /\ row # None
    BY <1>2 DEF RowOf
  <2>2. addr'[r] \in Addresses
    <3>1. Open(q)'
      BY Recordings DEF Recording
    <3> QED  BY <3>1, IsStep DEF IInv, TypeOK, LocalsOK
  <2>3. TableFollows'
    BY TableFollowsStep
  <2> QED  BY <2>1, <2>2, <2>3 DEF TableFollows, MayFollow
<1> QED  BY <1>1, <1>2, Recordings DEF Recording

LEMMA AnswerFollowsStep ==
    ASSUME HInv, [HistoryNext]_historyVars PROVE AnswerFollows'
<1> SUFFICES ASSUME NEW r \in Requests, NEW q \in Requests, Definite(r)', Answered(q)',
                    r \in before'[q], addr'[q] = addr'[r]
             PROVE  MayFollow(outcome'[r].verdict, outcome'[q].verdict, before')
  BY DEF AnswerFollows, MayFollow
<1>1. pc[q] # "new" => /\ r \in before[q] /\ Definite(r)
                       /\ outcome'[r] = outcome[r] /\ addr'[r] = addr[r]
                       /\ Recorded(outcome[r].verdict, result)
  BY Earlier DEF HInv, AnswersOK, Definite
<1>2. CASE Answered(q) /\ outcome'[q] = outcome[q] /\ addr'[q] = addr[q]
  <2>1. pc[q] # "new" /\ Recorded(outcome[q].verdict, result)
    BY <1>2 DEF Answered, HInv, AnswersOK
  <2>2. MayFollow(outcome[r].verdict, outcome[q].verdict, before)
    BY <1>1, <1>2, <2>1 DEF HInv, AnswerFollows
  <2> QED  BY <1>1, <1>2, <2>1, <2>2, FollowStays
<1>3. CASE /\ Open(q) /\ addr'[q] = addr[q]
           /\ item[q] \in window[q] /\ outcome'[q].verdict = item[q].verdict
  <2>1. pc[q] # "new" /\ Recorded(item[q].verdict, result)
    BY <1>3 DEF Open, HInv, WindowOK
  <2>2. MayFollow(outcome[r].verdict, item[q].verdict, before)
    BY <1>1, <1>3, <2>1 DEF HInv, WindowFollows
  <2> QED  BY <1>1, <1>3, <2>1, <2>2, FollowStays
<1>4. CASE result'[q] # None /\ outcome'[q].verdict = result'[q]
  <2>1. outcome'[r].verdict.at <= result'[q].at
    BY <1>4, OrderStep DEF OrderOK, Definite, Answered
  <2>2. outcome'[r].verdict.at \in Nat /\ result'[q].at \in Nat
    BY <1>4, AnswersStep DEF AnswersOK, Definite, Recorded, Verdict
  <2> QED  BY <1>4, <2>1, <2>2 DEF MayFollow
<1> QED  BY <1>2, <1>3, <1>4, EndsWith

LEMMA HistoryStep == HInv /\ [HistoryNext]_historyVars => HInv'
BY IsStep, WindowTypeStep, WindowStep, AnswersStep, OrderStep, TableFollowsStep, WindowFollowsStep,
   AnswerFollowsStep DEF HInv

\* The inductive invariant of the specification with history variables.
THEOREM HistoryInvariance == HistorySpec => []HInv
<1>1. HistoryInit => HInv
  BY HistoryInitOK
<1> QED  BY <1>1, HistoryStep, PTL DEF HistorySpec

\* The answers about an address never go back to older evidence unless the two
\* verifications that produced it ran at the same time, for any number of
\* requests (dynamodb.py:238).
THEOREM Regressions == HistorySpec => []RegressionNeedsOverlap
<1>1. HInv => RegressionNeedsOverlap
  BY DEF HInv, AnswerFollows, MayFollow, RegressionNeedsOverlap, Overlapped, Done, Answered,
         Definite
<1> QED  BY <1>1, HistoryInvariance, PTL

-----------------------------------------------------------------------------
(* The register. *)

opens == [r \in Requests |-> Open(r)]
answers == [r \in Requests |-> outcome[r].verdict]

LEMMA RegisterInit == ASSUME HistoryInit PROVE Register!Init
<1>1. now \in Nat /\ table \in [Addresses -> Item \cup {None}]
  BY HistoryInitOK DEF HInv, IInv, TypeOK
<1>2. \A r \in Requests : Open(r) = FALSE /\ outcome[r].verdict = None
  BY DEF HistoryInit, Init, Open, NoOutcome
<1>3. opens = [r \in Requests |-> FALSE] /\ answers = [r \in Requests |-> None]
  BY <1>2 DEF opens, answers
<1>4. addr = [r \in Requests |-> None] /\ window = [r \in Requests |-> {}]
  BY DEF HistoryInit, Init
<1> QED  BY <1>1, <1>3, <1>4 DEF Register!Init, opens, answers

\* A window grows with new rows only.
LEMMA SameWindow ==
    ASSUME HInv, [HistoryNext]_historyVars, NEW q \in Requests, Open(q)' = Open(q),
           addr'[q] = addr[q], Open(q) => table'[addr[q]] \in {table[addr[q]], None}
    PROVE  window'[q] = window[q]
<1>1. CASE Open(q)
  <2>1. RowOf(addr[q]) \subseteq window[q]
    BY <1>1 DEF HInv, WindowOK
  <2>2. window'[q] = window[q] \cup ({table'[addr[q]]} \ {None})
    BY <1>1, Recordings DEF Recording, RowOf
  <2> QED  BY <1>1, <2>1, <2>2 DEF RowOf
<1>2. CASE ~Open(q)
  BY <1>2, Recordings DEF Recording, HInv, WindowOK
<1> QED  BY <1>1, <1>2

\* What the register sees of a step of r.
LEMMA StepSeen ==
    ASSUME HInv, NEW r \in Requests, Step(r) \/ Kill(r)
    PROVE  /\ Open(r) /\ now' = now /\ addr' = addr
           /\ \A q \in Requests \ {r} : Open(q)' = Open(q)
           /\ Ends(r) => /\ opens' = [opens EXCEPT ![r] = FALSE]
                         /\ answers' = [answers EXCEPT ![r] = outcome'[r].verdict]
           /\ GoesOn(r) => opens' = opens /\ answers' = answers
<1>1. Open(r) /\ now' = now /\ addr' = addr
  BY StepCarries DEF Carries, Kill, HInv, IInv
<1>2. \A q \in Requests \ {r} : Open(q)' = Open(q) /\ outcome'[q] = outcome[q]
  BY Others DEF HInv, Open
<1>3. ASSUME Ends(r) PROVE opens' = [opens EXCEPT ![r] = FALSE]
  <2>1. Open(r)' = FALSE
    BY <1>3 DEF Ends, Open
  <2> QED  BY <1>2, <2>1 DEF opens
<1>4. ASSUME Ends(r) PROVE answers' = [answers EXCEPT ![r] = outcome'[r].verdict]
  BY <1>2 DEF answers
<1>5. ASSUME GoesOn(r) PROVE opens' = opens /\ answers' = answers
  <2>1. Open(r)' = Open(r) /\ outcome'[r] = outcome[r]
    BY <1>1, <1>5 DEF GoesOn, Open
  <2> QED  BY <1>2, <2>1 DEF opens, answers
<1> QED  BY <1>1, <1>2, <1>3, <1>4, <1>5

\* The windows after a step of r that adds no row.
LEMMA WindowsSeen ==
    ASSUME HInv, HistoryNext, NEW r \in Requests, Step(r) \/ Kill(r),
           table' = table \/ DeleteItem(addr[r])
    PROVE  /\ Ends(r) => window' = [window EXCEPT ![r] = {}]
           /\ GoesOn(r) => window' = window
<1>1. WindowTypeOK /\ WindowTypeOK'
  BY WindowTypeStep DEF HInv
<1>2. \A a \in Addresses : table'[a] \in {table[a], None}
  BY DEF DeleteItem, HInv, IInv, TypeOK
<1>3. \A q \in Requests : Open(q) => addr[q] \in Addresses
  BY DEF HInv, IInv, TypeOK, LocalsOK
<1>4. \A q \in Requests \ {r} : window'[q] = window[q]
  BY <1>2, <1>3, StepSeen, SameWindow
<1>5. Ends(r) => window'[r] = {}
  BY Recordings DEF Recording, Ends, Open
<1>6. GoesOn(r) => window'[r] = window[r]
  <2>1. GoesOn(r) => Open(r)' = Open(r)
    BY StepSeen DEF GoesOn, Open
  <2> QED  BY <1>2, <1>3, <2>1, StepSeen, SameWindow
<1>7. Ends(r) => window' = [window EXCEPT ![r] = {}]
  BY <1>1, <1>4, <1>5 DEF WindowTypeOK
<1>8. GoesOn(r) => window' = window
  BY <1>1, <1>4, <1>6 DEF WindowTypeOK
<1> QED  BY <1>7, <1>8

LEMMA StartMaps ==
    ASSUME HInv, HistoryNext, NEW r \in Requests, NEW k \in Kinds,
           NEW input \in Addresses \cup {Malformed}, Start(r, k, input)
    PROVE  Register!Ask(r, input)
<1>1. /\ pc[r] = "new" /\ addr' = [addr EXCEPT ![r] = input] /\ now' = now
      /\ table' = table
      /\ \A q \in Requests \ {r} : pc'[q] = pc[q] /\ outcome'[q] = outcome[q]
      /\ input = Malformed => Ends(r) /\ outcome'[r].verdict = None
      /\ input # Malformed => pc'[r] \notin {"new", "done"} /\ outcome'[r] = outcome[r]
  BY StartShape DEF HInv
<1>2. /\ ~Open(r) /\ addr[r] = None /\ outcome[r].verdict = None
      /\ addr \in [Requests -> Addresses \cup {Malformed, None}]
  BY <1>1 DEF Open, HInv, IInv, TypeOK, LocalsOK, NoOutcome
<1>3. WindowTypeOK /\ WindowTypeOK'
  BY WindowTypeStep DEF HInv
<1>4. \A q \in Requests \ {r} : Open(q)' = Open(q) /\ addr'[q] = addr[q]
  BY <1>1, <1>2 DEF Open
<1>5. \A q \in Requests \ {r} : window'[q] = window[q]
  BY <1>1, <1>4, SameWindow
<1>6. answers' = answers
  BY <1>1, <1>2 DEF answers
<1>7. CASE input = Malformed
  <2>1. Open(r)' = FALSE
    BY <1>1, <1>7 DEF Ends, Open
  <2>2. opens' = opens
    <3>1. Open(r)' = Open(r)
      BY <1>1, <2>1 DEF Open
    <3>2. \A q \in Requests : Open(q)' = Open(q)
      BY <1>4, <3>1
    <3> QED  BY <3>2 DEF opens
  <2>3. window'[r] = {} /\ window[r] = {}
    BY <1>2, <2>1, Recordings DEF Recording, HInv, WindowOK
  <2>4. window' = window
    BY <1>3, <1>5, <2>3 DEF WindowTypeOK
  <2> QED  BY <1>1, <1>2, <1>6, <1>7, <2>2, <2>4 DEF Register!Ask, opens, answers
<1>8. CASE input # Malformed
  <2>1. Open(r)' = TRUE
    BY <1>1, <1>8 DEF Open
  <2>2. opens' = [opens EXCEPT ![r] = TRUE]
    BY <1>4, <2>1 DEF opens
  <2>3. window'[r] = {table[input]} \ {None}
    <3>1. window[r] = {} /\ addr'[r] = input
      BY <1>1, <1>2 DEF HInv, WindowOK
    <3> QED  BY <1>1, <2>1, <3>1, Recordings DEF Recording, RowOf
  <2>4. window' = [window EXCEPT ![r] = {table[input]} \ {None}]
    BY <1>3, <1>5, <2>3 DEF WindowTypeOK
  <2> QED  BY <1>1, <1>2, <1>6, <1>8, <2>2, <2>4 DEF Register!Ask, opens, answers
<1> QED  BY <1>7, <1>8

LEMMA GoesOnMaps ==
    ASSUME HInv, HistoryNext, NEW r \in Requests, Step(r) \/ Kill(r), GoesOn(r)
    PROVE  (\E a \in Addresses : Register!Lose(a)) \/ UNCHANGED Register!vars
<1>1. /\ Open(r) /\ now' = now /\ addr' = addr /\ opens' = opens /\ answers' = answers
      /\ table' = table \/ DeleteItem(addr[r])
  BY StepSeen DEF GoesOn
<1>2. window' = window /\ addr[r] \in Addresses
  BY <1>1, WindowsSeen DEF HInv, IInv, TypeOK, LocalsOK
<1>3. CASE table' = table
  BY <1>1, <1>2, <1>3 DEF Register!vars, opens, answers
<1>4. CASE DeleteItem(addr[r])
  <2>1. Register!Lose(addr[r])
    BY <1>1, <1>2, <1>4 DEF DeleteItem, Register!Lose, opens, answers
  <2> QED  BY <1>2, <2>1
<1> QED  BY <1>1, <1>3, <1>4

LEMMA AnswersMaps ==
    ASSUME HInv, HistoryNext, NEW r \in Requests, Step(r) \/ Kill(r), Answers(r)
    PROVE  Register!Reply(r)
<1>1. /\ Open(r) /\ now' = now /\ addr' = addr /\ table' = table
      /\ opens' = [opens EXCEPT ![r] = FALSE]
      /\ answers' = [answers EXCEPT ![r] = outcome'[r].verdict]
      /\ window' = [window EXCEPT ![r] = {}]
  BY StepSeen, WindowsSeen DEF Answers
<1>2. opens[r] = Open(r) /\ answers'[r] = outcome'[r].verdict
  BY DEF opens, answers
<1>3. Register!MayAnswer(r, outcome'[r].verdict)
  <2>1. CASE outcome'[r].verdict = None
    BY <2>1 DEF Register!MayAnswer
  <2>2. CASE /\ item[r] # None /\ ~Expired(item[r], now)
             /\ outcome'[r].verdict = item[r].verdict
    <3>1. item[r] \in window[r] /\ item[r] \in Item
      BY <1>1, <2>2 DEF HInv, WindowOK, IInv, TypeOK
    <3>2. item[r].ttl > now
      BY <2>2, <3>1 DEF Expired, Item, HInv, IInv, TypeOK
    <3> QED  BY <2>2, <3>1, <3>2 DEF Register!MayAnswer
  <2>3. CASE outcome'[r].verdict = result'[r] /\ result'[r] # None
    <3>1. IInv'
      BY IsStep
    <3>2. /\ result'[r] \in Verdict /\ result'[r].by = r /\ result'[r].addr = addr[r]
      BY <1>1, <2>3, <3>1 DEF IInv, TypeOK, RequestOK, ProvenanceOf
    <3> QED  BY <2>3, <3>2 DEF Register!MayAnswer
  <2> QED  BY <2>1, <2>2, <2>3 DEF Answers
<1> QED
  BY <1>1, <1>2, <1>3 DEF Register!Reply, Register!Ends, opens, answers

LEMMA StoresMaps ==
    ASSUME HInv, HistoryNext, NEW r \in Requests, Step(r) \/ Kill(r), Stores(r)
    PROVE  Register!Store(r)
<1> DEFINE row == table'[addr[r]]
<1>1. /\ Open(r) /\ now' = now /\ addr' = addr
      /\ opens' = [opens EXCEPT ![r] = FALSE]
      /\ answers' = [answers EXCEPT ![r] = outcome'[r].verdict]
      /\ \A q \in Requests \ {r} : Open(q)' = Open(q)
  BY StepSeen DEF Stores
<1>2. /\ result[r].addr = addr[r] /\ result[r].by = r /\ addr[r] \in Addresses
      /\ row \in Item /\ row.verdict = result[r]
      /\ table' = [table EXCEPT ![addr[r]] = row]
  <2>1. /\ result[r].addr = addr[r] /\ result[r].by = r /\ addr[r] \in Addresses
        /\ row \in Item /\ row.verdict = result[r]
        /\ table' = [table EXCEPT ![addr[r]] =
                        [verdict |-> result[r], ttl |-> now + TTL, readable |-> TRUE]]
    BY TableOfPut DEF HInv
  <2> QED  BY <2>1 DEF HInv, IInv, TypeOK
<1> HIDE DEF row
<1>3. outcome'[r].verdict \in {row.verdict, None}
  BY <1>2 DEF Stores
<1>4. ASSUME NEW q \in Requests
      PROVE  window'[q] = IF q = r THEN {}
                          ELSE IF Open(q) /\ addr[q] = addr[r] THEN window[q] \cup {row}
                          ELSE window[q]
  <2>1. CASE q = r
    <3>1. ~Open(q)'
      BY <2>1 DEF Stores, Ends, Open
    <3> QED  BY <2>1, <3>1, Recordings DEF Recording
  <2>2. CASE q # r /\ Open(q) /\ addr[q] = addr[r]
    <3>1. Open(q)' /\ window'[q] = window[q] \cup ({table'[addr[q]]} \ {None})
      BY <1>1, <2>2, Recordings DEF Recording, RowOf
    <3>2. row # None
      BY <1>2, NoneIsNone
    <3> QED  BY <2>2, <3>1, <3>2 DEF row
  <2>3. CASE q # r /\ ~(Open(q) /\ addr[q] = addr[r])
    <3>1. Open(q) => addr[q] \in Addresses
      BY DEF HInv, IInv, TypeOK, LocalsOK
    <3>2. Open(q) => table'[addr[q]] = table[addr[q]]
      BY <1>2, <2>3, <3>1 DEF HInv, IInv, TypeOK
    <3> QED  BY <1>1, <2>3, <3>2, SameWindow
  <2> QED  BY <2>1, <2>2, <2>3
<1>5. \A q \in Requests : opens[q] = Open(q)
  BY DEF opens
<1>6. window' = [q \in Requests |-> IF q = r THEN {}
                                   ELSE IF opens[q] /\ addr[q] = addr[r]
                                        THEN window[q] \cup {row} ELSE window[q]]
  <2>1. WindowTypeOK'
    BY WindowTypeStep
  <2> QED  BY <1>4, <1>5, <2>1 DEF WindowTypeOK
<1> QED
  BY <1>1, <1>2, <1>3, <1>5, <1>6 DEF Register!Store, opens, answers, row

LEMMA ForgetsMaps ==
    ASSUME HInv, HistoryNext, NEW r \in Requests, Step(r) \/ Kill(r), Forgets(r)
    PROVE  Register!LoseAndReply(r)
<1>1. /\ Open(r) /\ now' = now /\ addr' = addr
      /\ opens' = [opens EXCEPT ![r] = FALSE]
      /\ answers' = [answers EXCEPT ![r] = None]
      /\ window' = [window EXCEPT ![r] = {}]
      /\ DeleteItem(addr[r])
  BY StepSeen, WindowsSeen DEF Forgets
<1>2. outcome[r].verdict = None
  BY <1>1 DEF Open, HInv, IInv, TypeOK, LocalsOK, NoOutcome
<1>3. answers' = answers
  BY <1>1, <1>2 DEF answers
<1>4. opens[r] = Open(r)
  BY DEF opens
<1> QED
  BY <1>1, <1>3, <1>4 DEF DeleteItem, Register!LoseAndReply, Register!Ends, opens, answers

LEMMA ServerMaps ==
    ASSUME HInv, HistoryNext, Server
    PROVE  Register!Advance \/ \E a \in Addresses : Register!Lose(a)
<1>1. pc' = pc /\ addr' = addr /\ outcome' = outcome
  BY DEF Server, reqVars
<1>2. \A q \in Requests : Open(q)' = Open(q)
  BY <1>1 DEF Open
<1>3. opens' = opens /\ answers' = answers
  BY <1>1, <1>2 DEF opens, answers
<1>4. \A a \in Addresses : table'[a] \in {table[a], None}
  BY DEF Server, Tick, Reap, HInv, IInv, TypeOK
<1>5. window' = window
  <2>1. \A q \in Requests : Open(q) => addr[q] \in Addresses
    BY DEF HInv, IInv, TypeOK, LocalsOK
  <2>2. \A q \in Requests : window'[q] = window[q]
    BY <1>1, <1>2, <1>4, <2>1, SameWindow
  <2> QED  BY <2>2, WindowTypeStep DEF WindowTypeOK, HInv
<1>6. CASE Tick
  BY <1>1, <1>3, <1>5, <1>6 DEF Tick, Register!Advance, opens, answers, HInv, IInv, TypeOK
<1>7. ASSUME NEW a \in Addresses, Reap(a) PROVE Register!Lose(a)
  BY <1>1, <1>3, <1>5, <1>7 DEF Reap, Register!Lose, opens, answers
<1> QED  BY <1>6, <1>7 DEF Server

LEMMA RegisterStep == ASSUME HInv, [HistoryNext]_historyVars PROVE [Register!Next]_(Register!vars)
<1>1. CASE UNCHANGED historyVars
  BY <1>1 DEF historyVars, Register!vars, Open
<1>2. CASE HistoryNext
  <2>1. ASSUME NEW r \in Requests, Step(r) \/ Kill(r)
        PROVE  Register!Next \/ UNCHANGED Register!vars
    BY <1>2, <2>1, Shape, GoesOnMaps, AnswersMaps, StoresMaps, ForgetsMaps
    DEF Register!Next, HInv
  <2>2. ASSUME NEW r \in Requests, NEW k \in Kinds,
               NEW input \in Addresses \cup {Malformed}, Start(r, k, input)
        PROVE  Register!Next
    BY <1>2, <2>2, StartMaps DEF Register!Next
  <2>3. CASE Server
    BY <1>2, <2>3, ServerMaps DEF Register!Next
  <2> QED  BY <1>2, <2>1, <2>2, <2>3 DEF HistoryNext, Next
<1> QED  BY <1>1, <1>2

\* The table with its three unconditional calls, and the requests that use it,
\* implement the regular, expiring and lossy register of EvidenceRegister
\* (dynamodb.py:157-241, single_verification.py:67-115).
THEOREM RegisterImplemented == HistorySpec => ImplementsRegister
<1>1. HistoryInit => Register!Init
  BY RegisterInit
<1>2. HInv /\ [HistoryNext]_historyVars => [Register!Next]_(Register!vars)
  BY RegisterStep
<1> QED
  BY <1>1, <1>2, HistoryInvariance, PTL DEF HistorySpec, ImplementsRegister, Register!Spec
=============================================================================
