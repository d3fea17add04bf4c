------------------------- MODULE HubSpotClient_proofs -------------------------
(***************************************************************************)
(* Proofs about HubSpotClient, for any set of contacts, limit, page size,  *)
(* chunk size and number of attempts.                                      *)
(*                                                                         *)
(* As long as HubSpot's list stays as it is, what a search has found is    *)
(* what one loop over the whole list would have kept up to the cursor      *)
(* (SearchOK): the loops of the pages join (KeptJoins, KeptOfPage), because*)
(* no contact of a page was met before.  When the search ends it is at the *)
(* end of the list, or has enough, which is the prefix the property names  *)
(* (KeptIsPrefix, KeptEnough).  Facts about the loop are proved by         *)
(* induction over a set of numbers (Induction, by the library's WFMin).    *)
(*                                                                         *)
(* For the port, the chunks before the current one are persisted and       *)
(* nothing but targets is (WriteOK), so that the last chunk completes them.*)
(***************************************************************************)
EXTENDS HubSpotClient, SequenceTheorems, WellFoundedInduction, TLAPS

\* Induction over a set of numbers.
LEMMA Induction ==
  ASSUME NEW S, 0 \in S, \A n \in Nat : n \in S => n + 1 \in S
  PROVE  \A n \in Nat : n \in S
<1> DEFINE T == Nat \ S
<1> SUFFICES ASSUME T # {} PROVE FALSE
  OBVIOUS
<1> DEFINE R == OpToRel(<, Nat)
<1>1. \A m, n \in Nat : m < n => <<m, n>> \in R
  BY Zenon DEF OpToRel
<1>2. IsWellFoundedOn(R, Nat)
  BY NatLessThanWellFounded
<1> HIDE DEF R
<1>3. PICK t \in T : \A u \in T : ~(<<u, t>> \in R)
  BY <1>2, WFMin
<1>4. t \in Nat /\ t \notin S /\ t # 0
  OBVIOUS
<1>5. t - 1 \in Nat /\ t - 1 < t
  BY <1>4
<1>6. t - 1 \in S
  BY <1>1, <1>3, <1>4, <1>5
<1> QED  BY <1>4, <1>5, <1>6

Keeping(s, T, f, n) ==
    IF n = 0 THEN <<>> ELSE IF s[n] \in T THEN Append(f[n - 1], s[n]) ELSE f[n - 1]

\* f is what the loop of Kept has at each of its turns.
Loops(f, s, T) ==
    \A n \in 0..(Len(s) - 1) :
        /\ s[n + 1] \in T => f[n + 1] = Append(f[n], s[n + 1])
        /\ s[n + 1] \notin T => f[n + 1] = f[n]

\* The loop of Kept: where it begins, and what a step of it does.
LEMMA KeptSteps ==
  ASSUME NEW X, NEW s \in Seq(X), NEW T
  PROVE  KeptUpTo(s, T)[0] = <<>> /\ Loops(KeptUpTo(s, T), s, T)
<1> DEFINE Solves(f, n) == f = [k \in 0..n |-> Keeping(s, T, f, k)]
           S == {n \in Nat : \E f : Solves(f, n)}
<1>1. Solves([k \in 0..0 |-> <<>>], 0)
  BY DEF Keeping
<1>2. ASSUME NEW n \in Nat, NEW f, Solves(f, n) PROVE \E g : Solves(g, n + 1)
  <2> DEFINE g == [k \in 0..(n + 1) |-> IF k = n + 1 THEN Keeping(s, T, f, k) ELSE f[k]]
  <2>1. \A k \in 0..n : f[k] = Keeping(s, T, f, k)
    BY <1>2
  <2>2. \A k \in 0..(n + 1) : g[k] = Keeping(s, T, g, k)
    BY <2>1 DEF Keeping
  <2>3. Solves(g, n + 1)
    BY <2>2
  <2> QED  BY <2>3
<1> HIDE DEF Solves
<1>3. \A n \in Nat : n \in S => n + 1 \in S
  BY <1>2
<1>4. 0 \in S
  BY <1>1
<1> HIDE DEF S
<1>5. Len(s) \in S
  BY <1>3, <1>4, Induction
<1> USE DEF S, Solves
<1>6. Solves(KeptUpTo(s, T), Len(s))
  BY <1>5 DEF KeptUpTo, Keeping
<1>7. \A n \in 0..Len(s) : KeptUpTo(s, T)[n] = Keeping(s, T, KeptUpTo(s, T), n)
  BY <1>6
<1>8. Keeping(s, T, KeptUpTo(s, T), 0) = <<>>
  BY DEF Keeping
<1>9. ASSUME NEW n \in 0..(Len(s) - 1)
      PROVE  /\ s[n + 1] \in T =>
                   KeptUpTo(s, T)[n + 1] = Append(KeptUpTo(s, T)[n], s[n + 1])
             /\ s[n + 1] \notin T => KeptUpTo(s, T)[n + 1] = KeptUpTo(s, T)[n]
  <2>1. n + 1 \in 0..Len(s) /\ n + 1 # 0 /\ (n + 1) - 1 = n
    OBVIOUS
  <2>2. KeptUpTo(s, T)[n + 1] = Keeping(s, T, KeptUpTo(s, T), n + 1)
    BY <1>7, <2>1
  <2> QED  BY <2>1, <2>2 DEF Keeping
<1> QED  BY <1>7, <1>8, <1>9 DEF Loops

LEMMA KeptFirst ==
  ASSUME NEW X, NEW s \in Seq(X), NEW T
  PROVE  KeptUpTo(s, T)[0] = <<>>
BY KeptSteps, Zenon

LEMMA KeptTakes ==
  ASSUME NEW X, NEW s \in Seq(X), NEW T, NEW n \in 0..(Len(s) - 1), s[n + 1] \in T
  PROVE  KeptUpTo(s, T)[n + 1] = Append(KeptUpTo(s, T)[n], s[n + 1])
<1>1. Loops(KeptUpTo(s, T), s, T)
  BY KeptSteps, Zenon
<1> QED  BY <1>1, Zenon DEF Loops

LEMMA KeptSkips ==
  ASSUME NEW X, NEW s \in Seq(X), NEW T, NEW n \in 0..(Len(s) - 1), s[n + 1] \notin T
  PROVE  KeptUpTo(s, T)[n + 1] = KeptUpTo(s, T)[n]
<1>1. Loops(KeptUpTo(s, T), s, T)
  BY KeptSteps, Zenon
<1> QED  BY <1>1, Zenon DEF Loops

\* What k has of the first n members of s: some of those in T, no more than n,
\* and none twice unless s has it twice.
Members(s, T, k, n) ==
    /\ Len(k) <= n
    /\ \A i \in 1..Len(k) : k[i] \in T /\ \E j \in 1..n : s[j] = k[i]
    /\ Distinct(s) => Distinct(k)

LEMMA OneMore ==
  ASSUME NEW X, NEW s \in Seq(X), NEW T, NEW n \in Nat, n + 1 \in 1..Len(s), NEW k \in Seq(X),
         Members(s, T, k, n)
  PROVE  /\ s[n + 1] \in X
         /\ Members(s, T, k, n + 1)
         /\ s[n + 1] \in T => Members(s, T, Append(k, s[n + 1]), n + 1)
<1>1. s[n + 1] \in X /\ Members(s, T, k, n + 1)
  BY DEF Members
<1> SUFFICES ASSUME s[n + 1] \in T PROVE Members(s, T, Append(k, s[n + 1]), n + 1)
  BY <1>1
<1> DEFINE l == Append(k, s[n + 1])
<1>2. /\ Len(l) = Len(k) + 1 /\ DOMAIN l = 1..(Len(k) + 1) /\ l[Len(k) + 1] = s[n + 1]
      /\ \A i \in 1..Len(k) : l[i] = k[i]
  BY <1>1
<1> HIDE DEF l
<1>3. \A i \in 1..Len(l) : l[i] \in T /\ \E j \in 1..(n + 1) : s[j] = l[i]
  <2> SUFFICES ASSUME NEW i \in 1..Len(l) PROVE l[i] \in T /\ \E j \in 1..(n + 1) : s[j] = l[i]
    OBVIOUS
  <2>1. CASE i = Len(k) + 1
    BY <1>2, <2>1
  <2>2. CASE i \in 1..Len(k)
    BY <1>2, <2>2 DEF Members
  <2> QED  BY <1>2, <2>1, <2>2
<1>4. ASSUME Distinct(s), NEW i \in DOMAIN l, NEW m \in DOMAIN l, l[i] = l[m]
      PROVE  i = m
  <2>1. \A j \in 1..n : s[j] # s[n + 1]
    BY <1>4 DEF Distinct
  <2>2. \A j \in 1..Len(k) : l[j] # s[n + 1]
    BY <1>2, <2>1 DEF Members
  <2>3. CASE i \in 1..Len(k) /\ m \in 1..Len(k)
    <3>1. k[i] = k[m] /\ Distinct(k) /\ DOMAIN k = 1..Len(k)
      BY <1>2, <1>4, <2>3 DEF Members
    <3> QED  BY <2>3, <3>1 DEF Distinct
  <2>4. CASE ~(i \in 1..Len(k) /\ m \in 1..Len(k))
    BY <1>2, <1>4, <2>2, <2>4
  <2> QED  BY <2>3, <2>4
<1>5. Distinct(s) => Distinct(l)
  BY <1>4 DEF Distinct
<1>6. Len(l) <= n + 1
  BY <1>2 DEF Members
<1>7. Members(s, T, l, n + 1)
  BY <1>3, <1>5, <1>6 DEF Members
<1> QED  BY <1>7 DEF l

\* What is kept are members of the sequence.
LEMMA KeptMembers ==
  ASSUME NEW X, NEW s \in Seq(X), NEW T
  PROVE  \A n \in 0..Len(s) :
            KeptUpTo(s, T)[n] \in Seq(X) /\ Members(s, T, KeptUpTo(s, T)[n], n)
<1> DEFINE K == KeptUpTo(s, T)
           S == {n \in Nat : n <= Len(s) => K[n] \in Seq(X) /\ Members(s, T, K[n], n)}
<1>1. 0 \in S
  <2>1. <<>> \in Seq(X) /\ Members(s, T, <<>>, 0)
    BY DEF Members, Distinct
  <2> QED  BY <2>1, KeptFirst
<1>2. ASSUME NEW n \in Nat, n \in S PROVE n + 1 \in S
  <2> SUFFICES ASSUME n + 1 <= Len(s)
               PROVE  K[n + 1] \in Seq(X) /\ Members(s, T, K[n + 1], n + 1)
    OBVIOUS
  <2>1. n \in 0..(Len(s) - 1) /\ n + 1 \in 1..Len(s) /\ K[n] \in Seq(X) /\ Members(s, T, K[n], n)
    BY <1>2
  <2>2. CASE s[n + 1] \in T
    <3>1. K[n + 1] = Append(K[n], s[n + 1])
      BY <2>1, <2>2, KeptTakes
    <3> HIDE DEF K
    <3>2. s[n + 1] \in X /\ Members(s, T, K[n + 1], n + 1)
      BY <2>1, <2>2, <3>1, OneMore
    <3> QED  BY <2>1, <3>1, <3>2
  <2>3. CASE s[n + 1] \notin T
    <3>1. K[n + 1] = K[n]
      BY <2>1, <2>3, KeptSkips
    <3> HIDE DEF K
    <3>2. Members(s, T, K[n + 1], n + 1)
      BY <2>1, <3>1, OneMore
    <3> QED  BY <2>1, <3>1, <3>2
  <2> QED  BY <2>2, <2>3
<1> HIDE DEF S
<1>3. \A n \in Nat : n \in S
  BY <1>1, <1>2, Induction
<1> QED  BY <1>3 DEF S

LEMMA KeptJoins ==
  ASSUME NEW X, NEW s \in Seq(X), NEW T, NEW n \in 0..(Len(s) - 1), s[n + 1] \in T
  PROVE  KeptUpTo(s, T)[n + 1] = KeptUpTo(s, T)[n] \o <<s[n + 1]>>
<1>1. KeptUpTo(s, T)[n] \in Seq(X) /\ s[n + 1] \in X
  BY KeptMembers
<1>2. KeptUpTo(s, T)[n + 1] = Append(KeptUpTo(s, T)[n], s[n + 1])
  BY KeptTakes
<1>3. Append(KeptUpTo(s, T)[n], s[n + 1]) = KeptUpTo(s, T)[n] \o <<s[n + 1]>>
  BY Zenon, <1>1, AppendIsConcat
<1> QED  BY <1>2, <1>3

\* Concatenation, as an operator that the solver leaves alone.
Cat(a, b) == a \o b

LEMMA CatAssociative ==
  ASSUME NEW X, NEW a \in Seq(X), NEW b \in Seq(X), NEW c \in Seq(X)
  PROVE  Cat(Cat(a, b), c) = Cat(a, Cat(b, c))
BY ConcatAssociative DEF Cat

\* p is the part of s that follows position m, and T and U say the same of it.
Follows(p, s, m, T, U) ==
    /\ m + Len(p) <= Len(s)
    /\ \A i \in 1..Len(p) : p[i] = s[m + i] /\ (s[m + i] \in T <=> p[i] \in U)

\* What is kept of a page comes after what is kept of the part before.
LEMMA KeptOfPage ==
  ASSUME NEW X, NEW s \in Seq(X), NEW T, NEW U, NEW m \in Nat, NEW p \in Seq(X),
         Follows(p, s, m, T, U)
  PROVE  KeptUpTo(s, T)[m + Len(p)] = Cat(KeptUpTo(s, T)[m], Kept(p, U))
<1> DEFINE k == Len(p)
           K == KeptUpTo(s, T)
           P == KeptUpTo(p, U)
           Joins(i) == K[m + i] = K[m] \o P[i]
           S == {i \in Nat : i <= k => Joins(i)}
<1>1. k \in Nat
  OBVIOUS
<1>2. K[m] \in Seq(X)
  <2>1. m \in 0..Len(s)
    BY <1>1 DEF Follows
  <2> QED  BY <2>1, KeptMembers
<1>3. P[0] = <<>> /\ \A i \in 0..k : P[i] \in Seq(X)
  BY <1>1, KeptFirst, KeptMembers
<1>4. ASSUME NEW i \in Nat, i + 1 <= k, Joins(i)
      PROVE  Joins(i + 1)
  <2>1. p[i + 1] = s[m + i + 1] /\ s[m + i + 1] \in X /\ i + 1 \in 1..k
        /\ m + i \in 0..(Len(s) - 1) /\ i \in 0..(Len(p) - 1) /\ i \in 0..k
    BY <1>1, <1>4 DEF Follows
  <2>2. s[m + i + 1] \in T <=> p[i + 1] \in U
    BY <2>1 DEF Follows
  <2>3. CASE s[m + i + 1] \in T
    <3>1. K[m + i + 1] = Cat(K[m + i], <<s[m + i + 1]>>)
      BY <2>1, <2>3, KeptJoins DEF Cat
    <3>2. P[i + 1] = Cat(P[i], <<s[m + i + 1]>>)
      <4>1. P[i + 1] = P[i] \o <<p[i + 1]>>
        BY <1>1, <2>1, <2>2, <2>3, KeptJoins
      <4> QED  BY <2>1, <4>1 DEF Cat
    <3> HIDE DEF K, P
    <3>3. P[i] \in Seq(X) /\ <<s[m + i + 1]>> \in Seq(X)
      BY <1>3, <2>1
    <3>4. K[m + i] = Cat(K[m], P[i])
      BY <1>4 DEF Cat
    <3>5. m + (i + 1) = m + i + 1
      OBVIOUS
    <3>6. K[m + i + 1] = Cat(K[m], P[i + 1])
      <4> DEFINE x == <<s[m + i + 1]>>
      <4>1. x \in Seq(X) /\ K[m + i + 1] = Cat(K[m + i], x) /\ P[i + 1] = Cat(P[i], x)
        BY <3>1, <3>2, <3>3
      <4> HIDE DEF x
      <4>2. Cat(Cat(K[m], P[i]), x) = Cat(K[m], Cat(P[i], x))
        BY <1>2, <3>3, <4>1, CatAssociative
      <4> QED  BY <3>4, <4>1, <4>2
    <3>7. K[m + (i + 1)] = Cat(K[m], P[i + 1])
      BY <3>5, <3>6
    <3> QED  BY <3>7 DEF Cat
  <2>4. CASE s[m + i + 1] \notin T
    <3>1. K[m + i + 1] = K[m + i]
      BY <2>1, <2>4, KeptSkips
    <3>2. P[i + 1] = P[i]
      BY <1>1, <2>1, <2>2, <2>4, KeptSkips
    <3>3. m + (i + 1) = m + i + 1
      OBVIOUS
    <3> QED  BY <1>4, <3>1, <3>2, <3>3
  <2> QED  BY <2>3, <2>4
<1> HIDE DEF K, P
<1>5. Joins(0)
  <2>1. m + 0 = m /\ K[m] \o <<>> = K[m]
    BY <1>2, ConcatEmptySeq
  <2> QED  BY <1>3, <2>1
<1> HIDE DEF Joins
<1>6. 0 \in S
  BY <1>5
<1>7. \A i \in Nat : i \in S => i + 1 \in S
  BY <1>4
<1> HIDE DEF S
<1>8. k \in S
  BY <1>1, <1>6, <1>7, Induction
<1>9. Joins(k)
  BY <1>8 DEF S
<1> QED  BY <1>9 DEF Joins, K, P, Kept, Cat

LEMMA KeptTyped ==
  ASSUME NEW X, NEW s \in Seq(X), NEW T
  PROVE  Kept(s, T) \in Seq(X) /\ Members(s, T, Kept(s, T), Len(s))
<1>1. Len(s) \in 0..Len(s)
  OBVIOUS
<1> QED  BY <1>1, KeptMembers DEF Kept

\* The loop never takes back what it has kept.
LEMMA KeptIsPrefix ==
  ASSUME NEW X, NEW s \in Seq(X), NEW T, NEW n \in 0..Len(s)
  PROVE  /\ Len(KeptUpTo(s, T)[n]) <= Len(Kept(s, T))
         /\ KeptUpTo(s, T)[n] = SubSeq(Kept(s, T), 1, Len(KeptUpTo(s, T)[n]))
<1> DEFINE p == SubSeq(s, n + 1, Len(s))
           rest == Kept(p, T)
<1>1. n \in Nat /\ Len(s) \in Nat /\ n <= Len(s)
  OBVIOUS
<1>2. p \in Seq(X) /\ n + Len(p) = Len(s) /\ \A i \in 1..Len(p) : p[i] = s[n + i]
  <2>1. p \in Seq(X) /\ Len(p) = Len(s) - n
    BY <1>1
  <2>2. \A i \in 1..Len(p) : p[i] = s[n + i]
    BY <1>1, <2>1
  <2> QED  BY <1>1, <2>1, <2>2
<1> HIDE DEF p
<1>6. KeptUpTo(s, T)[n + Len(p)] = Cat(KeptUpTo(s, T)[n], rest)
  <2>1. Follows(p, s, n, T, T)
    BY <1>1, <1>2 DEF Follows
  <2> QED  BY <1>1, <1>2, <2>1, KeptOfPage
<1>3. Kept(s, T) = KeptUpTo(s, T)[n] \o rest
  BY <1>2, <1>6 DEF Kept, Cat
<1>4. rest \in Seq(X)
  BY <1>2, KeptTyped
<1>5. KeptUpTo(s, T)[n] \in Seq(X)
  BY KeptMembers
<1> HIDE DEF rest
<1> QED  BY <1>3, <1>4, <1>5

-----------------------------------------------------------------------------
(* The inductive invariant. *)

\* While the search lasts nothing was written, there is room for more targets,
\* and in a list that has not changed they are what a loop over the part before
\* the cursor keeps.
SearchOK ==
    step = "search" =>
        /\ Len(contacts) < Limit /\ index = 1 /\ updated = {} /\ late = {}
        /\ changes = 0 => /\ after <= Len(due)
                          /\ contacts = KeptUpTo(due, Contacts \ blank)[after]

\* Only targets are written, and those before the current chunk all are.
WriteOK ==
    /\ updated \subseteq ToSet(contacts) /\ late \subseteq ToSet(contacts)
    /\ step = "write" => \A k \in 1..(index - 1) : contacts[k] \in updated

IInv == TypeOK /\ TargetsAreDistinct /\ SearchOK /\ WriteOK /\ StableSearchIsComplete

LEMMA ModAdd ==
  ASSUME NEW a \in Nat, NEW c \in Nat \ {0}, a % c = 0
  PROVE  (a + c) % c = 0
<1> DEFINE q == a \div c
<1>1. a = c * q /\ q \in Nat
  OBVIOUS
<1> HIDE DEF q
<1>2. a + c = (q + 1) * c
  BY <1>1
<1>3. ((q + 1) * c) % c = 0
  BY <1>1
<1> QED  BY <1>2, <1>3

LEMMA ZeroMod ==
  ASSUME NEW c \in Nat \ {0}
  PROVE  0 % c = 0
OBVIOUS

USE LimitAssumption, PageSizeAssumption, ChunkSizeAssumption, MaxRetriesAssumption,
    MaxChangesAssumption

LEMMA InitOK == ASSUME Init PROVE IInv
<1>1. due \in Seq(Contacts) /\ Distinct(due)
  <2>1. PICK n \in 0..Cardinality(Contacts) : due \in [1..n -> Contacts] /\ Distinct(due)
    BY DEF Init
  <2>2. n \in Nat
    OBVIOUS
  <2> QED  BY <2>1, <2>2
<1>2. blank \subseteq Contacts
  BY <1>1 DEF Init, ToSet
<1>3. TypeOK
  BY <1>1, <1>2 DEF Init, TypeOK
<1>4. KeptUpTo(due, Contacts \ blank)[0] = <<>>
  BY <1>1, KeptFirst
<1>5. SearchOK /\ WriteOK
  BY <1>1, <1>4 DEF Init, SearchOK, WriteOK, ToSet
<1>6. TargetsAreDistinct /\ StableSearchIsComplete
  BY DEF Init, TargetsAreDistinct, Distinct, StableSearchIsComplete
<1> QED  BY <1>3, <1>5, <1>6 DEF IInv

\* A page has no more than was asked for, and no contact twice.
LEMMA PageOK ==
  ASSUME TypeOK, Len(contacts) < Limit
  PROVE  /\ Asked \in Nat \ {0} /\ Asked <= Limit - Len(contacts)
         /\ Page \in Seq(Contacts) /\ Len(Page) <= Asked /\ Distinct(Page)
         /\ \A i \in 1..Len(Page) : after + i <= Len(due) /\ Page[i] = due[after + i]
<1>1. /\ due \in Seq(Contacts) /\ Distinct(due) /\ after \in Nat
      /\ contacts \in Seq(Contacts) /\ Len(contacts) \in Nat /\ Len(due) \in Nat
  BY DEF TypeOK
<1>2. Asked \in Nat \ {0} /\ Asked <= Limit - Len(contacts)
  BY <1>1 DEF Asked, Smaller
<1> DEFINE last == Smaller(after + Asked, Len(due))
<1>3. last \in Nat /\ last <= after + Asked /\ last <= Len(due)
  BY <1>1, <1>2 DEF Smaller
<1> HIDE DEF last
<1>4. \A i \in (after + 1)..last : due[i] \in Contacts
  BY <1>1, <1>3
<1>5. /\ Page \in Seq(Contacts)
      /\ Len(Page) = IF after + 1 <= last THEN last - (after + 1) + 1 ELSE 0
      /\ \A i \in 1..(last - (after + 1) + 1) : Page[i] = due[after + 1 + i - 1]
  <2>1. Page = SubSeq(due, after + 1, last)
    BY DEF Page, last
  <2>2. after + 1 \in Int /\ last \in Int
    BY <1>1, <1>3
  <2> QED  BY <1>4, <2>1, <2>2, SubSeqProperties
<1>6. Len(Page) <= Asked /\ (Len(Page) = 0 \/ after + Len(Page) <= Len(due))
  BY <1>1, <1>2, <1>3, <1>5
<1>7. \A i \in 1..Len(Page) : after + i <= Len(due) /\ Page[i] = due[after + i]
  BY <1>1, <1>3, <1>5
<1>8. Distinct(Page)
  <2> SUFFICES ASSUME NEW i \in 1..Len(Page), NEW j \in 1..Len(Page), Page[i] = Page[j]
               PROVE  i = j
    BY <1>5 DEF Distinct
  <2>1. due[after + i] = due[after + j] /\ after + i \in DOMAIN due /\ after + j \in DOMAIN due
    BY <1>1, <1>7
  <2>2. after + i = after + j
    BY <1>1, <2>1 DEF Distinct
  <2> QED  BY <1>1, <2>2
<1> QED  BY <1>2, <1>5, <1>6, <1>7, <1>8

\* What a page adds is new, and there is room for it.
LEMMA NewOK ==
  ASSUME TypeOK, TargetsAreDistinct, Len(contacts) < Limit
  PROVE  /\ New \in Seq(Contacts) /\ Len(New) <= Asked
         /\ contacts \o New \in Seq(Contacts) /\ Len(contacts \o New) <= Limit
         /\ Distinct(contacts \o New)
<1> DEFINE T == Contacts \ (blank \cup ToSet(contacts))
<1>1. Page \in Seq(Contacts) /\ Len(Page) <= Asked /\ Distinct(Page)
      /\ Asked \in Nat /\ Asked <= Limit - Len(contacts)
  BY PageOK
<1>2. New \in Seq(Contacts) /\ Members(Page, T, New, Len(Page))
  BY <1>1, KeptTyped DEF New
<1> HIDE DEF T
<1>3. Len(New) <= Len(Page) /\ Distinct(New) /\ \A i \in 1..Len(New) : New[i] \in T
  BY <1>1, <1>2 DEF Members
<1>4. \A i \in 1..Len(New), j \in 1..Len(contacts) : New[i] # contacts[j]
  BY <1>3 DEF TypeOK, T, ToSet
<1>5. contacts \in Seq(Contacts) /\ Len(contacts) \in Nat /\ Len(New) \in Nat /\ Len(Page) \in Nat
      /\ Distinct(contacts)
  BY <1>1, <1>2 DEF TypeOK, TargetsAreDistinct
<1>6. /\ contacts \o New \in Seq(Contacts) /\ Len(contacts \o New) = Len(contacts) + Len(New)
      /\ \A i \in 1..Len(contacts) : (contacts \o New)[i] = contacts[i]
      /\ \A i \in 1..Len(New) : (contacts \o New)[Len(contacts) + i] = New[i]
  BY <1>2, <1>5
<1>7. Distinct(contacts \o New)
  <2> DEFINE found == contacts \o New
  <2> HIDE DEF found
  <2> SUFFICES ASSUME NEW i \in 1..Len(found), NEW j \in 1..Len(found), found[i] = found[j]
               PROVE  i = j
    BY <1>6 DEF Distinct, found
  <2>1. Len(found) = Len(contacts) + Len(New)
        /\ (\A n \in 1..Len(contacts) : found[n] = contacts[n])
        /\ \A n \in 1..Len(New) : found[Len(contacts) + n] = New[n]
    BY <1>6 DEF found
  <2>2. \A n \in 1..Len(found) :
           n \in 1..Len(contacts) \/ \E k \in 1..Len(New) : n = Len(contacts) + k
    <3> SUFFICES ASSUME NEW n \in 1..Len(found), n \notin 1..Len(contacts)
                 PROVE  \E k \in 1..Len(New) : n = Len(contacts) + k
      OBVIOUS
    <3>1. n - Len(contacts) \in 1..Len(New) /\ n = Len(contacts) + (n - Len(contacts))
      BY <1>5, <2>1
    <3> QED  BY <3>1
  <2>3. CASE i \in 1..Len(contacts) /\ j \in 1..Len(contacts)
    BY <1>5, <2>1, <2>3 DEF Distinct
  <2>4. CASE \E k \in 1..Len(New), l \in 1..Len(New) : i = Len(contacts) + k /\ j = Len(contacts) + l
    BY <1>2, <1>3, <2>1, <2>4 DEF Distinct
  <2>5. ASSUME NEW n \in 1..Len(contacts), NEW k \in 1..Len(New)
        PROVE  found[n] # found[Len(contacts) + k]
    BY <1>4, <2>1
  <2> QED  BY <2>2, <2>3, <2>4, <2>5
<1> QED  BY <1>1, <1>2, <1>3, <1>5, <1>6, <1>7

\* The search has kept what it was to keep of the list before the cursor.
StableSearch ==
    after <= Len(due) /\ contacts = KeptUpTo(due, Contacts \ blank)[after]

LEMMA ToSetOf ==
  ASSUME NEW X, NEW s \in Seq(X)
  PROVE  ToSet(s) = {s[j] : j \in 1..Len(s)}
BY DEF ToSet

\* In a list that has not changed the targets go on being what the loop keeps.
LEMMA PageKept ==
  ASSUME TypeOK, Len(contacts) < Limit, StableSearch
  PROVE  /\ contacts \o New = KeptUpTo(due, Contacts \ blank)[after + Len(Page)]
         /\ after + Len(Page) = Smaller(after + Asked, Len(due))
<1> DEFINE T == Contacts \ blank
           U == Contacts \ (blank \cup ToSet(contacts))
<1>1. /\ due \in Seq(Contacts) /\ Distinct(due) /\ after \in 0..Len(due) /\ Len(due) \in Nat
      /\ contacts \in Seq(Contacts)
  BY DEF TypeOK, StableSearch
<1>2. Page \in Seq(Contacts) /\ Asked \in Nat \ {0}
      /\ \A i \in 1..Len(Page) : after + i <= Len(due) /\ Page[i] = due[after + i]
  BY PageOK
<1>3. after + Len(Page) = Smaller(after + Asked, Len(due))
  <2>1. Len(Page) = Smaller(after + Asked, Len(due)) - after
    BY <1>1, <1>2 DEF Page, Smaller
  <2> QED  BY <1>1, <1>2, <2>1 DEF Smaller
<1>4. Members(due, T, contacts, after)
  BY <1>1, KeptMembers DEF StableSearch
<1>5. \A i \in 1..Len(Page) : Page[i] \notin ToSet(contacts)
  <2> SUFFICES ASSUME NEW i \in 1..Len(Page), NEW j \in 1..Len(contacts), Page[i] = contacts[j]
               PROVE  FALSE
    <3>1. ToSet(contacts) = {contacts[j] : j \in 1..Len(contacts)}
      BY <1>1, ToSetOf
    <3> QED  BY <3>1
  <2>1. PICK k \in 1..after : due[k] = contacts[j]
    BY <1>4 DEF Members
  <2>2. due[after + i] = due[k] /\ after + i \in DOMAIN due /\ k \in DOMAIN due /\ k # after + i
    BY <1>1, <1>2, <2>1
  <2> QED  BY <1>1, <2>2 DEF Distinct
<1>6. \A i \in 1..Len(Page) : due[after + i] \in T <=> Page[i] \in U
  BY <1>2, <1>5
<1>7. after + Len(Page) <= Len(due)
  BY <1>1, <1>2, <1>3 DEF Smaller
<1>8. Follows(Page, due, after, T, U)
  BY <1>2, <1>6, <1>7 DEF Follows
<1> HIDE DEF T, U
<1>9. KeptUpTo(due, T)[after + Len(Page)] = Cat(KeptUpTo(due, T)[after], Kept(Page, U))
  BY <1>1, <1>2, <1>8, KeptOfPage
<1> QED  BY <1>3, <1>9 DEF T, U, New, Cat, StableSearch

\* What a loop has kept that ends with enough or at the end.
LEMMA KeptEnough ==
  ASSUME NEW X, NEW s \in Seq(X), NEW T, NEW n \in 0..Len(s), NEW l, l = KeptUpTo(s, T)[n],
         Len(l) = Limit \/ (n = Len(s) /\ Len(l) <= Limit)
  PROVE  l = SubSeq(Kept(s, T), 1, Smaller(Limit, Len(Kept(s, T))))
<1> DEFINE all == Kept(s, T)
<1>1. l = SubSeq(all, 1, Len(l))
  BY KeptIsPrefix
<1>2. Len(l) <= Len(all) /\ (n = Len(s) => l = all)
  BY KeptIsPrefix DEF Kept
<1>3. Len(all) \in Nat /\ Len(l) \in Nat
  <2>1. all \in Seq(X) /\ l \in Seq(X)
    BY KeptTyped, KeptMembers
  <2> HIDE DEF all
  <2> QED  BY <2>1
<1> HIDE DEF all
<1>4. Smaller(Limit, Len(all)) = Len(l)
  BY <1>2, <1>3 DEF Smaller
<1>5. l = SubSeq(all, 1, Smaller(Limit, Len(all)))
  BY <1>1, <1>4
<1> QED  BY <1>5 DEF all

\* A search of a list that has not changed ends with what it was to find.
LEMMA FoundComplete ==
  ASSUME TypeOK, TargetsAreDistinct, Len(contacts) < Limit, StableSearch,
         Len(contacts \o New) >= Limit \/ NextAfter \in {0, after}
  PROVE  contacts \o New = SubSeq(Kept(due, Contacts \ blank), 1,
                                  Smaller(Limit, Len(Kept(due, Contacts \ blank))))
<1> DEFINE found == contacts \o New
           last == after + Len(Page)
<1>1. due \in Seq(Contacts) /\ after \in Nat /\ Len(due) \in Nat /\ Asked \in Nat \ {0}
  BY PageOK DEF TypeOK
<1>2. found \in Seq(Contacts) /\ Len(found) <= Limit
  BY NewOK
<1>3. found = KeptUpTo(due, Contacts \ blank)[last] /\ last = Smaller(after + Asked, Len(due))
  BY PageKept
<1>4. Len(found) >= Limit \/ NextAfter \in {0, after}
  OBVIOUS
<1> HIDE DEF last, found
<1>5. last \in 0..Len(due)
  BY <1>1, <1>3 DEF Smaller
<1>6. Len(found) \in Nat
  BY <1>2
<1>7. NextAfter \in {0, after} => last = Len(due)
  BY <1>1, <1>3 DEF NextAfter, Smaller
<1>8. Len(found) = Limit \/ (last = Len(due) /\ Len(found) <= Limit)
  BY <1>2, <1>4, <1>6, <1>7
<1>9. found = SubSeq(Kept(due, Contacts \ blank), 1, Smaller(Limit, Len(Kept(due, Contacts \ blank))))
  BY <1>1, <1>3, <1>5, <1>8, KeptEnough
<1> QED  BY <1>9 DEF found

\* What a page does to the invariant, whichever cursor comes with it.
LEMMA TakeOK ==
  ASSUME IInv, step = "search", NEW next \in Nat, TakePage(next), attempt' = 0,
         UNCHANGED <<due, blank, updated, late, index>>,
         changes' \in 0..MaxChanges, changes' = 0 => changes = 0 /\ next = NextAfter
  PROVE  IInv'
<1> DEFINE found == contacts \o New
<1>1. TypeOK /\ TargetsAreDistinct /\ SearchOK /\ WriteOK
  BY DEF IInv
<1>2. Len(contacts) < Limit /\ index = 1 /\ updated = {} /\ late = {} /\ answer = "none"
  BY <1>1 DEF SearchOK, TypeOK
<1>3. found \in Seq(Contacts) /\ Len(found) <= Limit /\ Distinct(found)
  BY <1>1, <1>2, NewOK
<1> HIDE DEF found
<1>4. /\ contacts' = found
      /\ \/ /\ Len(found) >= Limit \/ next \in {0, after}
            /\ after' = after
            /\ \/ found = <<>> /\ step' = "done" /\ answer' = "true"
               \/ found # <<>> /\ step' = "write" /\ answer' = answer
         \/ /\ ~(Len(found) >= Limit \/ next \in {0, after})
            /\ after' = next /\ step' = step /\ answer' = answer
  BY DEF TakePage, Found, Done, found
<1>5. TypeOK'
  <2>1. after' \in Nat /\ step' \in {"search", "write", "done"}
        /\ answer' \in {"none", "true", "raised"} /\ (answer' = "none" <=> step' # "done")
    BY <1>1, <1>2, <1>4 DEF TypeOK
  <2>2. step' = "write" => index' \in DOMAIN contacts' /\ (index' - 1) % ChunkSize = 0
    <3>1. step' = "write" => 1 \in DOMAIN found
      BY <1>3, <1>4
    <3>2. index' - 1 = 0
      BY <1>2
    <3> QED  BY <1>2, <1>4, <3>1, <3>2, ZeroMod
  <2> QED  BY <1>1, <1>3, <1>4, <2>1, <2>2 DEF TypeOK
<1>6. TargetsAreDistinct'
  BY <1>3, <1>4 DEF TargetsAreDistinct, Distinct
<1>7. SearchOK'
  <2> SUFFICES ASSUME step' = "search"
               PROVE  /\ Len(contacts') < Limit
                      /\ changes' = 0 => /\ after' <= Len(due')
                                         /\ contacts' = KeptUpTo(due', Contacts \ blank')[after']
    BY <1>2 DEF SearchOK
  <2>1. Len(contacts') < Limit
    BY <1>3, <1>4
  <2>2. ASSUME changes' = 0
        PROVE  after' <= Len(due) /\ contacts' = KeptUpTo(due, Contacts \ blank)[after']
    <3>1. StableSearch
      BY <1>1, <2>2 DEF SearchOK, StableSearch
    <3>2. /\ contacts' = KeptUpTo(due, Contacts \ blank)[after + Len(Page)]
          /\ after + Len(Page) = Smaller(after + Asked, Len(due))
      BY <1>1, <1>2, <1>4, <3>1, PageKept DEF found
    <3>3. after' = NextAfter /\ NextAfter # 0
      BY <1>4, <2>2
    <3>4. after' = after + Asked /\ after' < Len(due) /\ Asked \in Nat
      BY <1>1, <1>2, <3>3, PageOK DEF NextAfter
    <3>5. after + Len(Page) = after'
      BY <3>2, <3>4 DEF Smaller
    <3> QED  BY <1>1, <3>2, <3>4, <3>5 DEF TypeOK
  <2> QED  BY <2>1, <2>2
<1>8. WriteOK'
  BY <1>2 DEF WriteOK
<1>9. StableSearchIsComplete'
  <2> SUFFICES ASSUME changes' = 0, step' = "write"
               PROVE  contacts' = SubSeq(Kept(due, Contacts \ blank), 1,
                                         Smaller(Limit, Len(Kept(due, Contacts \ blank))))
    BY DEF StableSearchIsComplete
  <2>1. StableSearch
    BY <1>1 DEF SearchOK, StableSearch
  <2>2. Len(contacts \o New) >= Limit \/ NextAfter \in {0, after}
    BY <1>4 DEF found
  <2> QED  BY <1>1, <1>2, <1>4, <2>1, <2>2, FoundComplete DEF found
<1> QED  BY <1>5, <1>6, <1>7, <1>8, <1>9 DEF IInv

\* A chunk is made of the targets from index on.
LEMMA ChunkOK ==
  ASSUME IInv, step = "write"
  PROVE  /\ Chunk \subseteq ToSet(contacts)
         /\ \A k \in index..Smaller(index + ChunkSize - 1, Len(contacts)) : contacts[k] \in Chunk
         /\ index \in Nat \ {0} /\ index <= Len(contacts)
<1>1. contacts \in Seq(Contacts) /\ index \in DOMAIN contacts /\ Len(contacts) \in Nat
  BY DEF IInv, TypeOK
<1>2. index \in Nat \ {0} /\ index <= Len(contacts)
  BY <1>1
<1> DEFINE last == Smaller(index + ChunkSize - 1, Len(contacts))
           part == SubSeq(contacts, index, last)
<1>3. last \in Nat /\ index <= last /\ last <= Len(contacts)
  BY <1>1, <1>2 DEF Smaller
<1> HIDE DEF last
<1>4. part \in Seq(Contacts) /\ Len(part) = last - index + 1
      /\ \A i \in 1..(last - index + 1) : part[i] = contacts[index + i - 1]
  <2>1. \A i \in index..last : contacts[i] \in Contacts
    BY <1>1, <1>2, <1>3
  <2>2. index \in Int /\ last \in Int
    BY <1>2, <1>3
  <2> QED  BY <1>3, <2>1, <2>2, SubSeqProperties
<1> HIDE DEF part
<1>5. Chunk = {part[i] : i \in 1..Len(part)}
  BY <1>4, ToSetOf DEF Chunk, part, last
<1>6. ToSet(contacts) = {contacts[i] : i \in 1..Len(contacts)}
  BY <1>1, ToSetOf
<1>7. Chunk \subseteq ToSet(contacts)
  <2> SUFFICES ASSUME NEW i \in 1..Len(part) PROVE part[i] \in ToSet(contacts)
    BY <1>5
  <2>1. part[i] = contacts[index + i - 1] /\ index + i - 1 \in 1..Len(contacts)
    BY <1>1, <1>2, <1>3, <1>4
  <2> QED  BY <1>6, <2>1
<1>8. ASSUME NEW k \in index..last PROVE contacts[k] \in Chunk
  <2>1. k - index + 1 \in 1..Len(part) /\ index + (k - index + 1) - 1 = k
    BY <1>2, <1>3, <1>4
  <2>2. part[k - index + 1] = contacts[k]
    BY <1>4, <2>1
  <2> QED  BY <1>5, <2>1, <2>2
<1> QED  BY <1>2, <1>7, <1>8 DEF last

LEMMA RaiseOK ==
  ASSUME IInv, step # "done", Raise, UNCHANGED <<due, blank, updated, changes, after, index, attempt>>,
         late' = late \/ (step = "write" /\ late' = late \cup Chunk)
  PROVE  IInv'
<1>1. step' = "done" /\ answer' = "raised" /\ contacts' = IF step = "search" THEN <<>> ELSE contacts
  BY DEF Raise, Done
<1>2. late' \subseteq ToSet(contacts) /\ updated \subseteq ToSet(contacts)
  BY ChunkOK DEF IInv, WriteOK
<1>3. TypeOK /\ ToSet(contacts) \subseteq Contacts
  BY DEF IInv, TypeOK, ToSet
<1>4. CASE step = "search"
  <2>1. updated = {} /\ late' = {} /\ contacts' = <<>>
    BY <1>1, <1>4 DEF IInv, SearchOK
  <2>2. TypeOK'
    BY <1>1, <1>3, <2>1 DEF TypeOK
  <2> QED
    BY <1>1, <2>1, <2>2
       DEF IInv, SearchOK, WriteOK, TargetsAreDistinct, StableSearchIsComplete, Distinct
<1>5. CASE step # "search"
  <2>1. contacts' = contacts
    BY <1>1, <1>5
  <2>2. TypeOK'
    BY <1>1, <1>2, <1>3, <2>1 DEF TypeOK
  <2> QED
    BY <1>1, <1>2, <2>1, <2>2
       DEF IInv, SearchOK, WriteOK, TargetsAreDistinct, StableSearchIsComplete
<1> QED  BY <1>4, <1>5

\* An attempt that failed is the last one, or changes nothing but the count.
LEMMA RetryOK ==
  ASSUME IInv, step # "done", Retry, UNCHANGED <<due, blank, updated, changes, after>>,
         late' = late \/ (step = "write" /\ late' = late \cup Chunk)
  PROVE  IInv'
<1>1. CASE attempt + 1 < MaxRetries
  <2>1. attempt' = attempt + 1 /\ UNCHANGED <<step, answer, contacts, index>>
    BY <1>1 DEF Retry
  <2>2. late' \subseteq ToSet(contacts) /\ ToSet(contacts) \subseteq Contacts
    BY ChunkOK DEF IInv, WriteOK, TypeOK, ToSet
  <2>3. attempt' \in 0..(MaxRetries - 1)
    BY <1>1, <2>1 DEF IInv, TypeOK
  <2>4. TypeOK'
    BY <2>1, <2>2, <2>3 DEF IInv, TypeOK
  <2>5. SearchOK'
    BY <2>1 DEF IInv, SearchOK
  <2> QED
    BY <2>1, <2>2, <2>4, <2>5
       DEF IInv, WriteOK, TargetsAreDistinct, StableSearchIsComplete
<1>2. CASE ~(attempt + 1 < MaxRetries)
  BY <1>2, RaiseOK DEF Retry
<1> QED  BY <1>1, <1>2

LEMMA WriteChunkOK == ASSUME IInv, WriteChunk PROVE IInv'
<1>1. TypeOK /\ step = "write" /\ updated' = updated \cup Chunk /\ attempt' = 0
      /\ UNCHANGED <<due, blank, late, changes, after, contacts>>
  BY DEF IInv, WriteChunk, NextChunk
<1>2. updated' \subseteq ToSet(contacts) /\ ToSet(contacts) \subseteq Contacts
  BY <1>1, ChunkOK DEF IInv, WriteOK, TypeOK, ToSet
<1>3. index \in Nat \ {0} /\ index <= Len(contacts) /\ Len(contacts) \in Nat
      /\ contacts \in Seq(Contacts)
  BY <1>1, ChunkOK DEF TypeOK
<1>4. CASE index + ChunkSize <= Len(contacts)
  <2>1. index' = index + ChunkSize /\ UNCHANGED <<step, answer>>
    BY <1>1, <1>4 DEF WriteChunk, NextChunk
  <2>2. index' \in DOMAIN contacts
    BY <1>3, <1>4, <2>1
  <2>3. (index' - 1) % ChunkSize = 0
    <3>1. index - 1 \in Nat /\ (index - 1) % ChunkSize = 0
      BY <1>1, <1>3 DEF TypeOK
    <3>2. ((index - 1) + ChunkSize) % ChunkSize = 0
      BY <3>1, ModAdd
    <3>3. index' - 1 = (index - 1) + ChunkSize
      BY <1>3, <2>1
    <3> QED  BY <3>2, <3>3
  <2>4. TypeOK'
    BY <1>1, <1>2, <2>1, <2>2, <2>3 DEF TypeOK
  <2>5. WriteOK'
    <3> SUFFICES ASSUME NEW k \in 1..(index' - 1) PROVE contacts[k] \in updated'
      BY <1>1, <1>2 DEF IInv, WriteOK
    <3>1. CASE k <= index - 1
      BY <1>1, <1>3, <3>1 DEF IInv, WriteOK
    <3>2. CASE k >= index
      <4>1. k \in index..Smaller(index + ChunkSize - 1, Len(contacts))
        BY <1>3, <1>4, <2>1, <3>2 DEF Smaller
      <4> QED  BY <1>1, <4>1, ChunkOK
    <3> QED  BY <1>3, <2>1, <3>1, <3>2
  <2> QED
    BY <1>1, <2>1, <2>4, <2>5
       DEF IInv, SearchOK, TargetsAreDistinct, StableSearchIsComplete
<1>5. CASE ~(index + ChunkSize <= Len(contacts))
  <2>1. step' = "done" /\ answer' = "true" /\ index' = index
    BY <1>1, <1>5 DEF WriteChunk, NextChunk, Done
  <2>2. TypeOK'
    BY <1>1, <1>2, <2>1 DEF TypeOK
  <2> QED
    BY <1>1, <1>2, <2>1, <2>2
       DEF IInv, SearchOK, WriteOK, TargetsAreDistinct, StableSearchIsComplete
<1> QED  BY <1>4, <1>5

-----------------------------------------------------------------------------
(* HubSpot's steps. *)

LEMMA Concatenated ==
  ASSUME NEW X, NEW a \in Seq(X), NEW d \in Seq(X), NEW r, r = a \o d
  PROVE  /\ r \in Seq(X) /\ Len(r) = Len(a) + Len(d)
         /\ \A i \in 1..Len(a) : r[i] = a[i]
         /\ \A i \in 1..Len(d) : r[Len(a) + i] = d[i]
OBVIOUS

\* A contact that enters the list is in it once.
LEMMA InsertOK ==
  ASSUME NEW X, NEW s \in Seq(X), NEW c \in X, NEW n \in 1..(Len(s) + 1),
         Distinct(s), c \notin ToSet(s)
  PROVE  InsertAt(s, n, c) \in Seq(X) /\ Distinct(InsertAt(s, n, c))
<1> DEFINE a == SubSeq(s, 1, n - 1)
           b == <<c>>
           d == SubSeq(s, n, Len(s))
           ab == a \o b
           r == ab \o d
<1>1. Len(s) \in Nat /\ n \in Nat /\ n - 1 \in 0..Len(s)
  OBVIOUS
<1>2. a \in Seq(X) /\ Len(a) = n - 1 /\ \A i \in 1..(n - 1) : a[i] = s[i]
  BY <1>1
<1>3. b \in Seq(X) /\ Len(b) = 1 /\ b[1] = c
  OBVIOUS
<1>4. d \in Seq(X) /\ Len(d) = Len(s) - n + 1 /\ \A i \in 1..(Len(s) - n + 1) : d[i] = s[n + i - 1]
  <2>1. \A i \in n..Len(s) : s[i] \in X
    BY <1>1
  <2>2. n \in Int /\ Len(s) \in Int
    BY <1>1
  <2>3. /\ d \in Seq(X) /\ Len(d) = IF n <= Len(s) THEN Len(s) - n + 1 ELSE 0
        /\ \A i \in 1..(Len(s) - n + 1) : d[i] = s[n + i - 1]
    BY <2>1, <2>2, SubSeqProperties
  <2> QED  BY <1>1, <2>3
<1> HIDE DEF a, b, d
<1>5. ab \in Seq(X) /\ Len(ab) = n /\ ab[n] = c /\ \A i \in 1..(n - 1) : ab[i] = s[i]
  <2>0. ab = a \o b
    OBVIOUS
  <2> HIDE DEF ab
  <2>1. /\ ab \in Seq(X) /\ Len(ab) = Len(a) + Len(b)
        /\ \A i \in 1..Len(a) : ab[i] = a[i]
        /\ \A i \in 1..Len(b) : ab[Len(a) + i] = b[i]
    <3>1. a \in Seq(X) /\ b \in Seq(X)
      BY <1>2, <1>3
    <3> QED  BY <2>0, <3>1, Concatenated
  <2>2. Len(ab) = n /\ ab[(n - 1) + 1] = c /\ (n - 1) + 1 = n
    BY <1>1, <1>2, <1>3, <2>1
  <2> QED  BY <1>2, <2>1, <2>2
<1>6. /\ r \in Seq(X) /\ Len(r) = Len(s) + 1
      /\ \A i \in 1..n : r[i] = ab[i]
      /\ \A i \in 1..(Len(s) - n + 1) : r[n + i] = d[i]
  <2> HIDE DEF ab
  <2>1. /\ r \in Seq(X) /\ Len(r) = Len(ab) + Len(d)
        /\ \A i \in 1..Len(ab) : r[i] = ab[i]
        /\ \A i \in 1..Len(d) : r[Len(ab) + i] = d[i]
    BY <1>4, <1>5, Concatenated
  <2> HIDE DEF r
  <2> QED  BY <1>1, <1>4, <1>5, <2>1
<1> HIDE DEF ab, r
<1>7. /\ \A i \in 1..(n - 1) : r[i] = s[i]
      /\ r[n] = c
      /\ \A i \in (n + 1)..(Len(s) + 1) : r[i] = s[i - 1]
  <2>1. \A i \in (n + 1)..(Len(s) + 1) : r[i] = s[i - 1]
    <3> SUFFICES ASSUME NEW i \in (n + 1)..(Len(s) + 1) PROVE r[i] = s[i - 1]
      OBVIOUS
    <3>1. i - n \in 1..(Len(s) - n + 1) /\ n + (i - n) - 1 = i - 1 /\ n + (i - n) = i
      BY <1>1
    <3>2. d[i - n] = s[n + (i - n) - 1] /\ r[n + (i - n)] = d[i - n]
      BY <1>4, <1>6, <3>1
    <3> QED  BY <3>1, <3>2
  <2> QED  BY <1>1, <1>5, <1>6, <2>1
<1>8. \A i \in 1..Len(s) : s[i] # c
  BY DEF ToSet
<1>9. Distinct(r)
  <2> SUFFICES ASSUME NEW i \in 1..Len(r), NEW j \in 1..Len(r), r[i] = r[j] PROVE i = j
    BY <1>6 DEF Distinct
  <2> DEFINE old(k) == IF k < n THEN k ELSE k - 1
  <2>1. \A k \in 1..Len(r) : k # n => old(k) \in 1..Len(s) /\ r[k] = s[old(k)]
    BY <1>1, <1>6, <1>7
  <2>2. CASE i = n \/ j = n
    <3>1. \A k \in 1..Len(r) : k # n => r[k] # c
      BY <1>8, <2>1
    <3> QED  BY <1>7, <2>2, <3>1
  <2>3. CASE i # n /\ j # n
    <3>1. old(i) = old(j)
      BY <2>1, <2>3 DEF Distinct
    <3> QED  BY <1>1, <1>6, <2>3, <3>1
  <2> QED  BY <2>2, <2>3
<1>10. r = InsertAt(s, n, c)
  BY DEF r, ab, a, b, d, InsertAt
<1> QED  BY <1>6, <1>9, <1>10

LEMMA RemoveOK ==
  ASSUME NEW X, NEW s \in Seq(X), NEW n \in 1..Len(s), Distinct(s)
  PROVE  RemoveAt(s, n) \in Seq(X) /\ Distinct(RemoveAt(s, n))
<1> DEFINE a == SubSeq(s, 1, n - 1)
           d == SubSeq(s, n + 1, Len(s))
           r == a \o d
<1>1. Len(s) \in Nat /\ n \in Nat /\ n - 1 \in 0..Len(s) /\ n <= Len(s)
  OBVIOUS
<1>2. a \in Seq(X) /\ Len(a) = n - 1 /\ \A i \in 1..(n - 1) : a[i] = s[i]
  BY <1>1
<1>3. d \in Seq(X) /\ Len(d) = Len(s) - n /\ \A i \in 1..(Len(s) - n) : d[i] = s[n + i]
  <2>1. \A i \in (n + 1)..Len(s) : s[i] \in X
    BY <1>1
  <2>2. n + 1 \in Int /\ Len(s) \in Int
    BY <1>1
  <2>3. /\ d \in Seq(X) /\ Len(d) = IF n + 1 <= Len(s) THEN Len(s) - (n + 1) + 1 ELSE 0
        /\ \A i \in 1..(Len(s) - (n + 1) + 1) : d[i] = s[n + 1 + i - 1]
    BY <2>1, <2>2, SubSeqProperties
  <2> QED  BY <1>1, <2>3
<1> HIDE DEF a, d
<1>4. /\ r \in Seq(X) /\ Len(r) = Len(s) - 1
      /\ \A i \in 1..(n - 1) : r[i] = a[i]
      /\ \A i \in 1..(Len(s) - n) : r[n - 1 + i] = d[i]
  <2>0. r = a \o d
    OBVIOUS
  <2> HIDE DEF r
  <2>1. /\ r \in Seq(X) /\ Len(r) = Len(a) + Len(d)
        /\ \A i \in 1..Len(a) : r[i] = a[i]
        /\ \A i \in 1..Len(d) : r[Len(a) + i] = d[i]
    <3>1. a \in Seq(X) /\ d \in Seq(X)
      BY <1>2, <1>3
    <3> QED  BY <2>0, <3>1, Concatenated
  <2> QED  BY <1>1, <1>2, <1>3, <2>1
<1> HIDE DEF r
<1>5. \A i \in n..(Len(s) - 1) : r[i] = s[i + 1]
  <2> SUFFICES ASSUME NEW i \in n..(Len(s) - 1) PROVE r[i] = s[i + 1]
    OBVIOUS
  <2>1. i - n + 1 \in 1..(Len(s) - n) /\ n + (i - n + 1) = i + 1 /\ n - 1 + (i - n + 1) = i
    BY <1>1
  <2>2. d[i - n + 1] = s[n + (i - n + 1)] /\ r[n - 1 + (i - n + 1)] = d[i - n + 1]
    BY <1>3, <1>4, <2>1
  <2> QED  BY <2>1, <2>2
<1>6. Distinct(r)
  <2> SUFFICES ASSUME NEW i \in 1..Len(r), NEW j \in 1..Len(r), r[i] = r[j] PROVE i = j
    BY <1>4 DEF Distinct
  <2> DEFINE old(k) == IF k < n THEN k ELSE k + 1
  <2>1. \A k \in 1..Len(r) : old(k) \in 1..Len(s) /\ r[k] = s[old(k)]
    <3> SUFFICES ASSUME NEW k \in 1..Len(r) PROVE old(k) \in 1..Len(s) /\ r[k] = s[old(k)]
      OBVIOUS
    <3>1. CASE k < n
      BY <1>1, <1>2, <1>4, <3>1
    <3>2. CASE ~(k < n)
      <4>1. k \in n..(Len(s) - 1) /\ k + 1 \in 1..Len(s) /\ old(k) = k + 1
        BY <1>1, <1>4, <3>2
      <4>2. r[k] = s[k + 1]
        BY <1>5, <4>1
      <4> QED  BY <4>1, <4>2
    <3> QED  BY <3>1, <3>2
  <2>2. old(i) = old(j)
    BY <2>1 DEF Distinct
  <2> QED  BY <1>1, <1>4, <2>2
<1>7. r = RemoveAt(s, n)
  BY DEF r, a, d, RemoveAt
<1> QED  BY <1>4, <1>6, <1>7

LEMMA ChangeOK == ASSUME IInv, Change PROVE IInv'
<1>1. TypeOK /\ step = "search" /\ changes' = changes + 1 /\ changes < MaxChanges
      /\ UNCHANGED <<blank, updated, late, step, attempt, after, contacts, index, answer>>
  BY DEF IInv, Change
<1>2. due' \in Seq(Contacts) /\ Distinct(due')
  <2>1. CASE \E c \in Contacts \ ToSet(due), n \in 1..(Len(due) + 1) : due' = InsertAt(due, n, c)
    BY <1>1, <2>1, InsertOK DEF TypeOK
  <2>2. CASE \E n \in DOMAIN due : due' = RemoveAt(due, n)
    <3>1. DOMAIN due = 1..Len(due)
      BY <1>1 DEF TypeOK
    <3> QED  BY <1>1, <2>2, <3>1, RemoveOK DEF TypeOK
  <2> QED  BY <2>1, <2>2 DEF Change
<1>3. changes' \in 0..MaxChanges /\ changes' # 0
  BY <1>1 DEF TypeOK
<1>4. TypeOK'
  BY <1>1, <1>2, <1>3 DEF TypeOK, Distinct
<1> QED
  BY <1>1, <1>3, <1>4
     DEF IInv, SearchOK, WriteOK, TargetsAreDistinct, StableSearchIsComplete

LEMMA TakeEffectOK == ASSUME IInv, TakeEffect PROVE IInv'
<1>1. PICK c \in late \ updated : updated' = updated \cup {c}
  BY DEF TakeEffect
<1>2. UNCHANGED <<due, blank, late, changes, step, attempt, after, contacts, index, answer>>
  BY DEF TakeEffect
<1>3. step # "search"
  BY <1>1 DEF IInv, SearchOK
<1>4. TypeOK'
  BY <1>1, <1>2 DEF IInv, TypeOK
<1> QED
  BY <1>1, <1>2, <1>3, <1>4
     DEF IInv, SearchOK, WriteOK, TargetsAreDistinct, StableSearchIsComplete

\* Every step of the client and of HubSpot keeps the invariant.
LEMMA NextOK == ASSUME IInv, [Next]_vars PROVE IInv'
<1>1. TypeOK
  BY DEF IInv
<1>2. CASE SearchPage
  <2>1. NextAfter \in Nat
    <3>1. Asked \in Nat /\ after \in Nat
      BY <1>1, <1>2, PageOK DEF SearchPage, TypeOK, IInv, SearchOK
    <3> QED  BY <3>1 DEF NextAfter
  <2> QED  BY <1>1, <1>2, <2>1, TakeOK DEF SearchPage, hubspot, TypeOK
<1>3. CASE SearchPageStuck
  <2>1. after \in Nat /\ changes' \in 0..MaxChanges /\ changes' # 0
    BY <1>1, <1>3 DEF SearchPageStuck, TypeOK
  <2> QED  BY <1>3, <2>1, TakeOK DEF SearchPageStuck
<1>4. CASE SearchRetry
  <2>1. step = "search" /\ Retry
    BY <1>4 DEF SearchRetry
  <2>2. UNCHANGED <<due, blank, updated, late, changes, after>>
    BY <1>4 DEF SearchRetry, hubspot
  <2>3. late' = late \/ (step = "write" /\ late' = late \cup Chunk)
    BY <2>2
  <2>4. UNCHANGED <<due, blank, updated, changes, after>>
    BY <2>2
  <2>5. step # "done"
    BY <2>1
  <2> QED  BY <2>1, <2>3, <2>4, <2>5, RetryOK
<1>5. CASE SearchRejected
  <2>1. step = "search" /\ Raise
    BY <1>5 DEF SearchRejected
  <2>2. UNCHANGED <<due, blank, updated, late, changes, after, index, attempt>>
    BY <1>5 DEF SearchRejected, hubspot
  <2>3. late' = late \/ (step = "write" /\ late' = late \cup Chunk)
    BY <2>2
  <2>4. UNCHANGED <<due, blank, updated, changes, after, index, attempt>>
    BY <2>2
  <2>5. step # "done"
    BY <2>1
  <2> QED  BY <2>1, <2>3, <2>4, <2>5, RaiseOK
<1>6. CASE WriteChunk
  BY <1>6, WriteChunkOK
<1>7. CASE WriteRetry
  BY <1>7, RetryOK DEF WriteRetry
<1>8. CASE WriteRejected
  BY <1>8, RaiseOK DEF WriteRejected
<1>9. CASE Change
  BY <1>9, ChangeOK
<1>10. CASE TakeEffect
  BY <1>10, TakeEffectOK
<1>11. CASE UNCHANGED vars
  BY <1>11
     DEF IInv, TypeOK, SearchOK, WriteOK, TargetsAreDistinct, StableSearchIsComplete, vars
<1> QED
  BY <1>2, <1>3, <1>4, <1>5, <1>6, <1>7, <1>8, <1>9, <1>10, <1>11 DEF Next, Client

\* The invariant that the theorems below follow from.
THEOREM Invariant == Spec => []IInv
<1>1. Init => IInv
  BY InitOK
<1>2. IInv /\ [Next]_vars => IInv'
  BY NextOK
<1> QED  BY <1>1, <1>2, PTL DEF Spec

\* Every variable keeps its type; in particular the search never holds more
\* targets than the limit and an update begins at a chunk's first target
\* (hubspot.py:237-274, 289-290).
THEOREM TypeCorrect == Spec => []TypeOK
<1>1. IInv => TypeOK
  BY DEF IInv
<1> QED  BY <1>1, Invariant, PTL

\* No contact is a target twice, wherever contacts enter and leave the list that
\* is paged through (hubspot.py:234-269).
THEOREM NoTargetTwice == Spec => []TargetsAreDistinct
<1>1. IInv => TargetsAreDistinct
  BY DEF IInv
<1> QED  BY <1>1, Invariant, PTL

\* A search of a list that stays as it is finds the first contacts that have an
\* address, as many as the limit allows, whatever the page size
\* (hubspot.py:237-274).
THEOREM SearchIsComplete == Spec => []StableSearchIsComplete
<1>1. IInv => StableSearchIsComplete
  BY DEF IInv
<1> QED  BY <1>1, Invariant, PTL

-----------------------------------------------------------------------------
(* The promise of the port. *)

\* What the port sees of a state.
called == IF step = "search" \/ contacts = <<>> THEN {} ELSE ToSet(contacts)
said == IF contacts = <<>> THEN "none" ELSE answer

LEMMA InitMaps == ASSUME Init PROVE Port!Init
BY DEF Init, Port!Init

\* Before the update nothing is written: the port sees nothing of the search,
\* and then the call.
LEMMA SearchMaps ==
  ASSUME IInv, step = "search", updated' = updated,
         contacts' \in Seq(Contacts),
         \/ step' = "search" /\ answer' = answer
         \/ step' = "write" /\ answer' = answer /\ contacts' # <<>>
         \/ step' = "done" /\ contacts' = <<>>
  PROVE  Port!Call \/ UNCHANGED Port!vars
<1>1. called = {} /\ said = "none"
  BY DEF IInv, TypeOK, called, said
<1>2. CASE step' = "search" /\ answer' = answer
  <2>1. called' = {} /\ said' = "none"
    BY <1>2 DEF IInv, TypeOK, called, said
  <2> QED  BY <1>1, <2>1 DEF Port!vars, called, said
<1>3. CASE step' = "write" /\ answer' = answer /\ contacts' # <<>>
  <2>1. ToSet(contacts') \subseteq Contacts /\ ToSet(contacts') # {}
    <3>1. ToSet(contacts') = {contacts'[j] : j \in 1..Len(contacts')}
      BY ToSetOf
    <3>2. 1 \in 1..Len(contacts')
      BY <1>3
    <3> QED  BY <3>1, <3>2
  <2>2. called' = ToSet(contacts') /\ said' = "none"
    BY <1>3 DEF IInv, TypeOK, called, said
  <2>3. called' \in (SUBSET Contacts) \ {{}}
    BY <2>1, <2>2
  <2> QED  BY <1>1, <2>2, <2>3 DEF Port!Call, called, said
<1>4. CASE step' = "done" /\ contacts' = <<>>
  <2>1. called' = {} /\ said' = "none"
    BY <1>4 DEF called, said
  <2> QED  BY <1>1, <2>1 DEF Port!vars, called, said
<1> QED  BY <1>2, <1>3, <1>4

LEMMA NoTargets ==
  ASSUME NEW X, NEW s \in Seq(X)
  PROVE  ToSet(s) = {} <=> s = <<>>
<1>1. ToSet(s) = {s[j] : j \in 1..Len(s)}
  BY ToSetOf
<1>2. s # <<>> => 1 \in 1..Len(s)
  OBVIOUS
<1>3. s = <<>> => Len(s) = 0
  OBVIOUS
<1> QED  BY <1>1, <1>2, <1>3

\* While something is written the port sees the targets.
LEMMA WriteSeen ==
  ASSUME IInv, step = "write"
  PROVE  contacts # <<>> /\ called = ToSet(contacts) /\ called # {} /\ said = "none"
<1>1. contacts \in Seq(Contacts) /\ contacts # <<>> /\ answer = "none"
  BY DEF IInv, TypeOK
<1>2. ToSet(contacts) # {}
  BY <1>1, NoTargets
<1> QED  BY <1>1, <1>2 DEF called, said

LEMMA WriteChunkMaps == ASSUME IInv, WriteChunk PROVE Port!Persist \/ Port!Return
<1>1. step = "write" /\ updated' = updated \cup Chunk /\ contacts' = contacts
  BY DEF WriteChunk
<1>2. /\ contacts # <<>> /\ called = ToSet(contacts) /\ called # {} /\ said = "none"
      /\ Chunk \subseteq ToSet(contacts)
  BY <1>1, WriteSeen, ChunkOK
<1>3. CASE index + ChunkSize <= Len(contacts)
  <2>1. step' = step /\ answer' = answer
    BY <1>3 DEF WriteChunk, NextChunk
  <2>2. called' = called /\ said' = said
    BY <1>1, <2>1 DEF called, said
  <2>3. Chunk \in SUBSET called
    BY <1>2
  <2> QED  BY <1>1, <1>2, <2>2, <2>3 DEF Port!Persist, called, said
<1>4. CASE ~(index + ChunkSize <= Len(contacts))
  <2>1. step' = "done" /\ answer' = "true"
    BY <1>4 DEF WriteChunk, NextChunk, Done
  <2>2. called' = called /\ said' = "true"
    BY <1>1, <1>2, <2>1 DEF called, said
  <2>3. updated' = ToSet(contacts)
    <3>1. index \in Nat \ {0} /\ contacts \in Seq(Contacts) /\ Len(contacts) \in Nat
      BY <1>1, ChunkOK DEF IInv, TypeOK
    <3>2. Smaller(index + ChunkSize - 1, Len(contacts)) = Len(contacts)
      BY <1>4, <3>1 DEF Smaller
    <3>3. \A k \in index..Len(contacts) : contacts[k] \in Chunk
      BY <1>1, <3>2, ChunkOK
    <3>4. \A k \in 1..(index - 1) : contacts[k] \in updated
      BY <1>1 DEF IInv, WriteOK
    <3>5. \A k \in 1..Len(contacts) : contacts[k] \in updated'
      BY <1>1, <3>1, <3>3, <3>4
    <3>6. ToSet(contacts) = {contacts[j] : j \in 1..Len(contacts)}
      BY <3>1, ToSetOf
    <3>7. updated \subseteq ToSet(contacts)
      BY DEF IInv, WriteOK
    <3> QED  BY <1>1, <1>2, <3>5, <3>6, <3>7
  <2> QED  BY <1>2, <2>2, <2>3 DEF Port!Return, called, said
<1> QED  BY <1>3, <1>4

\* An update that is not answered with success is tried again or raises.
LEMMA RaiseMaps ==
  ASSUME IInv, step = "write", Raise, updated' = updated
  PROVE  Port!Raise
<1>1. contacts # <<>> /\ called # {} /\ said = "none"
  BY WriteSeen
<1>2. step' = "done" /\ answer' = "raised" /\ contacts' = contacts
  BY DEF Raise, Done
<1>3. called' = called /\ said' = "raised"
  BY <1>1, <1>2 DEF called, said
<1> QED  BY <1>1, <1>3 DEF Port!Raise, called, said

LEMMA RetryMaps ==
  ASSUME IInv, step = "write", Retry, updated' = updated
  PROVE  Port!Raise \/ UNCHANGED Port!vars
<1>1. CASE attempt + 1 < MaxRetries
  BY <1>1 DEF Retry, Port!vars
<1>2. CASE ~(attempt + 1 < MaxRetries)
  BY <1>2, RaiseMaps DEF Retry
<1> QED  BY <1>1, <1>2

LEMMA TakeEffectMaps == ASSUME IInv, TakeEffect PROVE Port!Persist
<1>1. PICK c \in late \ updated : updated' = updated \cup {c}
  BY DEF TakeEffect
<1>2. UNCHANGED <<step, contacts, answer>>
  BY DEF TakeEffect
<1>3. c \in ToSet(contacts) /\ step # "search" /\ contacts \in Seq(Contacts)
  BY <1>1 DEF IInv, TypeOK, SearchOK, WriteOK
<1>4. contacts # <<>>
  BY <1>3, NoTargets
<1>5. called = ToSet(contacts)
  BY <1>3, <1>4 DEF called
<1>6. called # {} /\ {c} \in SUBSET called
  BY <1>3, <1>5
<1>7. called' = called /\ said' = said
  BY <1>2 DEF called, said
<1> QED  BY <1>1, <1>6, <1>7 DEF Port!Persist, called, said

\* Every step is one of the port's, or one it does not see.
LEMMA NextMaps == ASSUME IInv, [Next]_vars PROVE [Port!Next]_(Port!vars)
<1>1. CASE SearchPage \/ SearchPageStuck
  <2>1. PICK next \in {NextAfter, after} : TakePage(next)
    BY <1>1 DEF SearchPage, SearchPageStuck
  <2>2. step = "search" /\ updated' = updated /\ answer = "none"
    BY <1>1 DEF SearchPage, SearchPageStuck, hubspot, IInv, TypeOK
  <2>3. \/ step' = "search" /\ answer' = answer
        \/ step' = "write" /\ answer' = answer /\ contacts' # <<>>
        \/ step' = "done" /\ contacts' = <<>>
    BY <2>1, <2>2 DEF TakePage, Found, Done
  <2>4. contacts' \in Seq(Contacts)
    <3>1. IInv'
      BY NextOK
    <3> QED  BY <3>1 DEF IInv, TypeOK
  <2> QED  BY <2>2, <2>3, <2>4, SearchMaps DEF Port!Next
<1>2. CASE SearchRetry \/ SearchRejected \/ Change
  <2>1. step = "search" /\ updated' = updated
    BY <1>2 DEF SearchRetry, SearchRejected, Change, hubspot
  <2>2. \/ step' = "search" /\ answer' = answer /\ contacts' = contacts
        \/ step' = "done" /\ contacts' = <<>>
    BY <1>2, <2>1 DEF SearchRetry, SearchRejected, Change, Retry, Raise, Done
  <2>3. contacts' \in Seq(Contacts)
    <3>1. IInv'
      BY NextOK
    <3> QED  BY <3>1 DEF IInv, TypeOK
  <2> QED  BY <2>1, <2>2, <2>3, SearchMaps DEF Port!Next
<1>3. CASE WriteChunk
  BY <1>3, WriteChunkMaps DEF Port!Next
<1>4. CASE WriteRetry
  BY <1>4, RetryMaps DEF WriteRetry, Port!Next
<1>5. CASE WriteRejected
  BY <1>5, RaiseMaps DEF WriteRejected, Port!Next
<1>6. CASE TakeEffect
  BY <1>6, TakeEffectMaps DEF Port!Next
<1>7. CASE UNCHANGED vars
  BY <1>7 DEF vars, Port!vars
<1> QED  BY <1>1, <1>2, <1>3, <1>4, <1>5, <1>6, <1>7 DEF Next, Client

\* The client implements the adapter port: it returns True only when every
\* outcome is persisted and persists no other, whatever chunks HubSpot refuses,
\* applies in part or applies late (hubspot.py:289-335).
THEOREM Refines == Spec => ImplementsPort
<1>1. Init => Port!Init
  BY InitMaps
<1>2. IInv /\ [Next]_vars => [Port!Next]_(Port!vars)
  BY NextMaps
<1> QED  BY <1>1, <1>2, Invariant, PTL DEF Spec, ImplementsPort, Port!Spec
=============================================================================
