---------------------------- MODULE MailPath_proofs ----------------------------
(***************************************************************************)
(* Proofs about the two ways to mail advice, for calls of any length, any  *)
(* lines that a Postfix client writes and any changes of the evidence.     *)
(*                                                                         *)
(* The properties count the requests that the client has framed so far,    *)
(* with lines that it has not been answered for or that are not read yet.  *)
(* The handler knows neither: it has the lines since the last empty one.   *)
(* So the invariant says of these where they stand in what was sent        *)
(* (Framed), and of each rejection where its request begins and ends       *)
(* (Delimits); both stay when more is written (EarlierLinesStay), and the  *)
(* k-th end being unique (EndIs), the request found there is the k-th.     *)
(*                                                                         *)
(* Of a call it says what its answer is so far (EntriesOK), and that every *)
(* warning in it has a reason (ReasonsOK); both hold between any two       *)
(* lookups, whatever the cache has become meanwhile.                       *)
(***************************************************************************)
EXTENDS MailPath, FiniteSetTheorems, SequenceTheorems, TLAPS

\* How many inputs the call has come to.
Taken == Len(asked) - Len(todo)

\* The entries of the advice stand for the inputs of the call that it has come
\* to, one for each, in the order in which they were given first.
EntriesOK ==
    /\ \A n \in DOMAIN advice :
          /\ FirstAsked(advice[n].to) \in 1..Taken
          /\ asked[FirstAsked(advice[n].to)] = advice[n].to
    /\ \A i \in 1..Taken : \E n \in DOMAIN advice : advice[n].to = asked[i]
    /\ \A m, n \in DOMAIN advice :
          m < n => FirstAsked(advice[m].to) < FirstAsked(advice[n].to)

CallOK ==
    /\ asked \in Seq(Inputs) /\ todo \in Seq(Inputs) /\ Len(todo) <= Len(asked)
    /\ \A i \in 1..Len(todo) : todo[i] = asked[Taken + i]
    /\ advice \in Seq(Advice)

\* Every warning has its reason.
Backed(entry) ==
    Warns(entry) => IF entry.source = "local" THEN entry.to \in Malformed
                                              ELSE entry.to \in refuted
ReasonsOK ==
    /\ refuted \subseteq Addresses
    /\ evidence \in [Addresses -> Statuses \cup {"none"}]
    /\ \A a \in Addresses : evidence[a] = "Invalid" => a \in refuted
    /\ \A n \in DOMAIN advice : Backed(advice[n])

\* The empty lines among the first n of s.
Empties(s, n) == {m \in DOMAIN s : s[m] = "empty" /\ m <= n}

\* What is read of a request are the lines of s from b + 1 to e.
Framed(s, partial, b, e) ==
    /\ b \in 0..e
    /\ partial = SubSeq(s, b + 1, e)
    /\ b # 0 => s[b] = "empty"
    /\ \A i \in (b + 1)..e : s[i] # "empty"

ConnectionOK ==
    /\ sent \in Seq(Lines) /\ read \in 0..Len(sent)
    /\ conn \in {"reading", "deciding", "closed", "lost"}
    /\ lines \in Seq(Lines)
    /\ answers \in Seq({"DUNNO", "REJECT"})
    /\ conn = "reading" => \E b \in 0..read : Framed(sent, lines, b, read)
    /\ conn = "deciding" =>
          /\ read # 0 /\ sent[read] = "empty"
          /\ \E b \in 0..(read - 1) : Framed(sent, lines, b, read - 1)
          /\ asked = <<Recipient(lines)>>

\* The k-th request of s begins after b and ends at n.
Delimits(s, k, b, n) ==
    /\ n \in DOMAIN s /\ s[n] = "empty" /\ Cardinality(Empties(s, n)) = k
    /\ b \in 0..(n - 1)
    /\ b = 0 => k = 1
    /\ b # 0 => s[b] = "empty" /\ Cardinality(Empties(s, b)) = k - 1

\* The recipient of the k-th request is one of those addresses.
Concerns(s, k, addresses) ==
    \E n \in DOMAIN s : \E b \in 0..(n - 1) :
        Delimits(s, k, b, n) /\ Recipient(SubSeq(s, b + 1, n - 1)) \in addresses

RejectionsOK ==
    \A k \in DOMAIN answers : answers[k] = "REJECT" =>
        Mode = "enforce-cached-invalid" /\ Concerns(sent, k, refuted)

ReplyOK ==
    /\ reply \in Seq(Advice)
    /\ conn # "lost" => reply = <<>>
    /\ ReplyCoversEveryRecipient

IInv ==
    /\ CallOK /\ EntriesOK /\ ReasonsOK /\ ConnectionOK
    /\ AnswersFollowRequests /\ RejectionsOK /\ ReplyOK
USE InputsAssumption, MaxRecipientsAssumption, NoRecipientAssumption, ModeAssumption,
    MaxLinesAssumption, MaxSentAssumption

-----------------------------------------------------------------------------
(* The call. *)

\* The first position of an input is the one with no such input before it.
LEMMA FirstAskedIs ==
  ASSUME NEW n \in DOMAIN asked, asked \in Seq(Inputs),
         \A m \in 1..(n - 1) : asked[m] # asked[n]
  PROVE  FirstAsked(asked[n]) = n
<1> DEFINE P(k) == asked[k] = asked[n] /\ \A m \in 1..(k - 1) : asked[m] # asked[n]
<1>1. \A k \in DOMAIN asked : P(k) => k = n
  <2> SUFFICES ASSUME NEW k \in DOMAIN asked, P(k) PROVE k = n
    OBVIOUS
  <2>1. k \in Nat \ {0} /\ n \in Nat \ {0}
    OBVIOUS
  <2>2. ~(k < n) /\ ~(n < k)
    BY <2>1
  <2> QED  BY <2>1, <2>2
<1>2. P(n)
  OBVIOUS
<1> QED  BY <1>1, <1>2 DEF FirstAsked

\* A call begins and ends with no entries, and has come to no input.
LEMMA CallStarts ==
  ASSUME NEW inputs \in Seq(Inputs), Call(inputs)
  PROVE  (CallOK /\ EntriesOK)'
<1>1. asked' = inputs /\ todo' = inputs /\ advice' = <<>>
  BY DEF Call
<1>2. Taken' = 0
  BY <1>1 DEF Taken
<1>3. CallOK'
  BY <1>1, <1>2 DEF CallOK
<1>4. EntriesOK'
  BY <1>1, <1>2 DEF EntriesOK
<1> QED  BY <1>3, <1>4

LEMMA CallEnds ==
  ASSUME Return
  PROVE  (CallOK /\ EntriesOK)'
<1>1. asked' = <<>> /\ todo' = <<>> /\ advice' = <<>>
  BY DEF Return
<1>2. Taken' = 0
  BY <1>1 DEF Taken
<1>3. CallOK'
  BY <1>1, <1>2 DEF CallOK
<1>4. EntriesOK'
  BY <1>1, <1>2 DEF EntriesOK
<1> QED  BY <1>3, <1>4

\* What an entry may be that advise() adds.
AdvisedAs(input, entry) ==
    \/ /\ input \in Malformed
       /\ entry = [to |-> input, source |-> "local", status |-> "none"]
    \/ input \in Addresses /\ entry \in Lookup(input)

LEMMA EntryIsAdvice ==
  ASSUME ReasonsOK, NEW input \in Inputs, NEW entry, AdvisedAs(input, entry)
  PROVE  entry \in Advice /\ entry.to = input /\ Backed(entry)
<1>1. CASE input \in Malformed /\ entry = [to |-> input, source |-> "local", status |-> "none"]
  BY <1>1 DEF Advice, Sources, Backed, Warns
<1>2. CASE input \in Addresses /\ entry \in Lookup(input)
  <2>1. evidence[input] \in Statuses \cup {"none"}
    BY <1>2 DEF ReasonsOK
  <2>2. evidence[input] = "Invalid" => input \in refuted
    BY <1>2 DEF ReasonsOK
  <2>3. CASE entry = [to |-> input, source |-> "unavailable", status |-> "none"]
    BY <2>3 DEF Advice, Sources, Backed, Warns
  <2>4. CASE entry = [to |-> input,
                      source |-> IF evidence[input] = "none" THEN "miss" ELSE "cache",
                      status |-> evidence[input]]
    BY <2>1, <2>2, <2>4 DEF Advice, Sources, Backed, Warns
  <2> QED  BY <1>2, <2>3, <2>4 DEF Lookup
<1> QED  BY <1>1, <1>2 DEF AdvisedAs

\* The next input is passed over if there is an entry for it, and else is given
\* one: its position is the first at which it was given.
LEMMA CallGoesOn ==
  ASSUME CallOK, EntriesOK, ReasonsOK, AdviseNext
  PROVE  /\ CallOK' /\ EntriesOK'
         /\ \A n \in DOMAIN advice' : Backed(advice'[n])
<1> DEFINE input == Head(todo)
<1>0. asked \in Seq(Inputs) /\ todo \in Seq(Inputs) /\ todo # <<>> /\ advice \in Seq(Advice)
  BY DEF CallOK, AdviseNext
<1>1. /\ todo' = Tail(todo) /\ asked' = asked /\ evidence' = evidence
      /\ Len(todo) \in Nat \ {0} /\ Len(asked) \in Nat /\ Len(todo) <= Len(asked)
      /\ Len(todo') = Len(todo) - 1 /\ todo' \in Seq(Inputs)
      /\ \A i \in 1..Len(todo') : todo'[i] = todo[i + 1]
      /\ input \in Inputs /\ input = todo[1]
  BY <1>0, HeadTailProperties DEF AdviseNext, CallOK
<1>2. /\ Taken' = Taken + 1 /\ Taken \in Nat /\ Taken + 1 \in DOMAIN asked
      /\ Taken + Len(todo) = Len(asked) /\ asked[Taken + 1] = input
  <2>1. Taken = Len(asked) - Len(todo) /\ Taken' = Len(asked) - Len(todo')
    BY <1>1 DEF Taken
  <2>2. todo[1] = asked[Taken + 1]
    BY <1>1 DEF CallOK
  <2> QED  BY <1>0, <1>1, <2>1, <2>2
<1>3. \A i \in 1..Len(todo') : todo'[i] = asked'[Taken' + i]
  <2> SUFFICES ASSUME NEW i \in 1..Len(todo') PROVE todo'[i] = asked'[Taken' + i]
    OBVIOUS
  <2>1. i + 1 \in 1..Len(todo) /\ todo'[i] = todo[i + 1]
    BY <1>1
  <2>2. todo[i + 1] = asked[Taken + (i + 1)]
    BY <2>1 DEF CallOK
  <2>3. Taken + (i + 1) = Taken' + i
    BY <1>2, <2>1
  <2> QED  BY <1>1, <2>1, <2>2, <2>3
<1>4. \A x : FirstAsked(x)' = FirstAsked(x)
  BY <1>1 DEF FirstAsked
<1> HIDE DEF input
<1>5. CASE Seen(input) /\ UNCHANGED advice
  <2>1. CallOK'
    BY <1>0, <1>1, <1>3, <1>5 DEF CallOK
  <2>2. \A i \in 1..Taken' : \E n \in DOMAIN advice' : advice'[n].to = asked'[i]
    BY <1>1, <1>2, <1>5 DEF EntriesOK, Seen
  <2>3. EntriesOK'
    <3>1. ASSUME NEW n \in DOMAIN advice'
          PROVE  /\ FirstAsked(advice[n].to) \in 1..Taken'
                 /\ asked'[FirstAsked(advice[n].to)] = advice'[n].to
      BY <1>1, <1>2, <1>5, <3>1 DEF EntriesOK
    <3> QED  BY <1>4, <1>5, <2>2, <3>1 DEF EntriesOK
  <2>4. \A n \in DOMAIN advice' : Backed(advice'[n])
    BY <1>5 DEF ReasonsOK
  <2> QED  BY <2>1, <2>3, <2>4
<1>6. CASE ~Seen(input) /\ \E entry : AdvisedAs(input, entry) /\ advice' = Append(advice, entry)
  <2>1. PICK entry : AdvisedAs(input, entry) /\ advice' = Append(advice, entry)
    BY <1>6
  <2>2. entry \in Advice /\ entry.to = input /\ Backed(entry)
    BY <1>1, <2>1, EntryIsAdvice
  <2> DEFINE last == Len(advice) + 1
  <2>3. /\ advice' \in Seq(Advice) /\ Len(advice) \in Nat
        /\ DOMAIN advice = 1..Len(advice) /\ DOMAIN advice' = 1..last
        /\ \A n \in DOMAIN advice : advice'[n] = advice[n]
        /\ advice'[last] = entry
    BY <1>0, <2>1, <2>2
  <2>4. CallOK'
    BY <1>0, <1>1, <1>3, <2>3 DEF CallOK
  <2>5. \A i \in 1..Taken : asked[i] # input
    BY <1>2, <1>6 DEF EntriesOK, Seen
  <2>6. FirstAsked(input) = Taken + 1
    <3>1. \A m \in 1..(Taken + 1 - 1) : asked[m] # asked[Taken + 1]
      BY <1>2, <2>5
    <3> QED  BY <1>0, <1>2, <3>1, FirstAskedIs
  <2>7. ASSUME NEW n \in DOMAIN advice'
        PROVE  /\ FirstAsked(advice'[n].to) \in 1..Taken'
               /\ asked[FirstAsked(advice'[n].to)] = advice'[n].to
    <3>1. CASE n \in DOMAIN advice
      BY <1>2, <2>3, <3>1 DEF EntriesOK
    <3>2. CASE n = last
      BY <1>2, <2>2, <2>3, <2>6, <3>2
    <3> QED  BY <2>3, <3>1, <3>2
  <2>8. ASSUME NEW i \in 1..Taken' PROVE \E n \in DOMAIN advice' : advice'[n].to = asked[i]
    <3>1. CASE i \in 1..Taken
      <4>1. PICK n \in DOMAIN advice : advice[n].to = asked[i]
        BY <3>1 DEF EntriesOK
      <4> QED  BY <2>3, <4>1
    <3>2. CASE i = Taken + 1
      BY <1>2, <2>2, <2>3, <3>2
    <3> QED  BY <1>2, <3>1, <3>2
  <2>9. ASSUME NEW m \in DOMAIN advice', NEW n \in DOMAIN advice', m < n
        PROVE  FirstAsked(advice'[m].to) < FirstAsked(advice'[n].to)
    <3>1. m \in DOMAIN advice
      BY <2>3, <2>9
    <3>2. CASE n \in DOMAIN advice
      BY <2>3, <2>9, <3>1, <3>2 DEF EntriesOK
    <3>3. CASE n = last
      <4>1. FirstAsked(advice'[m].to) \in 1..Taken
        BY <2>3, <3>1 DEF EntriesOK
      <4>2. FirstAsked(advice'[n].to) = Taken + 1
        BY <2>2, <2>3, <2>6, <3>3
      <4> QED  BY <1>2, <4>1, <4>2
    <3> QED  BY <2>3, <3>2, <3>3
  <2>10. EntriesOK'
    BY <1>1, <1>4, <2>7, <2>8, <2>9 DEF EntriesOK
  <2>11. \A n \in DOMAIN advice' : Backed(advice'[n])
    BY <2>2, <2>3 DEF ReasonsOK
  <2> QED  BY <2>4, <2>10, <2>11
<1> QED
  <2>1. \/ Seen(input) /\ UNCHANGED advice
        \/ /\ ~Seen(input) /\ input \in Malformed
           /\ advice' = Append(advice, [to |-> input, source |-> "local", status |-> "none"])
        \/ /\ ~Seen(input) /\ input \in Addresses
           /\ \E found \in Lookup(input) : advice' = Append(advice, found)
    BY DEF AdviseNext, input
  <2> QED  BY <1>5, <1>6, <2>1 DEF AdvisedAs

\* What the advice comes to once the call has been through its inputs.
LEMMA CallIsComplete ==
  ASSUME CallOK, EntriesOK
  PROVE  /\ {advice[n].to : n \in DOMAIN advice} = ToSet(SubSeq(asked, 1, Taken))
         /\ todo = <<>> => SubSeq(asked, 1, Taken) = asked
<1>1. asked \in Seq(Inputs) /\ Len(asked) \in Nat /\ Taken \in 0..Len(asked)
  BY DEF CallOK, Taken
<1>2. /\ DOMAIN SubSeq(asked, 1, Taken) = 1..Taken
      /\ \A i \in 1..Taken : SubSeq(asked, 1, Taken)[i] = asked[i]
  BY <1>1
<1>3. ToSet(SubSeq(asked, 1, Taken)) = {asked[i] : i \in 1..Taken}
  BY <1>2 DEF ToSet
<1>4. {advice[n].to : n \in DOMAIN advice} = {asked[i] : i \in 1..Taken}
  <2>1. ASSUME NEW n \in DOMAIN advice PROVE advice[n].to \in {asked[i] : i \in 1..Taken}
    <3>1. FirstAsked(advice[n].to) \in 1..Taken /\ asked[FirstAsked(advice[n].to)] = advice[n].to
      BY DEF EntriesOK
    <3> QED  BY <3>1
  <2>2. ASSUME NEW i \in 1..Taken PROVE asked[i] \in {advice[n].to : n \in DOMAIN advice}
    <3>1. PICK n \in DOMAIN advice : advice[n].to = asked[i]
      BY DEF EntriesOK
    <3> QED  BY <3>1
  <2> QED  BY <2>1, <2>2
<1>5. todo = <<>> => SubSeq(asked, 1, Taken) = asked
  BY <1>1, SubSeqFull DEF Taken
<1> QED  BY <1>3, <1>4, <1>5

-----------------------------------------------------------------------------
(* The requests as the client frames them. *)

\* Of several recipients the last counts, and there is one if any is given.
LEMMA RecipientIsInput ==
  ASSUME NEW request \in Seq(Lines)
  PROVE  Recipient(request) \in Inputs
<1> DEFINE given == {n \in DOMAIN request : request[n] \in Inputs}
           last == {n \in given : \A m \in given : m <= n}
<1>1. CASE last = {}
  BY <1>1 DEF Recipient, Inputs
<1>2. CASE last # {}
  <2>1. (CHOOSE n \in last : TRUE) \in given
    BY <1>2
  <2>2. Recipient(request) = request[CHOOSE n \in last : TRUE]
    BY <1>2 DEF Recipient
  <2> QED  BY <2>1, <2>2
<1> QED  BY <1>1, <1>2

LEMMA EndsAreEmpties ==
  /\ \A n : EndsUpTo(n) = Empties(sent, n)
  /\ \A n : EndsUpTo(n)' = Empties(sent', n)
BY DEF EndsUpTo, Ends, Empties

LEMMA EmptiesAreFinite ==
  ASSUME NEW s \in Seq(Lines), NEW n
  PROVE  IsFiniteSet(Empties(s, n)) /\ Cardinality(Empties(s, n)) \in Nat
<1>1. IsFiniteSet(1..Len(s))
  BY FS_Interval
<1>2. Empties(s, n) \subseteq 1..Len(s)
  BY DEF Empties
<1>3. IsFiniteSet(Empties(s, n))
  BY <1>1, <1>2, FS_Subset
<1> QED  BY <1>3, FS_CardinalityType

\* One more line is one more end, or none.
LEMMA OneMoreLine ==
  ASSUME NEW s \in Seq(Lines), NEW n \in Nat, n < Len(s)
  PROVE  /\ s[n + 1] # "empty" => Empties(s, n + 1) = Empties(s, n)
         /\ s[n + 1] = "empty" =>
              Cardinality(Empties(s, n + 1)) = Cardinality(Empties(s, n)) + 1
<1>1. Len(s) \in Nat /\ DOMAIN s = 1..Len(s) /\ n + 1 \in DOMAIN s
  OBVIOUS
<1>2. \A m \in DOMAIN s : m <= n + 1 <=> m <= n \/ m = n + 1
  BY <1>1
<1>3. CASE s[n + 1] # "empty"
  BY <1>2, <1>3 DEF Empties
<1>4. CASE s[n + 1] = "empty"
  <2>1. Empties(s, n + 1) = Empties(s, n) \cup {n + 1}
    BY <1>1, <1>2, <1>4 DEF Empties
  <2>2. n + 1 \notin Empties(s, n)
    BY DEF Empties
  <2> QED  BY <1>4, <2>1, <2>2, EmptiesAreFinite, FS_AddElement
<1> QED  BY <1>3, <1>4

\* Lines that end nothing change nothing.
LEMMA NoEndBetween ==
  ASSUME NEW s \in Seq(Lines), NEW b \in Nat, NEW e \in Nat, b <= e,
         \A i \in (b + 1)..e : s[i] # "empty"
  PROVE  Empties(s, e) = Empties(s, b)
<1>1. \A m \in DOMAIN s : m <= e /\ s[m] = "empty" => m <= b
  OBVIOUS
<1>2. \A m \in DOMAIN s : m <= b => m <= e
  OBVIOUS
<1> QED  BY <1>1, <1>2 DEF Empties

\* No two lines end the same request.
LEMMA EndIs ==
  ASSUME sent \in Seq(Lines), NEW n \in Ends, NEW k, k # 0,
         Cardinality(EndsUpTo(n)) = k
  PROVE  End(k) = n
<1>1. ASSUME NEW m \in Ends, NEW l \in Ends, m < l
      PROVE  Cardinality(EndsUpTo(m)) # Cardinality(EndsUpTo(l))
  <2>1. m \in Nat /\ l \in Nat
    BY DEF Ends
  <2>2. EndsUpTo(m) \subseteq EndsUpTo(l) /\ l \in EndsUpTo(l) /\ l \notin EndsUpTo(m)
    BY <1>1, <2>1 DEF EndsUpTo, Ends
  <2>3. IsFiniteSet(EndsUpTo(l))
    BY EndsAreEmpties, EmptiesAreFinite
  <2> QED  BY <2>2, <2>3, FS_Subset
<1>2. \A m \in Ends : Cardinality(EndsUpTo(m)) = k => m = n
  <2> SUFFICES ASSUME NEW m \in Ends, Cardinality(EndsUpTo(m)) = k PROVE m = n
    OBVIOUS
  <2>1. m \in Nat /\ n \in Nat
    BY DEF Ends
  <2>2. ~(m < n) /\ ~(n < m)
    BY <1>1
  <2> QED  BY <2>1, <2>2
<1> QED  BY <1>2 DEF End

\* So the k-th request is what it is delimited by.
LEMMA RequestIs ==
  ASSUME sent \in Seq(Lines), NEW k, NEW b, NEW n, Delimits(sent, k, b, n)
  PROVE  /\ Request(k) = SubSeq(sent, b + 1, n - 1)
         /\ k \in Nat /\ k <= Cardinality(Ends)
<1>1. n \in Ends /\ n \in Nat /\ n \in EndsUpTo(n) /\ Cardinality(EndsUpTo(n)) = k
  <2>1. n \in DOMAIN sent /\ sent[n] = "empty" /\ Cardinality(Empties(sent, n)) = k
    BY DEF Delimits
  <2>2. n \in Nat
    BY <2>1
  <2>3. EndsUpTo(n) = Empties(sent, n)
    BY EndsAreEmpties
  <2>4. n \in Ends /\ n \in Empties(sent, n)
    BY <2>1, <2>2 DEF Ends, Empties
  <2> QED  BY <2>1, <2>2, <2>3, <2>4
<1>2. \A m : IsFiniteSet(EndsUpTo(m)) /\ Cardinality(EndsUpTo(m)) \in Nat
  BY EndsAreEmpties, EmptiesAreFinite
<1>3. \A m \in Ends : Cardinality(EndsUpTo(m)) # 0
  <2> SUFFICES ASSUME NEW m \in Ends PROVE Cardinality(EndsUpTo(m)) # 0
    OBVIOUS
  <2>1. m \in EndsUpTo(m)
    BY DEF Ends, EndsUpTo
  <2> QED  BY <1>2, <2>1, FS_EmptySet
<1>4. End(k) = n
  BY <1>1, <1>3, EndIs
<1>5. End(k - 1) = b
  <2>1. CASE b = 0
    BY <2>1 DEF Delimits, End
  <2>2. CASE b # 0
    <3>1. b \in Ends /\ Cardinality(EndsUpTo(b)) = k - 1
      BY <1>1, <2>2, EndsAreEmpties DEF Delimits, Ends
    <3> QED  BY <1>3, <3>1, EndIs
  <2> QED  BY <2>1, <2>2
<1>6. k <= Cardinality(Ends)
  <2>1. IsFiniteSet(Ends)
    <3>1. Ends \subseteq 1..Len(sent) /\ IsFiniteSet(1..Len(sent))
      BY FS_Interval DEF Ends
    <3> QED  BY <3>1, FS_Subset
  <2>2. EndsUpTo(n) \subseteq Ends
    BY DEF EndsUpTo
  <2> QED  BY <1>1, <2>1, <2>2, FS_Subset
<1> QED  BY <1>1, <1>2, <1>4, <1>5, <1>6 DEF Request

\* What is written later changes neither the requests nor what was read.
LEMMA EarlierLinesStay ==
  ASSUME NEW s \in Seq(Lines), NEW line \in Lines, NEW n \in 0..Len(s)
  PROVE  /\ Append(s, line) \in Seq(Lines) /\ Len(Append(s, line)) = Len(s) + 1
         /\ Empties(Append(s, line), n) = Empties(s, n)
         /\ \A i \in 1..n : Append(s, line)[i] = s[i]
         /\ \A b \in 0..n : SubSeq(Append(s, line), b + 1, n) = SubSeq(s, b + 1, n)
<1>1. /\ Append(s, line) \in Seq(Lines) /\ Len(Append(s, line)) = Len(s) + 1
      /\ \A i \in 1..Len(s) : Append(s, line)[i] = s[i]
      /\ Len(s) \in Nat
  OBVIOUS
<1> DEFINE t == Append(s, line)
<1> HIDE DEF t
<1>2. DOMAIN s = 1..Len(s) /\ DOMAIN t = 1..(Len(s) + 1)
  BY <1>1 DEF t
<1>3. \A m \in DOMAIN t : m <= n => m \in DOMAIN s /\ t[m] = s[m]
  BY <1>1, <1>2 DEF t
<1>4. \A m \in DOMAIN s : m \in DOMAIN t
  BY <1>1, <1>2
<1>5. Empties(t, n) = Empties(s, n)
  BY <1>3, <1>4 DEF Empties
<1>6. ASSUME NEW b \in 0..n PROVE SubSeq(t, b + 1, n) = SubSeq(s, b + 1, n)
  <2>1. \A i \in (b + 1)..n : t[i] = s[i] /\ s[i] \in Lines /\ t[i] \in Lines
    BY <1>1 DEF t
  <2> DEFINE u == SubSeq(t, b + 1, n)
             v == SubSeq(s, b + 1, n)
  <2>2. /\ u \in Seq(Lines) /\ Len(u) = IF b + 1 <= n THEN n - (b + 1) + 1 ELSE 0
        /\ \A i \in 1..(n - (b + 1) + 1) : u[i] = t[(b + 1) + i - 1]
    BY <2>1, SubSeqProperties
  <2>3. /\ v \in Seq(Lines) /\ Len(v) = IF b + 1 <= n THEN n - (b + 1) + 1 ELSE 0
        /\ \A i \in 1..(n - (b + 1) + 1) : v[i] = s[(b + 1) + i - 1]
    BY <2>1, SubSeqProperties
  <2> HIDE DEF u, v
  <2>4. Len(u) = Len(v) /\ \A i \in 1..Len(u) : u[i] = v[i]
    BY <2>1, <2>2, <2>3
  <2>5. u = v
    BY <2>2, <2>3, <2>4, SeqEqual
  <2> QED  BY <2>5 DEF u, v
<1> QED  BY <1>1, <1>5, <1>6 DEF t

-----------------------------------------------------------------------------
(* The connection. *)

\* The answers given are in step with the complete requests that were read.
InStep(c, given, complete) ==
    /\ c = "reading" => Len(given) = complete
    /\ c = "deciding" => Len(given) = complete - 1
    /\ Len(given) > complete =>
          c = "closed" /\ Len(given) = complete + 1 /\ Last(given) = "DUNNO"

LEMMA AnswersAreInStep ==
  /\ AnswersFollowRequests <=> InStep(conn, answers, Cardinality(Empties(sent, read)))
  /\ AnswersFollowRequests' <=> InStep(conn', answers', Cardinality(Empties(sent', read')))
<1>1. EndsUpTo(read) = Empties(sent, read) /\ EndsUpTo(read)' = Empties(sent', read')
  BY DEF EndsUpTo, Ends, Empties
<1> QED  BY <1>1 DEF AnswersFollowRequests, InStep

\* What is known of a request stays so, whatever the client writes after it.
LEMMA ConcernsStays ==
  ASSUME NEW s \in Seq(Lines), NEW t, NEW k, NEW A, NEW B, A \subseteq B,
         t = s \/ \E line \in Lines : t = Append(s, line),
         Concerns(s, k, A)
  PROVE  Concerns(t, k, B)
<1>1. PICK n \in DOMAIN s : \E b \in 0..(n - 1) :
          Delimits(s, k, b, n) /\ Recipient(SubSeq(s, b + 1, n - 1)) \in A
  BY DEF Concerns
<1>2. PICK b \in 0..(n - 1) :
          Delimits(s, k, b, n) /\ Recipient(SubSeq(s, b + 1, n - 1)) \in A
  BY <1>1
<1>3. CASE t = s
  BY <1>2, <1>3 DEF Concerns
<1>4. CASE \E line \in Lines : t = Append(s, line)
  <2>1. PICK line \in Lines : t = Append(s, line)
    BY <1>4
  <2>2. n \in 1..Len(s) /\ n \in 0..Len(s) /\ n - 1 \in 0..Len(s) /\ b \in 0..Len(s)
    OBVIOUS
  <2>3. /\ n \in DOMAIN t /\ t[n] = s[n] /\ Empties(t, n) = Empties(s, n)
        /\ b # 0 => t[b] = s[b] /\ Empties(t, b) = Empties(s, b)
    BY <2>1, <2>2, EarlierLinesStay
  <2>4. SubSeq(t, b + 1, n - 1) = SubSeq(s, b + 1, n - 1)
    BY <2>1, <2>2, EarlierLinesStay
  <2>5. Delimits(t, k, b, n)
    BY <1>2, <2>3 DEF Delimits
  <2> QED  BY <1>2, <2>3, <2>4, <2>5 DEF Concerns
<1> QED  BY <1>3, <1>4

LEMMA FramedStays ==
  ASSUME NEW s \in Seq(Lines), NEW line \in Lines, NEW partial,
         NEW e \in 0..Len(s), NEW b \in 0..e, Framed(s, partial, b, e)
  PROVE  Framed(Append(s, line), partial, b, e)
<1> DEFINE t == Append(s, line)
<1>1. SubSeq(t, b + 1, e) = SubSeq(s, b + 1, e) /\ \A i \in 1..e : t[i] = s[i]
  BY EarlierLinesStay
<1> HIDE DEF t
<1>2. b # 0 => b \in 1..e
  OBVIOUS
<1>3. \A i \in (b + 1)..e : i \in 1..e
  OBVIOUS
<1> QED  BY <1>1, <1>2, <1>3 DEF Framed, t

\* A new rejection needs a reason of its own, the earlier ones keep theirs.
LEMMA RejectionsStay ==
  ASSUME sent \in Seq(Lines), RejectionsOK, refuted \subseteq refuted',
         sent' = sent \/ \E line \in Lines : sent' = Append(sent, line),
         \A k \in DOMAIN answers' : answers'[k] = "REJECT" =>
             \/ k \in DOMAIN answers /\ answers[k] = "REJECT"
             \/ Mode = "enforce-cached-invalid" /\ Concerns(sent, k, refuted)
  PROVE  RejectionsOK'
<1> SUFFICES ASSUME NEW k \in DOMAIN answers', answers'[k] = "REJECT"
             PROVE  Mode = "enforce-cached-invalid" /\ Concerns(sent', k, refuted')
  BY DEF RejectionsOK
<1>1. Mode = "enforce-cached-invalid" /\ Concerns(sent, k, refuted)
  BY DEF RejectionsOK
<1> QED  BY <1>1, ConcernsStays

\* The parts of the invariant that a step leaves alone.
LEMMA CallStays ==
  ASSUME CallOK, EntriesOK, UNCHANGED adviceVars
  PROVE  (CallOK /\ EntriesOK)'
<1>1. asked' = asked /\ todo' = todo /\ advice' = advice
  BY DEF adviceVars
<1>2. Taken' = Taken /\ \A x : FirstAsked(x)' = FirstAsked(x)
  BY <1>1 DEF Taken, FirstAsked
<1>3. CallOK'
  BY <1>1, <1>2 DEF CallOK
<1>4. EntriesOK'
  BY <1>1, <1>2 DEF EntriesOK
<1> QED  BY <1>3, <1>4

LEMMA ReasonsStay ==
  ASSUME ReasonsOK, UNCHANGED <<evidence, refuted>>,
         \A n \in DOMAIN advice' : Backed(advice'[n])
  PROVE  ReasonsOK'
BY DEF ReasonsOK, Backed

LEMMA ConnectionStays ==
  ASSUME ConnectionOK, AnswersFollowRequests, RejectionsOK, UNCHANGED connVars,
         refuted \subseteq refuted', conn = "deciding" => asked' = asked
  PROVE  (ConnectionOK /\ AnswersFollowRequests /\ RejectionsOK)'
<1>1. /\ sent' = sent /\ read' = read /\ conn' = conn /\ lines' = lines /\ answers' = answers
  BY DEF connVars
<1>2. ConnectionOK'
  BY <1>1 DEF ConnectionOK
<1>3. AnswersFollowRequests'
  BY <1>1, AnswersAreInStep
<1>4. RejectionsOK'
  BY <1>1, RejectionsStay DEF ConnectionOK
<1> QED  BY <1>2, <1>3, <1>4

LEMMA NoReply ==
  ASSUME reply' = <<>>
  PROVE  ReplyOK'
BY DEF ReplyOK, ReplyCoversEveryRecipient

LEMMA ReplyStays ==
  ASSUME ReplyOK, UNCHANGED <<reply, asked, conn>>, refuted \subseteq refuted'
  PROVE  ReplyOK'
BY DEF ReplyOK, ReplyCoversEveryRecipient

-----------------------------------------------------------------------------
(* The handler's steps. *)

\* A request is given up: a last DUNNO, one more than complete requests.
LEMMA GiveUpKeeps ==
  ASSUME ConnectionOK, AnswersFollowRequests, RejectionsOK,
         conn = "reading", read < Len(sent), read' = read + 1, GiveUp,
         sent[read + 1] # "empty", UNCHANGED <<sent, refuted>>
  PROVE  (ConnectionOK /\ AnswersFollowRequests /\ RejectionsOK)'
<1>1. /\ sent \in Seq(Lines) /\ read \in Nat /\ answers \in Seq({"DUNNO", "REJECT"})
      /\ lines' = lines /\ conn' = "closed" /\ answers' = Append(answers, "DUNNO")
  BY DEF ConnectionOK, GiveUp
<1>2. /\ answers' \in Seq({"DUNNO", "REJECT"}) /\ Len(answers') = Len(answers) + 1
      /\ Last(answers') = "DUNNO" /\ Len(answers) \in Nat
      /\ DOMAIN answers' = 1..(Len(answers) + 1) /\ DOMAIN answers = 1..Len(answers)
      /\ \A k \in DOMAIN answers : answers'[k] = answers[k]
      /\ answers'[Len(answers) + 1] = "DUNNO"
  BY <1>1 DEF Last
<1>3. ConnectionOK'
  BY <1>1, <1>2 DEF ConnectionOK
<1>4. AnswersFollowRequests'
  <2>1. Empties(sent', read') = Empties(sent, read)
    BY <1>1, OneMoreLine
  <2>2. Len(answers) = Cardinality(Empties(sent, read))
    BY AnswersAreInStep DEF InStep
  <2> QED  BY <1>1, <1>2, <2>1, <2>2, AnswersAreInStep DEF InStep
<1>5. RejectionsOK'
  <2>1. \A k \in DOMAIN answers' : answers'[k] = "REJECT" => k \in DOMAIN answers /\ answers[k] = "REJECT"
    BY <1>2
  <2> QED  BY <1>1, <2>1, RejectionsStay
<1> QED  BY <1>3, <1>4, <1>5

LEMMA ReadLineKeeps ==
  ASSUME IInv, ReadLine, UNCHANGED reply
  PROVE  IInv'
<1> DEFINE line == sent[read + 1]
<1>0. /\ CallOK /\ EntriesOK /\ ReasonsOK /\ ConnectionOK /\ AnswersFollowRequests
      /\ RejectionsOK /\ ReplyOK
  BY DEF IInv
<1>1. /\ conn = "reading" /\ read < Len(sent) /\ read' = read + 1
      /\ evidence' = evidence /\ sent' = sent /\ refuted' = refuted /\ reply' = <<>>
  BY <1>0 DEF ReadLine, ReplyOK
<1>2. /\ sent \in Seq(Lines) /\ read \in Nat /\ read + 1 \in 1..Len(sent)
      /\ lines \in Seq(Lines) /\ line \in Lines
  BY <1>0, <1>1 DEF ConnectionOK
<1>3. ReplyOK'
  BY <1>1, NoReply
<1>4. PICK b \in 0..read : Framed(sent, lines, b, read)
  BY <1>0, <1>1 DEF ConnectionOK
<1>5. CASE GiveUp /\ line # "empty"
  <2>1. adviceVars' = adviceVars
    BY <1>5 DEF GiveUp
  <2>2. (CallOK /\ EntriesOK)'
    BY <1>0, <2>1, CallStays
  <2>3. ReasonsOK'
    BY <1>0, <1>1, <2>1, ReasonsStay DEF ReasonsOK, adviceVars
  <2>4. (ConnectionOK /\ AnswersFollowRequests /\ RejectionsOK)'
    BY <1>0, <1>1, <1>5, GiveUpKeeps
  <2> QED  BY <1>3, <2>2, <2>3, <2>4 DEF IInv
<1>6. CASE /\ line = "empty" /\ conn' = "deciding" /\ Call(<<Recipient(lines)>>)
           /\ UNCHANGED <<lines, answers>>
  <2>1. <<Recipient(lines)>> \in Seq(Inputs)
    BY <1>2, RecipientIsInput
  <2>2. (CallOK /\ EntriesOK)' /\ asked' = <<Recipient(lines)>> /\ advice' = <<>>
    BY <1>6, <2>1, CallStarts DEF Call
  <2>3. ReasonsOK'
    BY <1>0, <1>1, <2>2, ReasonsStay
  <2>4. ConnectionOK'
    BY <1>0, <1>1, <1>2, <1>4, <1>6, <2>2 DEF ConnectionOK
  <2>5. AnswersFollowRequests'
    <3>1. Cardinality(Empties(sent', read')) = Cardinality(Empties(sent, read)) + 1
      BY <1>1, <1>2, <1>6, OneMoreLine
    <3>2. Cardinality(Empties(sent, read)) \in Nat
      BY <1>2, EmptiesAreFinite
    <3> QED  BY <1>0, <1>1, <1>6, <3>1, <3>2, AnswersAreInStep DEF InStep
  <2>6. RejectionsOK'
    BY <1>0, <1>1, <1>2, <1>6, RejectionsStay
  <2> QED  BY <1>3, <2>2, <2>3, <2>4, <2>5, <2>6 DEF IInv
<1>7. CASE /\ line # "empty" /\ lines' = Append(lines, line)
           /\ UNCHANGED <<conn, answers, adviceVars>>
  <2>1. adviceVars' = adviceVars /\ answers' = answers /\ conn' = "reading"
    BY <1>1, <1>7
  <2>2. (CallOK /\ EntriesOK)'
    BY <1>0, <2>1, CallStays
  <2>3. ReasonsOK'
    BY <1>0, <1>1, <2>1, ReasonsStay DEF ReasonsOK, adviceVars
  <2>4. Framed(sent', lines', b, read')
    <3>1. SubSeq(sent, b + 1, read + 1) = Append(SubSeq(sent, b + 1, read), line)
      BY <1>2
    <3>2. \A i \in (b + 1)..(read + 1) : i \in (b + 1)..read \/ i = read + 1
      BY <1>2
    <3>3. b \in 0..(read + 1)
      BY <1>2
    <3> QED  BY <1>1, <1>4, <1>7, <3>1, <3>2, <3>3 DEF Framed
  <2>5. lines' \in Seq(Lines) /\ read' \in 0..Len(sent') /\ b \in 0..read'
    BY <1>1, <1>2, <1>7
  <2>6. ConnectionOK'
    BY <1>0, <1>1, <2>1, <2>4, <2>5 DEF ConnectionOK
  <2>7. AnswersFollowRequests'
    <3>1. Empties(sent', read') = Empties(sent, read)
      BY <1>1, <1>2, <1>7, OneMoreLine
    <3> QED  BY <1>0, <1>1, <2>1, <3>1, AnswersAreInStep
  <2>8. RejectionsOK'
    BY <1>0, <1>1, <1>2, <2>1, RejectionsStay
  <2> QED  BY <1>3, <2>2, <2>3, <2>6, <2>7, <2>8 DEF IInv
<1> QED
  <2>1. \/ line = "long" /\ GiveUp
        \/ /\ line = "empty" /\ conn' = "deciding" /\ Call(<<Recipient(lines)>>)
           /\ UNCHANGED <<lines, answers>>
        \/ /\ line # "empty"
           /\ \/ lines' = Append(lines, line) /\ UNCHANGED <<conn, answers, adviceVars>>
              \/ GiveUp
    BY DEF ReadLine
  <2> QED  BY <1>5, <1>6, <1>7, <2>1

LEMMA ReadEndKeeps ==
  ASSUME IInv, ReadEnd, UNCHANGED reply
  PROVE  IInv'
<1>0. /\ CallOK /\ EntriesOK /\ ReasonsOK /\ ConnectionOK /\ AnswersFollowRequests
      /\ RejectionsOK /\ ReplyOK
  BY DEF IInv
<1>1. /\ conn = "reading" /\ conn' = "closed" /\ read' = read /\ adviceVars' = adviceVars
      /\ evidence' = evidence /\ sent' = sent /\ refuted' = refuted /\ reply' = <<>>
      /\ lines' = lines /\ answers' = answers
  BY <1>0 DEF ReadEnd, ReplyOK
<1>2. (CallOK /\ EntriesOK)'
  BY <1>0, <1>1, CallStays
<1>3. ReasonsOK'
  BY <1>0, <1>1, ReasonsStay DEF ReasonsOK, adviceVars
<1>4. ConnectionOK'
  BY <1>0, <1>1 DEF ConnectionOK
<1>5. AnswersFollowRequests'
  <2>1. Len(answers) = Cardinality(Empties(sent, read))
    BY <1>0, <1>1, AnswersAreInStep DEF InStep
  <2>2. Len(answers) \in Nat
    BY <1>0 DEF ConnectionOK
  <2> QED  BY <1>1, <2>1, <2>2, AnswersAreInStep DEF InStep
<1>6. RejectionsOK'
  BY <1>0, <1>1, RejectionsStay DEF ConnectionOK
<1>7. ReplyOK'
  BY <1>1, NoReply
<1> QED  BY <1>2, <1>3, <1>4, <1>5, <1>6, <1>7 DEF IInv

LEMMA AdviseKeeps ==
  ASSUME IInv, Advise, UNCHANGED reply
  PROVE  IInv'
<1>0. /\ CallOK /\ EntriesOK /\ ReasonsOK /\ ConnectionOK /\ AnswersFollowRequests
      /\ RejectionsOK /\ ReplyOK
  BY DEF IInv
<1>1. /\ conn = "deciding" /\ AdviseNext /\ connVars' = connVars /\ refuted' = refuted
      /\ asked' = asked /\ evidence' = evidence /\ reply' = <<>>
  BY <1>0 DEF Advise, AdviseNext, ReplyOK
<1>2. CallOK' /\ EntriesOK' /\ \A n \in DOMAIN advice' : Backed(advice'[n])
  BY <1>0, <1>1, CallGoesOn
<1>3. ReasonsOK'
  BY <1>0, <1>1, <1>2, ReasonsStay
<1>4. (ConnectionOK /\ AnswersFollowRequests /\ RejectionsOK)'
  BY <1>0, <1>1, ConnectionStays
<1>5. ReplyOK'
  BY <1>1, NoReply
<1> QED  BY <1>2, <1>3, <1>4, <1>5 DEF IInv

\* The one entry of a decided request is about its recipient.
LEMMA DecidedEntry ==
  ASSUME CallOK, EntriesOK, ReasonsOK, todo = <<>>, NEW r, asked = <<r>>,
         CachedInvalid(advice[1])
  PROVE  r \in refuted
<1>1. Taken = 1
  BY DEF Taken
<1>2. PICK n \in DOMAIN advice : advice[n].to = asked[1]
  BY <1>1 DEF EntriesOK
<1>3. 1 \in DOMAIN advice
  BY <1>2 DEF CallOK
<1>4. FirstAsked(advice[1].to) \in 1..1 /\ asked[FirstAsked(advice[1].to)] = advice[1].to
  BY <1>1, <1>3 DEF EntriesOK
<1>5. advice[1].to = r
  BY <1>4
<1>6. Backed(advice[1])
  BY <1>3 DEF ReasonsOK
<1> QED  BY <1>5, <1>6 DEF Backed, CachedInvalid

\* The answer is to the request that is complete with the line read last.
LEMMA RespondKeeps ==
  ASSUME IInv, Respond, UNCHANGED reply
  PROVE  IInv'
<1>0. /\ CallOK /\ EntriesOK /\ ReasonsOK /\ ConnectionOK /\ AnswersFollowRequests
      /\ RejectionsOK /\ ReplyOK
  BY DEF IInv
<1>1. /\ conn = "deciding" /\ todo = <<>> /\ conn' = "reading" /\ lines' = <<>> /\ Return
      /\ read' = read /\ evidence' = evidence /\ sent' = sent /\ refuted' = refuted
      /\ reply' = <<>>
  BY <1>0 DEF Respond, ReplyOK
<1>2. /\ sent \in Seq(Lines) /\ read \in 0..Len(sent) /\ read # 0 /\ sent[read] = "empty"
      /\ answers \in Seq({"DUNNO", "REJECT"}) /\ asked = <<Recipient(lines)>>
  BY <1>0, <1>1 DEF ConnectionOK
<1>3. PICK b \in 0..(read - 1) : Framed(sent, lines, b, read - 1)
  BY <1>0, <1>1 DEF ConnectionOK
<1> DEFINE k == Len(answers) + 1
<1>4. PICK verdict \in {"DUNNO", "REJECT"} :
          /\ answers' = Append(answers, verdict)
          /\ verdict = "REJECT" =>
                Mode = "enforce-cached-invalid" /\ CachedInvalid(advice[1])
  <2>1. CASE answers' = Append(answers, "DUNNO")
    BY <2>1
  <2>2. CASE /\ answers' = Append(answers, "REJECT")
             /\ Mode = "enforce-cached-invalid" /\ CachedInvalid(advice[1])
    BY <2>2
  <2> QED  BY <2>1, <2>2 DEF Respond
<1>5. /\ answers' \in Seq({"DUNNO", "REJECT"}) /\ Len(answers') = k /\ Len(answers) \in Nat
      /\ DOMAIN answers' = 1..k /\ DOMAIN answers = 1..Len(answers)
      /\ \A i \in DOMAIN answers : answers'[i] = answers[i]
      /\ answers'[k] = verdict
  BY <1>2, <1>4
<1>6. Cardinality(Empties(sent, read)) = k
  <2>1. Cardinality(Empties(sent, read)) \in Nat
    BY <1>2, EmptiesAreFinite
  <2> QED  BY <1>0, <1>1, <1>5, <2>1, AnswersAreInStep DEF InStep
<1>7. (CallOK /\ EntriesOK)' /\ advice' = <<>>
  BY <1>1, CallEnds DEF Return
<1>8. ReasonsOK'
  BY <1>0, <1>1, <1>7, ReasonsStay
<1>9. ConnectionOK'
  <2>1. Framed(sent, <<>>, read, read)
    <3>1. SubSeq(sent, read + 1, read) = <<>>
      BY <1>2, SubSeqEmpty
    <3> QED  BY <1>2, <3>1 DEF Framed
  <2>2. read \in 0..read
    BY <1>2
  <2> QED  BY <1>1, <1>2, <1>5, <2>1, <2>2 DEF ConnectionOK
<1>10. AnswersFollowRequests'
  BY <1>1, <1>5, <1>6, AnswersAreInStep DEF InStep
<1>11. verdict = "REJECT" => Mode = "enforce-cached-invalid" /\ Concerns(sent, k, refuted)
  <2> SUFFICES ASSUME verdict = "REJECT"
               PROVE  Mode = "enforce-cached-invalid" /\ Concerns(sent, k, refuted)
    OBVIOUS
  <2>1. Recipient(lines) \in refuted
    BY <1>0, <1>1, <1>2, <1>4, DecidedEntry
  <2>2. lines = SubSeq(sent, b + 1, read - 1)
    BY <1>3 DEF Framed
  <2>3. Cardinality(Empties(sent, b)) = k - 1
    <3>1. read - 1 \in Nat /\ b \in Nat /\ b <= read - 1 /\ read - 1 < Len(sent)
      BY <1>2
    <3>2. Empties(sent, read - 1) = Empties(sent, b)
      BY <1>2, <1>3, <3>1, NoEndBetween DEF Framed
    <3>3. sent[(read - 1) + 1] = "empty" /\ (read - 1) + 1 = read
      BY <1>2
    <3>4. Cardinality(Empties(sent, read)) = Cardinality(Empties(sent, read - 1)) + 1
      BY <1>2, <3>1, <3>3, OneMoreLine
    <3>5. Cardinality(Empties(sent, b)) \in Nat
      BY <1>2, EmptiesAreFinite
    <3> QED  BY <1>6, <3>2, <3>4, <3>5
  <2>4. b = 0 => k = 1
    <3>1. SUFFICES ASSUME b = 0 PROVE k = 1
      OBVIOUS
    <3>2. Empties(sent, b) = {}
      BY <1>2, <3>1 DEF Empties
    <3> QED  BY <1>5, <2>3, <3>2, FS_EmptySet
  <2>5. b # 0 => sent[b] = "empty"
    BY <1>3 DEF Framed
  <2>6. read \in DOMAIN sent
    BY <1>2
  <2>7. Delimits(sent, k, b, read)
    BY <1>2, <1>6, <2>3, <2>4, <2>5, <2>6 DEF Delimits
  <2> QED  BY <1>4, <2>1, <2>2, <2>6, <2>7 DEF Concerns
<1>12. RejectionsOK'
  <2>1. \A i \in DOMAIN answers' : answers'[i] = "REJECT" =>
            \/ i \in DOMAIN answers /\ answers[i] = "REJECT"
            \/ Mode = "enforce-cached-invalid" /\ Concerns(sent, i, refuted)
    <3> SUFFICES ASSUME NEW i \in DOMAIN answers', answers'[i] = "REJECT"
                 PROVE  \/ i \in DOMAIN answers /\ answers[i] = "REJECT"
                        \/ Mode = "enforce-cached-invalid" /\ Concerns(sent, i, refuted)
      OBVIOUS
    <3>1. CASE i \in DOMAIN answers
      BY <1>5, <3>1
    <3>2. CASE i = k
      BY <1>5, <1>11, <3>2
    <3> QED  BY <1>5, <3>1, <3>2
  <2> QED  BY <1>0, <1>1, <1>2, <2>1, RejectionsStay
<1>13. ReplyOK'
  BY <1>1, NoReply
<1> QED  BY <1>7, <1>8, <1>9, <1>10, <1>12, <1>13 DEF IInv

-----------------------------------------------------------------------------
(* The client, the network and the cache. *)

LEMMA WriteKeeps ==
  ASSUME IInv, NEW line \in Lines, Write(line), UNCHANGED reply
  PROVE  IInv'
<1>0. /\ CallOK /\ EntriesOK /\ ReasonsOK /\ ConnectionOK /\ AnswersFollowRequests
      /\ RejectionsOK /\ ReplyOK
  BY DEF IInv
<1>1. /\ conn \in {"reading", "deciding"} /\ conn' = conn /\ sent' = Append(sent, line)
      /\ adviceVars' = adviceVars /\ read' = read /\ lines' = lines /\ answers' = answers
      /\ evidence' = evidence /\ refuted' = refuted /\ reply' = <<>>
  BY <1>0 DEF Write, ReplyOK
<1>2. sent \in Seq(Lines) /\ read \in 0..Len(sent)
  BY <1>0 DEF ConnectionOK
<1>3. /\ sent' \in Seq(Lines) /\ Len(sent') = Len(sent) + 1
      /\ Empties(sent', read) = Empties(sent, read)
      /\ \A i \in 1..read : sent'[i] = sent[i]
  BY <1>1, <1>2, EarlierLinesStay
<1>4. (CallOK /\ EntriesOK)'
  BY <1>0, <1>1, CallStays
<1>5. ReasonsOK'
  BY <1>0, <1>1, ReasonsStay DEF ReasonsOK, adviceVars
<1>6. conn = "reading" => \E b \in 0..read : Framed(sent', lines, b, read)
  <2> SUFFICES ASSUME conn = "reading" PROVE \E b \in 0..read : Framed(sent', lines, b, read)
    OBVIOUS
  <2>1. PICK b \in 0..read : Framed(sent, lines, b, read)
    BY <1>0 DEF ConnectionOK
  <2>2. Framed(sent', lines, b, read)
    BY <1>1, <1>2, <2>1, FramedStays
  <2> QED  BY <2>2
<1>7. conn = "deciding" =>
          /\ read # 0 /\ sent'[read] = "empty"
          /\ \E b \in 0..(read - 1) : Framed(sent', lines, b, read - 1)
  <2> SUFFICES ASSUME conn = "deciding"
               PROVE  /\ read # 0 /\ sent'[read] = "empty"
                      /\ \E b \in 0..(read - 1) : Framed(sent', lines, b, read - 1)
    OBVIOUS
  <2>1. read # 0 /\ sent[read] = "empty"
    BY <1>0 DEF ConnectionOK
  <2>2. PICK b \in 0..(read - 1) : Framed(sent, lines, b, read - 1)
    BY <1>0 DEF ConnectionOK
  <2>3. read - 1 \in 0..Len(sent) /\ read \in 1..read
    BY <1>2, <2>1
  <2>4. Framed(sent', lines, b, read - 1)
    BY <1>1, <1>2, <2>2, <2>3, FramedStays
  <2> QED  BY <1>3, <2>1, <2>3, <2>4
<1>8. read \in 0..Len(sent')
  BY <1>2, <1>3
<1>9. ConnectionOK'
  <2>1. asked' = asked
    BY <1>1 DEF adviceVars
  <2> QED  BY <1>0, <1>1, <1>3, <1>6, <1>7, <1>8, <2>1 DEF ConnectionOK
<1>10. AnswersFollowRequests'
  BY <1>0, <1>1, <1>3, AnswersAreInStep
<1>11. RejectionsOK'
  BY <1>0, <1>1, <1>2, RejectionsStay
<1>12. ReplyOK'
  BY <1>1, NoReply
<1> QED  BY <1>4, <1>5, <1>9, <1>10, <1>11, <1>12 DEF IInv

LEMMA CloseSideKeeps ==
  ASSUME IInv, CloseSide, UNCHANGED reply
  PROVE  IInv'
<1>0. /\ CallOK /\ EntriesOK /\ ReasonsOK /\ ConnectionOK /\ AnswersFollowRequests
      /\ RejectionsOK /\ ReplyOK
  BY DEF IInv
<1>1. /\ conn' = conn /\ sent' = sent /\ adviceVars' = adviceVars /\ read' = read
      /\ lines' = lines /\ answers' = answers /\ evidence' = evidence
      /\ refuted' = refuted /\ reply' = <<>>
  BY <1>0 DEF CloseSide, ReplyOK
<1>2. (CallOK /\ EntriesOK)'
  BY <1>0, <1>1, CallStays
<1>3. ReasonsOK'
  BY <1>0, <1>1, ReasonsStay DEF ReasonsOK, adviceVars
<1>4. ConnectionOK'
  BY <1>0, <1>1 DEF ConnectionOK, adviceVars
<1>5. AnswersFollowRequests'
  BY <1>0, <1>1, AnswersAreInStep
<1>6. RejectionsOK'
  BY <1>0, <1>1, RejectionsStay DEF ConnectionOK
<1>7. ReplyOK'
  BY <1>1, NoReply
<1> QED  BY <1>2, <1>3, <1>4, <1>5, <1>6, <1>7 DEF IInv

LEMMA LoseKeeps ==
  ASSUME IInv, Lose, UNCHANGED reply
  PROVE  IInv'
<1>0. /\ CallOK /\ EntriesOK /\ ReasonsOK /\ ConnectionOK /\ AnswersFollowRequests
      /\ RejectionsOK /\ ReplyOK
  BY DEF IInv
<1>1. /\ conn \in {"reading", "deciding"} /\ conn' = "lost" /\ Return /\ sent' = sent
      /\ read' = read /\ lines' = lines /\ answers' = answers /\ evidence' = evidence
      /\ refuted' = refuted /\ reply' = <<>>
  BY <1>0 DEF Lose, ReplyOK
<1>2. (CallOK /\ EntriesOK)' /\ advice' = <<>>
  BY <1>1, CallEnds DEF Return
<1>3. ReasonsOK'
  BY <1>0, <1>1, <1>2, ReasonsStay
<1>4. ConnectionOK'
  BY <1>0, <1>1 DEF ConnectionOK
<1>5. AnswersFollowRequests'
  <2>1. /\ Len(answers) \in Nat /\ Cardinality(Empties(sent, read)) \in Nat
        /\ Len(answers) <= Cardinality(Empties(sent, read))
    BY <1>0, <1>1, AnswersAreInStep, EmptiesAreFinite DEF ConnectionOK, InStep
  <2> QED  BY <1>1, <2>1, AnswersAreInStep DEF InStep
<1>6. RejectionsOK'
  BY <1>0, <1>1, RejectionsStay DEF ConnectionOK
<1>7. ReplyOK'
  BY <1>1, NoReply
<1> QED  BY <1>2, <1>3, <1>4, <1>5, <1>6, <1>7 DEF IInv

\* Invalid evidence is remembered when it comes, so no reason is ever lost.
LEMMA WorldKeeps ==
  ASSUME IInv, World, UNCHANGED reply
  PROVE  IInv'
<1>0. /\ CallOK /\ EntriesOK /\ ReasonsOK /\ ConnectionOK /\ AnswersFollowRequests
      /\ RejectionsOK /\ ReplyOK
  BY DEF IInv
<1>1. PICK a \in Addresses, status \in {"none", "Valid", "Invalid"} :
          /\ evidence' = [evidence EXCEPT ![a] = status] /\ adviceVars' = adviceVars
          /\ refuted' = IF status = "Invalid" THEN refuted \cup {a} ELSE refuted
  BY DEF World, EvidenceChanges
<1>2. connVars' = connVars /\ conn' = conn /\ asked' = asked /\ reply' = reply
  BY <1>1 DEF World, connVars, adviceVars
<1>3. refuted \subseteq refuted' /\ refuted' \subseteq Addresses
  BY <1>0, <1>1 DEF ReasonsOK
<1>4. (CallOK /\ EntriesOK)'
  BY <1>0, <1>1, CallStays
<1>5. ReasonsOK'
  <2>1. evidence' \in [Addresses -> Statuses \cup {"none"}]
    BY <1>0, <1>1 DEF ReasonsOK, Statuses
  <2>2. \A x \in Addresses : evidence'[x] = "Invalid" => x \in refuted'
    BY <1>0, <1>1, <1>3 DEF ReasonsOK
  <2>3. \A n \in DOMAIN advice : Backed(advice[n])
    BY <1>0 DEF ReasonsOK
  <2>4. advice' = advice
    BY <1>1 DEF adviceVars
  <2> QED  BY <1>3, <2>1, <2>2, <2>3, <2>4 DEF ReasonsOK, Backed
<1>6. (ConnectionOK /\ AnswersFollowRequests /\ RejectionsOK)'
  BY <1>0, <1>2, <1>3, ConnectionStays
<1>7. ReplyOK'
  BY <1>0, <1>2, <1>3, ReplyStays
<1> QED  BY <1>4, <1>5, <1>6, <1>7 DEF IInv

-----------------------------------------------------------------------------
(* The web request. *)

LEMMA WebRequestKeeps ==
  ASSUME IInv, WebRequest
  PROVE  IInv'
<1>0. /\ CallOK /\ EntriesOK /\ ReasonsOK /\ ConnectionOK /\ AnswersFollowRequests
      /\ RejectionsOK /\ ReplyOK
  BY DEF IInv
<1>1. PICK n \in 1..MaxRecipients : \E inputs \in [1..n -> Inputs] : Call(inputs)
  BY DEF WebRequest
<1>2. PICK inputs \in [1..n -> Inputs] : Call(inputs)
  BY <1>1
<1>3. inputs \in Seq(Inputs)
  BY <1>1, <1>2
<1>4. /\ conn = "lost" /\ asked = <<>> /\ evidence' = evidence /\ connVars' = connVars
      /\ refuted' = refuted /\ reply' = reply
  BY DEF WebRequest
<1>5. (CallOK /\ EntriesOK)' /\ advice' = <<>>
  BY <1>2, <1>3, CallStarts DEF Call
<1>6. ReasonsOK'
  BY <1>0, <1>4, <1>5, ReasonsStay
<1>7. (ConnectionOK /\ AnswersFollowRequests /\ RejectionsOK)'
  BY <1>0, <1>4, ConnectionStays
<1>8. reply = <<>>
  <2>1. ToSet(asked) = {}
    BY <1>4 DEF ToSet
  <2>2. reply # <<>> => 1 \in DOMAIN reply
    BY <1>0 DEF ReplyOK
  <2>3. reply # <<>> => {reply[i].to : i \in DOMAIN reply} = ToSet(asked)
    BY <1>0 DEF ReplyOK, ReplyCoversEveryRecipient
  <2>4. reply # <<>> => reply[1].to \in {reply[i].to : i \in DOMAIN reply}
    BY <2>2
  <2> QED  BY <2>1, <2>3, <2>4
<1>9. ReplyOK'
  BY <1>4, <1>8, NoReply
<1> QED  BY <1>5, <1>6, <1>7, <1>9 DEF IInv

LEMMA WebAdviseKeeps ==
  ASSUME IInv, WebAdvise
  PROVE  IInv'
<1>0. /\ CallOK /\ EntriesOK /\ ReasonsOK /\ ConnectionOK /\ AnswersFollowRequests
      /\ RejectionsOK /\ ReplyOK
  BY DEF IInv
<1>1. /\ AdviseNext /\ connVars' = connVars /\ refuted' = refuted
      /\ asked' = asked /\ evidence' = evidence /\ reply' = <<>>
  BY DEF WebAdvise, AdviseNext
<1>2. CallOK' /\ EntriesOK' /\ \A n \in DOMAIN advice' : Backed(advice'[n])
  BY <1>0, <1>1, CallGoesOn
<1>3. ReasonsOK'
  BY <1>0, <1>1, <1>2, ReasonsStay
<1>4. (ConnectionOK /\ AnswersFollowRequests /\ RejectionsOK)'
  BY <1>0, <1>1, ConnectionStays
<1>5. ReplyOK'
  BY <1>1, NoReply
<1> QED  BY <1>2, <1>3, <1>4, <1>5 DEF IInv

\* The service's answer is complete, and the one without it warns of nothing.
LEMMA WebReplyKeeps ==
  ASSUME IInv, WebReply
  PROVE  IInv'
<1>0. /\ CallOK /\ EntriesOK /\ ReasonsOK /\ ConnectionOK /\ AnswersFollowRequests
      /\ RejectionsOK /\ ReplyOK
  BY DEF IInv
<1>1. /\ conn = "lost" /\ evidence' = evidence /\ adviceVars' = adviceVars
      /\ connVars' = connVars /\ refuted' = refuted
  BY DEF WebReply
<1>2. asked' = asked /\ advice' = advice /\ conn' = conn
  BY <1>1 DEF adviceVars, connVars
<1>3. (CallOK /\ EntriesOK)'
  BY <1>0, <1>1, CallStays
<1>4. ReasonsOK'
  BY <1>0, <1>1, <1>2, ReasonsStay DEF ReasonsOK
<1>5. (ConnectionOK /\ AnswersFollowRequests /\ RejectionsOK)'
  BY <1>0, <1>1, <1>2, ConnectionStays
<1>6. CASE todo = <<>> /\ reply' = advice
  <2>1. reply' \in Seq(Advice)
    BY <1>0, <1>6 DEF CallOK
  <2>2. {reply'[n].to : n \in DOMAIN reply'} = ToSet(asked)
    BY <1>0, <1>6, CallIsComplete
  <2>3. \A n \in DOMAIN reply' : Warns(reply'[n]) => reply'[n].to \in Malformed \cup refuted
    BY <1>0, <1>6 DEF ReasonsOK, Backed
  <2>4. ReplyOK'
    BY <1>1, <1>2, <2>1, <2>2, <2>3 DEF ReplyOK, ReplyCoversEveryRecipient
  <2> QED  BY <1>3, <1>4, <1>5, <2>4 DEF IInv
<1>7. CASE reply' = Fallback
  <2>1. asked \in Seq(Inputs) /\ DOMAIN asked = 1..Len(asked) /\ Len(asked) \in Nat
    BY <1>0 DEF CallOK
  <2>2. /\ DOMAIN reply' = DOMAIN asked
        /\ \A n \in DOMAIN asked :
              reply'[n] = [to |-> asked[n], source |-> "unavailable", status |-> "none"]
    BY <1>7 DEF Fallback
  <2>3. \A n \in DOMAIN asked : reply'[n] \in Advice /\ reply'[n].to = asked[n] /\ ~Warns(reply'[n])
    BY <2>1, <2>2 DEF Advice, Sources, Warns
  <2>4. reply' \in Seq(Advice)
    <3>1. reply' \in [1..Len(asked) -> Advice]
      BY <1>7, <2>1, <2>2, <2>3 DEF Fallback
    <3> QED  BY <2>1, <3>1
  <2>5. {reply'[n].to : n \in DOMAIN reply'} = ToSet(asked)
    BY <2>2, <2>3 DEF ToSet
  <2>6. ReplyOK'
    BY <1>1, <1>2, <2>2, <2>3, <2>4, <2>5 DEF ReplyOK, ReplyCoversEveryRecipient
  <2> QED  BY <1>3, <1>4, <1>5, <2>6 DEF IInv
<1> QED  BY <1>6, <1>7 DEF WebReply

-----------------------------------------------------------------------------
(* The theorems. *)

LEMMA InitOK == PathInit => IInv
<1> SUFFICES ASSUME PathInit PROVE IInv
  OBVIOUS
<1>1. /\ evidence = [a \in Addresses |-> "none"] /\ asked = <<>> /\ todo = <<>> /\ advice = <<>>
      /\ sent = <<>> /\ read = 0 /\ conn = "reading" /\ lines = <<>> /\ answers = <<>>
      /\ refuted = {} /\ reply = <<>>
  BY DEF PathInit, Init, AdviceInit
<1>2. Taken = 0
  BY <1>1 DEF Taken
<1>3. CallOK
  BY <1>1, <1>2 DEF CallOK
<1>4. EntriesOK
  BY <1>1, <1>2 DEF EntriesOK
<1>5. ReasonsOK
  BY <1>1 DEF ReasonsOK
<1>6. ConnectionOK
  <2>1. Framed(sent, lines, 0, 0)
    BY <1>1, SubSeqEmpty DEF Framed
  <2> QED  BY <1>1, <2>1 DEF ConnectionOK
<1>7. AnswersFollowRequests
  <2>1. Empties(sent, read) = {}
    BY <1>1 DEF Empties
  <2>2. Cardinality(Empties(sent, read)) = 0
    BY <2>1, FS_EmptySet
  <2>3. Len(answers) = 0 /\ conn = "reading"
    BY <1>1
  <2>4. InStep(conn, answers, Cardinality(Empties(sent, read)))
    BY <2>2, <2>3 DEF InStep
  <2> QED  BY <2>4, AnswersAreInStep
<1>8. RejectionsOK
  BY <1>1 DEF RejectionsOK
<1>9. ReplyOK
  BY <1>1 DEF ReplyOK, ReplyCoversEveryRecipient
<1> QED  BY <1>3, <1>4, <1>5, <1>6, <1>7, <1>8, <1>9 DEF IInv

LEMMA StepOK == IInv /\ [PathNext]_pathVars => IInv'
<1> SUFFICES ASSUME IInv, [PathNext]_pathVars PROVE IInv'
  OBVIOUS
<1>1. CASE ReadLine /\ UNCHANGED reply
  BY <1>1, ReadLineKeeps
<1>2. CASE ReadEnd /\ UNCHANGED reply
  BY <1>2, ReadEndKeeps
<1>3. CASE Advise /\ UNCHANGED reply
  BY <1>3, AdviseKeeps
<1>4. CASE Respond /\ UNCHANGED reply
  BY <1>4, RespondKeeps
<1>5. CASE (\E line \in Lines : Write(line)) /\ UNCHANGED reply
  BY <1>5, WriteKeeps
<1>6. CASE CloseSide /\ UNCHANGED reply
  BY <1>6, CloseSideKeeps
<1>7. CASE Lose /\ UNCHANGED reply
  BY <1>7, LoseKeeps
<1>8. CASE World /\ UNCHANGED reply
  BY <1>8, WorldKeeps
<1>9. CASE WebRequest
  BY <1>9, WebRequestKeeps
<1>10. CASE WebAdvise
  BY <1>10, WebAdviseKeeps
<1>11. CASE WebReply
  BY <1>11, WebReplyKeeps
<1>12. CASE UNCHANGED pathVars
  <2>1. /\ adviceVars' = adviceVars /\ connVars' = connVars /\ asked' = asked
        /\ advice' = advice /\ conn' = conn /\ evidence' = evidence
        /\ refuted' = refuted /\ reply' = reply
    BY <1>12 DEF pathVars, adviceVars, connVars
  <2>2. (CallOK /\ EntriesOK)'
    BY <2>1, CallStays DEF IInv
  <2>3. ReasonsOK'
    BY <2>1, ReasonsStay DEF IInv, ReasonsOK
  <2>4. (ConnectionOK /\ AnswersFollowRequests /\ RejectionsOK)'
    BY <2>1, ConnectionStays DEF IInv
  <2>5. ReplyOK'
    BY <2>1, ReplyStays DEF IInv
  <2> QED  BY <2>2, <2>3, <2>4, <2>5 DEF IInv
<1> QED
  BY <1>1, <1>2, <1>3, <1>4, <1>5, <1>6, <1>7, <1>8, <1>9, <1>10, <1>11, <1>12
  DEF PathNext, Next, Handler

\* What the four properties rest on holds of every connection and web request.
THEOREM Invariant == PathSpec => []IInv
<1> QED  BY InitOK, StepOK, PTL DEF PathSpec

\* What the types say beyond the invariant: the bounds.
BoundsOK ==
    /\ Len(asked) <= MaxRecipients /\ Len(sent) <= MaxSent /\ ended \in BOOLEAN
    /\ lines \in Seq(Lines \ {"empty", "long"})
    /\ conn = "reading" => Len(lines) < MaxLines

LEMMA BoundsStep == IInv /\ BoundsOK /\ [PathNext]_pathVars => BoundsOK'
<1> SUFFICES ASSUME IInv, BoundsOK, [PathNext]_pathVars PROVE BoundsOK'
  OBVIOUS
<1> USE DEF BoundsOK
<1>0. /\ sent \in Seq(Lines) /\ read \in 0..Len(sent) /\ Len(asked) \in Nat
  BY DEF IInv, ConnectionOK, CallOK
<1>1. \A inputs : Call(inputs) => asked' = inputs /\ Len(inputs) <= MaxRecipients
  BY DEF Call
<1>2. UNCHANGED adviceVars \/ Return \/ AdviseNext => Len(asked') <= MaxRecipients
  BY DEF adviceVars, Return, AdviseNext
<1>3. CASE ReadLine
  <2> DEFINE line == sent[read + 1]
  <2>1. line \in Lines /\ sent' = sent /\ ended' = ended /\ conn = "reading"
    BY <1>0, <1>3 DEF ReadLine
  <2>2. CASE GiveUp
    BY <1>2, <2>1, <2>2 DEF GiveUp
  <2>3. CASE conn' = "deciding" /\ Call(<<Recipient(lines)>>) /\ UNCHANGED <<lines, answers>>
    BY <1>1, <2>1, <2>3
  <2>4. CASE /\ line \notin {"long", "empty"} /\ Fits(Append(lines, line))
             /\ lines' = Append(lines, line) /\ UNCHANGED <<conn, answers, adviceVars>>
    <3>1. lines' \in Seq(Lines \ {"empty", "long"}) /\ Len(lines') < MaxLines
      BY <2>1, <2>4 DEF Fits
    <3> QED  BY <1>2, <2>1, <2>4, <3>1
  <2> QED  BY <1>3, <2>2, <2>3, <2>4 DEF ReadLine
<1>4. CASE ReadEnd
  BY <1>2, <1>4 DEF ReadEnd
<1>5. CASE Advise
  BY <1>2, <1>5 DEF Advise, connVars
<1>6. CASE Respond
  <2>1. lines' = <<>> /\ <<>> \in Seq(Lines \ {"empty", "long"}) /\ Len(<<>>) = 0
    BY <1>6 DEF Respond
  <2> QED  BY <1>2, <1>6, <2>1 DEF Respond
<1>7. CASE \E line \in Lines : Write(line)
  <2>1. PICK line \in Lines : Write(line)
    BY <1>7
  <2>2. Len(sent') <= MaxSent
    BY <1>0, <2>1 DEF Write
  <2> QED  BY <1>2, <2>1, <2>2 DEF Write
<1>8. CASE CloseSide
  BY <1>2, <1>8 DEF CloseSide
<1>9. CASE Lose
  BY <1>2, <1>9 DEF Lose
<1>10. CASE World
  <2>1. connVars' = connVars /\ adviceVars' = adviceVars
    BY <1>10 DEF World, EvidenceChanges
  <2> QED  BY <1>2, <2>1 DEF connVars
<1>11. CASE WebRequest
  <2>1. connVars' = connVars /\ Len(asked') <= MaxRecipients
    BY <1>1, <1>11 DEF WebRequest
  <2> QED  BY <2>1 DEF connVars
<1>12. CASE WebAdvise
  BY <1>2, <1>12 DEF WebAdvise, connVars
<1>13. CASE WebReply
  BY <1>2, <1>13 DEF WebReply, connVars
<1>14. CASE UNCHANGED pathVars
  BY <1>14 DEF pathVars
<1> QED
  BY <1>3, <1>4, <1>5, <1>6, <1>7, <1>8, <1>9, <1>10, <1>11, <1>12, <1>13, <1>14
  DEF PathNext, Next, Handler

\* Types and bounds: in particular what a call has not come to is the end of its
\* inputs, and a request in hand leaves room for the line that ends it
\* (postfix_policy.py:66-98, mail_advisory.py:75-141).
THEOREM TypeCorrect == PathSpec => []TypeOK
<1>1. PathInit => BoundsOK
  <2> SUFFICES ASSUME PathInit PROVE BoundsOK
    OBVIOUS
  <2>1. asked = <<>> /\ sent = <<>> /\ lines = <<>> /\ ended = FALSE
    BY DEF PathInit, Init, AdviceInit
  <2>2. <<>> \in Seq(Lines \ {"empty", "long"})
    OBVIOUS
  <2>3. Len(asked) = 0 /\ Len(sent) = 0 /\ Len(lines) = 0
    BY <2>1
  <2>4. lines \in Seq(Lines \ {"empty", "long"})
    BY <2>1, <2>2, Zenon
  <2>5. Len(asked) <= MaxRecipients /\ Len(sent) <= MaxSent /\ Len(lines) < MaxLines
    BY <2>3
  <2>6. ended \in BOOLEAN
    BY <2>1
  <2> QED  BY <2>4, <2>5, <2>6 DEF BoundsOK
<1>2. IInv /\ BoundsOK => TypeOK
  <2> SUFFICES ASSUME IInv, BoundsOK PROVE TypeOK
    OBVIOUS
  <2>1. CallOK /\ ReasonsOK /\ ConnectionOK
    BY DEF IInv
  <2>2. \E n \in 0..Len(asked) : todo = SubSeq(asked, n + 1, Len(asked))
    <3> DEFINE rest == SubSeq(asked, Taken + 1, Len(asked))
    <3>1. /\ Taken \in 0..Len(asked) /\ Len(asked) \in Nat /\ Len(todo) \in Nat
          /\ Len(asked) - Taken = Len(todo) /\ asked \in Seq(Inputs) /\ todo \in Seq(Inputs)
      BY <2>1 DEF CallOK, Taken
    <3>2. /\ rest \in Seq(Inputs) /\ Len(rest) = Len(todo)
          /\ \A i \in 1..Len(rest) : rest[i] = asked[Taken + i]
      BY <3>1
    <3> HIDE DEF rest
    <3>3. \A i \in 1..Len(todo) : todo[i] = rest[i]
      BY <2>1, <3>2 DEF CallOK
    <3>4. todo = rest
      BY <3>1, <3>2, <3>3, SeqEqual
    <3> QED  BY <3>1, <3>4 DEF rest
  <2>3. AdviceTypeOK
    BY <2>1, <2>2 DEF AdviceTypeOK, CallOK, ReasonsOK, BoundsOK
  <2>4. conn = "deciding" => Len(asked) = 1
    BY <2>1 DEF ConnectionOK
  <2> QED  BY <2>1, <2>3, <2>4 DEF TypeOK, ConnectionOK, ReasonsOK, BoundsOK
<1> QED  BY <1>1, <1>2, BoundsStep, Invariant, PTL DEF PathSpec

\* Of any number of recipients, however they repeat and whatever the lookups
\* find, each is advised about once, in the order in which they were given
\* first (MailAdvisoryService.advise).
THEOREM EachIsAdvisedOnce == PathSpec => []OneAdvicePerRecipient
<1>1. IInv => OneAdvicePerRecipient
  BY CallIsComplete DEF IInv, OneAdvicePerRecipient, EntriesOK, Taken
<1> QED  BY <1>1, Invariant, PTL

\* For connections of any length, an answer is to the request it is taken for
\* (PostfixPolicyHandler.handle).
THEOREM AnswersStayInStep == PathSpec => []AnswersFollowRequests
<1>1. IInv => AnswersFollowRequests
  BY DEF IInv
<1> QED  BY <1>1, Invariant, PTL

\* No message is rejected but for Invalid evidence about its own recipient, and
\* none at all unless that is switched on (policy_action).
THEOREM RejectionsAreEarned == PathSpec => []RejectNeedsEvidence
<1>1. IInv => RejectNeedsEvidence
  <2> SUFFICES ASSUME IInv, NEW k \in DOMAIN answers, answers[k] = "REJECT"
               PROVE  /\ Mode = "enforce-cached-invalid" /\ k <= Cardinality(Ends)
                      /\ Recipient(Request(k)) \in refuted
    BY DEF RejectNeedsEvidence
  <2>1. sent \in Seq(Lines) /\ Mode = "enforce-cached-invalid" /\ Concerns(sent, k, refuted)
    BY DEF IInv, ConnectionOK, RejectionsOK
  <2>2. PICK n \in DOMAIN sent : \E b \in 0..(n - 1) :
            Delimits(sent, k, b, n) /\ Recipient(SubSeq(sent, b + 1, n - 1)) \in refuted
    BY <2>1 DEF Concerns
  <2>3. PICK b \in 0..(n - 1) :
            Delimits(sent, k, b, n) /\ Recipient(SubSeq(sent, b + 1, n - 1)) \in refuted
    BY <2>2
  <2>4. Request(k) = SubSeq(sent, b + 1, n - 1) /\ k <= Cardinality(Ends)
    BY <2>1, <2>3, RequestIs
  <2> QED  BY <2>1, <2>3, <2>4
<1> QED  BY <1>1, Invariant, PTL

\* A web request for advice is answered for all of its recipients, with the
\* service or without it, and no warning is made up (AdviceRequest's endpoint).
THEOREM RepliesAreComplete == PathSpec => []ReplyCoversEveryRecipient
<1>1. IInv => ReplyCoversEveryRecipient
  BY DEF IInv, ReplyOK
<1> QED  BY <1>1, Invariant, PTL
================================================================================
