------------------------ MODULE TriggerScheduler_proofs -----------------------
(***************************************************************************)
(* Proofs about TriggerScheduler, for any events and any number of teeth:  *)
(* the links inside the events always form two lists that end and share    *)
(* nothing, a walk leaves no event behind on its own tooth, and the linked *)
(* list implements the queue of ToothQueue, until a node of the walked     *)
(* list is appended to the attached one; and that takes a chain that the   *)
(* main loop and the trigger interrupt have both started.                  *)
(*                                                                         *)
(* The model reads a list by following its links (Nth), which says little  *)
(* to a prover.  The proofs work with the sequence that a list is: IsList  *)
(* relates the two, NthOfList shows, by induction on the place in the list,*)
(* that following the links gives that sequence, and one lemma for each    *)
(* list macro says what it makes of the sequence.  The invariant is about  *)
(* two sequences and the place that the walk has reached.  Where a chain   *)
(* is, as long as the race for its start is not lost, is a part of it that *)
(* only `raced` switches off: a chain that waits and is timed at once      *)
(* still leaves the lists as they should be.                               *)
(***************************************************************************)
EXTENDS TriggerScheduler, SequenceTheorems, FunctionTheorems, FiniteSetTheorems, TLAPS

\* A set of natural numbers has a least one.
LEMMA LeastNumber ==
  ASSUME NEW S \in SUBSET Nat, S # {}
  PROVE  \E n \in S : \A m \in S : n <= m
<1>1. PICK n \in S : \A m \in S : ~(<<m, n>> \in OpToRel(<, Nat))
  BY NatLessThanWellFounded, WFMin, Zenon
<1>2. \A m \in S : ~(m < n)
  BY <1>1 DEF OpToRel
<1> QED
  BY <1>2

\* Induction up to m, on a set of numbers.
LEMMA CountUp ==
  ASSUME NEW m \in Nat, NEW S, 0 \in S,
         \A n \in 0 .. m - 1 : n \in S => n + 1 \in S
  PROVE  \A n \in 0 .. m : n \in S
<1> DEFINE T == {n \in 0 .. m : n \notin S}
<1>1. SUFFICES ASSUME T # {} PROVE FALSE
  OBVIOUS
<1>2. T \in SUBSET Nat
  OBVIOUS
<1>3. PICK n \in T : \A k \in T : n <= k
  BY <1>1, <1>2, LeastNumber
<1>4. n # 0 /\ n - 1 \in 0 .. m - 1
  BY <1>3
<1>5. n - 1 \in S
  BY <1>3, <1>4
<1> QED
  BY <1>3, <1>4, <1>5

\* Nth, Members and Chain as functions of the links.
NthOf(next, h) ==
  LET f[n \in 0 .. MaxLength] ==
        IF n = 0 THEN h
        ELSE IF f[n - 1] = nullptr THEN nullptr ELSE next[f[n - 1]]
  IN  f

MembersOf(next, h) == {NthOf(next, h)[k] : k \in 0 .. MaxLength} \ {nullptr}

ChainOf(next, h) ==
  LET n == Cardinality({k \in 0 .. MaxLength : NthOf(next, h)[k] # nullptr})
  IN  [k \in 1 .. n |-> NthOf(next, h)[k - 1]]

\* The events of a sequence.
Elements(s) == {s[i] : i \in 1 .. Len(s)}

\* The list at h, with the links next, is the sequence s, without repetition.
IsList(next, h, s) ==
  /\ s \in Seq(Event)
  /\ \A i, j \in 1 .. Len(s) : s[i] = s[j] => i = j
  /\ h = IF Len(s) = 0 THEN nullptr ELSE s[1]
  /\ \A i \in 1 .. Len(s) : next[s[i]] = IF i = Len(s) THEN nullptr ELSE s[i + 1]

\* There are finitely many events.
LEMMA MaxLengthNat == MaxLength \in Nat
  BY TriggerSchedulerAssumption, FS_CardinalityType DEF MaxLength

\* A list without repetition is no longer than there are events.
LEMMA ShortList ==
  ASSUME NEW next, NEW h, NEW s, IsList(next, h, s)
  PROVE  Len(s) <= MaxLength /\ Len(s) \in Nat
<1>1. s \in [1 .. Len(s) -> Event] /\ Len(s) \in Nat
  BY LenProperties DEF IsList
<1>2. s \in Injection(1 .. Len(s), Event)
  BY <1>1 DEF IsList, Injection, IsInjective
<1>3. Cardinality(1 .. Len(s)) <= Cardinality(Event)
  BY <1>2, TriggerSchedulerAssumption, FS_Injection
<1>4. Cardinality(1 .. Len(s)) = IF 1 > Len(s) THEN 0 ELSE Len(s) - 1 + 1
  BY <1>1, FS_Interval
<1> QED
  BY <1>1, <1>3, <1>4 DEF MaxLength

\* Following the links from the head visits the sequence in order, then ends.
LEMMA NthOfList ==
  ASSUME NEW next, NEW h, NEW s, IsList(next, h, s)
  PROVE  \A n \in 0 .. MaxLength :
           NthOf(next, h)[n] = IF n < Len(s) THEN s[n + 1] ELSE nullptr
<1> DEFINE Def(f) == [n \in 0 .. MaxLength |->
             IF n = 0 THEN h ELSE IF f[n - 1] = nullptr THEN nullptr ELSE next[f[n - 1]]]
           g == [n \in 0 .. MaxLength |-> IF n < Len(s) THEN s[n + 1] ELSE nullptr]
           N == NthOf(next, h)
<1>1. Len(s) <= MaxLength /\ Len(s) \in Nat /\ MaxLength \in Nat
  BY ShortList, MaxLengthNat
<1>2. \A i \in 1 .. Len(s) : s[i] \in Event /\ s[i] # nullptr
  BY ElementOfSeq, TriggerSchedulerAssumption DEF IsList
<1>3. g = Def(g)
  <2>1. ASSUME NEW n \in 0 .. MaxLength
        PROVE  g[n] = IF n = 0 THEN h ELSE IF g[n - 1] = nullptr THEN nullptr ELSE next[g[n - 1]]
    <3>1. CASE n = 0
      BY <1>1, <3>1 DEF IsList
    <3>2. CASE n # 0 /\ n - 1 < Len(s)
      <4>1. n - 1 \in 0 .. MaxLength /\ n \in 1 .. Len(s)
        BY <1>1, <3>2
      <4>2. g[n - 1] = s[n]
        BY <4>1, <3>2
      <4>3. next[s[n]] = IF n = Len(s) THEN nullptr ELSE s[n + 1]
        BY <4>1 DEF IsList
      <4>4. g[n] = IF n < Len(s) THEN s[n + 1] ELSE nullptr
        OBVIOUS
      <4> QED
        BY <1>1, <1>2, <3>2, <4>1, <4>2, <4>3, <4>4
    <3>3. CASE n # 0 /\ ~(n - 1 < Len(s))
      <4>1. n - 1 \in 0 .. MaxLength
        BY <1>1, <3>3
      <4>2. g[n - 1] = nullptr /\ g[n] = nullptr
        BY <4>1, <3>3, <1>1
      <4> QED
        BY <3>3, <4>2
    <3> QED
      BY <3>1, <3>2, <3>3
  <2> QED
    BY <2>1
<1>4. N = Def(N)
  <2>1. N = CHOOSE f : f = Def(f)
    BY DEF NthOf
  <2> HIDE DEF Def, g, N
  <2> QED
    BY <2>1, <1>3
<1>5. \A n \in 0 .. MaxLength :
         N[n] = IF n = 0 THEN h ELSE IF N[n - 1] = nullptr THEN nullptr ELSE next[N[n - 1]]
  <2> HIDE DEF N
  <2> QED
    BY <1>4
<1>6. \A n \in 0 .. MaxLength :
         g[n] = IF n = 0 THEN h ELSE IF g[n - 1] = nullptr THEN nullptr ELSE next[g[n - 1]]
  <2> HIDE DEF g
  <2> QED
    BY <1>3
<1> DEFINE S == {n \in 0 .. MaxLength : N[n] = g[n]}
<1>7. \A n \in 0 .. MaxLength : n \in S
  <2> HIDE DEF g, N
  <2>1. 0 \in S
    BY <1>1, <1>5, <1>6
  <2>2. ASSUME NEW n \in 0 .. MaxLength - 1, n \in S
        PROVE  n + 1 \in S
    <3>1. n + 1 \in 0 .. MaxLength /\ n + 1 # 0 /\ (n + 1) - 1 = n
      BY <1>1
    <3>2. N[n + 1] = IF N[n] = nullptr THEN nullptr ELSE next[N[n]]
      BY <1>5, <3>1
    <3>3. g[n + 1] = IF g[n] = nullptr THEN nullptr ELSE next[g[n]]
      BY <1>6, <3>1
    <3> QED
      BY <2>2, <3>1, <3>2, <3>3
  <2> HIDE DEF S
  <2> QED
    BY <1>1, <2>1, <2>2, CountUp
<1> QED
  BY <1>7
\* What Members, Chain and Terminates make of a list.
LEMMA ListIs ==
  ASSUME NEW next, NEW h, NEW s, IsList(next, h, s)
  PROVE  /\ MembersOf(next, h) = Elements(s)
         /\ ChainOf(next, h) = s
         /\ NthOf(next, h)[MaxLength] = nullptr
<1>1. Len(s) <= MaxLength /\ Len(s) \in Nat /\ MaxLength \in Nat
  BY ShortList, MaxLengthNat
<1>2. \A i \in 1 .. Len(s) : s[i] \in Event /\ s[i] # nullptr
  BY ElementOfSeq, TriggerSchedulerAssumption DEF IsList
<1> DEFINE N == NthOf(next, h)
<1>3. \A n \in 0 .. MaxLength : N[n] = IF n < Len(s) THEN s[n + 1] ELSE nullptr
  BY NthOfList
<1> HIDE DEF N
<1>4. {N[k] : k \in 0 .. MaxLength} \ {nullptr} = Elements(s)
  <2>1. ASSUME NEW k \in 0 .. MaxLength, N[k] # nullptr
        PROVE  N[k] \in Elements(s)
    BY <2>1, <1>1, <1>3 DEF Elements
  <2>2. ASSUME NEW i \in 1 .. Len(s)
        PROVE  s[i] \in {N[k] : k \in 0 .. MaxLength} \ {nullptr}
    <3>1. i - 1 \in 0 .. MaxLength /\ N[i - 1] = s[i]
      BY <1>1, <1>3
    <3> QED
      BY <3>1, <1>2
  <2> QED
    BY <2>1, <2>2 DEF Elements
<1>5. Cardinality({k \in 0 .. MaxLength : N[k] # nullptr}) = Len(s)
  <2>1. {k \in 0 .. MaxLength : N[k] # nullptr} = 0 .. Len(s) - 1
    <3>1. ASSUME NEW k \in 0 .. MaxLength
          PROVE  N[k] # nullptr <=> k < Len(s)
      <4>1. k < Len(s) => k + 1 \in 1 .. Len(s)
        BY <1>1
      <4> QED
        BY <1>2, <1>3, <4>1
    <3> QED
      BY <1>1, <3>1
  <2>2. Cardinality(0 .. Len(s) - 1)
          = IF 0 > Len(s) - 1 THEN 0 ELSE Len(s) - 1 - 0 + 1
    <3>1. 0 \in Int /\ Len(s) - 1 \in Int
      BY <1>1
    <3> QED
      BY <3>1, FS_Interval
  <2>3. Cardinality(0 .. Len(s) - 1) = Len(s)
    BY <1>1, <2>2
  <2> QED
    BY <2>1, <2>3, Zenon
<1>6. [k \in 1 .. Len(s) |-> N[k - 1]] = s
  <2>1. s = [k \in 1 .. Len(s) |-> s[k]]
    BY LenProperties DEF IsList
  <2>2. ASSUME NEW k \in 1 .. Len(s)
        PROVE  N[k - 1] = s[k]
    BY <1>1, <1>3
  <2> QED
    BY <2>1, <2>2
<1>7. N[MaxLength] = nullptr
  BY <1>1, <1>3
<1> QED
  BY <1>4, <1>5, <1>6, <1>7 DEF MembersOf, ChainOf, N

\* The links after LL_APPEND2 to a list that is not empty.
Linked(next, s, e) == [next EXCEPT ![e] = nullptr, ![s[Len(s)]] = e]

\* An element joins at the end: LL_APPEND2 on a list, empty or not.
LEMMA AppendToList ==
  ASSUME NEW next \in [Event -> Event \cup {nullptr}], NEW h, NEW s, IsList(next, h, s),
         NEW e \in Event, e \notin Elements(s)
  PROVE  /\ h = nullptr => /\ s = <<>>
                           /\ IsList([next EXCEPT ![e] = nullptr], e, Append(s, e))
         /\ h # nullptr => /\ s # <<>>
                           /\ IsList(Linked(next, s, e), h, Append(s, e))
<1>1. Len(s) \in Nat /\ s \in Seq(Event)
  BY ShortList DEF IsList
<1>2. \A i \in 1 .. Len(s) : s[i] \in Event /\ s[i] # nullptr /\ s[i] # e
  BY ElementOfSeq, TriggerSchedulerAssumption DEF IsList, Elements
<1>3. h = nullptr <=> Len(s) = 0
  BY <1>1, <1>2 DEF IsList
<1>4. s = <<>> <=> Len(s) = 0
  BY <1>1, EmptySeq
<1> DEFINE t == Append(s, e)
<1>5. /\ t \in Seq(Event)
      /\ Len(t) = Len(s) + 1
      /\ \A i \in 1 .. Len(s) : t[i] = s[i]
      /\ t[Len(s) + 1] = e
  BY <1>1, AppendProperties
<1> HIDE DEF t
<1>6. \A i, j \in 1 .. Len(t) : t[i] = t[j] => i = j
  <2>1. ASSUME NEW i \in 1 .. Len(t), NEW j \in 1 .. Len(t), t[i] = t[j]
        PROVE  i = j
    <3>1. CASE i \in 1 .. Len(s) /\ j \in 1 .. Len(s)
      BY <2>1, <3>1, <1>5 DEF IsList
    <3>2. CASE ~(i \in 1 .. Len(s) /\ j \in 1 .. Len(s))
      <4>1. \A n \in 1 .. Len(t) : n \in 1 .. Len(s) \/ n = Len(s) + 1
        BY <1>1, <1>5
      <4>2. i = Len(s) + 1 => t[i] = e
        BY <1>5
      <4>3. j = Len(s) + 1 => t[j] = e
        BY <1>5
      <4>4. i \in 1 .. Len(s) => t[i] # e
        BY <1>2, <1>5
      <4>5. j \in 1 .. Len(s) => t[j] # e
        BY <1>2, <1>5
      <4> QED
        BY <2>1, <3>2, <4>1, <4>2, <4>3, <4>4, <4>5
    <3> QED
      BY <3>1, <3>2
  <2> QED
    BY <2>1
<1>7. CASE h = nullptr
  <2>1. Len(t) = 1 /\ t[1] = e
    BY <1>1, <1>3, <1>5, <1>7
  <2>2. [next EXCEPT ![e] = nullptr][e] = nullptr
    OBVIOUS
  <2> QED
    BY <1>3, <1>4, <1>5, <1>6, <1>7, <2>1, <2>2 DEF IsList, t
<1>8. CASE h # nullptr
  <2>1. Len(s) > 0 /\ s[Len(s)] \in Event /\ s[Len(s)] # e /\ h = s[1]
    BY <1>1, <1>2, <1>3, <1>8 DEF IsList
  <2> DEFINE n == [next EXCEPT ![e] = nullptr, ![s[Len(s)]] = e]
  <2>2. n[e] = nullptr /\ n[s[Len(s)]] = e
        /\ \A x \in Event : x # e /\ x # s[Len(s)] => n[x] = next[x]
    BY <2>1
  <2> HIDE DEF n
  <2>3. ASSUME NEW i \in 1 .. Len(t)
        PROVE  n[t[i]] = IF i = Len(t) THEN nullptr ELSE t[i + 1]
    <3>1. CASE i = Len(t)
      BY <1>5, <2>2, <3>1
    <3>2. CASE i = Len(s)
      BY <1>1, <1>5, <2>1, <2>2, <3>2
    <3>3. CASE i \in 1 .. Len(s) - 1
      <4>1. t[i] = s[i] /\ t[i + 1] = s[i + 1] /\ i # Len(t) /\ i # Len(s)
            /\ i \in 1 .. Len(s) /\ Len(s) \in 1 .. Len(s)
        BY <1>1, <1>5, <2>1, <3>3
      <4>2. s[i] # s[Len(s)] /\ s[i] # e /\ s[i] \in Event
        BY <4>1, <1>2 DEF IsList
      <4>3. next[s[i]] = s[i + 1]
        BY <4>1 DEF IsList
      <4> QED
        BY <4>1, <4>2, <4>3, <2>2
    <3> QED
      BY <1>1, <1>5, <3>1, <3>2, <3>3
  <2>4. t[1] = s[1] /\ Len(t) # 0
    BY <1>1, <1>5, <2>1
  <2>5. IsList(n, h, t)
    BY <1>5, <1>6, <2>1, <2>3, <2>4 DEF IsList
  <2> QED
    BY <1>4, <1>8, <2>1, <2>5 DEF n, t, Linked
<1> QED
  BY <1>7, <1>8

\* The last element is the one without successor.
LEMMA LastOfList ==
  ASSUME NEW next, NEW h, NEW s, IsList(next, h, s), h # nullptr
  PROVE  (CHOOSE e \in MembersOf(next, h) : next[e] = nullptr) = s[Len(s)]
<1>1. Len(s) \in Nat /\ Len(s) # 0
  BY ShortList DEF IsList
<1>2. MembersOf(next, h) = Elements(s)
  BY ListIs
<1>3. s[Len(s)] \in Elements(s) /\ next[s[Len(s)]] = nullptr
  BY <1>1 DEF IsList, Elements
<1>4. ASSUME NEW e \in Elements(s), next[e] = nullptr
      PROVE  e = s[Len(s)]
  <2>1. PICK i \in 1 .. Len(s) : e = s[i]
    BY DEF Elements
  <2>2. next[e] = IF i = Len(s) THEN nullptr ELSE s[i + 1]
    BY <2>1 DEF IsList
  <2>3. i # Len(s) => i + 1 \in 1 .. Len(s)
    BY <1>1
  <2>4. i # Len(s) => s[i + 1] \in Event
    BY <2>3, ElementOfSeq DEF IsList
  <2> QED
    BY <1>4, <2>1, <2>2, <2>4, TriggerSchedulerAssumption
<1> QED
  BY <1>2, <1>3, <1>4

\* Only the links of its own elements matter to a list.
LEMMA ListKept ==
  ASSUME NEW next, NEW new, NEW h, NEW s, IsList(next, h, s),
         \A e \in Elements(s) : new[e] = next[e]
  PROVE  IsList(new, h, s)
<1>1. \A i \in 1 .. Len(s) : new[s[i]] = next[s[i]]
  BY DEF Elements
<1> QED
  BY <1>1 DEF IsList

\* The sequence without its i-th element.
Without(s, i) == SubSeq(s, 1, i - 1) \o SubSeq(s, i + 1, Len(s))

\* Its elements, place by place.
LEMMA WithoutIs ==
  ASSUME NEW S, NEW s \in Seq(S), NEW i \in 1 .. Len(s)
  PROVE  /\ Without(s, i) \in Seq(S)
         /\ Len(Without(s, i)) = Len(s) - 1
         /\ \A j \in 1 .. Len(s) - 1 : Without(s, i)[j] = IF j < i THEN s[j] ELSE s[j + 1]
<1>1. Len(s) \in Nat /\ i - 1 \in Int /\ i + 1 \in Int /\ i \in Int
  BY LenProperties
<1>2. \A k \in 1 .. Len(s) : s[k] \in S
  BY ElementOfSeq
<1> DEFINE a == SubSeq(s, 1, i - 1)
           b == SubSeq(s, i + 1, Len(s))
<1>3. /\ a \in Seq(S)
      /\ Len(a) = IF 1 <= i - 1 THEN i - 1 - 1 + 1 ELSE 0
      /\ \A k \in 1 .. i - 1 - 1 + 1 : a[k] = s[1 + k - 1]
  <2>1. \A k \in 1 .. i - 1 : s[k] \in S
    BY <1>1, <1>2
  <2> QED
    BY <1>1, <2>1, SubSeqProperties
<1>4. /\ b \in Seq(S)
      /\ Len(b) = IF i + 1 <= Len(s) THEN Len(s) - (i + 1) + 1 ELSE 0
      /\ \A k \in 1 .. Len(s) - (i + 1) + 1 : b[k] = s[(i + 1) + k - 1]
  <2>1. \A k \in i + 1 .. Len(s) : s[k] \in S
    BY <1>1, <1>2
  <2> QED
    BY <1>1, <2>1, SubSeqProperties
<1>5. Len(a) = i - 1 /\ Len(b) = Len(s) - i
  BY <1>1, <1>3, <1>4
<1>6. \A k \in 1 .. i - 1 : a[k] = s[k]
  BY <1>1, <1>3
<1>7. \A k \in 1 .. Len(s) - i : b[k] = s[i + k]
  <2>1. ASSUME NEW k \in 1 .. Len(s) - i
        PROVE  b[k] = s[i + k]
    <3>1. k \in 1 .. Len(s) - (i + 1) + 1 /\ (i + 1) + k - 1 = i + k
      BY <1>1
    <3> HIDE DEF b
    <3> QED
      BY <3>1, <1>4
  <2> QED
    BY <2>1
<1> HIDE DEF a, b
<1>8. /\ a \o b \in Seq(S)
      /\ Len(a \o b) = Len(a) + Len(b)
      /\ \A k \in 1 .. Len(a) + Len(b) :
           (a \o b)[k] = IF k <= Len(a) THEN a[k] ELSE b[k - Len(a)]
  BY <1>3, <1>4, ConcatProperties
<1>9. ASSUME NEW j \in 1 .. Len(s) - 1
      PROVE  (a \o b)[j] = IF j < i THEN s[j] ELSE s[j + 1]
  <2>1. j \in 1 .. Len(a) + Len(b)
    BY <1>1, <1>5
  <2>2. (a \o b)[j] = IF j <= Len(a) THEN a[j] ELSE b[j - Len(a)]
    BY <1>8, <2>1
  <2>3. CASE j < i
    BY <1>1, <1>5, <1>6, <2>2, <2>3
  <2>4. CASE ~(j < i)
    <3>1. j - Len(a) \in 1 .. Len(s) - i /\ i + (j - Len(a)) = j + 1 /\ ~(j <= Len(a))
      BY <1>1, <1>5, <2>4
    <3>2. b[j - Len(a)] = s[i + (j - Len(a))]
      BY <1>7, <3>1
    <3> QED
      BY <2>2, <2>4, <3>1, <3>2
  <2> QED
    BY <2>3, <2>4
<1>10. Len(a \o b) = Len(s) - 1
  BY <1>1, <1>5, <1>8
<1>11. Without(s, i) = a \o b
  BY DEF Without, a, b
<1> QED
  BY <1>8, <1>9, <1>10, <1>11

\* The others stay, still without repetition.
LEMMA WithoutElements ==
  ASSUME NEW s \in Seq(Event), NEW i \in 1 .. Len(s),
         \A j, k \in 1 .. Len(s) : s[j] = s[k] => j = k
  PROVE  /\ Elements(Without(s, i)) = Elements(s) \ {s[i]}
         /\ \A j, k \in 1 .. Len(s) - 1 : Without(s, i)[j] = Without(s, i)[k] => j = k
<1>1. Len(s) \in Nat
  BY LenProperties
<1> DEFINE t == Without(s, i)
<1>2. /\ Len(t) = Len(s) - 1
      /\ \A j \in 1 .. Len(s) - 1 : t[j] = IF j < i THEN s[j] ELSE s[j + 1]
  BY WithoutIs
<1> HIDE DEF t
<1>3. ASSUME NEW j \in 1 .. Len(s) - 1
      PROVE  \E k \in 1 .. Len(s) : k # i /\ t[j] = s[k] /\ (j < i => k = j) /\ (j >= i => k = j + 1)
  <2>1. CASE j < i
    <3>1. j \in 1 .. Len(s) /\ j # i /\ t[j] = s[j] /\ ~(j >= i)
      BY <1>1, <1>2, <2>1
    <3> QED
      BY <3>1
  <2>2. CASE ~(j < i)
    <3>1. j + 1 \in 1 .. Len(s) /\ j + 1 # i /\ t[j] = s[j + 1]
      BY <1>1, <1>2, <2>2
    <3> QED
      BY <3>1, <2>2
  <2> QED
    BY <2>1, <2>2
<1>4. ASSUME NEW k \in 1 .. Len(s), k # i
      PROVE  s[k] \in Elements(t)
  <2>1. CASE k < i
    <3>1. k \in 1 .. Len(s) - 1 /\ t[k] = s[k]
      BY <1>1, <1>2, <2>1
    <3> QED
      BY <3>1, <1>2 DEF Elements
  <2>2. CASE ~(k < i)
    <3>1. k - 1 \in 1 .. Len(s) - 1 /\ ~(k - 1 < i) /\ (k - 1) + 1 = k
      BY <1>1, <1>4, <2>2
    <3>2. t[k - 1] = s[k]
      BY <1>2, <3>1
    <3> QED
      BY <3>1, <3>2, <1>2 DEF Elements
  <2> QED
    BY <2>1, <2>2
<1>5. Elements(t) = Elements(s) \ {s[i]}
  <2>1. ASSUME NEW x \in Elements(t) PROVE x \in Elements(s) \ {s[i]}
    <3>1. PICK j \in 1 .. Len(s) - 1 : x = t[j]
      BY <1>2 DEF Elements
    <3>2. PICK k \in 1 .. Len(s) : k # i /\ t[j] = s[k]
      BY <1>3
    <3> QED
      BY <3>1, <3>2 DEF Elements
  <2>2. ASSUME NEW x \in Elements(s), x # s[i] PROVE x \in Elements(t)
    BY <1>4, <2>2 DEF Elements
  <2> QED
    BY <2>1, <2>2
<1>6. ASSUME NEW j \in 1 .. Len(s) - 1, NEW k \in 1 .. Len(s) - 1, t[j] = t[k]
      PROVE  j = k
  <2>1. PICK m \in 1 .. Len(s) : t[j] = s[m] /\ (j < i => m = j) /\ (j >= i => m = j + 1)
    BY <1>3
  <2>2. PICK n \in 1 .. Len(s) : t[k] = s[n] /\ (k < i => n = k) /\ (k >= i => n = k + 1)
    BY <1>3
  <2>3. m = n
    BY <1>6, <2>1, <2>2
  <2> QED
    BY <1>1, <2>1, <2>2, <2>3
<1> QED
  BY <1>5, <1>6 DEF t

\* LL_DELETE2: the i-th element leaves the list.
LEMMA DeleteFromList ==
  ASSUME NEW next \in [Event -> Event \cup {nullptr}], NEW h, NEW s, IsList(next, h, s),
         NEW i \in 1 .. Len(s)
  PROVE  /\ h = s[i] <=> i = 1
         /\ i = 1 => IsList(next, next[s[i]], Without(s, i))
         /\ i # 1 => IsList([x \in Event |-> IF x \in Elements(s) /\ next[x] = s[i]
                                             THEN next[s[i]] ELSE next[x]], h, Without(s, i))
<1> DEFINE t == Without(s, i)
           n == [x \in Event |-> IF x \in Elements(s) /\ next[x] = s[i]
                                 THEN next[s[i]] ELSE next[x]]
<1>1. Len(s) \in Nat /\ s \in Seq(Event)
  BY ShortList DEF IsList
<1>2. \A j \in 1 .. Len(s) : s[j] \in Event /\ s[j] # nullptr /\ s[j] \in Elements(s)
  BY ElementOfSeq, TriggerSchedulerAssumption DEF IsList, Elements
<1>3. /\ t \in Seq(Event)
      /\ Len(t) = Len(s) - 1
      /\ \A j \in 1 .. Len(s) - 1 : t[j] = IF j < i THEN s[j] ELSE s[j + 1]
  BY <1>1, WithoutIs
<1>4. \A j, k \in 1 .. Len(t) : t[j] = t[k] => j = k
  BY <1>1, <1>3, WithoutElements DEF IsList
<1>5. h = s[1] /\ 1 \in 1 .. Len(s)
  BY <1>1 DEF IsList
<1>6. \A j, k \in 1 .. Len(s) : s[j] = s[k] => j = k
  BY DEF IsList
<1>7. \A j \in 1 .. Len(s) : next[s[j]] = IF j = Len(s) THEN nullptr ELSE s[j + 1]
  BY DEF IsList
<1>8. h = s[i] <=> i = 1
  BY <1>5, <1>6
<1> HIDE DEF t
<1>9. ASSUME i = 1 PROVE IsList(next, next[s[i]], t)
  <2>1. ASSUME NEW j \in 1 .. Len(t)
        PROVE  next[t[j]] = IF j = Len(t) THEN nullptr ELSE t[j + 1]
    <3>1. j + 1 \in 1 .. Len(s) /\ t[j] = s[j + 1] /\ (j + 1 = Len(s) <=> j = Len(t))
      BY <1>1, <1>3, <1>9
    <3>2. j # Len(t) => t[j + 1] = s[(j + 1) + 1]
      BY <1>1, <1>3, <1>9
    <3> QED
      BY <1>7, <3>1, <3>2
  <2>2. next[s[i]] = IF Len(t) = 0 THEN nullptr ELSE t[1]
    <3>1. next[s[1]] = IF 1 = Len(s) THEN nullptr ELSE s[1 + 1]
      BY <1>5, <1>7
    <3>2. Len(t) # 0 => t[1] = s[1 + 1]
      BY <1>1, <1>3, <1>9
    <3>3. Len(t) = 0 <=> Len(s) = 1
      BY <1>1, <1>3
    <3> QED
      BY <1>9, <3>1, <3>2, <3>3
  <2> QED
    BY <1>3, <1>4, <2>1, <2>2 DEF IsList
<1>10. ASSUME i # 1 PROVE IsList(n, h, t)
  <2>1. ASSUME NEW k \in 1 .. Len(s)
        PROVE  n[s[k]] = IF k + 1 = i THEN next[s[i]] ELSE next[s[k]]
    <3>1. n[s[k]] = IF next[s[k]] = s[i] THEN next[s[i]] ELSE next[s[k]]
      BY <1>2
    <3>2. next[s[k]] = s[i] <=> k + 1 = i
      <4>1. CASE k = Len(s)
        BY <1>1, <1>2, <1>7, <4>1
      <4>2. CASE k # Len(s)
        <5>1. k + 1 \in 1 .. Len(s) /\ next[s[k]] = s[k + 1]
          BY <1>1, <1>7, <4>2
        <5> QED
          BY <1>6, <5>1
      <4> QED
        BY <4>1, <4>2
    <3> QED
      BY <3>1, <3>2
  <2> HIDE DEF n
  <2>2. ASSUME NEW j \in 1 .. Len(t)
        PROVE  n[t[j]] = IF j = Len(t) THEN nullptr ELSE t[j + 1]
    <3>1. CASE j + 1 < i
      <4>1. j \in 1 .. Len(s) /\ t[j] = s[j] /\ j + 1 # i /\ j # Len(t) /\ j # Len(s)
            /\ t[j + 1] = s[j + 1]
        BY <1>1, <1>3, <3>1
      <4> QED
        BY <1>7, <2>1, <4>1
    <3>2. CASE j + 1 = i
      <4>1. j \in 1 .. Len(s) /\ t[j] = s[j] /\ (j = Len(t) <=> i = Len(s))
        BY <1>1, <1>3, <3>2
      <4>2. j # Len(t) => t[j + 1] = s[i + 1]
        BY <1>1, <1>3, <3>2
      <4> QED
        BY <1>7, <2>1, <3>2, <4>1, <4>2
    <3>3. CASE j >= i
      <4>1. j + 1 \in 1 .. Len(s) /\ t[j] = s[j + 1] /\ (j + 1) + 1 # i
            /\ (j + 1 = Len(s) <=> j = Len(t))
        BY <1>1, <1>3, <3>3
      <4>2. j # Len(t) => t[j + 1] = s[(j + 1) + 1]
        BY <1>1, <1>3, <3>3
      <4> QED
        BY <1>7, <2>1, <4>1, <4>2
    <3> QED
      BY <1>1, <1>3, <3>1, <3>2, <3>3
  <2>3. Len(t) # 0 /\ t[1] = s[1]
    BY <1>1, <1>3, <1>10
  <2> QED
    BY <1>3, <1>4, <1>5, <2>2, <2>3 DEF IsList
<1> QED
  BY <1>8, <1>9, <1>10 DEF t, n

\* The list of g goes behind the list of h.
LEMMA JoinLists ==
  ASSUME NEW next \in [Event -> Event \cup {nullptr}],
         NEW h, NEW s, IsList(next, h, s), s # <<>>,
         NEW g, NEW t, IsList(next, g, t),
         Elements(s) \cap Elements(t) = {}
  PROVE  IsList([next EXCEPT ![s[Len(s)]] = g], h, s \o t)
<1> DEFINE n == [next EXCEPT ![s[Len(s)]] = g]
           u == s \o t
<1>1. Len(s) \in Nat /\ s \in Seq(Event) /\ Len(t) \in Nat /\ t \in Seq(Event)
  BY ShortList DEF IsList
<1>2. Len(s) # 0
  BY <1>1, EmptySeq
<1>3. \A j \in 1 .. Len(s) : s[j] \in Event /\ s[j] \in Elements(s)
  BY <1>1, ElementOfSeq DEF Elements
<1>4. \A j \in 1 .. Len(t) : t[j] \in Event /\ t[j] \in Elements(t)
  BY <1>1, ElementOfSeq DEF Elements
<1>5. /\ u \in Seq(Event)
      /\ Len(u) = Len(s) + Len(t)
      /\ \A j \in 1 .. Len(s) + Len(t) : u[j] = IF j <= Len(s) THEN s[j] ELSE t[j - Len(s)]
  BY <1>1, ConcatProperties
<1>6. n[s[Len(s)]] = g /\ \A x \in Event : x # s[Len(s)] => n[x] = next[x]
  BY <1>1, <1>2, <1>3
<1> HIDE DEF n, u
<1>7. \A j \in 1 .. Len(s) : j \in 1 .. Len(u) /\ u[j] = s[j]
  BY <1>1, <1>5
<1>8. \A j \in Len(s) + 1 .. Len(u) : j - Len(s) \in 1 .. Len(t) /\ u[j] = t[j - Len(s)]
  BY <1>1, <1>5
<1>9. ASSUME NEW j \in 1 .. Len(u), NEW k \in 1 .. Len(u), u[j] = u[k]
      PROVE  j = k
  <2>1. CASE j \in 1 .. Len(s) /\ k \in 1 .. Len(s)
    BY <1>7, <1>9, <2>1 DEF IsList
  <2>2. CASE j \in Len(s) + 1 .. Len(u) /\ k \in Len(s) + 1 .. Len(u)
    <3>1. j - Len(s) = k - Len(s)
      <4>1. j - Len(s) \in 1 .. Len(t) /\ k - Len(s) \in 1 .. Len(t)
        BY <1>8, <2>2
      <4>2. t[j - Len(s)] = t[k - Len(s)]
        BY <1>8, <1>9, <2>2
      <4>3. \A p, q \in 1 .. Len(t) : t[p] = t[q] => p = q
        BY DEF IsList
      <4> QED
        BY <4>1, <4>2, <4>3
    <3> QED
      BY <1>1, <3>1
  <2>3. CASE j \in 1 .. Len(s) /\ k \in Len(s) + 1 .. Len(u)
    BY <1>3, <1>4, <1>7, <1>8, <1>9, <2>3
  <2>4. CASE k \in 1 .. Len(s) /\ j \in Len(s) + 1 .. Len(u)
    BY <1>3, <1>4, <1>7, <1>8, <1>9, <2>4
  <2>5. (j \in 1 .. Len(s) \/ j \in Len(s) + 1 .. Len(u))
        /\ (k \in 1 .. Len(s) \/ k \in Len(s) + 1 .. Len(u))
    BY <1>1
  <2> QED
    BY <2>1, <2>2, <2>3, <2>4, <2>5
<1>10. ASSUME NEW j \in 1 .. Len(u)
       PROVE  n[u[j]] = IF j = Len(u) THEN nullptr ELSE u[j + 1]
  <2>1. CASE j < Len(s)
    <3>1. j \in 1 .. Len(s) /\ j + 1 \in 1 .. Len(s) /\ Len(s) \in 1 .. Len(s)
          /\ j # Len(s) /\ j # Len(u)
      BY <1>1, <1>2, <1>5, <2>1
    <3>2. u[j] = s[j] /\ u[j + 1] = s[j + 1]
      BY <1>7, <3>1
    <3>3. s[j] # s[Len(s)] /\ next[s[j]] = s[j + 1]
      BY <3>1 DEF IsList
    <3> QED
      BY <1>3, <1>6, <3>1, <3>2, <3>3
  <2>2. CASE j = Len(s)
    <3>1. n[u[j]] = g
      BY <1>1, <1>2, <1>6, <1>7, <2>2
    <3>2. g = IF Len(t) = 0 THEN nullptr ELSE t[1]
      BY DEF IsList
    <3>3. Len(t) = 0 <=> j = Len(u)
      BY <1>1, <1>5, <2>2
    <3>4. Len(t) # 0 => u[j + 1] = t[1]
      BY <1>1, <1>5, <1>8, <2>2
    <3> QED
      BY <3>1, <3>2, <3>3, <3>4
  <2>3. CASE j > Len(s)
    <3> DEFINE m == j - Len(s)
    <3>1. m \in 1 .. Len(t) /\ u[j] = t[m] /\ (m = Len(t) <=> j = Len(u))
      BY <1>1, <1>5, <1>8, <2>3
    <3>2. ASSUME j # Len(u) PROVE u[j + 1] = t[m + 1]
      <4>0. Len(u) \in Nat
        BY <1>1, <1>5
      <4>1. j + 1 \in Len(s) + 1 .. Len(u)
        BY <1>1, <4>0, <2>3, <3>2
      <4>2. u[j + 1] = t[(j + 1) - Len(s)]
        BY <1>8, <4>1
      <4>3. (j + 1) - Len(s) = m + 1
        BY <1>1, <4>1
      <4> QED
        BY <4>2, <4>3
    <3> HIDE DEF m
    <3>3. next[t[m]] = IF m = Len(t) THEN nullptr ELSE t[m + 1]
      BY <3>1 DEF IsList
    <3>4. t[m] \in Event /\ t[m] # s[Len(s)]
      BY <1>1, <1>2, <1>3, <1>4, <3>1
    <3> QED
      BY <1>6, <3>1, <3>2, <3>3, <3>4
  <2> QED
    BY <1>1, <1>5, <2>1, <2>2, <2>3
<1>11. h = u[1] /\ Len(u) # 0
  BY <1>1, <1>2, <1>5, <1>7 DEF IsList
<1>12. IsList(n, h, u)
  BY <1>5, <1>9, <1>10, <1>11 DEF IsList
<1> QED
  BY <1>12 DEF n, u

-------------------------------------------------------------------------------
\* The element that LL_DELETE2 changes is the predecessor in the sequence.
LEMMA PrecedesInList ==
  ASSUME NEW h, NEW s, IsList(nextToothEvent, h, s), NEW i \in 1 .. Len(s), NEW x \in Event
  PROVE  Precedes(h, x, s[i]) <=> x \in Elements(s) /\ nextToothEvent[x] = s[i]
<1>1. Len(s) <= MaxLength /\ Len(s) \in Nat /\ MaxLength \in Nat
  BY ShortList, MaxLengthNat
<1>2. \A j \in 1 .. Len(s) : s[j] \in Event /\ s[j] # nullptr
  BY ElementOfSeq, TriggerSchedulerAssumption DEF IsList
<1> DEFINE N == Nth(h)
<1>3. \A n \in 0 .. MaxLength : N[n] = IF n < Len(s) THEN s[n + 1] ELSE nullptr
  BY NthOfList DEF Nth, NthOf
<1> HIDE DEF N
<1>4. ASSUME NEW n \in 0 .. (MaxLength - 1), N[n] = x, x # nullptr
      PROVE  x \in Elements(s)
  <2>1. n < Len(s) /\ n + 1 \in 1 .. Len(s) /\ x = s[n + 1]
    BY <1>1, <1>3, <1>4
  <2> QED
    BY <2>1 DEF Elements
<1>5. ASSUME x \in Elements(s), nextToothEvent[x] = s[i]
      PROVE  \E n \in 0 .. (MaxLength - 1) :
               /\ N[n] = x /\ x # nullptr /\ nextToothEvent[x] = s[i]
               /\ \A j \in 0 .. n : N[j] # s[i]
  <2>1. PICK m \in 1 .. Len(s) : x = s[m]
    BY <1>5 DEF Elements
  <2>2. nextToothEvent[s[m]] = IF m = Len(s) THEN nullptr ELSE s[m + 1]
    BY DEF IsList
  <2>3. m # Len(s) /\ m + 1 \in 1 .. Len(s) /\ s[m + 1] = s[i]
    BY <1>1, <1>2, <1>5, <2>1, <2>2
  <2>4. m + 1 = i
    BY <2>3 DEF IsList
  <2>5. m - 1 \in 0 .. (MaxLength - 1) /\ N[m - 1] = s[m]
    BY <1>1, <1>3, <2>3
  <2>6. ASSUME NEW j \in 0 .. (m - 1) PROVE N[j] # s[i]
    <3>1. j \in 0 .. MaxLength /\ j < Len(s) /\ j + 1 \in 1 .. Len(s) /\ j + 1 # i
      BY <1>1, <2>3, <2>4
    <3>2. N[j] = s[j + 1] /\ s[j + 1] # s[i]
      BY <1>3, <3>1 DEF IsList
    <3> QED
      BY <3>2
  <2> QED
    BY <1>2, <1>5, <2>1, <2>5, <2>6
<1> QED
  BY <1>4, <1>5 DEF Precedes, N

-------------------------------------------------------------------------------
\* Where the chains are, as long as none has been started twice: in one place
\* at most, and in none unless it counts as running.
ChainsApart(a, k) ==
  \A e \in ChainClient :
    /\ e \in timed => e \notin Elements(a) /\ e \notin Elements(k)
    /\ e \in timed \/ e \in Elements(a) \/ e \in Elements(k) => e \in m_running

\* The attached list is a, the list of the walk is k; the first i elements
\* of k have been visited and kept.
WalkInv(a, k, i) ==
  /\ relinked = FALSE
  /\ IsList(nextToothEvent, m_angleBasedEventsHead, a)
  /\ IsList(nextToothEvent, keephead, k)
  /\ Elements(a) \cap Elements(k) = {}
  /\ ~raced => ChainsApart(a, k)
  /\ pc \in {"idle", "entered", "clients"} => k = <<>>
  /\ i \in 0 .. Len(k)
  /\ \A j \in 1 .. i : eventPhase[k[j]] # tooth
  /\ pc \in {"walk", "inline"} => keeptail = IF i = 0 THEN nullptr ELSE k[i]
  /\ pc = "walk" => current = IF i = Len(k) THEN nullptr ELSE k[i + 1]
  /\ pc = "inline" => tmp = IF i = Len(k) THEN nullptr ELSE k[i + 1]

\* The inductive invariant.
SchedulerInv ==
  /\ TypeOK
  /\ relinked => raced
  /\ ~relinked => \E a, k \in Seq(Event), i \in Nat : WalkInv(a, k, i)

-------------------------------------------------------------------------------
\* Every step keeps the types, in whatever state the lists are.
LEMMA ScheduleTypes ==
  ASSUME TypeOK, NEW e \in Event, NEW p \in Tooth, Schedule(e, p)
  PROVE  /\ nextToothEvent' \in [Event -> Event \cup {nullptr}]
         /\ m_angleBasedEventsHead' \in Event \cup {nullptr}
         /\ eventPhase' \in [Event -> Tooth]
         /\ relinked' \in BOOLEAN
         /\ relinked => relinked'
<1>1. eventPhase' \in [Event -> Tooth]
  BY DEF Schedule, TypeOK
<1>2. relinked' \in BOOLEAN /\ (relinked => relinked')
  <2>1. relinked \in BOOLEAN
    BY DEF TypeOK
  <2>2. CASE UNCHANGED relinked
    BY <2>1, <2>2
  <2>3. CASE relinked' = (relinked \/ e \in Members(keephead))
    BY <2>1, <2>3, Zenon
  <2> QED
    BY <2>2, <2>3 DEF Schedule
<1>3. CASE UNCHANGED <<m_angleBasedEventsHead, nextToothEvent>>
  BY <1>1, <1>2, <1>3 DEF TypeOK
<1>4. CASE LL_APPEND2(m_angleBasedEventsHead, e)
  BY <1>1, <1>2, <1>4 DEF TypeOK, LL_APPEND2
<1> QED
  BY <1>3, <1>4 DEF Schedule

\* So does the next cycle of a chain.
LEMMA NextCycleTypes ==
  ASSUME TypeOK, NEW e \in ChainClient, NEW running \in SUBSET ChainClient,
         ScheduleNextCycle(e, running)
  PROVE  /\ nextToothEvent' \in [Event -> Event \cup {nullptr}]
         /\ m_angleBasedEventsHead' \in Event \cup {nullptr}
         /\ eventPhase' \in [Event -> Tooth]
         /\ relinked' \in BOOLEAN
         /\ m_running' \subseteq ChainClient
         /\ relinked => relinked'
<1>1. e \in Event
  BY DEF Event
<1>2. CASE m_running' = running \ {e} /\ UNCHANGED <<listVars, relinked>>
  BY <1>2 DEF TypeOK, listVars
<1>3. CASE m_running' = running /\ \E p \in Phases[e] : Schedule(e, p)
  <2>1. PICK p \in Phases[e] : Schedule(e, p)
    BY <1>3
  <2>2. p \in Tooth
    BY <1>1, <2>1, TriggerSchedulerAssumption
  <2> QED
    BY <1>1, <1>3, <2>1, <2>2, ScheduleTypes
<1> QED
  BY <1>2, <1>3 DEF ScheduleNextCycle

\* All steps; what is lost stays lost.
LEMMA StepTypes ==
  ASSUME TypeOK, [Next]_vars
  PROVE  TypeOK' /\ (relinked => relinked') /\ (raced => raced')
<1>1. CASE OnEnginePhase \/ ToothWithoutSpeed
  <2>1. tooth' \in Tooth
    BY <1>1, TriggerSchedulerAssumption DEF TypeOK, OnEnginePhase, ToothWithoutSpeed, Tooth
  <2>2. CASE OnEnginePhase
    BY <2>1, <2>2 DEF TypeOK, OnEnginePhase, chainVars
  <2>3. CASE ToothWithoutSpeed
    BY <2>1, <2>3 DEF TypeOK, ToothWithoutSpeed, chainVars, listVars, walkVars
  <2> QED
    BY <1>1, <2>2, <2>3
<1>2. CASE VisitDue
  <2>1. current \in Event
    BY <1>2 DEF TypeOK, VisitDue
  <2>2. nextToothEvent' \in [Event -> Event \cup {nullptr}] /\ keephead' \in Event \cup {nullptr}
    <3>1. LL_DELETE2(keephead, current)
      BY <1>2 DEF VisitDue
    <3> QED
      BY <2>1, <3>1 DEF LL_DELETE2, TypeOK
  <2>3. nextToothEvent[current] \in Event \cup {nullptr} /\ timed \cup {current} \subseteq Event
    BY <2>1 DEF TypeOK
  <2> QED
    BY <1>2, <2>2, <2>3 DEF TypeOK, VisitDue, chainVars
<1>3. CASE ScheduleReturns
  BY <1>3 DEF TypeOK, ScheduleReturns, listVars, chainVars
<1>4. CASE VisitNotDue
  <2>1. nextToothEvent[current] \in Event \cup {nullptr}
    BY <1>4 DEF TypeOK, VisitNotDue
  <2> QED
    BY <1>4, <2>1 DEF TypeOK, VisitNotDue, listVars, chainVars
<1>5. CASE WalkEnds
  <2>1. nextToothEvent' \in [Event -> Event \cup {nullptr}]
        /\ m_angleBasedEventsHead' \in Event \cup {nullptr}
    BY <1>5 DEF TypeOK, WalkEnds, Reattach
  <2> QED
    BY <1>5, <2>1 DEF TypeOK, WalkEnds, chainVars
<1>6. CASE HandlerReturns
  BY <1>6 DEF TypeOK, HandlerReturns, listVars, chainVars, walkVars
<1>7. ASSUME NEW e \in ToothClient, NEW p \in Tooth, ScheduleOrQueue(e, p)
      PROVE  TypeOK' /\ (relinked => relinked') /\ (raced => raced')
  <2>1. e \in Event /\ timed' \subseteq Event
    BY <1>7 DEF TypeOK, Event, ScheduleOrQueue
  <2>2. CASE Schedule(e, p)
    BY <1>7, <2>1, <2>2, ScheduleTypes DEF TypeOK, ScheduleOrQueue, chainVars, walkVars
  <2>3. CASE eventPhase' = [eventPhase EXCEPT ![e] = p]
             /\ UNCHANGED <<m_angleBasedEventsHead, nextToothEvent, relinked>>
    BY <1>7, <2>1, <2>3 DEF TypeOK, ScheduleOrQueue, chainVars, walkVars
  <2> QED
    BY <1>7, <2>2, <2>3 DEF ScheduleOrQueue
<1>8. ASSUME NEW e \in Event, RunCallback(e)
      PROVE  TypeOK' /\ (relinked => relinked') /\ (raced => raced')
  <2>1. CASE e \in ToothClient /\ UNCHANGED <<listVars, relinked, m_running>>
    BY <1>8, <2>1 DEF TypeOK, RunCallback, listVars, walkVars
  <2>2. CASE e \in ChainClient /\ ScheduleNextCycle(e, m_running)
    <3>1. m_running \in SUBSET ChainClient
      BY DEF TypeOK
    <3> QED
      BY <1>8, <2>2, <3>1, NextCycleTypes DEF TypeOK, RunCallback, walkVars
  <2> QED
    BY <1>8, <2>1, <2>2 DEF RunCallback
<1>9. ASSUME NEW e \in ChainClient, TestRunning(e) \/ StartChain(e) \/ StartInInterrupt(e)
      PROVE  TypeOK' /\ (relinked => relinked') /\ (raced => raced')
  <2>1. m_running \cup {e} \in SUBSET ChainClient
    BY DEF TypeOK
  <2>2. CASE TestRunning(e)
    BY <2>2 DEF TypeOK, TestRunning, listVars, walkVars
  <2>3. CASE StartChain(e)
    <3>1. ScheduleNextCycle(e, m_running \cup {e}) /\ raced' \in BOOLEAN /\ (raced => raced')
      BY <2>3 DEF StartChain, TypeOK
    <3> QED
      BY <2>1, <2>3, <3>1, NextCycleTypes DEF TypeOK, StartChain, walkVars
  <2>4. CASE StartInInterrupt(e)
    <3>1. ScheduleNextCycle(e, m_running \cup {e})
      BY <2>4 DEF StartInInterrupt
    <3> QED
      BY <2>1, <2>4, <3>1, NextCycleTypes DEF TypeOK, StartInInterrupt, walkVars
  <2> QED
    BY <1>9, <2>2, <2>3, <2>4
<1>10. CASE SpeedChanges
  BY <1>10 DEF TypeOK, SpeedChanges, listVars, chainVars, walkVars
<1>11. CASE UNCHANGED vars
  BY <1>11 DEF TypeOK, vars, listVars, chainVars, walkVars
<1> QED
  BY <1>1, <1>2, <1>3, <1>4, <1>5, <1>6, <1>7, <1>8, <1>9, <1>10, <1>11 DEF Next, Handler

\* Append adds its element and no other.
LEMMA AppendElements ==
  ASSUME NEW s \in Seq(Event), NEW e \in Event
  PROVE  Append(s, e) \in Seq(Event) /\ Elements(Append(s, e)) = Elements(s) \cup {e}
<1> DEFINE t == Append(s, e)
<1>1. Len(s) \in Nat /\ t \in Seq(Event) /\ Len(t) = Len(s) + 1
      /\ (\A i \in 1 .. Len(s) : t[i] = s[i]) /\ t[Len(s) + 1] = e
  BY LenProperties, AppendProperties
<1> HIDE DEF t
<1>2. ASSUME NEW x \in Elements(t) PROVE x \in Elements(s) \cup {e}
  <2>1. PICK i \in 1 .. Len(s) + 1 : x = t[i]
    BY <1>1 DEF Elements
  <2>2. i \in 1 .. Len(s) \/ i = Len(s) + 1
    BY <1>1
  <2> QED
    BY <1>1, <2>1, <2>2 DEF Elements
<1>3. ASSUME NEW i \in 1 .. Len(s) PROVE s[i] \in Elements(t)
  <2>1. i \in 1 .. Len(t)
    BY <1>1
  <2> QED
    BY <1>1, <2>1 DEF Elements
<1>4. e \in Elements(t)
  <2>1. Len(s) + 1 \in 1 .. Len(t)
    BY <1>1
  <2> QED
    BY <1>1, <2>1 DEF Elements
<1>5. Elements(t) = Elements(s) \cup {e}
  BY <1>2, <1>3, <1>4 DEF Elements
<1> QED
  BY <1>1, <1>5 DEF t

\* schedule(): the event joins the attached list unless it waits there.
Joined(s, e) == IF e \in Elements(s) THEN s ELSE Append(s, e)

\* An event that is not being walked is not relinked.
LEMMA NotRelinked ==
  ASSUME NEW a, NEW k, NEW i, WalkInv(a, k, i),
         NEW e, NEW p, Schedule(e, p), e \notin Elements(k)
  PROVE  relinked' = FALSE
<1>1. relinked = FALSE /\ e \notin Members(keephead)
  <2>1. Members(keephead) = MembersOf(nextToothEvent, keephead)
    BY DEF Members, MembersOf, Nth, NthOf
  <2>2. IsList(nextToothEvent, keephead, k)
    BY DEF WalkInv
  <2>3. MembersOf(nextToothEvent, keephead) = Elements(k)
    BY <2>2, ListIs
  <2> QED
    BY <2>1, <2>3 DEF WalkInv
<1>2. CASE UNCHANGED relinked
  BY <1>1, <1>2
<1>3. CASE relinked' = (relinked \/ e \in Members(keephead))
  BY <1>1, <1>3, Zenon
<1> QED
  BY <1>2, <1>3 DEF Schedule

\* Its effect on both lists, for an event that is not being walked.
LEMMA ScheduleStep ==
  ASSUME TypeOK, NEW a \in Seq(Event), NEW k \in Seq(Event), NEW i \in Nat, WalkInv(a, k, i),
         NEW e \in Event, NEW p \in Tooth, Schedule(e, p), e \notin Elements(k)
  PROVE  /\ Joined(a, e) \in Seq(Event)
         /\ IsList(nextToothEvent', m_angleBasedEventsHead', Joined(a, e))
         /\ IsList(nextToothEvent', keephead, k)
         /\ Elements(Joined(a, e)) = Elements(a) \cup {e}
         /\ nextToothEvent' \in [Event -> Event \cup {nullptr}]
         /\ m_angleBasedEventsHead' \in Event \cup {nullptr}
         /\ eventPhase' = [eventPhase EXCEPT ![e] = p]
         /\ eventPhase' \in [Event -> Tooth]
<1>1. /\ IsList(nextToothEvent, m_angleBasedEventsHead, a)
      /\ IsList(nextToothEvent, keephead, k)
      /\ Elements(a) \cap Elements(k) = {}
  BY DEF WalkInv
<1>2. Members(m_angleBasedEventsHead) = Elements(a)
  <2>1. Members(m_angleBasedEventsHead) = MembersOf(nextToothEvent, m_angleBasedEventsHead)
    BY DEF Members, MembersOf, Nth, NthOf
  <2> QED
    BY <1>1, <2>1, ListIs
<1>3. eventPhase' = [eventPhase EXCEPT ![e] = p] /\ eventPhase' \in [Event -> Tooth]
  BY DEF Schedule, TypeOK
<1>4. nextToothEvent \in [Event -> Event \cup {nullptr}]
      /\ m_angleBasedEventsHead \in Event \cup {nullptr}
  BY DEF TypeOK
<1>5. Append(a, e) \in Seq(Event) /\ Elements(Append(a, e)) = Elements(a) \cup {e}
  BY AppendElements
<1>6. CASE e \in Elements(a)
  <2>1. UNCHANGED <<m_angleBasedEventsHead, nextToothEvent>>
    BY <1>2, <1>6 DEF Schedule, assertNotInList
  <2>2. Joined(a, e) = a
    BY <1>6 DEF Joined
  <2> QED
    BY <1>1, <1>3, <1>4, <1>6, <2>1, <2>2
<1>7. CASE e \notin Elements(a)
  <2>1. LL_APPEND2(m_angleBasedEventsHead, e)
    BY <1>2, <1>7 DEF Schedule, assertNotInList
  <2>2. Joined(a, e) = Append(a, e)
    BY <1>7 DEF Joined
  <2>3. CASE m_angleBasedEventsHead = nullptr
    <3>1. m_angleBasedEventsHead' = e /\ nextToothEvent' = [nextToothEvent EXCEPT ![e] = nullptr]
      BY <2>1, <2>3 DEF LL_APPEND2
    <3>2. IsList(nextToothEvent', e, Append(a, e))
      BY <1>1, <1>4, <1>7, <2>3, <3>1, AppendToList
    <3>3. \A x \in Elements(k) : nextToothEvent'[x] = nextToothEvent[x]
      <4>1. Elements(k) \subseteq Event
        BY ElementOfSeq DEF Elements
      <4> QED
        BY <1>4, <3>1, <4>1
    <3>4. IsList(nextToothEvent', keephead, k)
      BY <1>1, <3>3, ListKept
    <3>5. nextToothEvent' \in [Event -> Event \cup {nullptr}]
      BY <1>4, <3>1
    <3>6. IsList(nextToothEvent', m_angleBasedEventsHead', Append(a, e))
      BY <3>1, <3>2
    <3>7. m_angleBasedEventsHead' \in Event \cup {nullptr}
      BY <3>1
    <3> QED
      BY <1>3, <1>5, <2>2, <3>4, <3>5, <3>6, <3>7
  <2>4. CASE m_angleBasedEventsHead # nullptr
    <3>1. LastOf(m_angleBasedEventsHead) = a[Len(a)]
      <4>1. LastOf(m_angleBasedEventsHead)
              = CHOOSE x \in MembersOf(nextToothEvent, m_angleBasedEventsHead) :
                  nextToothEvent[x] = nullptr
        BY DEF LastOf, Members, MembersOf, Nth, NthOf
      <4> QED
        BY <1>1, <2>4, <4>1, LastOfList
    <3>2. m_angleBasedEventsHead' = m_angleBasedEventsHead
          /\ nextToothEvent' = [nextToothEvent EXCEPT ![e] = nullptr, ![a[Len(a)]] = e]
      BY <2>1, <2>4, <3>1 DEF LL_APPEND2
    <3>3. IsList(nextToothEvent', m_angleBasedEventsHead, Append(a, e)) /\ a # <<>>
      <4>1. /\ a # <<>>
            /\ IsList(Linked(nextToothEvent, a, e), m_angleBasedEventsHead, Append(a, e))
        BY <1>1, <1>4, <1>7, <2>4, AppendToList
      <4>2. nextToothEvent' = Linked(nextToothEvent, a, e)
        BY <3>2 DEF Linked
      <4> QED
        BY <4>1, <4>2
    <3>4. a[Len(a)] \in Elements(a)
      <4>1. Len(a) \in 1 .. Len(a)
        BY <3>3, EmptySeq
      <4> QED
        BY <4>1 DEF Elements
    <3>5. \A x \in Elements(k) : nextToothEvent'[x] = nextToothEvent[x]
      <4>1. Elements(k) \subseteq Event
        BY ElementOfSeq DEF Elements
      <4>2. \A x \in Elements(k) : x # e /\ x # a[Len(a)]
        BY <1>1, <3>4
      <4> QED
        BY <1>4, <3>2, <4>1, <4>2
    <3>6. IsList(nextToothEvent', keephead, k)
      BY <1>1, <3>5, ListKept
    <3> QED
      BY <1>3, <1>4, <1>5, <2>2, <3>2, <3>3, <3>6
  <2> QED
    BY <2>3, <2>4
<1> QED
  BY <1>6, <1>7

\* The elements of two sequences in a row.
LEMMA ConcatElements ==
  ASSUME NEW s \in Seq(Event), NEW t \in Seq(Event)
  PROVE  /\ s \o t \in Seq(Event)
         /\ Elements(s \o t) = Elements(s) \cup Elements(t)
<1> DEFINE u == s \o t
<1>1. /\ Len(s) \in Nat /\ Len(t) \in Nat
      /\ u \in Seq(Event) /\ Len(u) = Len(s) + Len(t)
      /\ \A j \in 1 .. Len(s) + Len(t) : u[j] = IF j <= Len(s) THEN s[j] ELSE t[j - Len(s)]
  BY LenProperties, ConcatProperties
<1> HIDE DEF u
<1>2. ASSUME NEW j \in 1 .. Len(u) PROVE u[j] \in Elements(s) \cup Elements(t)
  <2>1. CASE j <= Len(s)
    <3>1. j \in 1 .. Len(s) /\ u[j] = s[j]
      BY <1>1, <2>1
    <3> QED
      BY <3>1 DEF Elements
  <2>2. CASE ~(j <= Len(s))
    <3>1. j - Len(s) \in 1 .. Len(t) /\ u[j] = t[j - Len(s)]
      BY <1>1, <2>2
    <3> QED
      BY <3>1 DEF Elements
  <2> QED
    BY <2>1, <2>2
<1>3. ASSUME NEW j \in 1 .. Len(s) PROVE s[j] \in Elements(u)
  <2>1. j \in 1 .. Len(u) /\ u[j] = s[j]
    BY <1>1
  <2> QED
    BY <2>1 DEF Elements
<1>4. ASSUME NEW j \in 1 .. Len(t) PROVE t[j] \in Elements(u)
  <2>1. Len(s) + j \in 1 .. Len(u) /\ ~(Len(s) + j <= Len(s)) /\ (Len(s) + j) - Len(s) = j
    BY <1>1
  <2>2. u[Len(s) + j] = t[j]
    BY <1>1, <2>1
  <2> QED
    BY <2>1, <2>2 DEF Elements
<1>5. Elements(u) = Elements(s) \cup Elements(t)
  BY <1>2, <1>3, <1>4 DEF Elements
<1> QED
  BY <1>1, <1>5 DEF u

\* To join the attached list is to join the queue.
LEMMA JoinedConcat ==
  ASSUME NEW k \in Seq(Event), NEW a \in Seq(Event), NEW e \in Event, e \notin Elements(k)
  PROVE  k \o Joined(a, e) = Joined(k \o a, e)
<1>1. k \o a \in Seq(Event) /\ Elements(k \o a) = Elements(k) \cup Elements(a)
  BY ConcatElements
<1>2. CASE e \in Elements(a)
  BY <1>1, <1>2 DEF Joined
<1>3. CASE e \notin Elements(a)
  <2>1. <<e>> \in Seq(Event)
    OBVIOUS
  <2>2. Append(a, e) = a \o <<e>> /\ Append(k \o a, e) = (k \o a) \o <<e>>
    BY <1>1, AppendIsConcat
  <2>3. (k \o a) \o <<e>> = k \o (a \o <<e>>)
    BY <2>1, ConcatAssociative
  <2>4. Joined(a, e) = Append(a, e) /\ Joined(k \o a, e) = Append(k \o a, e)
    BY <1>1, <1>3 DEF Joined
  <2> QED
    BY <2>2, <2>3, <2>4
<1> QED
  BY <1>2, <1>3

\* What a step does to the queue that the two lists hold together.
QueueStep(w, v) ==
  \/ v = w /\ UNCHANGED eventPhase /\ tooth' \in Tooth
  \/ \E e \in Event, p \in Tooth :
       v = Joined(w, e) /\ eventPhase' = [eventPhase EXCEPT ![e] = p] /\ UNCHANGED tooth
  \/ \E e \in Event :
       v = w /\ eventPhase' = [eventPhase EXCEPT ![e] = tooth] /\ UNCHANGED tooth
  \/ \E n \in 1 .. Len(w) :
       v = Without(w, n) /\ eventPhase[w[n]] = tooth /\ UNCHANGED <<eventPhase, tooth>>

\* The step asks again for an event that is being walked.
Relinks(k) ==
  /\ relinked' = TRUE
  /\ raced'
  /\ \E e \in Elements(k), p \in Tooth : eventPhase' = [eventPhase EXCEPT ![e] = p]
  /\ UNCHANGED tooth

\* The lists are as they should be after the step, and the step is one of the
\* queue; or the step breaks the condition that the queue is promised under.
Kept(a, k) ==
  \/ \E b, m \in Seq(Event), j \in Nat : WalkInv(b, m, j)' /\ QueueStep(k \o a, m \o b)
  \/ Relinks(k)

\* A request may come from an interrupt that has just been entered.
SameWalk ==
  /\ UNCHANGED <<tooth, walkVars>>
  /\ pc' = pc \/ (pc = "idle" /\ pc' = "entered")

\* An event is put into the queue, or a node that is being walked is relinked.
LEMMA ScheduleKeeps ==
  ASSUME TypeOK, NEW a \in Seq(Event), NEW k \in Seq(Event), NEW i \in Nat, WalkInv(a, k, i),
         NEW e \in Event, NEW p \in Tooth, Schedule(e, p), SameWalk,
         e \in Elements(k) => raced',
         ~raced' => ~raced /\ (ChainsApart(a, k) => ChainsApart(Joined(a, e), k)')
  PROVE  Kept(a, k)
<1>1. CASE e \in Elements(k)
  <2>1. Members(keephead) = Elements(k) /\ Members(m_angleBasedEventsHead) = Elements(a)
    <3>1. /\ Members(keephead) = MembersOf(nextToothEvent, keephead)
          /\ Members(m_angleBasedEventsHead) = MembersOf(nextToothEvent, m_angleBasedEventsHead)
      BY DEF Members, MembersOf, Nth, NthOf
    <3>2. /\ IsList(nextToothEvent, keephead, k)
          /\ IsList(nextToothEvent, m_angleBasedEventsHead, a)
      BY DEF WalkInv
    <3> QED
      BY <3>1, <3>2, ListIs
  <2>2. ~assertNotInList(e)
    BY <1>1, <2>1 DEF assertNotInList, WalkInv
  <2>3. relinked' = (relinked \/ e \in Members(keephead))
    BY <2>2 DEF Schedule
  <2>4. relinked' = TRUE
    BY <1>1, <2>1, <2>3, Zenon
  <2>5. eventPhase' = [eventPhase EXCEPT ![e] = p] /\ UNCHANGED tooth
    BY DEF Schedule, SameWalk
  <2> QED
    BY <1>1, <2>4, <2>5 DEF Kept, Relinks
<1>2. CASE e \notin Elements(k)
  <2>1. /\ Joined(a, e) \in Seq(Event)
        /\ IsList(nextToothEvent', m_angleBasedEventsHead', Joined(a, e))
        /\ IsList(nextToothEvent', keephead, k)
        /\ Elements(Joined(a, e)) = Elements(a) \cup {e}
        /\ eventPhase' = [eventPhase EXCEPT ![e] = p]
    BY <1>2, ScheduleStep
  <2>0. relinked' = FALSE
    BY <1>2, NotRelinked
  <2>2. \A j \in 1 .. i : eventPhase'[k[j]] # tooth'
    <3>1. ASSUME NEW j \in 1 .. i PROVE eventPhase'[k[j]] # tooth'
      <4>1. j \in 1 .. Len(k) /\ eventPhase[k[j]] # tooth
        BY DEF WalkInv
      <4>2. k[j] # e /\ k[j] \in Event
        BY <1>2, <4>1, ElementOfSeq DEF Elements
      <4>3. eventPhase \in [Event -> Tooth] /\ tooth' = tooth
        BY DEF TypeOK, SameWalk
      <4> QED
        BY <2>1, <4>1, <4>2, <4>3
    <3> QED
      BY <3>1
  <2>3. WalkInv(Joined(a, e), k, i)'
    <3>1. Elements(Joined(a, e)) \cap Elements(k) = {}
      BY <1>2, <2>1 DEF WalkInv
    <3>2. ~raced' => ChainsApart(Joined(a, e), k)'
      BY DEF WalkInv
    <3>3. /\ pc' \in {"idle", "entered", "clients"} => k = <<>>
          /\ i \in 0 .. Len(k)
          /\ pc' \in {"walk", "inline"} => keeptail' = IF i = 0 THEN nullptr ELSE k[i]
          /\ pc' = "walk" => current' = IF i = Len(k) THEN nullptr ELSE k[i + 1]
          /\ pc' = "inline" => tmp' = IF i = Len(k) THEN nullptr ELSE k[i + 1]
          /\ keephead' = keephead
      BY DEF WalkInv, SameWalk, walkVars
    <3> QED
      BY <2>0, <2>1, <2>2, <3>1, <3>2, <3>3 DEF WalkInv
  <2>4. QueueStep(k \o a, k \o Joined(a, e))
    <3>1. k \o Joined(a, e) = Joined(k \o a, e)
      BY <1>2, JoinedConcat
    <3>2. eventPhase' = [eventPhase EXCEPT ![e] = p] /\ UNCHANGED tooth
      BY <2>1 DEF SameWalk
    <3> QED
      BY <3>1, <3>2, Zenon DEF QueueStep
  <2> QED
    BY <2>1, <2>3, <2>4 DEF Kept
<1> QED
  BY <1>1, <1>2

\* A step that leaves the lists and the walk alone.
LEMMA NothingKeeps ==
  ASSUME TypeOK, NEW a \in Seq(Event), NEW k \in Seq(Event), NEW i \in Nat, WalkInv(a, k, i),
         UNCHANGED <<listVars, relinked>>, SameWalk,
         ~raced' => ~raced /\ (ChainsApart(a, k) => ChainsApart(a, k)')
  PROVE  Kept(a, k)
<1>1. WalkInv(a, k, i)'
  <2>1. ~raced' => ChainsApart(a, k)'
    BY DEF WalkInv
  <2>2. /\ pc' \in {"idle", "entered", "clients"} => k = <<>>
        /\ pc' \in {"walk", "inline"} => keeptail' = IF i = 0 THEN nullptr ELSE k[i]
        /\ pc' = "walk" => current' = IF i = Len(k) THEN nullptr ELSE k[i + 1]
        /\ pc' = "inline" => tmp' = IF i = Len(k) THEN nullptr ELSE k[i + 1]
        /\ keephead' = keephead /\ tooth' = tooth
    BY DEF WalkInv, SameWalk, walkVars
  <2> QED
    BY <2>1, <2>2 DEF WalkInv, listVars
<1>2. QueueStep(k \o a, k \o a)
  BY DEF QueueStep, listVars, SameWalk, TypeOK
<1> QED
  BY <1>1, <1>2 DEF Kept

\* The next cycle of a chain, from its last callback or from its start.
LEMMA NextCycleKeeps ==
  ASSUME TypeOK, NEW a \in Seq(Event), NEW k \in Seq(Event), NEW i \in Nat, WalkInv(a, k, i),
         NEW e \in ChainClient, NEW running, ScheduleNextCycle(e, running), SameWalk,
         e \in running, m_running \subseteq running, timed' \subseteq timed, e \notin timed' \/ raced',
         ~raced' => ~raced /\ e \notin Elements(a) /\ e \notin Elements(k)
  PROVE  Kept(a, k)
<1>1. e \in Event
  BY DEF Event
<1>2. CASE m_running' = running \ {e} /\ UNCHANGED <<listVars, relinked>>
  <2>1. ~raced' => ~raced /\ (ChainsApart(a, k) => ChainsApart(a, k)')
    BY <1>2 DEF ChainsApart
  <2> QED
    BY <1>2, <2>1, NothingKeeps
<1>3. CASE m_running' = running /\ \E p \in Phases[e] : Schedule(e, p)
  <2>1. PICK p \in Phases[e] : Schedule(e, p)
    BY <1>3
  <2>2. p \in Tooth
    BY <1>1, <2>1, TriggerSchedulerAssumption
  <2>3. Elements(Joined(a, e)) = Elements(a) \cup {e}
    BY <1>1, AppendElements DEF Joined
  <2>4. ~raced' => ~raced /\ (ChainsApart(a, k) => ChainsApart(Joined(a, e), k)')
    <3>1. SUFFICES ASSUME ~raced', ChainsApart(a, k) PROVE ChainsApart(Joined(a, e), k)'
      OBVIOUS
    <3>2. SUFFICES ASSUME NEW c \in ChainClient
                   PROVE  /\ c \in timed' => c \notin Elements(Joined(a, e)) /\ c \notin Elements(k)
                          /\ c \in timed' \/ c \in Elements(Joined(a, e)) \/ c \in Elements(k)
                               => c \in m_running'
      BY DEF ChainsApart
    <3>3. /\ c \in timed => c \notin Elements(a) /\ c \notin Elements(k)
          /\ c \in timed \/ c \in Elements(a) \/ c \in Elements(k) => c \in m_running
      BY <3>1 DEF ChainsApart
    <3>4. CASE c = e
      BY <1>3, <2>3, <3>1, <3>4
    <3>5. CASE c # e
      BY <1>3, <2>3, <3>3, <3>5
    <3> QED
      BY <3>4, <3>5
  <2>5. e \in Elements(k) => raced'
    OBVIOUS
  <2> QED
    BY <1>1, <2>1, <2>2, <2>4, <2>5, ScheduleKeeps
<1> QED
  BY <1>2, <1>3 DEF ScheduleNextCycle

\* A tooth handler's request, after the walk: to the time scheduler or into the list.
LEMMA ScheduleOrQueueKeeps ==
  ASSUME TypeOK, NEW a \in Seq(Event), NEW k \in Seq(Event), NEW i \in Nat, WalkInv(a, k, i),
         NEW e \in ToothClient, NEW p \in Tooth, ScheduleOrQueue(e, p)
  PROVE  Kept(a, k)
<1>1. e \in Event /\ e \notin ChainClient
  BY TriggerSchedulerAssumption DEF Event
<1>2. /\ k = <<>> /\ pc = "clients" /\ i \in 0 .. Len(k)
      /\ UNCHANGED <<m_running, raced, tooth, pc, walkVars>>
  BY DEF WalkInv, ScheduleOrQueue, chainVars
<1>3. Len(k) = 0 /\ i = 0 /\ Elements(k) = {}
  BY <1>2 DEF Elements
<1>4. timed' \subseteq timed \cup {e}
  BY DEF ScheduleOrQueue
<1>5. CASE p = tooth /\ eventPhase' = [eventPhase EXCEPT ![e] = p]
           /\ UNCHANGED <<m_angleBasedEventsHead, nextToothEvent, relinked>>
  <2>1. WalkInv(a, k, i)'
    <3>1. ~raced' => ChainsApart(a, k)'
      BY <1>1, <1>2, <1>4 DEF WalkInv, ChainsApart
    <3>2. \A j \in 1 .. i : eventPhase'[k[j]] # tooth'
      BY <1>3
    <3> QED
      BY <1>2, <1>5, <3>1, <3>2 DEF WalkInv, walkVars
  <2>2. QueueStep(k \o a, k \o a)
    BY <1>1, <1>2, <1>5 DEF QueueStep
  <2> QED
    BY <2>1, <2>2 DEF Kept
<1>6. CASE Schedule(e, p)
  <2>1. SameWalk
    BY <1>2 DEF SameWalk
  <2>2. Elements(Joined(a, e)) = Elements(a) \cup {e}
    BY <1>1, AppendElements DEF Joined
  <2>3. ~raced' => ~raced /\ (ChainsApart(a, k) => ChainsApart(Joined(a, e), k)')
    BY <1>1, <1>2, <1>4, <2>2 DEF ChainsApart
  <2> QED
    BY <1>1, <1>3, <1>6, <2>1, <2>3, ScheduleKeeps
<1> QED
  BY <1>5, <1>6 DEF ScheduleOrQueue

\* A callback, also inside the walk: unless a chain has been started twice, a
\* timed event that reschedules itself is in no list.
LEMMA RunCallbackKeeps ==
  ASSUME TypeOK, NEW a \in Seq(Event), NEW k \in Seq(Event), NEW i \in Nat, WalkInv(a, k, i),
         NEW e \in Event, RunCallback(e)
  PROVE  Kept(a, k)
<1>1. e \in timed /\ timed' = timed \ {e} /\ raced' = raced /\ SameWalk
  BY DEF RunCallback, SameWalk
<1>2. CASE e \in ToothClient /\ UNCHANGED <<listVars, relinked, m_running>>
  <2>1. ~raced' => ~raced /\ (ChainsApart(a, k) => ChainsApart(a, k)')
    BY <1>1, <1>2 DEF ChainsApart
  <2> QED
    BY <1>1, <1>2, <2>1, NothingKeeps
<1>3. CASE e \in ChainClient /\ ScheduleNextCycle(e, m_running)
  <2>1. ~raced' => e \in m_running /\ ~raced /\ e \notin Elements(a) /\ e \notin Elements(k)
    BY <1>1, <1>3 DEF WalkInv, ChainsApart
  <2>2. CASE raced
    <3>1. SUFFICES ASSUME NEW running, ScheduleNextCycle(e, running), running = m_running
                   PROVE  Kept(a, k)
      BY <1>3
    <3>2. e \in Event /\ raced'
      BY <1>1, <2>2
    <3>3. CASE UNCHANGED <<listVars, relinked>>
      BY <1>1, <3>2, <3>3, NothingKeeps
    <3>4. ASSUME NEW p \in Phases[e], Schedule(e, p) PROVE Kept(a, k)
      <4>1. p \in Tooth
        BY <3>2, <3>4, TriggerSchedulerAssumption
      <4> QED
        BY <1>1, <3>2, <3>4, <4>1, ScheduleKeeps
    <3> QED
      BY <3>1, <3>3, <3>4 DEF ScheduleNextCycle
  <2>3. CASE ~raced
    BY <1>1, <1>3, <2>1, <2>3, NextCycleKeeps
  <2> QED
    BY <2>2, <2>3
<1> QED
  BY <1>2, <1>3 DEF RunCallback

\* The main loop's test; nothing is scheduled yet.
LEMMA TestRunningKeeps ==
  ASSUME TypeOK, NEW a \in Seq(Event), NEW k \in Seq(Event), NEW i \in Nat, WalkInv(a, k, i),
         NEW e \in ChainClient, TestRunning(e)
  PROVE  Kept(a, k)
<1>1. UNCHANGED <<listVars, relinked>> /\ SameWalk /\ UNCHANGED <<timed, m_running, raced>>
  BY DEF TestRunning, SameWalk
<1>2. ~raced' => ~raced /\ (ChainsApart(a, k) => ChainsApart(a, k)')
  BY <1>1 DEF ChainsApart
<1> QED
  BY <1>1, <1>2, NothingKeeps

\* The main loop's start, of a chain that the interrupt may have started since.
LEMMA StartChainKeeps ==
  ASSUME TypeOK, NEW a \in Seq(Event), NEW k \in Seq(Event), NEW i \in Nat, WalkInv(a, k, i),
         NEW e \in ChainClient, StartChain(e)
  PROVE  Kept(a, k)
<1>1. /\ SameWalk /\ timed' = timed /\ ScheduleNextCycle(e, m_running \cup {e})
      /\ raced' = (raced \/ e \in m_running)
  BY DEF StartChain, SameWalk
<1>2. ~raced' => ~raced /\ e \notin m_running
  BY <1>1, Zenon
<1>3. ~raced' => e \notin timed /\ e \notin Elements(a) /\ e \notin Elements(k)
  BY <1>2 DEF WalkInv, ChainsApart
<1> QED
  BY <1>1, <1>2, <1>3, NextCycleKeeps

\* The start in the trigger interrupt, test and all: it loses no race.
LEMMA StartInInterruptKeeps ==
  ASSUME TypeOK, NEW a \in Seq(Event), NEW k \in Seq(Event), NEW i \in Nat, WalkInv(a, k, i),
         NEW e \in ChainClient, StartInInterrupt(e)
  PROVE  Kept(a, k)
<1>1. /\ SameWalk /\ timed' = timed /\ ScheduleNextCycle(e, m_running \cup {e})
      /\ raced' = raced /\ e \notin m_running
  BY DEF StartInInterrupt, SameWalk
<1>2. ~raced' => e \notin timed /\ e \notin Elements(a) /\ e \notin Elements(k)
  BY <1>1 DEF WalkInv, ChainsApart
<1>3. e \notin timed' \/ raced'
  BY <1>1, <1>2
<1> QED
  BY <1>1, <1>2, <1>3, NextCycleKeeps

\* The speed gets known or is lost.
LEMMA SpeedChangesKeeps ==
  ASSUME TypeOK, NEW a \in Seq(Event), NEW k \in Seq(Event), NEW i \in Nat, WalkInv(a, k, i),
         SpeedChanges
  PROVE  Kept(a, k)
<1>1. UNCHANGED <<listVars, relinked>> /\ SameWalk /\ UNCHANGED <<timed, m_running, raced>>
  BY DEF SpeedChanges, SameWalk, chainVars
<1>2. ~raced' => ~raced /\ (ChainsApart(a, k) => ChainsApart(a, k)')
  BY <1>1 DEF ChainsApart
<1> QED
  BY <1>1, <1>2, NothingKeeps

\* A tooth passes without a walk.
LEMMA ToothWithoutSpeedKeeps ==
  ASSUME TypeOK, NEW a \in Seq(Event), NEW k \in Seq(Event), NEW i \in Nat, WalkInv(a, k, i),
         ToothWithoutSpeed
  PROVE  Kept(a, k)
<1>1. k = <<>> /\ pc = "idle" /\ i \in 0 .. Len(k)
  BY DEF WalkInv, ToothWithoutSpeed
<1>2. i = 0 /\ tooth' \in Tooth
  BY <1>1, TriggerSchedulerAssumption DEF TypeOK, ToothWithoutSpeed, Tooth
<1>3. WalkInv(a, k, i)'
  <2>1. ~raced' => ChainsApart(a, k)'
    BY DEF WalkInv, ChainsApart, ToothWithoutSpeed, chainVars
  <2>2. \A j \in 1 .. i : eventPhase'[k[j]] # tooth'
    BY <1>2
  <2> QED
    BY <1>1, <2>1, <2>2 DEF WalkInv, ToothWithoutSpeed, listVars, walkVars
<1>4. QueueStep(k \o a, k \o a)
  BY <1>2 DEF QueueStep, ToothWithoutSpeed, listVars
<1> QED
  BY <1>3, <1>4 DEF Kept

\* The list is detached: what waited is now walked.
LEMMA OnEnginePhaseKeeps ==
  ASSUME TypeOK, NEW a \in Seq(Event), NEW k \in Seq(Event), NEW i \in Nat, WalkInv(a, k, i),
         OnEnginePhase
  PROVE  Kept(a, k)
<1>1. k = <<>> /\ pc \in {"idle", "entered"}
  BY DEF WalkInv, OnEnginePhase
<1>2. tooth' \in Tooth
  BY TriggerSchedulerAssumption DEF TypeOK, OnEnginePhase, Tooth
<1>3. IsList(nextToothEvent, nullptr, <<>>)
  BY EmptySeq DEF IsList
<1>4. Len(a) \in Nat /\ (m_angleBasedEventsHead = IF 0 = Len(a) THEN nullptr ELSE a[0 + 1])
  BY LenProperties DEF WalkInv, IsList
<1>5. WalkInv(<<>>, a, 0)'
  <2>1. Elements(<<>>) = {}
    BY DEF Elements
  <2>2. IsList(nextToothEvent', keephead', a) /\ IsList(nextToothEvent', m_angleBasedEventsHead', <<>>)
    BY <1>3 DEF WalkInv, OnEnginePhase
  <2>3. ~raced' => ChainsApart(<<>>, a)'
    BY <1>1, <2>1 DEF WalkInv, OnEnginePhase, ChainsApart, chainVars
  <2>4. 0 \in 0 .. Len(a) /\ 1 .. 0 = {}
    BY <1>4
  <2>5. relinked' = FALSE
    BY DEF WalkInv, OnEnginePhase
  <2> QED
    BY <1>4, <2>1, <2>2, <2>3, <2>4, <2>5 DEF WalkInv, OnEnginePhase
<1>6. QueueStep(k \o a, a \o <<>>)
  <2>1. k \o a = a \o <<>>
    BY <1>1, ConcatEmptySeq
  <2> QED
    BY <1>2, <2>1 DEF QueueStep, OnEnginePhase
<1> QED
  BY <1>5, <1>6, EmptySeq DEF Kept

\* scheduler.schedule() returns: the walk goes on at the saved successor.
LEMMA ScheduleReturnsKeeps ==
  ASSUME TypeOK, NEW a \in Seq(Event), NEW k \in Seq(Event), NEW i \in Nat, WalkInv(a, k, i),
         ScheduleReturns
  PROVE  Kept(a, k)
<1>1. WalkInv(a, k, i)'
  BY DEF WalkInv, ScheduleReturns, ChainsApart, listVars, chainVars
<1>2. QueueStep(k \o a, k \o a)
  BY DEF QueueStep, ScheduleReturns, listVars, TypeOK
<1> QED
  BY <1>1, <1>2 DEF Kept

\* The trigger interrupt returns.
LEMMA HandlerReturnsKeeps ==
  ASSUME TypeOK, NEW a \in Seq(Event), NEW k \in Seq(Event), NEW i \in Nat, WalkInv(a, k, i),
         HandlerReturns
  PROVE  Kept(a, k)
<1>1. WalkInv(a, k, i)'
  BY DEF WalkInv, HandlerReturns, ChainsApart, listVars, chainVars, walkVars
<1>2. QueueStep(k \o a, k \o a)
  BY DEF QueueStep, HandlerReturns, listVars, TypeOK
<1> QED
  BY <1>1, <1>2 DEF Kept

\* The element at which the walk stands.
LEMMA CurrentIs ==
  ASSUME TypeOK, NEW a \in Seq(Event), NEW k \in Seq(Event), NEW i \in Nat, WalkInv(a, k, i),
         pc = "walk", current # nullptr
  PROVE  /\ i + 1 \in 1 .. Len(k)
         /\ current = k[i + 1]
         /\ current \in Event
         /\ nextToothEvent[current] = IF i + 1 = Len(k) THEN nullptr ELSE k[i + 2]
<1>1. Len(k) \in Nat /\ i \in 0 .. Len(k) /\ current = IF i = Len(k) THEN nullptr ELSE k[i + 1]
  BY LenProperties DEF WalkInv
<1>2. i + 1 \in 1 .. Len(k) /\ current = k[i + 1]
  BY <1>1
<1>3. \A j \in 1 .. Len(k) : nextToothEvent[k[j]] = IF j = Len(k) THEN nullptr ELSE k[j + 1]
  BY DEF WalkInv, IsList
<1>4. (i + 1) + 1 = i + 2
  OBVIOUS
<1> QED
  BY <1>2, <1>3, <1>4, ElementOfSeq

\* The element stays: one more is known not to be due.
LEMMA VisitNotDueKeeps ==
  ASSUME TypeOK, NEW a \in Seq(Event), NEW k \in Seq(Event), NEW i \in Nat, WalkInv(a, k, i),
         VisitNotDue
  PROVE  Kept(a, k)
<1>1. /\ i + 1 \in 1 .. Len(k)
      /\ current = k[i + 1]
      /\ current \in Event
      /\ nextToothEvent[current] = IF i + 1 = Len(k) THEN nullptr ELSE k[i + 2]
  BY CurrentIs DEF VisitNotDue
<1>2. /\ UNCHANGED <<m_angleBasedEventsHead, nextToothEvent, eventPhase, timed, m_running,
                     raced, relinked, tooth, pc, keephead>>
      /\ keeptail' = current /\ pc = "walk"
      /\ tmp' = nextToothEvent[current] /\ current' = nextToothEvent[current]
      /\ eventPhase[current] # tooth
  BY DEF VisitNotDue, listVars, chainVars, ShouldSchedule
<1>3. ~raced' => ChainsApart(a, k)'
  BY <1>2 DEF WalkInv, ChainsApart
<1>4. Len(k) \in Nat
  BY LenProperties
<1>5. /\ i + 1 \in 0 .. Len(k) /\ i + 1 # 0
      /\ current' = IF i + 1 = Len(k) THEN nullptr ELSE k[(i + 1) + 1]
  <2>1. (i + 1) + 1 = i + 2
    OBVIOUS
  <2> QED
    BY <1>1, <1>2, <1>4, <2>1
<1>6. \A j \in 1 .. i + 1 : eventPhase'[k[j]] # tooth'
  <2>1. ASSUME NEW j \in 1 .. i + 1 PROVE eventPhase[k[j]] # tooth
    <3>1. j \in 1 .. i \/ j = i + 1
      OBVIOUS
    <3> QED
      BY <1>1, <1>2, <3>1 DEF WalkInv
  <2> QED
    BY <1>2, <2>1
<1>7. WalkInv(a, k, i + 1)'
  BY <1>1, <1>2, <1>3, <1>5, <1>6 DEF WalkInv
<1>8. QueueStep(k \o a, k \o a)
  BY <1>2 DEF QueueStep, TypeOK
<1>9. i + 1 \in Nat
  OBVIOUS
<1> QED
  BY <1>7, <1>8, <1>9 DEF Kept

\* The walked list goes back in front of what arrived meanwhile.
LEMMA WalkEndsKeeps ==
  ASSUME TypeOK, NEW a \in Seq(Event), NEW k \in Seq(Event), NEW i \in Nat, WalkInv(a, k, i),
         WalkEnds
  PROVE  Kept(a, k)
<1>1. /\ pc = "walk" /\ current = nullptr /\ Reattach
      /\ keephead' = nullptr /\ keeptail' = nullptr /\ tmp' = nullptr /\ pc' = "clients"
      /\ UNCHANGED <<eventPhase, timed, m_running, raced, relinked, tooth, current>>
  BY DEF WalkEnds, chainVars
<1>2. Len(k) \in Nat /\ i \in 0 .. Len(k) /\ current = IF i = Len(k) THEN nullptr ELSE k[i + 1]
  BY <1>1, LenProperties DEF WalkInv
<1>3. i = Len(k)
  <2>1. i # Len(k) => i + 1 \in 1 .. Len(k)
    BY <1>2
  <2>2. i # Len(k) => k[i + 1] \in Event
    BY <2>1, ElementOfSeq
  <2> QED
    BY <1>1, <1>2, <2>2, TriggerSchedulerAssumption
<1>4. /\ IsList(nextToothEvent, m_angleBasedEventsHead, a)
      /\ IsList(nextToothEvent, keephead, k)
      /\ Elements(a) \cap Elements(k) = {}
      /\ nextToothEvent \in [Event -> Event \cup {nullptr}]
      /\ m_angleBasedEventsHead \in Event \cup {nullptr}
      /\ keephead \in Event \cup {nullptr}
  BY DEF WalkInv, TypeOK
<1>5. keephead = nullptr <=> k = <<>>
  <2>1. k = <<>> <=> Len(k) = 0
    BY <1>2, EmptySeq
  <2>2. Len(k) # 0 => k[1] \in Event
    BY <1>2, ElementOfSeq
  <2> QED
    BY <1>4, <2>1, <2>2, TriggerSchedulerAssumption DEF IsList
<1>6. IsList(nextToothEvent', m_angleBasedEventsHead', k \o a)
  <2>1. CASE keephead = nullptr
    <3>1. UNCHANGED <<m_angleBasedEventsHead, nextToothEvent>>
      BY <1>1, <2>1 DEF Reattach
    <3>2. k \o a = a
      BY <1>5, <2>1, ConcatEmptySeq
    <3> QED
      BY <1>4, <3>1, <3>2
  <2>2. CASE keephead # nullptr
    <3>1. keeptail = k[Len(k)] /\ k # <<>>
      BY <1>1, <1>2, <1>3, <1>5, <2>2, EmptySeq DEF WalkInv
    <3>2. nextToothEvent' = [nextToothEvent EXCEPT ![k[Len(k)]] = m_angleBasedEventsHead]
          /\ m_angleBasedEventsHead' = keephead
      BY <1>1, <2>2, <3>1 DEF Reattach
    <3>3. Elements(k) \cap Elements(a) = {}
      BY <1>4
    <3>4. IsList([nextToothEvent EXCEPT ![k[Len(k)]] = m_angleBasedEventsHead], keephead, k \o a)
      BY <1>4, <3>1, <3>3, JoinLists
    <3> QED
      BY <3>2, <3>4
  <2> QED
    BY <2>1, <2>2
<1>7. k \o a \in Seq(Event) /\ Elements(k \o a) = Elements(k) \cup Elements(a)
  BY ConcatElements
<1>8. WalkInv(k \o a, <<>>, 0)'
  <2>1. Elements(<<>>) = {} /\ 1 .. 0 = {} /\ 0 \in 0 .. Len(<<>>)
    BY DEF Elements
  <2>2. IsList(nextToothEvent', keephead', <<>>)
    BY <1>1, EmptySeq DEF IsList
  <2>3. ~raced' => ChainsApart(k \o a, <<>>)'
    BY <1>1, <1>7, <2>1 DEF WalkInv, ChainsApart
  <2> QED
    BY <1>1, <1>6, <2>1, <2>2, <2>3 DEF WalkInv
<1>9. QueueStep(k \o a, <<>> \o (k \o a))
  <2>1. <<>> \o (k \o a) = k \o a
    BY <1>7, ConcatEmptySeq
  <2> QED
    BY <1>1, <2>1 DEF QueueStep, TypeOK
<1> QED
  BY <1>7, <1>8, <1>9, EmptySeq DEF Kept

\* To leave the walked list is to leave the queue at the same place.
LEMMA WithoutConcat ==
  ASSUME NEW k \in Seq(Event), NEW a \in Seq(Event), NEW n \in 1 .. Len(k)
  PROVE  /\ n \in 1 .. Len(k \o a)
         /\ (k \o a)[n] = k[n]
         /\ Without(k \o a, n) = Without(k, n) \o a
<1> DEFINE w == k \o a
           t == Without(k, n)
<1>1. /\ Len(k) \in Nat /\ Len(a) \in Nat
      /\ w \in Seq(Event) /\ Len(w) = Len(k) + Len(a)
      /\ \A j \in 1 .. Len(k) + Len(a) : w[j] = IF j <= Len(k) THEN k[j] ELSE a[j - Len(k)]
  BY LenProperties, ConcatProperties
<1> HIDE DEF w
<1>2. n \in 1 .. Len(w) /\ w[n] = k[n]
  BY <1>1
<1>3. /\ t \in Seq(Event) /\ Len(t) = Len(k) - 1
      /\ \A j \in 1 .. Len(k) - 1 : t[j] = IF j < n THEN k[j] ELSE k[j + 1]
  BY WithoutIs
<1> HIDE DEF t
<1>4. /\ Without(w, n) \in Seq(Event) /\ Len(Without(w, n)) = Len(w) - 1
      /\ \A j \in 1 .. Len(w) - 1 : Without(w, n)[j] = IF j < n THEN w[j] ELSE w[j + 1]
  BY <1>1, <1>2, WithoutIs
<1>5. /\ t \o a \in Seq(Event) /\ Len(t \o a) = Len(t) + Len(a)
      /\ \A j \in 1 .. Len(t) + Len(a) :
           (t \o a)[j] = IF j <= Len(t) THEN t[j] ELSE a[j - Len(t)]
  BY <1>3, ConcatProperties
<1>6. Len(Without(w, n)) = Len(t \o a)
  BY <1>1, <1>3, <1>4, <1>5
<1>7. ASSUME NEW j \in 1 .. Len(Without(w, n))
      PROVE  Without(w, n)[j] = (t \o a)[j]
  <2>1. j \in 1 .. Len(w) - 1 /\ j \in 1 .. Len(t) + Len(a) /\ j \in Nat
    BY <1>1, <1>3, <1>4, <1>5
  <2>2. Without(w, n)[j] = IF j < n THEN w[j] ELSE w[j + 1]
    BY <1>4, <2>1
  <2>3. (t \o a)[j] = IF j <= Len(t) THEN t[j] ELSE a[j - Len(t)]
    BY <1>5, <2>1
  <2>4. CASE j < n
    <3>0. j \in 1 .. Len(k) - 1 /\ j \in 1 .. Len(k) + Len(a) /\ j <= Len(k) /\ j <= Len(t)
      BY <1>1, <1>3, <2>1, <2>4
    <3>1. w[j] = k[j] /\ t[j] = k[j] /\ j <= Len(t)
      BY <1>1, <1>3, <2>4, <3>0
    <3> QED
      BY <2>2, <2>3, <2>4, <3>1
  <2>5. CASE ~(j < n) /\ j <= Len(t)
    <3>1. w[j + 1] = k[j + 1] /\ t[j] = k[j + 1]
      BY <1>1, <1>3, <2>1, <2>5
    <3> QED
      BY <2>2, <2>3, <2>5, <3>1
  <2>6. CASE ~(j < n) /\ ~(j <= Len(t))
    <3>1. j + 1 \in 1 .. Len(k) + Len(a) /\ ~(j + 1 <= Len(k)) /\ (j + 1) - Len(k) = j - Len(t)
      BY <1>1, <1>3, <2>1, <2>6
    <3>2. w[j + 1] = a[j - Len(t)]
      BY <1>1, <3>1
    <3> QED
      BY <2>2, <2>3, <2>6, <3>2
  <2> QED
    BY <2>4, <2>5, <2>6
<1>8. Without(w, n) = t \o a
  BY <1>4, <1>5, <1>6, <1>7, SeqEqual
<1> QED
  BY <1>2, <1>8 DEF w, t

\* The links after LL_DELETE2 of an element that is not the first.
Unlinked(next, s, e) ==
  [x \in Event |-> IF x \in Elements(s) /\ next[x] = e THEN next[e] ELSE next[x]]

\* The element is due: it leaves the walked list and becomes timed.
LEMMA VisitDueKeeps ==
  ASSUME TypeOK, NEW a \in Seq(Event), NEW k \in Seq(Event), NEW i \in Nat, WalkInv(a, k, i),
         VisitDue
  PROVE  Kept(a, k)
<1> DEFINE m == Without(k, i + 1)
<1>1. /\ i + 1 \in 1 .. Len(k)
      /\ current = k[i + 1]
      /\ current \in Event
      /\ nextToothEvent[current] = IF i + 1 = Len(k) THEN nullptr ELSE k[i + 2]
  BY CurrentIs DEF VisitDue
<1>2. /\ UNCHANGED <<m_angleBasedEventsHead, eventPhase, m_running, raced, relinked, tooth,
                     keeptail, current>>
      /\ LL_DELETE2(keephead, current)
      /\ tmp' = nextToothEvent[current] /\ timed' = timed \cup {current}
      /\ pc = "walk" /\ pc' = "inline"
      /\ eventPhase[current] = tooth
  BY DEF VisitDue, ShouldSchedule, chainVars
<1>3. /\ IsList(nextToothEvent, m_angleBasedEventsHead, a)
      /\ IsList(nextToothEvent, keephead, k)
      /\ Elements(a) \cap Elements(k) = {}
      /\ nextToothEvent \in [Event -> Event \cup {nullptr}]
      /\ keephead \in Event \cup {nullptr}
      /\ \A j, n \in 1 .. Len(k) : k[j] = k[n] => j = n
  BY DEF WalkInv, TypeOK, IsList
<1>4. \A x \in Event : Precedes(keephead, x, current)
                         <=> x \in Elements(k) /\ nextToothEvent[x] = current
  BY <1>1, <1>3, PrecedesInList
<1>5. /\ m \in Seq(Event) /\ Len(m) = Len(k) - 1 /\ Len(k) \in Nat
      /\ \A j \in 1 .. Len(k) - 1 : m[j] = IF j < i + 1 THEN k[j] ELSE k[j + 1]
  BY <1>1, WithoutIs, LenProperties
<1>6. Elements(m) = Elements(k) \ {current}
  BY <1>1, <1>3, WithoutElements
<1>7. /\ keephead = k[i + 1] <=> i + 1 = 1
      /\ i + 1 = 1 => IsList(nextToothEvent, nextToothEvent[k[i + 1]], m)
      /\ i + 1 # 1 => IsList(Unlinked(nextToothEvent, k, k[i + 1]), keephead, m)
  BY <1>1, <1>3, DeleteFromList DEF Unlinked
<1> HIDE DEF m
<1>8. /\ IsList(nextToothEvent', keephead', m)
      /\ IsList(nextToothEvent', m_angleBasedEventsHead, a)
  <2>1. CASE i + 1 = 1
    <3>1. keephead' = nextToothEvent[current] /\ UNCHANGED nextToothEvent
      <4>1. keephead = current
        BY <1>1, <1>7, <2>1
      <4> QED
        BY <1>2, <4>1 DEF LL_DELETE2
    <3> QED
      BY <1>1, <1>3, <1>7, <2>1, <3>1
  <2>2. CASE i + 1 # 1
    <3>1. keephead' = keephead /\ nextToothEvent' = Unlinked(nextToothEvent, k, current)
      BY <1>1, <1>2, <1>4, <1>7, <2>2 DEF LL_DELETE2, Unlinked
    <3>2. \A x \in Elements(a) : nextToothEvent'[x] = nextToothEvent[x]
      <4>1. Elements(a) \subseteq Event
        BY ElementOfSeq DEF Elements
      <4> QED
        BY <1>3, <3>1, <4>1 DEF Unlinked
    <3>3. IsList(nextToothEvent', m_angleBasedEventsHead, a)
      BY <1>3, <3>2, ListKept
    <3>4. IsList(nextToothEvent', keephead', m)
      BY <1>1, <1>7, <2>2, <3>1
    <3> QED
      BY <3>3, <3>4
  <2> QED
    BY <2>1, <2>2
<1>9. i \in 0 .. Len(m) /\ tmp' = IF i = Len(m) THEN nullptr ELSE m[i + 1]
  <2>1. i \in 0 .. Len(m) /\ (i = Len(m) <=> i + 1 = Len(k)) /\ (i + 1) + 1 = i + 2
    BY <1>1, <1>5
  <2>2. i # Len(m) => i + 1 \in 1 .. Len(k) - 1 /\ ~(i + 1 < i + 1)
    BY <1>1, <1>5
  <2>3. i # Len(m) => m[i + 1] = k[i + 2]
    BY <1>5, <2>1, <2>2
  <2> QED
    BY <1>1, <1>2, <2>1, <2>3
<1>10. \A j \in 1 .. i : m[j] = k[j]
  BY <1>1, <1>5
<1>11. WalkInv(a, m, i)'
  <2>1. Elements(a) \cap Elements(m) = {}
    BY <1>3, <1>6
  <2>2. ~raced' => ChainsApart(a, m)'
    <3>1. current \in Elements(k)
      BY <1>1 DEF Elements
    <3> QED
      BY <1>2, <1>3, <1>6, <3>1 DEF WalkInv, ChainsApart
  <2>3. \A j \in 1 .. i : eventPhase'[m[j]] # tooth'
    BY <1>2, <1>10 DEF WalkInv
  <2>4. keeptail' = IF i = 0 THEN nullptr ELSE m[i]
    <3>1. keeptail = IF i = 0 THEN nullptr ELSE k[i]
      BY <1>2 DEF WalkInv
    <3> QED
      BY <1>2, <1>10, <3>1
  <2> QED
    BY <1>2, <1>8, <1>9, <2>1, <2>2, <2>3, <2>4 DEF WalkInv
<1>12. QueueStep(k \o a, m \o a)
  <2>1. /\ i + 1 \in 1 .. Len(k \o a)
        /\ (k \o a)[i + 1] = k[i + 1]
        /\ Without(k \o a, i + 1) = m \o a
    BY <1>1, WithoutConcat DEF m
  <2>2. eventPhase[(k \o a)[i + 1]] = tooth
    BY <1>1, <1>2, <2>1
  <2> QED
    BY <1>2, <2>1, <2>2, Zenon DEF QueueStep
<1> QED
  BY <1>5, <1>11, <1>12 DEF Kept

-------------------------------------------------------------------------------
\* Both lists are empty in the beginning.
LEMMA InitHolds ==
  ASSUME Init
  PROVE  TypeOK /\ WalkInv(<<>>, <<>>, 0)
<1>1. TypeOK
  <2>1. 0 \in Tooth
    BY TriggerSchedulerAssumption DEF Tooth
  <2>2. nextToothEvent \in [Event -> Event \cup {nullptr}] /\ eventPhase \in [Event -> Tooth]
    BY <2>1 DEF Init
  <2> QED
    BY <2>1, <2>2 DEF Init, TypeOK
<1>2. IsList(nextToothEvent, nullptr, <<>>)
  BY EmptySeq DEF IsList
<1>3. Elements(<<>>) = {} /\ 1 .. 0 = {} /\ 0 \in 0 .. Len(<<>>)
  BY DEF Elements
<1> QED
  BY <1>1, <1>2, <1>3 DEF Init, WalkInv, ChainsApart

\* Every step, action by action.
LEMMA StepKeeps ==
  ASSUME TypeOK, NEW a \in Seq(Event), NEW k \in Seq(Event), NEW i \in Nat, WalkInv(a, k, i),
         [Next]_vars
  PROVE  Kept(a, k)
<1>1. CASE OnEnginePhase
  BY <1>1, OnEnginePhaseKeeps
<1>2. CASE VisitDue
  BY <1>2, VisitDueKeeps
<1>3. CASE ScheduleReturns
  BY <1>3, ScheduleReturnsKeeps
<1>4. CASE VisitNotDue
  BY <1>4, VisitNotDueKeeps
<1>5. CASE WalkEnds
  BY <1>5, WalkEndsKeeps
<1>6. CASE HandlerReturns
  BY <1>6, HandlerReturnsKeeps
<1>7. ASSUME NEW e \in ToothClient, NEW p \in Tooth, ScheduleOrQueue(e, p)
      PROVE  Kept(a, k)
  BY <1>7, ScheduleOrQueueKeeps
<1>8. ASSUME NEW e \in Event, RunCallback(e)
      PROVE  Kept(a, k)
  BY <1>8, RunCallbackKeeps
<1>9. ASSUME NEW e \in ChainClient, TestRunning(e) \/ StartChain(e) \/ StartInInterrupt(e)
      PROVE  Kept(a, k)
  BY <1>9, TestRunningKeeps, StartChainKeeps, StartInInterruptKeeps
<1>10. CASE ToothWithoutSpeed
  BY <1>10, ToothWithoutSpeedKeeps
<1>11. CASE SpeedChanges
  BY <1>11, SpeedChangesKeeps
<1>12. CASE UNCHANGED vars
  <2>1. ~raced' => ~raced /\ (ChainsApart(a, k) => ChainsApart(a, k)')
    BY <1>12 DEF ChainsApart, vars, chainVars
  <2>2. UNCHANGED <<listVars, relinked>> /\ SameWalk
    BY <1>12 DEF SameWalk, vars
  <2> QED
    BY <2>1, <2>2, NothingKeeps
<1> QED
  BY <1>1, <1>2, <1>3, <1>4, <1>5, <1>6, <1>7, <1>8, <1>9, <1>10, <1>11, <1>12 DEF Next, Handler

(***************************************************************************)
(* The inductive invariant holds: a node of the walked list is relinked    *)
(* only when the race for a chain has been lost, and until then the links  *)
(* of the events form two lists, what the walk has kept lies behind it,    *)
(* and a chain that has not been started twice is in one place at most.    *)
(***************************************************************************)
THEOREM SchedulerInvariant == Spec => []SchedulerInv
<1>1. Init => SchedulerInv
  <2>1. <<>> \in Seq(Event) /\ 0 \in Nat
    BY EmptySeq
  <2>2. Init => ~relinked
    BY DEF Init
  <2> QED
    BY <2>1, <2>2, InitHolds DEF SchedulerInv
<1>2. SchedulerInv /\ [Next]_vars => SchedulerInv'
  <2>1. SUFFICES ASSUME SchedulerInv, [Next]_vars PROVE SchedulerInv'
    OBVIOUS
  <2>2. TypeOK' /\ (relinked => relinked') /\ (raced => raced')
    BY <2>1, StepTypes DEF SchedulerInv
  <2>3. CASE relinked
    BY <2>1, <2>2, <2>3 DEF SchedulerInv
  <2>4. CASE ~relinked
    <3>1. PICK a \in Seq(Event), k \in Seq(Event), i \in Nat : WalkInv(a, k, i)
      BY <2>1, <2>4 DEF SchedulerInv
    <3>2. TypeOK /\ Kept(a, k)
      BY <2>1, <3>1, StepKeeps DEF SchedulerInv
    <3>3. CASE Relinks(k)
      BY <2>2, <3>3 DEF SchedulerInv, Relinks
    <3>4. ASSUME NEW b \in Seq(Event), NEW m \in Seq(Event), NEW j \in Nat, WalkInv(b, m, j)'
          PROVE  SchedulerInv'
      <4>1. ~relinked'
        BY <3>4 DEF WalkInv
      <4> QED
        BY <2>2, <3>4, <4>1 DEF SchedulerInv
    <3> QED
      BY <3>2, <3>3, <3>4 DEF Kept
  <2> QED
    BY <2>3, <2>4
<1> QED
  BY <1>1, <1>2, PTL DEF Spec

(***************************************************************************)
(* RelinkedOnlyByRace: as long as the main loop has not started a chain    *)
(* that the trigger interrupt has started since its test of m_running, no  *)
(* callback inside onEnginePhase() asks for an event that the walk holds.  *)
(***************************************************************************)
THEOREM OnlyRaceRelinks == Spec => []RelinkedOnlyByRace
<1>1. SchedulerInv => RelinkedOnlyByRace
  BY DEF SchedulerInv, RelinkedOnlyByRace
<1> QED
  BY <1>1, SchedulerInvariant, PTL

\* The model's reading of the two lists, under the invariant.
LEMMA ListsOfInv ==
  ASSUME NEW a, NEW k, NEW i, WalkInv(a, k, i)
  PROVE  /\ Members(m_angleBasedEventsHead) = Elements(a)
         /\ Members(keephead) = Elements(k)
         /\ Chain(m_angleBasedEventsHead) = a
         /\ Chain(keephead) = k
         /\ Terminates(m_angleBasedEventsHead) /\ Terminates(keephead)
<1>1. IsList(nextToothEvent, m_angleBasedEventsHead, a) /\ IsList(nextToothEvent, keephead, k)
  BY DEF WalkInv
<1>2. \A h : Members(h) = MembersOf(nextToothEvent, h)
  BY DEF Members, MembersOf, Nth, NthOf
<1>3. \A h : Chain(h) = ChainOf(nextToothEvent, h)
  BY DEF Chain, ChainOf, Nth, NthOf
<1>4. \A h : Terminates(h) <=> NthOf(nextToothEvent, h)[MaxLength] = nullptr
  BY DEF Terminates, Nth, NthOf
<1> QED
  BY <1>1, <1>2, <1>3, <1>4, ListIs

(***************************************************************************)
(* ListsApart: the two lists never loop and never share an event, whatever *)
(* callbacks append while onEnginePhase() walks, and also with a chain     *)
(* that was started twice, until a node of the walked list is relinked.    *)
(***************************************************************************)
THEOREM ListsStayApart == Spec => []ListsApart
<1>1. SchedulerInv => ListsApart
  <2>1. SUFFICES ASSUME NEW a \in Seq(Event), NEW k \in Seq(Event), NEW i \in Nat, WalkInv(a, k, i)
                 PROVE  ListsApart
    BY DEF SchedulerInv, ListsApart
  <2> QED
    BY <2>1, ListsOfInv DEF ListsApart, WalkInv
<1> QED
  BY <1>1, SchedulerInvariant, PTL

(***************************************************************************)
(* WalkLeavesNoneBehind: when the walk of onEnginePhase() is over, no      *)
(* event that it keeps was due on this tooth, unless a node was relinked.  *)
(***************************************************************************)
THEOREM NoneLeftBehind == Spec => []WalkLeavesNoneBehind
<1>1. SchedulerInv => WalkLeavesNoneBehind
  <2>1. SUFFICES ASSUME NEW a \in Seq(Event), NEW k \in Seq(Event), NEW i \in Nat, WalkInv(a, k, i),
                        pc = "walk", current = nullptr, NEW e \in Members(keephead)
                 PROVE  eventPhase[e] # tooth
    BY DEF SchedulerInv, WalkLeavesNoneBehind
  <2>2. PICK j \in 1 .. Len(k) : e = k[j]
    BY <2>1, ListsOfInv DEF Elements
  <2>3. i = Len(k)
    <3>1. Len(k) \in Nat /\ i \in 0 .. Len(k) /\ current = IF i = Len(k) THEN nullptr ELSE k[i + 1]
      BY <2>1, LenProperties DEF WalkInv
    <3>2. i # Len(k) => i + 1 \in 1 .. Len(k)
      BY <3>1
    <3>3. i # Len(k) => k[i + 1] \in Event
      BY <3>2, ElementOfSeq
    <3> QED
      BY <2>1, <3>1, <3>3, TriggerSchedulerAssumption
  <2>4. \A n \in 1 .. i : eventPhase[k[n]] # tooth
    BY <2>1 DEF WalkInv
  <2> QED
    BY <2>2, <2>3, <2>4
<1> QED
  BY <1>1, SchedulerInvariant, PTL

\* What Queue calls waiting is the list of the walk with the attached list
\* behind it.
LEMMA QueueStepImplements ==
  ASSUME TypeOK, NEW a \in Seq(Event), NEW k \in Seq(Event), NEW i \in Nat, WalkInv(a, k, i),
         NEW b \in Seq(Event), NEW m \in Seq(Event), NEW j \in Nat, WalkInv(b, m, j)',
         QueueStep(k \o a, m \o b)
  PROVE  [Queue!Next]_(Queue!vars)
<1>0. UNCHANGED relinked
  BY DEF WalkInv
<1> DEFINE w == Chain(keephead) \o Chain(m_angleBasedEventsHead)
<1>1. w = k \o a
  BY ListsOfInv
<1>2. w' = m \o b
  <2>1. /\ IsList(nextToothEvent', m_angleBasedEventsHead', b)
        /\ IsList(nextToothEvent', keephead', m)
    BY DEF WalkInv
  <2>2. Chain(m_angleBasedEventsHead)' = ChainOf(nextToothEvent', m_angleBasedEventsHead')
        /\ Chain(keephead)' = ChainOf(nextToothEvent', keephead')
    BY DEF Chain, ChainOf, Nth, NthOf
  <2>3. ChainOf(nextToothEvent', m_angleBasedEventsHead') = b
        /\ ChainOf(nextToothEvent', keephead') = m
    BY <2>1, ListIs
  <2>4. Chain(m_angleBasedEventsHead)' = b /\ Chain(keephead)' = m
    BY <2>2, <2>3
  <2>5. w' = Chain(keephead)' \o Chain(m_angleBasedEventsHead)'
    OBVIOUS
  <2> QED
    BY <2>4, <2>5
<1>3. w \in Seq(Event)
  BY <1>1, ConcatElements
<1>4. \A e : e \in Queue!Range(w) <=> e \in Elements(w)
  BY <1>3, LenProperties DEF Queue!Range, Elements
<1>5. QueueStep(w, w')
  BY <1>1, <1>2
<1>6. CASE w' = w /\ UNCHANGED eventPhase /\ tooth' \in Tooth
  BY <1>0, <1>6 DEF Queue!Next, Queue!Promise, Queue!NextTooth
<1>7. ASSUME NEW e \in Event, NEW p \in Tooth,
             w' = Joined(w, e), eventPhase' = [eventPhase EXCEPT ![e] = p], UNCHANGED tooth
      PROVE  Queue!Next
  <2>1. w' = IF e \in Queue!Range(w) THEN w ELSE Append(w, e)
    BY <1>4, <1>7 DEF Joined
  <2> QED
    BY <1>0, <1>7, <2>1 DEF Queue!Next, Queue!Promise, Queue!Schedule
<1>8. ASSUME NEW e \in Event,
             w' = w, eventPhase' = [eventPhase EXCEPT ![e] = tooth], UNCHANGED tooth
      PROVE  Queue!Next
  BY <1>0, <1>8 DEF Queue!Next, Queue!Promise, Queue!ScheduleNow
<1>9. ASSUME NEW n \in 1 .. Len(w),
             w' = Without(w, n), eventPhase[w[n]] = tooth, UNCHANGED <<eventPhase, tooth>>
      PROVE  Queue!Next
  <2>1. n \in DOMAIN w
    BY <1>3, LenProperties
  <2>2. w' = Queue!RemoveAt(w, n)
    BY <1>9 DEF Without, Queue!RemoveAt
  <2> QED
    BY <1>0, <1>9, <2>1, <2>2 DEF Queue!Next, Queue!Promise, Queue!HandOver
<1> QED
  BY <1>5, <1>6, <1>7, <1>8, <1>9 DEF QueueStep

\* The step that breaks the condition of the queue.
LEMMA RelinkImplements ==
  ASSUME NEW a \in Seq(Event), NEW k \in Seq(Event), NEW i \in Nat, WalkInv(a, k, i), Relinks(k)
  PROVE  Queue!Next
<1> DEFINE w == Chain(keephead) \o Chain(m_angleBasedEventsHead)
<1>1. w = k \o a
  BY ListsOfInv
<1>2. w \in Seq(Event) /\ Elements(w) = Elements(k) \cup Elements(a)
  BY <1>1, ConcatElements
<1>3. \A e : e \in Queue!Range(w) <=> e \in Elements(w)
  BY <1>2, LenProperties DEF Queue!Range, Elements
<1>4. PICK e \in Elements(k), p \in Tooth : eventPhase' = [eventPhase EXCEPT ![e] = p]
  BY DEF Relinks
<1>5. e \in Queue!Range(w)
  BY <1>2, <1>3
<1>6. Queue!Misuse
  BY <1>4, <1>5 DEF Relinks, Queue!Misuse
<1> QED
  BY <1>6 DEF Queue!Next

(***************************************************************************)
(* ImplementsToothQueue: every step of the linked list, with its detached  *)
(* walk and its joining, is a step of the first-in first-out queue that    *)
(* trigger_scheduler.h promises, or changes nothing of it, up to a call    *)
(* that relinks a node of the walked list.                                 *)
(***************************************************************************)
THEOREM ListImplementsQueue == Spec => ImplementsToothQueue
<1>1. Init => Queue!Init
  <2>1. SUFFICES ASSUME Init PROVE Queue!Init
    OBVIOUS
  <2>2. Chain(keephead) = <<>> /\ Chain(m_angleBasedEventsHead) = <<>> /\ TypeOK
    BY <2>1, InitHolds, ListsOfInv
  <2>3. <<>> \o <<>> = <<>>
    BY ConcatEmptySeq, EmptySeq
  <2>4. relinked = FALSE
    BY <2>1 DEF Init
  <2> QED
    BY <2>2, <2>3, <2>4 DEF Queue!Init, TypeOK
<1>2. SchedulerInv /\ [Next]_vars => [Queue!Next]_(Queue!vars)
  <2>1. SUFFICES ASSUME SchedulerInv, [Next]_vars PROVE [Queue!Next]_(Queue!vars)
    OBVIOUS
  <2>2. CASE relinked
    <3>1. relinked'
      BY <2>1, <2>2, StepTypes DEF SchedulerInv
    <3> QED
      BY <2>2, <3>1 DEF Queue!Next
  <2>3. CASE ~relinked
    <3>1. PICK a \in Seq(Event), k \in Seq(Event), i \in Nat : WalkInv(a, k, i)
      BY <2>1, <2>3 DEF SchedulerInv
    <3>2. Kept(a, k) /\ TypeOK
      BY <2>1, <3>1, StepKeeps DEF SchedulerInv
    <3>3. CASE Relinks(k)
      BY <3>1, <3>3, RelinkImplements
    <3>4. ASSUME NEW b \in Seq(Event), NEW m \in Seq(Event), NEW j \in Nat,
                 WalkInv(b, m, j)', QueueStep(k \o a, m \o b)
          PROVE  [Queue!Next]_(Queue!vars)
      BY <3>1, <3>2, <3>4, QueueStepImplements
    <3> QED
      BY <3>2, <3>3, <3>4 DEF Kept
  <2> QED
    BY <2>2, <2>3
<1> QED
  BY <1>1, <1>2, SchedulerInvariant, PTL DEF Spec, ImplementsToothQueue, Queue!Spec

===============================================================================
