---------------------- MODULE SingleTimerExecutor_proofs ----------------------
(***************************************************************************)
(* Theorems about the event scheduler for every number of records, every   *)
(* pool size and every choice of the timing constants, with their TLAPS    *)
(* proofs.                                                                 *)
(***************************************************************************)
EXTENDS SingleTimerExecutor, FiniteSetTheorems, SequenceTheorems, TLAPS

-------------------------------------------------------------------------------
(***************************************************************************)
(* What linking a record into a list and unlinking one do, index by index. *)
(***************************************************************************)

\* r is q without its k-th element.
IsRemoval(r, S, q, k) ==
  /\ r \in Seq(S) /\ Len(r) = Len(q) - 1
  /\ \A i \in 1..Len(q)-1 : r[i] = IF i < k THEN q[i] ELSE q[i+1]

\* r is q with e as a new k-th element.
IsInsertion(r, S, q, k, e) ==
  /\ r \in Seq(S) /\ Len(r) = Len(q) + 1
  /\ \A i \in 1..Len(q)+1 :
       r[i] = IF i < k THEN q[i] ELSE IF i = k THEN e ELSE q[i-1]

\* Unlinking the k-th element (EventQueue::remove) keeps every other one.
LEMMA RemoveAtShape ==
  ASSUME NEW S, NEW q \in Seq(S), NEW k \in 1..Len(q)
  PROVE  IsRemoval(RemoveAt(q, k), S, q, k)
<1> DEFINE a == SubSeq(q, 1, k-1)
           b == SubSeq(q, k+1, Len(q))
<1>1. /\ a \in Seq(S) /\ Len(a) = k - 1
      /\ \A i \in 1..k-1 : a[i] = q[i]
  BY SubSeqProperties
<1>2. /\ b \in Seq(S) /\ Len(b) = Len(q) - k
      /\ \A i \in 1..Len(q)-k : b[i] = q[k+i]
  BY SubSeqProperties
<1>3. RemoveAt(q,k) = a \o b
  BY DEF RemoveAt
<1> HIDE DEF a, b
<1>4. /\ a \o b \in Seq(S)
      /\ Len(a \o b) = Len(a) + Len(b)
      /\ \A i \in 1..Len(a)+Len(b) : (a \o b)[i] =
           IF i <= Len(a) THEN a[i] ELSE b[i - Len(a)]
  BY <1>1, <1>2, ConcatProperties
<1> QED BY <1>1, <1>2, <1>3, <1>4 DEF IsRemoval

\* Linking e in as the k-th element (EventQueue::insertTask) shifts the rest.
LEMMA InsertAtShape ==
  ASSUME NEW S, NEW q \in Seq(S), NEW e \in S, NEW k \in 1..Len(q)+1
  PROVE  IsInsertion(InsertAt(q, k, e), S, q, k, e)
<1> DEFINE a == SubSeq(q, 1, k-1)
           b == SubSeq(q, k, Len(q))
           c == a \o <<e>>
<1>1. /\ a \in Seq(S) /\ Len(a) = k - 1
      /\ \A i \in 1..k-1 : a[i] = q[i]
  BY SubSeqProperties
<1>2. /\ b \in Seq(S) /\ Len(b) = Len(q) - k + 1
      /\ \A i \in 1..Len(q)-k+1 : b[i] = q[k+i-1]
  BY SubSeqProperties
<1>3. InsertAt(q,k,e) = c \o b
  BY DEF InsertAt
<1> HIDE DEF a, b
<1>4. /\ c \in Seq(S) /\ Len(c) = k
      /\ \A i \in 1..k-1 : c[i] = q[i]
      /\ c[k] = e
  BY <1>1
<1> HIDE DEF c
<1>5. /\ c \o b \in Seq(S)
      /\ Len(c \o b) = Len(c) + Len(b)
      /\ \A i \in 1..Len(c)+Len(b) : (c \o b)[i] =
           IF i <= Len(c) THEN c[i] ELSE b[i - Len(c)]
  BY <1>2, <1>4, ConcatProperties
<1> QED BY <1>2, <1>3, <1>4, <1>5 DEF IsInsertion

\* The three places an element of the longer list can come from.
InsertAtCase(q, k, e, i) ==
  \/ /\ i < k /\ i \in 1..Len(q)
     /\ InsertAt(q, k, e)[i] = q[i]
  \/ /\ i = k
     /\ InsertAt(q, k, e)[i] = e
  \/ /\ i > k /\ i - 1 \in 1..Len(q) /\ i - 1 >= k
     /\ InsertAt(q, k, e)[i] = q[i-1]

LEMMA InsertAtCases ==
  ASSUME NEW S, NEW q \in Seq(S), NEW e \in S, NEW k \in 1..Len(q)+1
  PROVE  \A i \in 1..Len(InsertAt(q, k, e)) : InsertAtCase(q, k, e, i)
<1> DEFINE r == InsertAt(q, k, e)
<1>0. IsInsertion(r, S, q, k, e)
  BY InsertAtShape, Zenon
<1> HIDE DEF r
<1>1. /\ r \in Seq(S) /\ Len(r) = Len(q) + 1
      /\ \A i \in 1..Len(q)+1 :
           r[i] = IF i < k THEN q[i] ELSE IF i = k THEN e ELSE q[i-1]
  BY <1>0 DEF IsInsertion
<1>2. ASSUME NEW i \in 1..Len(r)
      PROVE  \/ i < k /\ i \in 1..Len(q) /\ r[i] = q[i]
             \/ i = k /\ r[i] = e
             \/ i > k /\ i - 1 \in 1..Len(q) /\ i - 1 >= k /\ r[i] = q[i-1]
  BY <1>1
<1> QED BY <1>2 DEF InsertAtCase, r

\* A record is in the list after an insertion iff it was or is the new one.
LEMMA InsertAtMembers ==
  ASSUME NEW S, NEW q \in Seq(S), NEW e \in S, NEW k \in 1..Len(q)+1, NEW x
  PROVE  Contains(InsertAt(q, k, e), x) <=> (Contains(q, x) \/ x = e)
<1> DEFINE r == InsertAt(q, k, e)
<1>0. IsInsertion(r, S, q, k, e)
  BY InsertAtShape, Zenon
<1> HIDE DEF r
<1>1. /\ r \in Seq(S) /\ Len(r) = Len(q) + 1
      /\ \A i \in 1..Len(q)+1 :
           r[i] = IF i < k THEN q[i] ELSE IF i = k THEN e ELSE q[i-1]
  BY <1>0 DEF IsInsertion
<1>2. ASSUME NEW i \in 1..Len(q), q[i] = x PROVE \E j \in 1..Len(r) : r[j] = x
  <2>1. CASE i < k
    BY <1>1, <1>2, <2>1
  <2>2. CASE i >= k
    <3>1. i + 1 \in 1..Len(r) /\ r[i + 1] = q[i]
      BY <1>1, <2>2
    <3> QED BY <3>1, <1>2
  <2> QED BY <2>1, <2>2
<1>3. ASSUME x = e PROVE \E j \in 1..Len(r) : r[j] = x
  BY <1>1, <1>3
<1>4. ASSUME NEW j \in 1..Len(r), r[j] = x, x # e PROVE \E i \in 1..Len(q) : q[i] = x
  <2>1. CASE j < k
    BY <1>1, <1>4, <2>1
  <2>2. CASE j > k
    <3>1. j - 1 \in 1..Len(q) /\ q[j - 1] = r[j]
      BY <1>1, <2>2
    <3> QED BY <3>1, <1>4
  <2> QED BY <1>1, <1>4, <2>1, <2>2
<1> QED BY <1>2, <1>3, <1>4 DEF Contains, r

Distinct(q) == \A i, j \in 1..Len(q) : i # j => q[i] # q[j]

\* Linking in a record that is not in the list keeps the list free of
\* duplicates.
LEMMA InsertAtDistinct ==
  ASSUME NEW S, NEW q \in Seq(S), NEW e \in S, NEW k \in 1..Len(q)+1,
         ~Contains(q, e), Distinct(q)
  PROVE  Distinct(InsertAt(q, k, e))
<1> DEFINE r == InsertAt(q, k, e)
<1>1. \A i \in 1..Len(r) : InsertAtCase(q, k, e, i)
  BY InsertAtCases
<1>2. \A i \in 1..Len(q) : q[i] # e
  BY DEF Contains
<1>3. ASSUME NEW i \in 1..Len(r), NEW j \in 1..Len(r), i # j PROVE r[i] # r[j]
  <2>1. InsertAtCase(q, k, e, i) /\ InsertAtCase(q, k, e, j)
    BY <1>1
  <2>2. i \in Int /\ j \in Int /\ k \in Int
    OBVIOUS
  <2>3. \A m, n \in 1..Len(q) : m # n => q[m] # q[n]
    BY DEF Distinct
  <2> QED BY <1>2, <1>3, <2>1, <2>2, <2>3 DEF InsertAtCase
<1> QED BY <1>3 DEF Distinct

\* Unlinking the k-th record of a list without duplicates removes that record
\* and no other, and leaves no duplicates.
LEMMA RemoveAtMembers ==
  ASSUME NEW S, NEW q \in Seq(S), NEW k \in 1..Len(q), Distinct(q)
  PROVE  /\ \A x : Contains(RemoveAt(q, k), x) <=> (Contains(q, x) /\ x # q[k])
         /\ Distinct(RemoveAt(q, k))
<1>0. \A i, j \in 1..Len(q) : i # j => q[i] # q[j]
  BY DEF Distinct
<1> USE <1>0
<1> DEFINE r == RemoveAt(q, k)
<1>0b. IsRemoval(r, S, q, k)
  BY RemoveAtShape, Zenon
<1> HIDE DEF r
<1>1. /\ r \in Seq(S) /\ Len(r) = Len(q) - 1
      /\ \A i \in 1..Len(q)-1 : r[i] = IF i < k THEN q[i] ELSE q[i+1]
  BY <1>0b DEF IsRemoval
<1>2. ASSUME NEW i \in 1..Len(q), i # k PROVE \E j \in 1..Len(r) : r[j] = q[i]
  <2>1. CASE i < k
    BY <1>1, <1>2, <2>1
  <2>2. CASE i > k
    <3>1. i - 1 \in 1..Len(r) /\ r[i - 1] = q[i]
      BY <1>1, <2>2
    <3> QED BY <3>1
  <2> QED BY <1>2, <2>1, <2>2
<1>3. ASSUME NEW j \in 1..Len(r) PROVE \E i \in 1..Len(q) : i # k /\ q[i] = r[j]
  <2>1. CASE j < k
    BY <1>1, <1>3, <2>1
  <2>2. CASE j >= k
    <3>1. j + 1 \in 1..Len(q) /\ j + 1 # k /\ q[j + 1] = r[j]
      BY <1>1, <2>2
    <3> QED BY <3>1
  <2> QED BY <2>1, <2>2
<1>4. ASSUME NEW x PROVE Contains(r, x) <=> (Contains(q, x) /\ x # q[k])
  <2>1. ASSUME NEW i \in 1..Len(q), q[i] = x, x # q[k]
        PROVE  \E j \in 1..Len(r) : r[j] = x
    BY <1>2, <2>1
  <2>2. ASSUME NEW j \in 1..Len(r), r[j] = x
        PROVE  x # q[k] /\ \E i \in 1..Len(q) : q[i] = x
    <3>1. PICK i \in 1..Len(q) : i # k /\ q[i] = r[j]
      BY <1>3
    <3> QED BY <3>1, <2>2
  <2> QED BY <2>1, <2>2 DEF Contains
<1>5. ASSUME NEW i \in 1..Len(r), NEW j \in 1..Len(r), i < j PROVE r[i] # r[j]
  <2>1. /\ i \in 1..Len(q) /\ i + 1 \in 1..Len(q)
        /\ j \in 1..Len(q) /\ j + 1 \in 1..Len(q)
    BY <1>1
  <2>2. /\ r[i] = IF i < k THEN q[i] ELSE q[i+1]
        /\ r[j] = IF j < k THEN q[j] ELSE q[j+1]
    BY <1>1
  <2>3. i # j /\ i # j + 1 /\ i + 1 # j + 1 /\ (~(i < k) => ~(j < k))
    BY <1>1, <1>5
  <2> QED BY <2>1, <2>2, <2>3
<1>6. ASSUME NEW i \in 1..Len(r), NEW j \in 1..Len(r), i # j PROVE r[i] # r[j]
  <2>1. i < j \/ j < i
    BY <1>1, <1>6
  <2> QED BY <1>5, <2>1
<1> QED BY <1>4, <1>6 DEF r, Distinct

\* Stepping m_head forward is unlinking the first record.
LEMMA TailIsRemoveAt ==
  ASSUME NEW S, NEW q \in Seq(S), q # <<>>
  PROVE  /\ 1 \in 1..Len(q)
         /\ Tail(q) = RemoveAt(q, 1)
         /\ Head(q) = q[1]
<1>1. Len(q) \in Nat /\ Len(q) > 0
  BY EmptySeq
<1>2. /\ RemoveAt(q, 1) \in Seq(S)
      /\ Len(RemoveAt(q, 1)) = Len(q) - 1
      /\ \A i \in 1..Len(q)-1 : RemoveAt(q, 1)[i] = q[i+1]
  BY <1>1, RemoveAtShape DEF IsRemoval
<1>3. /\ Tail(q) \in Seq(S)
      /\ Len(Tail(q)) = Len(q) - 1
      /\ \A i \in 1..Len(q)-1 : Tail(q)[i] = q[i+1]
  BY HeadTailProperties
<1>4. Tail(q) = RemoveAt(q, 1)
  BY <1>2, <1>3, SeqEqual
<1> QED BY <1>1, <1>4

-------------------------------------------------------------------------------
(***************************************************************************)
(* The queue's own invariant, and that each operation preserves it.        *)
(***************************************************************************)
QueueType ==
  /\ queue \in Seq(Record)
  /\ momentX \in [Record -> Nat]
  /\ action \in [Record -> Action \cup {NoAction}]
  /\ m_freelist \in Seq(Pool)

QueueInv == QueueType /\ ListIsSorted /\ ScheduledFlagExact /\ PoolConserved

\* The search of insertTask stops at a place where the list stays sorted.
LEMMA LinkInShape ==
  ASSUME QueueType, ListIsSorted, NEW s \in Record, NEW t \in Nat, LinkIn(s, t)
  PROVE  \E k \in 1..Len(queue)+1 :
           /\ queue' = InsertAt(queue, k, s)
           /\ k = 1 <=> GoesToHead(t)
           /\ \A i \in 1..Len(queue) : i < k => momentX[queue[i]] <= t
           /\ \A i \in 1..Len(queue) : i >= k => t <= momentX[queue[i]]
<1> USE DEF QueueType
<1>0. Len(queue) \in Nat /\ \A i \in 1..Len(queue) : queue[i] \in Record
  OBVIOUS
<1>1. CASE GoesToHead(t)
  <2>1. queue' = InsertAt(queue, 1, s)
    BY <1>1 DEF LinkIn
  <2>2. ASSUME NEW i \in 1..Len(queue) PROVE t <= momentX[queue[i]]
    <3>1. queue # <<>> /\ Head(queue) = queue[1] /\ 1 \in 1..Len(queue)
      BY <2>2
    <3>2. t < momentX[queue[1]]
      BY <1>1, <3>1 DEF GoesToHead
    <3>3. momentX[queue[1]] <= momentX[queue[i]]
      <4>1. CASE i = 1
        BY <1>0, <4>1
      <4>2. CASE i # 1
        BY <4>2, <3>1 DEF ListIsSorted
      <4> QED BY <4>1, <4>2
    <3>4. momentX[queue[1]] \in Nat /\ momentX[queue[i]] \in Nat
      BY <1>0, <3>1
    <3> QED BY <3>2, <3>3, <3>4
  <2>3. 1 \in 1..Len(queue)+1
    BY <1>0
  <2>4. \A i \in 1..Len(queue) : i < 1 => momentX[queue[i]] <= t
    BY <1>0
  <2> QED BY <1>1, <2>1, <2>2, <2>3, <2>4
<1>2. CASE ~GoesToHead(t)
  <2>1. PICK k \in 1..Len(queue) : /\ WalkStopsAt(k, t)
                                   /\ queue' = InsertAt(queue, k + 1, s)
    BY <1>2 DEF LinkIn
  <2>2. queue # <<>> /\ Head(queue) = queue[1] /\ 1 \in 1..Len(queue)
    BY <1>2 DEF GoesToHead
  <2>3. momentX[queue[1]] <= t
    <3>1. ~(t < momentX[queue[1]])
      BY <1>2, <2>2 DEF GoesToHead
    <3>2. momentX[queue[1]] \in Nat
      BY <1>0, <2>2
    <3> QED BY <3>1, <3>2
  <2>4. ASSUME NEW i \in 1..Len(queue), i < k + 1 PROVE momentX[queue[i]] <= t
    <3>1. momentX[queue[i]] \in Nat
      BY <1>0
    <3>2. CASE i = 1
      BY <2>3, <3>2
    <3>3. CASE i # 1
      <4>1. i \in 2..k
        BY <2>4, <3>3
      <4>2. momentX[queue[i]] < t
        BY <2>1, <4>1 DEF WalkStopsAt
      <4> QED BY <3>1, <4>2
    <3> QED BY <3>2, <3>3
  <2>5. ASSUME NEW i \in 1..Len(queue), i >= k + 1 PROVE t <= momentX[queue[i]]
    <3>1. k < Len(queue) /\ k + 1 \in 1..Len(queue)
      BY <2>5, <1>0
    <3>2. t <= momentX[queue[k+1]]
      BY <2>1, <3>1 DEF WalkStopsAt
    <3>3. momentX[queue[k+1]] <= momentX[queue[i]]
      <4>1. CASE i = k + 1
        BY <1>0, <4>1
      <4>2. CASE i # k + 1
        BY <2>5, <3>1, <4>2 DEF ListIsSorted
      <4> QED BY <4>1, <4>2
    <3>4. momentX[queue[k+1]] \in Nat /\ momentX[queue[i]] \in Nat
      BY <1>0, <3>1
    <3> QED BY <3>2, <3>3, <3>4
  <2>6. k + 1 \in 1..Len(queue)+1 /\ k + 1 # 1
    BY <1>0
  <2> QED BY <1>2, <2>1, <2>4, <2>5, <2>6
<1> QED BY <1>1, <1>2

LEMMA LeqTransitive ==
  ASSUME NEW x \in Nat, NEW y \in Nat, NEW z \in Nat, x <= y, y <= z
  PROVE  x <= z
OBVIOUS

SortedBy(q, f) == \A i, j \in 1..Len(q) : i < j => f[q[i]] <= f[q[j]]

AgreeOn(q, f, g) == \A i \in 1..Len(q) : g[q[i]] = f[q[i]]

FitsAt(q, k, f, t) ==
  /\ \A i \in 1..Len(q) : i < k => f[q[i]] <= t
  /\ \A i \in 1..Len(q) : i >= k => t <= f[q[i]]

\* A sorted list with a new record linked in at such a place is sorted, for
\* the times f before and g after the record got its own.
LEMMA InsertAtSorted ==
  ASSUME NEW S, NEW q \in Seq(S), NEW e \in S, NEW k \in 1..Len(q)+1,
         NEW f \in [S -> Nat], NEW g \in [S -> Nat],
         AgreeOn(q, f, g), SortedBy(q, f), FitsAt(q, k, f, g[e])
  PROVE  SortedBy(InsertAt(q, k, e), g)
<1>0. /\ \A i \in 1..Len(q) : g[q[i]] = f[q[i]]
      /\ \A i, j \in 1..Len(q) : i < j => f[q[i]] <= f[q[j]]
      /\ \A i \in 1..Len(q) : i < k => f[q[i]] <= g[e]
      /\ \A i \in 1..Len(q) : i >= k => g[e] <= f[q[i]]
  BY DEF AgreeOn, SortedBy, FitsAt
<1> USE <1>0
<1> DEFINE r == InsertAt(q, k, e)
<1>1. \A i \in 1..Len(r) : InsertAtCase(q, k, e, i)
  BY InsertAtCases
<1>2. ASSUME NEW i \in 1..Len(r), NEW j \in 1..Len(r), i < j
      PROVE  g[r[i]] <= g[r[j]]
  <2>1. InsertAtCase(q, k, e, i) /\ InsertAtCase(q, k, e, j)
    BY <1>1
  <2>2. i \in Int /\ j \in Int /\ k \in Int /\ g[e] \in Nat
    OBVIOUS
  <2> HIDE DEF r
  <2>3. CASE j < k
    <3>1. i \in 1..Len(q) /\ j \in 1..Len(q) /\ r[i] = q[i] /\ r[j] = q[j]
      BY <1>2, <2>1, <2>2, <2>3 DEF InsertAtCase, r
    <3> QED BY <1>2, <3>1
  <2>4. CASE j = k
    <3>1. i \in 1..Len(q) /\ i < k /\ r[i] = q[i] /\ r[j] = e
      BY <1>2, <2>1, <2>2, <2>4 DEF InsertAtCase, r
    <3> QED BY <3>1
  <2>5. CASE j > k
    <3>1. j - 1 \in 1..Len(q) /\ j - 1 >= k /\ r[j] = q[j-1]
      BY <2>1, <2>2, <2>5 DEF InsertAtCase, r
    <3>2. g[r[j]] = f[q[j-1]] /\ g[e] <= f[q[j-1]] /\ f[q[j-1]] \in Nat
      BY <3>1
    <3>3. CASE i < k
      <4>1. i \in 1..Len(q) /\ r[i] = q[i]
        BY <2>1, <2>2, <3>3 DEF InsertAtCase, r
      <4>2. g[r[i]] = f[q[i]] /\ f[q[i]] <= g[e] /\ f[q[i]] \in Nat
        BY <3>3, <4>1
      <4>3. f[q[i]] <= f[q[j-1]]
        BY <2>2, <3>2, <4>2, LeqTransitive
      <4> QED BY <3>2, <4>2, <4>3
    <3>4. CASE i = k
      <4>1. r[i] = e
        BY <2>1, <2>2, <3>4 DEF InsertAtCase, r
      <4> QED BY <3>2, <4>1
    <3>5. CASE i > k
      <4>1. i - 1 \in 1..Len(q) /\ r[i] = q[i-1]
        BY <2>1, <2>2, <3>5 DEF InsertAtCase, r
      <4>2. i - 1 < j - 1
        BY <1>2, <2>2
      <4>3. f[q[i-1]] <= f[q[j-1]] /\ g[q[i-1]] = f[q[i-1]]
        BY <3>1, <4>1, <4>2
      <4> QED BY <3>2, <4>1, <4>3
    <3> QED BY <2>2, <3>3, <3>4, <3>5
  <2> QED BY <2>2, <2>3, <2>4, <2>5
<1> QED BY <1>2 DEF SortedBy

LEMMA LinkInSorted ==
  ASSUME QueueType, ListIsSorted, NEW s \in Record, NEW t \in Nat, LinkIn(s, t),
         ~InQueue(s), momentX' = [momentX EXCEPT ![s] = t]
  PROVE  ListIsSorted'
<1>1. PICK k \in 1..Len(queue)+1 :
        /\ queue' = InsertAt(queue, k, s)
        /\ \A i \in 1..Len(queue) : i < k => momentX[queue[i]] <= t
        /\ \A i \in 1..Len(queue) : i >= k => t <= momentX[queue[i]]
  BY LinkInShape
<1>2. queue \in Seq(Record) /\ momentX \in [Record -> Nat]
  BY DEF QueueType
<1>3. /\ momentX' \in [Record -> Nat]
      /\ momentX'[s] = t
      /\ \A i \in 1..Len(queue) : momentX'[queue[i]] = momentX[queue[i]]
  BY <1>2 DEF InQueue, Contains
<1>4. /\ AgreeOn(queue, momentX, momentX')
      /\ SortedBy(queue, momentX)
      /\ FitsAt(queue, k, momentX, momentX'[s])
  BY <1>1, <1>3 DEF ListIsSorted, AgreeOn, SortedBy, FitsAt
<1>5. SortedBy(InsertAt(queue, k, s), momentX')
  BY <1>2, <1>3, <1>4, InsertAtSorted, Zenon
<1> QED BY <1>1, <1>5 DEF ListIsSorted, SortedBy

\* Unlinking a record keeps the list sorted.
LEMMA RemoveAtSorted ==
  ASSUME NEW S, NEW q \in Seq(S), NEW k \in 1..Len(q), NEW f, SortedBy(q, f)
  PROVE  SortedBy(RemoveAt(q, k), f)
<1> DEFINE r == RemoveAt(q, k)
<1>0. IsRemoval(r, S, q, k)
  BY RemoveAtShape, Zenon
<1> HIDE DEF r
<1>1. /\ Len(r) = Len(q) - 1
      /\ \A i \in 1..Len(q)-1 : r[i] = IF i < k THEN q[i] ELSE q[i+1]
  BY <1>0 DEF IsRemoval
<1>2. ASSUME NEW i \in 1..Len(r), NEW j \in 1..Len(r), i < j
      PROVE  f[r[i]] <= f[r[j]]
  <2>1. \E m, n \in 1..Len(q) : m < n /\ r[i] = q[m] /\ r[j] = q[n]
    <3>1. CASE j < k
      <4>1. i \in 1..Len(q) /\ j \in 1..Len(q) /\ r[i] = q[i] /\ r[j] = q[j]
        BY <1>1, <1>2, <3>1
      <4> QED BY <1>2, <4>1
    <3>2. CASE j >= k /\ i < k
      <4>1. /\ i \in 1..Len(q) /\ j + 1 \in 1..Len(q) /\ i < j + 1
        BY <1>1, <1>2, <3>2
      <4>2. r[i] = q[i] /\ r[j] = q[j+1]
        BY <1>1, <3>2
      <4> QED BY <4>1, <4>2
    <3>3. CASE i >= k
      <4>1. /\ i + 1 \in 1..Len(q) /\ j + 1 \in 1..Len(q) /\ i + 1 < j + 1
            /\ r[i] = q[i+1] /\ r[j] = q[j+1]
        BY <1>1, <1>2, <3>3
      <4> QED BY <4>1
    <3> QED BY <1>1, <3>1, <3>2, <3>3
  <2> QED BY <2>1 DEF SortedBy
<1> QED BY <1>2 DEF SortedBy, r

\* In a sorted list the head is the soonest event.
LEMMA HeadIsSoonest ==
  ASSUME QueueInv, queue # <<>>
  PROVE  /\ Head(queue) \in Record /\ InQueue(Head(queue))
         /\ momentX[Head(queue)] \in Nat
         /\ \A s \in Record : InQueue(s) => momentX[Head(queue)] <= momentX[s]
<1> USE DEF QueueInv, QueueType
<1>1. 1 \in 1..Len(queue) /\ Head(queue) = queue[1]
  BY TailIsRemoveAt
<1>2. Head(queue) \in Record /\ momentX[Head(queue)] \in Nat
  BY <1>1
<1>3. InQueue(Head(queue))
  BY <1>1 DEF InQueue, Contains
<1>4. ASSUME NEW i \in 1..Len(queue) PROVE momentX[Head(queue)] <= momentX[queue[i]]
  <2>1. CASE i = 1
    BY <1>1, <1>2, <2>1
  <2>2. CASE i # 1
    <3>1. 1 < i
      BY <2>2
    <3> QED BY <1>1, <3>1 DEF ListIsSorted
  <2> QED BY <2>1, <2>2
<1> QED BY <1>2, <1>3, <1>4 DEF InQueue, Contains

\* What insertTask does: nothing, or the record, which was not in the list, is
\* linked in.  In the first case the free list is as before, too: the branch
\* that would lose a pool record is never taken.
LEMMA InsertTaskCases ==
  ASSUME QueueInv, NEW req \in Owned \cup {nullptr}, NEW t \in Nat,
         NEW a \in Action, InsertTask(req, t, a)
  PROVE  \/ UNCHANGED queueVars /\ ~InsertedAtHead(req, t)
         \/ /\ ~PoolExhausted(req)
            /\ Storage(req) \in Record
            /\ ~InQueue(Storage(req))
            /\ LinkIn(Storage(req), t)
            /\ momentX' = [momentX EXCEPT ![Storage(req)] = t]
            /\ action' = [action EXCEPT ![Storage(req)] = a]
            /\ \/ req = nullptr /\ m_freelist' = Tail(m_freelist)
               \/ req \in Owned /\ m_freelist' = m_freelist
            /\ InsertedAtHead(req, t) <=> GoesToHead(t)
<1> USE EventQueueAssumption DEF QueueInv, QueueType
<1>1. CASE PoolExhausted(req)
  BY <1>1 DEF InsertTask, InsertedAtHead
<1>2. CASE ~PoolExhausted(req)
  <2>1. m_freelist' = IF req = nullptr THEN Tail(m_freelist) ELSE m_freelist
    BY <1>2 DEF InsertTask
  <2>2. ASSUME req = nullptr
        PROVE  /\ Storage(req) \in Pool
               /\ action[Storage(req)] = NoAction
    <3>1. m_freelist # <<>>
      BY <1>2, <2>2 DEF PoolExhausted
    <3>2. /\ 1 \in 1..Len(m_freelist)
          /\ Head(m_freelist) = m_freelist[1]
      BY <3>1, TailIsRemoveAt
    <3>3. Storage(req) = m_freelist[1] /\ m_freelist[1] \in Pool
      BY <2>2, <3>2 DEF Storage
    <3>4. Contains(m_freelist, m_freelist[1])
      BY <3>2 DEF Contains
    <3>5. ~InQueue(m_freelist[1])
      BY <3>3, <3>4 DEF PoolConserved
    <3> QED BY <3>3, <3>5 DEF ScheduledFlagExact, Record
  <2>3. Storage(req) \in Record
    BY <2>2 DEF Storage, Record
  <2>4. CASE action[Storage(req)] # NoAction
    BY <1>2, <2>1, <2>2, <2>4 DEF InsertTask, InsertedAtHead, queueVars
  <2>5. CASE action[Storage(req)] = NoAction
    <3>1. ~InQueue(Storage(req))
      BY <2>3, <2>5 DEF ScheduledFlagExact
    <3> QED BY <1>2, <2>1, <2>3, <2>5, <3>1 DEF InsertTask, InsertedAtHead
  <2> QED BY <2>4, <2>5
<1> QED BY <1>1, <1>2

\* insertTask preserves the queue's invariant.
LEMMA InsertTaskInv ==
  ASSUME QueueInv, NEW req \in Owned \cup {nullptr}, NEW t \in Nat,
         NEW a \in Action, InsertTask(req, t, a)
  PROVE  QueueInv'
<1>1. CASE UNCHANGED queueVars
  BY <1>1 DEF QueueInv, QueueType, ListIsSorted, ScheduledFlagExact, PoolConserved,
              InQueue, queueVars
<1>2. CASE /\ ~PoolExhausted(req)
           /\ Storage(req) \in Record
           /\ ~InQueue(Storage(req))
           /\ LinkIn(Storage(req), t)
           /\ momentX' = [momentX EXCEPT ![Storage(req)] = t]
           /\ action' = [action EXCEPT ![Storage(req)] = a]
           /\ \/ req = nullptr /\ m_freelist' = Tail(m_freelist)
              \/ req \in Owned /\ m_freelist' = m_freelist
  <2> DEFINE s == Storage(req)
  <2>1. /\ s \in Record /\ ~InQueue(s) /\ LinkIn(s, t)
        /\ momentX' = [momentX EXCEPT ![s] = t]
        /\ action' = [action EXCEPT ![s] = a]
    BY <1>2
  <2>2. /\ queue \in Seq(Record) /\ m_freelist \in Seq(Pool)
        /\ QueueType /\ ListIsSorted
        /\ Distinct(queue) /\ Distinct(m_freelist)
    BY DEF QueueInv, QueueType, ScheduledFlagExact, PoolConserved, Distinct
  <2> HIDE DEF s
  <2>3. PICK k \in 1..Len(queue)+1 : queue' = InsertAt(queue, k, s)
    BY <2>1, <2>2, LinkInShape
  <2>4. queue' \in Seq(Record)
    BY <2>1, <2>2, <2>3, InsertAtShape DEF IsInsertion
  <2>5. \A x : Contains(queue', x) <=> (Contains(queue, x) \/ x = s)
    BY <2>1, <2>2, <2>3, InsertAtMembers
  <2>6. Distinct(queue')
    BY <2>1, <2>2, <2>3, InsertAtDistinct DEF InQueue
  <2>7. ListIsSorted'
    BY <2>1, <2>2, LinkInSorted
  <2>8. ScheduledFlagExact'
    <3>1. \A x \in Record : action'[x] = IF x = s THEN a ELSE action[x]
      BY <2>1 DEF QueueInv, QueueType
    <3>2. a # NoAction
      BY EventQueueAssumption
    <3> QED BY <2>5, <2>6, <3>1, <3>2
            DEF QueueInv, ScheduledFlagExact, InQueue, Distinct
  <2>9. m_freelist' \in Seq(Pool) /\ PoolConserved'
    <3>1. CASE req = nullptr /\ m_freelist' = Tail(m_freelist)
      <4>1. m_freelist # <<>> /\ s = Head(m_freelist)
        BY <1>2, <3>1 DEF PoolExhausted, Storage, s
      <4>2. /\ 1 \in 1..Len(m_freelist)
            /\ m_freelist' = RemoveAt(m_freelist, 1)
            /\ s = m_freelist[1]
        BY <2>2, <3>1, <4>1, TailIsRemoveAt
      <4>3. m_freelist' \in Seq(Pool)
        BY <2>2, <4>2, RemoveAtShape DEF IsRemoval
      <4>4. /\ \A x : Contains(m_freelist', x) <=> (Contains(m_freelist, x) /\ x # s)
            /\ Distinct(m_freelist')
        BY <2>2, <4>2, RemoveAtMembers
      <4> QED BY <2>5, <4>3, <4>4 DEF QueueInv, PoolConserved, InQueue, Distinct
    <3>2. CASE req \in Owned /\ m_freelist' = m_freelist
      <4>1. s \notin Pool
        BY <3>2, EventQueueAssumption DEF Storage, s
      <4> QED BY <2>2, <2>5, <3>2, <4>1 DEF QueueInv, PoolConserved, InQueue
    <3> QED BY <1>2, <3>1, <3>2
  <2>10. /\ momentX' \in [Record -> Nat]
         /\ action' \in [Record -> Action \cup {NoAction}]
    BY <2>1 DEF QueueInv, QueueType
  <2> QED BY <2>4, <2>7, <2>8, <2>9, <2>10 DEF QueueInv, QueueType
<1> QED BY <1>1, <1>2, InsertTaskCases

\* insertTask that does not report a new head leaves the old one in place.
LEMMA InsertTaskHead ==
  ASSUME QueueInv, NEW req \in Owned \cup {nullptr}, NEW t \in Nat,
         NEW a \in Action, InsertTask(req, t, a), ~InsertedAtHead(req, t),
         queue' # <<>>
  PROVE  /\ queue # <<>>
         /\ momentX'[Head(queue')] = momentX[Head(queue)]
<1>1. CASE UNCHANGED queueVars
  BY <1>1 DEF queueVars
<1>2. CASE /\ Storage(req) \in Record
           /\ ~InQueue(Storage(req))
           /\ LinkIn(Storage(req), t)
           /\ momentX' = [momentX EXCEPT ![Storage(req)] = t]
           /\ InsertedAtHead(req, t) <=> GoesToHead(t)
  <2>1. QueueType /\ ListIsSorted /\ queue \in Seq(Record)
    BY DEF QueueInv, QueueType
  <2>2. PICK k \in 1..Len(queue)+1 : /\ queue' = InsertAt(queue, k, Storage(req))
                                     /\ k = 1 <=> GoesToHead(t)
    BY <1>2, <2>1, LinkInShape
  <2>3. queue # <<>> /\ k # 1
    BY <1>2, <2>2 DEF GoesToHead
  <2>4. 1 \in 1..Len(queue) /\ Head(queue) = queue[1]
    BY <2>1, <2>3, TailIsRemoveAt
  <2>5. queue' \in Seq(Record) /\ queue'[1] = queue[1]
    <3> DEFINE r == InsertAt(queue, k, Storage(req))
    <3>1. /\ r \in Seq(Record)
          /\ \A i \in 1..Len(queue)+1 :
               r[i] = IF i < k THEN queue[i]
                      ELSE IF i = k THEN Storage(req) ELSE queue[i-1]
      BY <1>2, <2>1, InsertAtShape DEF IsInsertion
    <3> HIDE DEF r
    <3>2. 1 \in 1..Len(queue)+1 /\ 1 < k
      BY <2>3, <2>4
    <3>3. r[1] = queue[1]
      BY <3>1, <3>2
    <3> QED BY <2>2, <3>1, <3>3 DEF r
  <2>6. Head(queue') = queue[1]
    BY <2>5, TailIsRemoveAt
  <2>7. queue[1] # Storage(req)
    BY <1>2, <2>4 DEF InQueue, Contains
  <2>8. queue[1] \in Record
    BY <2>1, <2>4
  <2> QED BY <1>2, <2>1, <2>3, <2>4, <2>6, <2>7, <2>8 DEF QueueType
<1> QED BY <1>1, <1>2, InsertTaskCases

\* Unlinking the k-th record, clearing its action and giving it back to the
\* free list if it belongs to the pool: the common part of remove (which is
\* called for records of callers only) and of executeOne.
LEMMA UnlinkInv ==
  ASSUME QueueInv, NEW k \in 1..Len(queue),
         queue' = RemoveAt(queue, k),
         action' = [action EXCEPT ![queue[k]] = NoAction],
         TryReturnScheduling(queue[k]),
         momentX' = momentX
  PROVE  /\ QueueInv'
         /\ \A x : InQueue(x)' <=> (InQueue(x) /\ x # queue[k])
<1> DEFINE s == queue[k]
<1>1. /\ queue \in Seq(Record) /\ m_freelist \in Seq(Pool)
      /\ momentX \in [Record -> Nat]
      /\ action \in [Record -> Action \cup {NoAction}]
      /\ Distinct(queue) /\ Distinct(m_freelist) /\ SortedBy(queue, momentX)
  BY DEF QueueInv, QueueType, ScheduledFlagExact, PoolConserved, ListIsSorted,
         Distinct, SortedBy
<1>2. s \in Record /\ InQueue(s)
  BY <1>1 DEF InQueue, Contains
<1>3. queue' \in Seq(Record)
  BY <1>1, RemoveAtShape DEF IsRemoval
<1>4. /\ \A x : Contains(queue', x) <=> (Contains(queue, x) /\ x # s)
      /\ Distinct(queue')
  BY <1>1, RemoveAtMembers
<1>5. ListIsSorted'
  <2>1. SortedBy(RemoveAt(queue, k), momentX)
    BY <1>1, RemoveAtSorted
  <2> QED BY <2>1 DEF ListIsSorted, SortedBy
<1> HIDE DEF s
<1>6. action' = [action EXCEPT ![s] = NoAction] /\ TryReturnScheduling(s)
  BY DEF s
<1>7. ScheduledFlagExact'
  <2>1. \A x \in Record : action'[x] = IF x = s THEN NoAction ELSE action[x]
    BY <1>1, <1>6
  <2> QED BY <1>4, <2>1 DEF QueueInv, ScheduledFlagExact, InQueue, Distinct
<1>8. m_freelist' \in Seq(Pool) /\ PoolConserved'
  <2>1. CASE s \in Pool
    <3>1. m_freelist' = InsertAt(m_freelist, 1, s)
      BY <1>6, <2>1 DEF TryReturnScheduling
    <3>2. 1 \in 1..Len(m_freelist)+1
      BY <1>1
    <3>3. ~Contains(m_freelist, s)
      BY <1>2, <2>1 DEF QueueInv, PoolConserved
    <3>4. m_freelist' \in Seq(Pool)
      BY <1>1, <2>1, <3>1, <3>2, InsertAtShape DEF IsInsertion
    <3>5. \A x : Contains(m_freelist', x) <=> (Contains(m_freelist, x) \/ x = s)
      BY <1>1, <2>1, <3>1, <3>2, InsertAtMembers
    <3>6. Distinct(m_freelist')
      BY <1>1, <2>1, <3>1, <3>2, <3>3, InsertAtDistinct
    <3> QED BY <1>4, <3>4, <3>5, <3>6 DEF QueueInv, PoolConserved, InQueue, Distinct
  <2>2. CASE s \notin Pool
    <3>1. m_freelist' = m_freelist
      BY <1>6, <2>2 DEF TryReturnScheduling
    <3> QED BY <1>1, <1>4, <2>2, <3>1 DEF QueueInv, PoolConserved, InQueue
  <2> QED BY <2>1, <2>2
<1>9. /\ momentX' \in [Record -> Nat]
      /\ action' \in [Record -> Action \cup {NoAction}]
  BY <1>1, <1>6
<1> QED BY <1>3, <1>4, <1>5, <1>7, <1>8, <1>9 DEF QueueInv, QueueType, InQueue, s

\* remove() preserves the queue's invariant, always finds a scheduled record,
\* and the head it leaves is no sooner than the one before.
LEMMA RemoveTaskInv ==
  ASSUME QueueInv, NEW s \in Owned, RemoveTask(s)
  PROVE  /\ QueueInv'
         /\ momentX' = momentX
         /\ \A x : InQueue(x)' <=> (InQueue(x) /\ x # s)
         /\ ~RemoveFails(s)
         /\ queue' # <<>> => /\ queue # <<>>
                             /\ momentX[Head(queue)] <= momentX'[Head(queue')]
<1>1. s \in Record /\ s \notin Pool
  BY EventQueueAssumption DEF Record
<1>2. queue \in Seq(Record) /\ momentX \in [Record -> Nat]
  BY DEF QueueInv, QueueType
<1>3. action[s] # NoAction <=> InQueue(s)
  BY <1>1 DEF QueueInv, ScheduledFlagExact
<1>4. ~RemoveFails(s)
  BY <1>3 DEF RemoveFails
<1>5. ~InQueue(s) \/ queue # <<>>
  BY <1>2 DEF InQueue, Contains
<1>6. CASE action[s] = NoAction \/ queue = <<>>
  <2>1. UNCHANGED queueVars
    BY <1>3, <1>5, <1>6, <1>2 DEF RemoveTask, InQueue, Contains
  <2>2. QueueInv'
    BY <2>1 DEF QueueInv, QueueType, ListIsSorted, ScheduledFlagExact,
                PoolConserved, InQueue, queueVars
  <2>3. ~InQueue(s)
    BY <1>3, <1>5, <1>6
  <2>4. queue # <<>> => momentX[Head(queue)] \in Nat
    BY HeadIsSoonest
  <2> QED BY <1>4, <2>1, <2>2, <2>3, <2>4 DEF queueVars, InQueue
<1>7. CASE action[s] # NoAction /\ queue # <<>>
  <2>1. PICK k \in 1..Len(queue) : queue[k] = s /\ queue' = RemoveAt(queue, k)
    BY <1>4, <1>7 DEF RemoveTask
  <2>2. /\ action' = [action EXCEPT ![queue[k]] = NoAction]
        /\ momentX' = momentX /\ m_freelist' = m_freelist
    BY <1>4, <1>7, <2>1 DEF RemoveTask
  <2>3. TryReturnScheduling(queue[k])
    BY <1>1, <2>1, <2>2 DEF TryReturnScheduling
  <2>4. /\ QueueInv'
        /\ \A x : InQueue(x)' <=> (InQueue(x) /\ x # s)
    BY <2>1, <2>2, <2>3, UnlinkInv
  <2>5. ASSUME queue' # <<>> PROVE momentX[Head(queue)] <= momentX'[Head(queue')]
    <3>1. queue' \in Seq(Record)
      BY <2>4 DEF QueueInv, QueueType
    <3>2. 1 \in 1..Len(queue') /\ Head(queue') = queue'[1] /\ queue'[1] \in Record
      BY <2>5, <3>1, TailIsRemoveAt
    <3>3. PICK h : h = Head(queue')
      OBVIOUS
    <3>4. h \in Record /\ Contains(queue', h)
      BY <3>2, <3>3 DEF Contains
    <3>5. InQueue(h)
      BY <2>4, <3>4 DEF InQueue
    <3> QED BY <1>7, <2>2, <3>3, <3>4, <3>5, HeadIsSoonest
  <2> QED BY <1>4, <1>7, <2>2, <2>4, <2>5
<1> QED BY <1>6, <1>7

\* executeOne's part on the queue preserves its invariant.
LEMMA PopHeadInv ==
  ASSUME QueueInv, PopHead
  PROVE  /\ QueueInv'
         /\ momentX' = momentX
         /\ \A x : InQueue(x)' <=> (InQueue(x) /\ x # Head(queue))
<1>1. queue # <<>> /\ queue \in Seq(Record)
  BY DEF PopHead, QueueInv, QueueType
<1>2. 1 \in 1..Len(queue) /\ Tail(queue) = RemoveAt(queue, 1) /\ Head(queue) = queue[1]
  BY <1>1, TailIsRemoveAt
<1> QED BY <1>2, UnlinkInv DEF PopHead

-------------------------------------------------------------------------------
(***************************************************************************)
(* The inductive invariant of the executor.                                *)
(***************************************************************************)
ExecutorType ==
  /\ now \in Nat /\ armNow \in Nat /\ compare \in Nat
  /\ mode \in {"idle", "execute", "callback", "rearm", "arm"}
  /\ needToResetTimer \in BOOLEAN /\ irqEnabled \in BOOLEAN
  /\ irqPending \in BOOLEAN /\ firmwareError \in BOOLEAN
  /\ executeCounter \in -1..RunLimit + 1

\* Between reading the time and writing the register.
ArmInv ==
  mode = "arm" => queue # <<>> /\ armNow <= now /\ now < armNow + MinDelta

IndInv == QueueInv /\ ExecutorType /\ ArmInv /\ WakeupInv

LEMMA TypeOKParts == TypeOK <=> QueueType /\ ExecutorType
BY DEF TypeOK, QueueType, ExecutorType

LEMMA Constants ==
  /\ LateDelay \in Nat /\ LateDelay > 0
  /\ MinDelta \in Nat /\ MinDelta > 0
  /\ TooFar \in Nat /\ RunLimit \in Nat /\ Horizon \in Nat /\ MaxTime \in Nat
  /\ RetryDelay \in Nat /\ RetryDelay >= LateDelay /\ RetryDelay >= MinDelta
BY ExecutorAssumption DEF RetryDelay

LEMMA InitIndInv == Init => IndInv
<1> SUFFICES ASSUME Init PROVE IndInv
  OBVIOUS
<1>1. /\ queue = <<>> /\ m_freelist \in Seq(Pool)
      /\ Distinct(m_freelist)
      /\ \A p \in Pool : Contains(m_freelist, p)
  <2>1. Cardinality(Pool) \in Nat
    BY EventQueueAssumption, FS_CardinalityType
  <2>2. m_freelist \in [1..Cardinality(Pool) -> Pool]
    BY DEF Init, IsFreelist
  <2>3. m_freelist \in Seq(Pool) /\ Len(m_freelist) = Cardinality(Pool)
    BY <2>1, <2>2
  <2> QED BY <2>2, <2>3 DEF Init, IsFreelist, Distinct, Contains
<1>2. \A x : ~InQueue(x)
  BY <1>1 DEF InQueue, Contains
<1>3. QueueInv
  BY <1>1, <1>2 DEF Init, QueueInv, QueueType, ListIsSorted, ScheduledFlagExact,
                    PoolConserved, Distinct
<1>4. ExecutorType
  <2>1. executeCounter \in -1..RunLimit + 1
    BY Constants DEF Init
  <2>2. now \in Nat /\ armNow \in Nat /\ compare \in Nat
    BY DEF Init
  <2> QED BY <2>1, <2>2, Zenon DEF Init, ExecutorType
<1>5. ArmInv /\ WakeupInv
  BY <1>1 DEF Init, ArmInv, WakeupInv
<1> QED BY <1>3, <1>4, <1>5 DEF IndInv

\* A step that leaves the queue alone keeps its invariant.
LEMMA QueueUnchanged ==
  ASSUME QueueInv, UNCHANGED queueVars
  PROVE  QueueInv'
BY DEF QueueInv, QueueType, ListIsSorted, ScheduledFlagExact, PoolConserved,
       InQueue, queueVars

\* The clock: a timer that covers the head before the tick covers it after,
\* by a pending interrupt if the tick reached the compare value.
LEMMA TickIndInv == ASSUME IndInv, Tick PROVE IndInv'
<1> USE Constants DEF IndInv
<1>1. QueueInv'
  BY QueueUnchanged DEF Tick
<1>2. ExecutorType'
  BY DEF Tick, ExecutorType, loopVars
<1>3. ArmInv'
  BY DEF Tick, ArmInv, ExecutorType, queueVars, loopVars
<1>4. /\ now \in Nat /\ now' = now + 1 /\ compare \in Nat
      /\ compare' = compare /\ irqEnabled' = irqEnabled
      /\ irqPending' = (irqPending \/ (irqEnabled /\ compare = now'))
      /\ UNCHANGED <<queueVars, mode, loopVars, firmwareError>>
      /\ queue' = queue /\ momentX' = momentX /\ mode' = mode
      /\ needToResetTimer' = needToResetTimer /\ firmwareError' = firmwareError
  BY DEF Tick, ExecutorType, queueVars, loopVars
<1>5. ASSUME TimerFiresSoon PROVE TimerFiresSoon'
  <2>1. CASE irqPending
    BY <1>4, <1>5, <2>1, Zenon DEF TimerFiresSoon
  <2>2. CASE ~irqPending
    <3>1. irqEnabled /\ now < compare /\ compare <= now + RetryDelay
      BY <1>5, <2>2, Zenon DEF TimerFiresSoon
    <3>2. compare = now' \/ (now' < compare /\ compare <= now' + RetryDelay)
      BY <1>4, <3>1
    <3> QED BY <1>4, <3>1, <3>2, Zenon DEF TimerFiresSoon, RetryDelay
  <2> QED BY <2>1, <2>2, Zenon
<1>6. ASSUME queue # <<>>, TimerCovers PROVE TimerCovers'
  <2>1. momentX[Head(queue)] \in Nat
    BY <1>6, HeadIsSoonest
  <2>2. CASE irqPending
    BY <1>4, <1>6, <2>2, Zenon DEF TimerCovers
  <2>3. CASE ~irqPending
    <3>1. /\ irqEnabled /\ now < compare
          /\ compare <= momentX[Head(queue)] \/ compare <= now + RetryDelay
      BY <1>6, <2>3, Zenon DEF TimerCovers
    <3>2. \/ compare = now'
          \/ /\ now' < compare
             /\ compare <= momentX[Head(queue)] \/ compare <= now' + RetryDelay
      BY <1>4, <2>1, <3>1
    <3> QED BY <1>4, <3>1, <3>2, Zenon DEF TimerCovers, RetryDelay
  <2> QED BY <2>2, <2>3, Zenon
<1>7. WakeupInv'
  BY <1>4, <1>5, <1>6 DEF WakeupInv
<1> QED BY <1>1, <1>2, <1>3, <1>7

\* schedule(): an event that is not the new head is covered by the timer that
\* covers the head; for a new head the loop ends with a new setting.
LEMMA ScheduleIndInv ==
  ASSUME IndInv, NEW req \in Owned \cup {nullptr}, NEW t \in Nat,
         NEW a \in Action, Schedule(req, t, a)
  PROVE  IndInv'
<1> USE Constants DEF IndInv
<1>1. QueueInv'
  BY InsertTaskInv DEF Schedule
<1>2. /\ mode \in {"idle", "callback"}
      /\ now' = now /\ armNow' = armNow /\ compare' = compare
      /\ irqEnabled' = irqEnabled /\ irqPending' = irqPending
      /\ firmwareError' = firmwareError
      /\ InsertTask(req, t, a)
  BY Zenon DEF Schedule, timerVars
<1>3. CASE mode = "idle"
  <2>1. EnterLoop(InsertedAtHead(req, t))
    BY <1>3 DEF Schedule, reentrantFlag
  <2>2. ExecutorType'
    <3>1. executeCounter' \in -1..RunLimit + 1
      BY <2>1 DEF EnterLoop
    <3>2. InsertedAtHead(req, t) \in BOOLEAN
      BY DEF InsertedAtHead
    <3> QED BY <1>2, <2>1, <3>1, <3>2, Zenon DEF ExecutorType, EnterLoop
  <2>3. ArmInv'
    BY <2>1 DEF EnterLoop, ArmInv
  <2>4. WakeupInv'
    <3>1. mode' = "execute" /\ needToResetTimer' = InsertedAtHead(req, t)
      BY <2>1 DEF EnterLoop
    <3>2. ASSUME ~firmwareError, ~InsertedAtHead(req, t), queue' # <<>>
          PROVE  TimerCovers'
      <4>1. queue # <<>> /\ momentX'[Head(queue')] = momentX[Head(queue)]
        BY <1>2, <3>2, InsertTaskHead
      <4>2. TimerCovers
        BY <1>3, <3>2, <4>1 DEF WakeupInv
      <4> QED BY <1>2, <4>1, <4>2, Zenon DEF TimerCovers, RetryDelay
    <3> QED BY <1>2, <3>1, <3>2, Zenon DEF WakeupInv
  <2> QED BY <1>1, <2>2, <2>3, <2>4
<1>4. CASE mode = "callback"
  <2>1. UNCHANGED <<mode, needToResetTimer, executeCounter>>
    BY <1>4 DEF Schedule, reentrantFlag
  <2>2. ExecutorType'
    BY <1>2, <2>1, Zenon DEF ExecutorType
  <2>3. ArmInv'
    BY <1>4, <2>1 DEF ArmInv
  <2>4. WakeupInv'
    <3>1. TimerFiresSoon' <=> TimerFiresSoon
      BY <1>2, Zenon DEF TimerFiresSoon, RetryDelay
    <3> QED BY <1>2, <1>4, <2>1, <3>1, Zenon DEF WakeupInv
  <2> QED BY <1>1, <2>2, <2>3, <2>4
<1> QED BY <1>2, <1>3, <1>4

\* cancel() leaves the timer set for the old head, which is no later than the
\* new one.
LEMMA CancelIndInv == ASSUME IndInv, NEW s \in Owned, Cancel(s) PROVE IndInv'
<1> USE Constants DEF IndInv
<1>1. /\ QueueInv' /\ ~RemoveFails(s)
      /\ queue' # <<>> => /\ queue # <<>>
                          /\ momentX[Head(queue)] <= momentX'[Head(queue')]
  BY RemoveTaskInv DEF Cancel
<1>2. /\ mode \in {"idle", "callback"}
      /\ now' = now /\ armNow' = armNow /\ compare' = compare /\ mode' = mode
      /\ irqEnabled' = irqEnabled /\ irqPending' = irqPending
      /\ UNCHANGED <<needToResetTimer, executeCounter>>
      /\ firmwareError' = (firmwareError \/ RemoveFails(s))
  BY Zenon DEF Cancel, timerVars, loopVars
<1>3. firmwareError' = firmwareError
  <2>1. firmwareError \in BOOLEAN
    BY DEF ExecutorType
  <2> QED BY <1>1, <1>2, <2>1, Zenon
<1>4. ExecutorType'
  BY <1>2, <1>3, Zenon DEF ExecutorType
<1>5. ArmInv'
  BY <1>2 DEF ArmInv
<1>6. ASSUME TimerCovers, queue' # <<>> PROVE TimerCovers'
  <2>1. momentX[Head(queue)] \in Nat
    BY <1>1, <1>6, HeadIsSoonest
  <2>2. momentX'[Head(queue')] \in Nat
    <3>1. queue' \in Seq(Record) /\ momentX' \in [Record -> Nat]
      BY <1>1 DEF QueueInv, QueueType
    <3>2. Head(queue') \in Record
      BY <1>6, <3>1
    <3> QED BY <3>1, <3>2
  <2>3. compare <= momentX[Head(queue)] => compare <= momentX'[Head(queue')]
    BY <1>1, <1>6, <2>1, <2>2 DEF ExecutorType
  <2> QED BY <1>2, <1>6, <2>3, Zenon DEF TimerCovers, RetryDelay
<1>7. TimerFiresSoon' <=> TimerFiresSoon
  BY <1>2, Zenon DEF TimerFiresSoon, RetryDelay
<1>8. WakeupInv'
  BY <1>1, <1>2, <1>3, <1>6, <1>7, Zenon DEF WakeupInv
<1> QED BY <1>1, <1>4, <1>5, <1>8

\* schedule() for a time too far away only reports the error.
LEMMA ScheduleTooFarIndInv == ASSUME IndInv, NEW t, ScheduleTooFar(t) PROVE IndInv'
<1>1. /\ QueueInv' /\ firmwareError' = TRUE
      /\ UNCHANGED <<now, mode, needToResetTimer, executeCounter, armNow,
                     compare, irqEnabled, irqPending, queue>>
  BY QueueUnchanged DEF IndInv, ScheduleTooFar, loopVars, timerVars, queueVars
<1>2. ExecutorType' /\ ArmInv'
  BY <1>1, Zenon DEF IndInv, ExecutorType, ArmInv
<1>3. WakeupInv'
  BY <1>1, Zenon DEF WakeupInv
<1> QED BY <1>1, <1>2, <1>3 DEF IndInv

\* The timer interrupt ends with a new setting of the timer.
LEMMA OnTimerCallbackIndInv == ASSUME IndInv, OnTimerCallback PROVE IndInv'
<1>1. /\ QueueInv'
      /\ mode' = "execute" /\ needToResetTimer' = TRUE /\ executeCounter' = -1
      /\ irqEnabled' = FALSE /\ irqPending' = FALSE
      /\ UNCHANGED <<now, armNow, compare, firmwareError>>
  BY QueueUnchanged DEF IndInv, OnTimerCallback, EnterLoop
<1>2. executeCounter' \in -1..RunLimit + 1
  BY <1>1, Constants
<1>3. ExecutorType'
  BY <1>1, <1>2, Zenon DEF IndInv, ExecutorType
<1>4. ArmInv' /\ WakeupInv'
  BY <1>1 DEF ArmInv, WakeupInv
<1> QED BY <1>1, <1>3, <1>4 DEF IndInv

\* Running the head, which is due: the timer that covered it, if it has not
\* fired yet, was set for a retry and fires within the retry delay.
LEMMA ExecuteOneIndInv == ASSUME IndInv, ExecuteOne PROVE IndInv'
<1> USE Constants DEF IndInv
<1>1. QueueInv'
  BY PopHeadInv DEF ExecuteOne
<1>2. /\ mode = "execute" /\ mode' = "callback"
      /\ queue # <<>> /\ momentX[Head(queue)] <= now
      /\ UNCHANGED <<now, needToResetTimer, executeCounter, armNow, compare,
                     irqEnabled, irqPending, firmwareError>>
  BY DEF ExecuteOne, PopHead, loopVars, timerVars
<1>3. ExecutorType'
  BY <1>2, Zenon DEF ExecutorType
<1>4. ArmInv'
  BY <1>2 DEF ArmInv
<1>5. ASSUME ~firmwareError, ~needToResetTimer PROVE TimerFiresSoon
  <2>1. TimerCovers
    BY <1>2, <1>5, Zenon DEF WakeupInv
  <2>2. momentX[Head(queue)] \in Nat /\ now \in Nat /\ compare \in Nat
    BY <1>2, HeadIsSoonest DEF ExecutorType
  <2>3. ~(now < compare /\ compare <= momentX[Head(queue)])
    BY <1>2, <2>2
  <2> QED BY <2>1, <2>3, Zenon DEF TimerCovers, TimerFiresSoon
<1>6. TimerFiresSoon' <=> TimerFiresSoon
  BY <1>2, Zenon DEF TimerFiresSoon, RetryDelay
<1>7. WakeupInv'
  BY <1>2, <1>5, <1>6, Zenon DEF WakeupInv
<1> QED BY <1>1, <1>3, <1>4, <1>7

\* The counter of the loop stays in its range, and an error is never cleared.
LEMMA CountTurnType ==
  ASSUME ExecutorType, CountTurn
  PROVE  /\ executeCounter' \in -1..RunLimit + 1
         /\ firmwareError' \in BOOLEAN
         /\ firmwareError => firmwareError'
<1>1. executeCounter' \in -1..RunLimit + 1
  BY Constants DEF ExecutorType, CountTurn
<1>2. firmwareError' = (firmwareError \/ executeCounter = RunLimit)
  BY DEF CountTurn
<1> QED BY <1>1, <1>2, Zenon

LEMMA CallbackReturnsIndInv == ASSUME IndInv, CallbackReturns PROVE IndInv'
<1> USE Constants DEF IndInv
<1>1. QueueInv'
  BY QueueUnchanged DEF CallbackReturns
<1>2. /\ mode = "callback" /\ mode' = "execute"
      /\ UNCHANGED <<queue, momentX, now, needToResetTimer, armNow, compare,
                     irqEnabled, irqPending>>
      /\ executeCounter' \in -1..RunLimit + 1
      /\ firmwareError' \in BOOLEAN
      /\ firmwareError => firmwareError'
  BY CountTurnType DEF CallbackReturns, timerVars, queueVars
<1>3. ExecutorType'
  BY <1>2, Zenon DEF ExecutorType
<1>4. ArmInv'
  BY <1>2 DEF ArmInv
<1>5. ASSUME TimerFiresSoon PROVE TimerCovers'
  BY <1>2, <1>5, Zenon DEF TimerFiresSoon, TimerCovers, RetryDelay
<1>6. WakeupInv'
  BY <1>2, <1>5, Zenon DEF WakeupInv
<1> QED BY <1>1, <1>3, <1>4, <1>6

LEMMA LoopEndsIndInv == ASSUME IndInv, LoopEnds PROVE IndInv'
<1> USE Constants DEF IndInv
<1>1. QueueInv'
  BY QueueUnchanged DEF LoopEnds
<1>2. /\ mode = "execute"
      /\ mode' = IF needToResetTimer THEN "rearm" ELSE "idle"
      /\ UNCHANGED <<queue, momentX, now, needToResetTimer, armNow, compare,
                     irqEnabled, irqPending>>
      /\ executeCounter' \in -1..RunLimit + 1
      /\ firmwareError' \in BOOLEAN
      /\ firmwareError => firmwareError'
  BY CountTurnType DEF LoopEnds, timerVars, queueVars
<1>3. mode' = "rearm" \/ (mode' = "idle" /\ ~needToResetTimer)
  BY <1>2, Zenon
<1>4. ExecutorType'
  BY <1>2, <1>3, Zenon DEF ExecutorType
<1>5. ArmInv'
  BY <1>3 DEF ArmInv
<1>6. TimerCovers' <=> TimerCovers
  BY <1>2, Zenon DEF TimerCovers, RetryDelay
<1>7. WakeupInv'
  <2>1. CASE mode' = "rearm"
    BY <2>1 DEF WakeupInv
  <2>2. CASE mode' = "idle" /\ ~needToResetTimer
    BY <1>2, <1>6, <2>2 DEF WakeupInv
  <2> QED BY <1>3, <2>1, <2>2
<1> QED BY <1>1, <1>4, <1>5, <1>7

LEMMA ScheduleTimerCallbackIndInv ==
  ASSUME IndInv, ScheduleTimerCallback PROVE IndInv'
<1> USE Constants DEF IndInv
<1>1. QueueInv'
  BY QueueUnchanged DEF ScheduleTimerCallback
<1>2. /\ armNow' = now /\ now \in Nat
      /\ UNCHANGED <<queue, now, needToResetTimer, executeCounter, compare,
                     irqEnabled, irqPending, firmwareError>>
      /\ \/ mode' = "idle" /\ queue = <<>>
         \/ mode' = "arm" /\ queue # <<>>
  BY DEF ScheduleTimerCallback, timerVars, queueVars, ExecutorType
<1>3. ExecutorType'
  BY <1>2, Zenon DEF ExecutorType
<1>4. ArmInv'
  BY <1>2 DEF ArmInv
<1>5. WakeupInv'
  BY <1>2 DEF WakeupInv
<1> QED BY <1>1, <1>3, <1>4, <1>5

\* What setHardwareSchedulerTimer() computes is in the future, and no later
\* than the head or the retry delay.
LEMMA SetTimeInRange ==
  ASSUME IndInv, mode = "arm"
  PROVE  /\ SetTime \in Nat /\ now < SetTime
         /\ NextEventTime(armNow, LateDelay) > armNow
         /\ SetTime <= momentX[Head(queue)] \/ SetTime <= now + RetryDelay
<1>1. /\ queue # <<>> /\ armNow <= now /\ now < armNow + MinDelta
      /\ now \in Nat /\ armNow \in Nat
  BY DEF IndInv, ArmInv, ExecutorType
<1>2. momentX[Head(queue)] \in Nat
  BY <1>1, HeadIsSoonest DEF IndInv
<1> QED BY <1>1, <1>2, Constants DEF SetTime, NextEventTime

LEMMA SetHardwareSchedulerTimerIndInv ==
  ASSUME IndInv, SetHardwareSchedulerTimer PROVE IndInv'
<1>1. QueueInv'
  BY QueueUnchanged DEF SetHardwareSchedulerTimer, IndInv
<1>2. /\ mode = "arm" /\ mode' = "idle"
      /\ UNCHANGED <<queue, momentX, now, needToResetTimer, executeCounter, armNow>>
  BY DEF SetHardwareSchedulerTimer, loopVars, queueVars
<1>3. ArmInv'
  BY <1>2 DEF ArmInv
<1>4. CASE firmwareError' = TRUE /\ UNCHANGED timerVars
  <2>1. ExecutorType'
    BY <1>2, <1>4, Zenon DEF ExecutorType, timerVars, IndInv
  <2>2. WakeupInv'
    BY <1>4 DEF WakeupInv
  <2> QED BY <1>1, <1>3, <2>1, <2>2 DEF IndInv
<1>5. CASE /\ compare' = SetTime /\ irqEnabled' = TRUE
           /\ irqPending' = (irqPending /\ irqEnabled)
           /\ UNCHANGED firmwareError
  <2>1. /\ SetTime \in Nat /\ now < SetTime
        /\ SetTime <= momentX[Head(queue)] \/ SetTime <= now + RetryDelay
    BY <1>2, SetTimeInRange
  <2>2. ExecutorType'
    BY <1>2, <1>5, <2>1, Zenon DEF ExecutorType, IndInv
  <2>3. TimerCovers'
    BY <1>2, <1>5, <2>1, Zenon DEF TimerCovers, RetryDelay
  <2>4. WakeupInv'
    BY <1>2, <2>3, Zenon DEF WakeupInv
  <2> QED BY <1>1, <1>3, <2>2, <2>4 DEF IndInv
<1> QED BY <1>4, <1>5 DEF SetHardwareSchedulerTimer

LEMMA NextIndInv == ASSUME IndInv, [Next]_vars PROVE IndInv'
<1>1. CASE Tick
  BY <1>1, TickIndInv
<1>2. ASSUME NEW req \in Owned \cup {nullptr}, NEW t \in 0..Horizon,
             NEW a \in Action, Schedule(req, t, a)
      PROVE  IndInv'
  <2>1. t \in Nat
    BY Constants
  <2> QED BY <1>2, <2>1, ScheduleIndInv
<1>3. ASSUME NEW t \in 0..Horizon, ScheduleTooFar(t) PROVE IndInv'
  BY <1>3, ScheduleTooFarIndInv
<1>4. ASSUME NEW s \in Owned, Cancel(s) PROVE IndInv'
  BY <1>4, CancelIndInv
<1>5. CASE OnTimerCallback
  BY <1>5, OnTimerCallbackIndInv
<1>6. CASE ExecuteOne
  BY <1>6, ExecuteOneIndInv
<1>7. CASE CallbackReturns
  BY <1>7, CallbackReturnsIndInv
<1>8. CASE LoopEnds
  BY <1>8, LoopEndsIndInv
<1>9. CASE ScheduleTimerCallback
  BY <1>9, ScheduleTimerCallbackIndInv
<1>10. CASE SetHardwareSchedulerTimer
  BY <1>10, SetHardwareSchedulerTimerIndInv
<1>11. CASE UNCHANGED vars
  <2>1. QueueInv'
    BY <1>11, QueueUnchanged DEF vars, IndInv
  <2>2. UNCHANGED <<queue, momentX, now, mode, needToResetTimer, executeCounter,
                    armNow, compare, irqEnabled, irqPending, firmwareError>>
    BY <1>11 DEF vars, queueVars, loopVars, timerVars
  <2>3. ExecutorType' /\ ArmInv' /\ WakeupInv'
    BY <2>2, Zenon DEF IndInv, ExecutorType, ArmInv, WakeupInv, TimerCovers,
                       TimerFiresSoon, RetryDelay
  <2> QED BY <2>1, <2>3 DEF IndInv
<1> QED BY <1>1, <1>2, <1>3, <1>4, <1>5, <1>6, <1>7, <1>8, <1>9, <1>10, <1>11
        DEF Next

-------------------------------------------------------------------------------
(***************************************************************************)
(* The theorems.                                                           *)
(***************************************************************************)

\* Every reachable state satisfies the inductive invariant.
THEOREM Invariance == Spec => []IndInv
<1>1. IndInv /\ [Next]_vars => IndInv'
  BY NextIndInv
<1> QED BY InitIndInv, <1>1, PTL DEF Spec

\* The queue, the loop and the timer registers always have their types.
THEOREM TypeCorrect == Spec => []TypeOK
<1>1. IndInv => TypeOK
  BY TypeOKParts DEF IndInv, QueueInv
<1> QED BY Invariance, <1>1, PTL

\* insertTask, remove and executeOne keep the list sorted: the assertion
\* assertListIsSorted() can never fail.
THEOREM AlwaysSorted == Spec => []ListIsSorted
<1>1. IndInv => ListIsSorted
  BY DEF IndInv, QueueInv
<1> QED BY Invariance, <1>1, PTL

\* scheduling_s::action says exactly which records are in the list, so the
\* firmware error of EventQueue::remove is unreachable.
THEOREM FlagAlwaysExact == Spec => []ScheduledFlagExact
<1>1. IndInv => ScheduledFlagExact
  BY DEF IndInv, QueueInv
<1> QED BY Invariance, <1>1, PTL

\* getFreeScheduling() and tryReturnScheduling() never leak or share a record,
\* for a pool of any size.
THEOREM PoolNeverLeaks == Spec => []PoolConserved
<1>1. IndInv => PoolConserved
  BY DEF IndInv, QueueInv
<1> QED BY Invariance, <1>1, PTL

\* No interleaving of schedule(), cancel(), callbacks and the timer interrupt
\* leaves a pending event to a timer that is not going to fire in time.
THEOREM WakeupNeverLost == Spec => []NoLostWakeup
<1>1. IndInv => NoLostWakeup
  BY Zenon DEF IndInv, WakeupInv, NoLostWakeup
<1> QED BY Invariance, <1>1, PTL

\* The compare register is never written with a time that has passed.
THEOREM TimerAlwaysAhead == Spec => []TimerSetInFuture
<1>1. IndInv => TimerSetInFuture
  BY SetTimeInRange DEF IndInv, TimerSetInFuture, ArmInv
<1> QED BY Invariance, <1>1, PTL

-------------------------------------------------------------------------------
(***************************************************************************)
(* Refinement: a record is pending for its momentX while it is in the      *)
(* list.                                                                   *)
(***************************************************************************)
PendingMap == [s \in Record |-> Pending(s)]

\* A step that leaves the queue and the clock alone changes nothing the
\* abstract scheduler sees.
LEMMA RefineStutter ==
  ASSUME UNCHANGED <<queueVars, now>>
  PROVE  UNCHANGED Abstract!vars
BY DEF Abstract!vars, Pending, InQueue, queueVars

LEMMA RefineSchedule ==
  ASSUME QueueInv, NEW req \in Owned \cup {nullptr}, NEW t \in Nat,
         NEW a \in Action, Schedule(req, t, a)
  PROVE  [Abstract!Next]_Abstract!vars
<1>1. now' = now /\ InsertTask(req, t, a)
  BY DEF Schedule
<1>2. CASE UNCHANGED queueVars
  BY <1>1, <1>2, RefineStutter
<1>3. CASE /\ Storage(req) \in Record
           /\ ~InQueue(Storage(req))
           /\ LinkIn(Storage(req), t)
           /\ momentX' = [momentX EXCEPT ![Storage(req)] = t]
  <2> DEFINE s == Storage(req)
  <2>1. QueueType /\ ListIsSorted /\ queue \in Seq(Record)
        /\ momentX \in [Record -> Nat]
    BY DEF QueueInv, QueueType
  <2>2. PICK k \in 1..Len(queue)+1 : queue' = InsertAt(queue, k, s)
    BY <1>3, <2>1, LinkInShape
  <2>3. \A x : Contains(queue', x) <=> (Contains(queue, x) \/ x = s)
    BY <1>3, <2>1, <2>2, InsertAtMembers
  <2>4. s \in Record /\ ~InQueue(s) /\ momentX' = [momentX EXCEPT ![s] = t]
    BY <1>3
  <2> HIDE DEF s
  <2>5. PendingMap' = [PendingMap EXCEPT ![s] = t]
    <3>1. \A x \in Record : Pending(x)' = IF x = s THEN t ELSE Pending(x)
      BY <2>1, <2>3, <2>4 DEF Pending, InQueue
    <3> QED BY <3>1 DEF PendingMap
  <2>6. PendingMap[s] = -1 /\ PendingMap'[s] = t
    BY <2>4, <2>5 DEF PendingMap, Pending
  <2>7. Abstract!Schedule(s)
    BY <1>1, <2>5, <2>6 DEF Abstract!Schedule, Abstract!Unscheduled, PendingMap
  <2> QED BY <2>4, <2>7 DEF Abstract!Next, Abstract!Record, Record
<1> QED BY <1>1, <1>2, <1>3, InsertTaskCases

\* Taking a record out of the list makes it unscheduled.
LEMMA RefineUnlink ==
  ASSUME NEW s \in Record, momentX' = momentX,
         \A x : InQueue(x)' <=> (InQueue(x) /\ x # s)
  PROVE  PendingMap' = [PendingMap EXCEPT ![s] = -1]
<1>1. \A x \in Record : Pending(x)' = IF x = s THEN -1 ELSE Pending(x)
  BY DEF Pending
<1> QED BY <1>1 DEF PendingMap

LEMMA RefineCancel ==
  ASSUME QueueInv, NEW s \in Owned, Cancel(s)
  PROVE  [Abstract!Next]_Abstract!vars
<1>1. now' = now /\ RemoveTask(s)
  BY DEF Cancel
<1>2. s \in Record
  BY DEF Record
<1>3. PendingMap' = [PendingMap EXCEPT ![s] = -1]
  BY <1>1, <1>2, RemoveTaskInv, RefineUnlink
<1>4. Abstract!Cancel(s)
  BY <1>1, <1>3 DEF Abstract!Cancel, Abstract!Unscheduled, PendingMap
<1> QED BY <1>2, <1>4 DEF Abstract!Next, Abstract!Record, Record

LEMMA RefineExecuteOne ==
  ASSUME QueueInv, ExecuteOne
  PROVE  [Abstract!Next]_Abstract!vars
<1> DEFINE h == Head(queue)
<1>1. now' = now /\ queue # <<>> /\ PopHead /\ momentX[h] <= now
  BY DEF ExecuteOne, PopHead
<1>2. /\ h \in Record /\ InQueue(h) /\ momentX[h] \in Nat
      /\ \A s \in Record : InQueue(s) => momentX[h] <= momentX[s]
  BY <1>1, HeadIsSoonest
<1>3. /\ momentX' = momentX
      /\ \A x : InQueue(x)' <=> (InQueue(x) /\ x # h)
  BY <1>1, PopHeadInv
<1> HIDE DEF h
<1>4. PendingMap' = [PendingMap EXCEPT ![h] = -1]
  BY <1>2, <1>3, RefineUnlink
<1>5. /\ PendingMap[h] = momentX[h] /\ PendingMap[h] # -1
      /\ \A r \in Record : PendingMap[r] # -1 => PendingMap[h] <= PendingMap[r]
  BY <1>2 DEF PendingMap, Pending
<1>6. Abstract!Run(h)
  BY <1>1, <1>4, <1>5 DEF Abstract!Run, Abstract!Unscheduled, Abstract!Record,
                          Record, PendingMap
<1> QED BY <1>2, <1>6 DEF Abstract!Next, Abstract!Record, Record

\* The event queue with its timer implements the abstract scheduler: an event
\* runs at most once per request, never early, earliest first, and is lost to
\* nothing but its owner's cancel().
THEOREM Refinement == Spec => ImplementsScheduler
<1>1. Init => Abstract!Init
  <2> SUFFICES ASSUME Init PROVE Abstract!Init
    OBVIOUS
  <2>1. \A x : ~InQueue(x)
    BY DEF Init, InQueue, Contains
  <2> QED BY <2>1 DEF Init, Abstract!Init, Pending, Abstract!Record, Record,
                      Abstract!Unscheduled
<1>2. ASSUME IndInv, [Next]_vars PROVE [Abstract!Next]_Abstract!vars
  <2>1. QueueInv
    BY <1>2 DEF IndInv
  <2>2. CASE Tick
    BY <2>2 DEF Tick, queueVars, Abstract!Next, Abstract!Tick, Pending, InQueue
  <2>3. ASSUME NEW req \in Owned \cup {nullptr}, NEW t \in 0..Horizon,
               NEW a \in Action, Schedule(req, t, a)
        PROVE  [Abstract!Next]_Abstract!vars
    <3>1. t \in Nat
      BY Constants
    <3> QED BY <2>1, <2>3, <3>1, RefineSchedule
  <2>4. ASSUME NEW s \in Owned, Cancel(s) PROVE [Abstract!Next]_Abstract!vars
    BY <2>1, <2>4, RefineCancel
  <2>5. CASE ExecuteOne
    BY <2>1, <2>5, RefineExecuteOne
  <2>6. ASSUME NEW t \in 0..Horizon, ScheduleTooFar(t)
        PROVE  [Abstract!Next]_Abstract!vars
    BY <2>6, RefineStutter DEF ScheduleTooFar
  <2>7. CASE OnTimerCallback
    BY <2>7, RefineStutter DEF OnTimerCallback
  <2>8. CASE CallbackReturns
    BY <2>8, RefineStutter DEF CallbackReturns
  <2>9. CASE LoopEnds
    BY <2>9, RefineStutter DEF LoopEnds
  <2>10. CASE ScheduleTimerCallback
    BY <2>10, RefineStutter DEF ScheduleTimerCallback
  <2>11. CASE SetHardwareSchedulerTimer
    BY <2>11, RefineStutter DEF SetHardwareSchedulerTimer
  <2>12. CASE UNCHANGED vars
    BY <2>12, RefineStutter DEF vars
  <2> QED BY <1>2, <2>2, <2>3, <2>4, <2>5, <2>6, <2>7, <2>8, <2>9, <2>10, <2>11,
             <2>12 DEF Next
<1> QED BY Invariance, <1>1, <1>2, PTL DEF Spec, ImplementsScheduler, Abstract!Spec
===============================================================================
