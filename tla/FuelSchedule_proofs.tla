------------------------- MODULE FuelSchedule_proofs -------------------------
(***************************************************************************)
(* Proofs about FuelSchedule, for any number of cylinders and any tooth,   *)
(* durations, modes, staging, split injection and priming pulse: the       *)
(* overlap counters are exact, and an output that is on is counted.        *)
(*                                                                         *)
(* OverlapCountExact is not inductive: a closing that runs with the        *)
(* counter at zero is not counted (InjectorOutputPin::close() resets it),  *)
(* so that the opening must be shown to come first.  EnoughOpen says so    *)
(* for every time, not for every place in the list: what closes by t has   *)
(* been opened or opens before t.  It needs the list to be sorted, every   *)
(* pulse to have a length, and no split injection to be staged.            *)
(***************************************************************************)
EXTENDS FuelSchedule, SequenceTheorems, FunctionTheorems, FiniteSetTheorems, TLAPS

InjectionModes == {"simultaneous", "sequential", "batch", "single_point"}

\* The records of the time scheduler's list.
Event == [in : Nat, do : {"start", "end", "endStage2", "primeEnd"}, mask : SUBSET cylinders,
          index : 0 .. cylindersCount, split : Nat, stage2Active : BOOLEAN]

EngineType ==
  /\ tooth \in 0 .. (Cycle \div ToothWidth) - 1
  /\ mode \in InjectionModes
  /\ elements \in [cylinders -> [angle : 0 .. Cycle - 1, mode : InjectionModes]]

\* Each pulse whose closing is still to be planned has a length, and one
\* that is split has no second stage: its second pulse would open it.
PlanInv ==
  /\ pc \in {"idle", "fuel", "close", "close2"} /\ cylinder \in cylinders
  /\ plan.mask \in SUBSET cylinders /\ plan.split \in Nat /\ plan.stage2Active \in BOOLEAN
  /\ {plan.startIn, plan.duration, plan.durationStage2} \subseteq Nat
  /\ plan.split > 0 => ~plan.stage2Active
  /\ pc = "close" => plan.duration > 0
  /\ pc = "close2" => plan.stage2Active
  /\ plan.stage2Active => plan.durationStage2 > 0

\* The list of the time scheduler, soonest first.
Sorted(list) == \A i, j \in 1 .. Len(list) : i < j => list[i].in <= list[j].in

\* The same of an event; and only the priming pulse has no element.
Sound(e) ==
  /\ e.split > 0 => ~e.stage2Active
  /\ e.do # "primeEnd" => e.index \in cylinders

ListInv ==
  /\ pending \in Seq(Event)
  /\ Sorted(pending)
  /\ \A i \in 1 .. Len(pending) : Sound(pending[i])

PinType == overlap \in [Outputs -> Nat] /\ level \in [Outputs -> BOOLEAN]

\* The number of events of the list that are in the set E.
Number(list, E) == Cardinality({k \in DOMAIN list : list[k] \in E})

OpensOf(o) == {e \in Event : Opens(e, o)}
ClosesOf(o) == {e \in Event : Closes(e, o)}
OpensBefore(o, t) == {e \in Event : Opens(e, o) /\ e.in < t}
ClosesBy(o, t) == {e \in Event : Closes(e, o) /\ e.in <= t}

Exact ==
  \A o \in Outputs :
    overlap[o] + Number(pending, OpensOf(o)) = Number(pending, ClosesOf(o)) + ToBePlanned(o)

\* The closing the handler is about to plan is due after the start.
PlannedBy(o, t) == IF plan.startIn < t THEN ToBePlanned(o) ELSE 0

EnoughOpen ==
  \A o \in Outputs, t \in Nat :
    overlap[o] + Number(pending, OpensBefore(o, t))
      >= Number(pending, ClosesBy(o, t)) + PlannedBy(o, t)

CountInv == Exact /\ EnoughOpen

FuelInv ==
  /\ EngineType
  /\ PlanInv
  /\ ListInv
  /\ PinType
  /\ CountInv

-----------------------------------------------------------------------------
(* The scheduler's list.                                                   *)

LEMMA EventType ==
  ASSUME NEW e \in Event
  PROVE  /\ e.in \in Nat /\ e.do \in {"start", "end", "endStage2", "primeEnd"}
         /\ e.mask \in SUBSET cylinders /\ e.index \in 0 .. cylindersCount
         /\ e.split \in Nat /\ e.stage2Active \in BOOLEAN
  BY DEF Event

LEMMA ListType ==
  ASSUME NEW q \in Seq(Event)
  PROVE  /\ Len(q) \in Nat /\ DOMAIN q = 1 .. Len(q)
         /\ \A i \in 1 .. Len(q) : q[i] \in Event /\ q[i].in \in Nat
<1>1. Len(q) \in Nat /\ DOMAIN q = 1 .. Len(q) /\ \A i \in 1 .. Len(q) : q[i] \in Event
  OBVIOUS
<1> QED BY <1>1, EventType

\* r is the list q with e as a new k-th element.
IsInsertion(r, q, k, e) ==
  /\ r \in Seq(Event) /\ Len(r) = Len(q) + 1
  /\ \A i \in 1 .. Len(q) + 1 : r[i] = IF i < k THEN q[i] ELSE IF i = k THEN e ELSE q[i - 1]

LEMMA InsertAtShape ==
  ASSUME NEW q \in Seq(Event), NEW e \in Event, NEW k \in 1 .. Len(q) + 1
  PROVE  IsInsertion(InsertAt(q, k, e), q, k, e)
<1> DEFINE a == SubSeq(q, 1, k - 1)
           b == SubSeq(q, k, Len(q))
           c == a \o <<e>>
<1> HIDE DEF Event
<1>1. a \in Seq(Event) /\ Len(a) = k - 1 /\ \A i \in 1 .. k - 1 : a[i] = q[i]
  BY SubSeqProperties
<1>2. b \in Seq(Event) /\ Len(b) = Len(q) - k + 1
      /\ \A i \in 1 .. Len(q) - k + 1 : b[i] = q[k + i - 1]
  BY SubSeqProperties
<1>3. InsertAt(q, k, e) = c \o b
  BY DEF InsertAt
<1> HIDE DEF a, b
<1>4. c \in Seq(Event) /\ Len(c) = k /\ c[k] = e /\ \A i \in 1 .. k - 1 : c[i] = q[i]
  BY <1>1
<1> HIDE DEF c
<1>5. /\ c \o b \in Seq(Event) /\ Len(c \o b) = Len(c) + Len(b)
      /\ \A i \in 1 .. Len(c) + Len(b) :
           (c \o b)[i] = IF i <= Len(c) THEN c[i] ELSE b[i - Len(c)]
  BY <1>2, <1>4, ConcatProperties
<1> QED BY <1>2, <1>3, <1>4, <1>5 DEF IsInsertion

\* A set of positions that has all positions below any of its own is the set
\* of the first ones.
LEMMA DownwardClosed ==
  ASSUME NEW n \in Nat, NEW S \in SUBSET (1 .. n),
         \A k \in S : \A j \in 1 .. k : j \in S
  PROVE  Cardinality(S) \in 0 .. n /\ S = 1 .. Cardinality(S)
<1>1. IsFiniteSet(1 .. n) /\ Cardinality(1 .. n) = n
  BY FS_Interval
<1>2. IsFiniteSet(S) /\ Cardinality(S) <= n
  BY <1>1, FS_Subset
<1>3. Cardinality(S) \in Nat
  BY <1>2, FS_CardinalityType
<1>4. ASSUME NEW k \in S PROVE k \in 1 .. Cardinality(S)
  <2>1. (1 .. k) \in SUBSET S /\ k \in Nat /\ k >= 1
    BY <1>4
  <2>2. Cardinality(1 .. k) = k /\ Cardinality(1 .. k) <= Cardinality(S)
    BY <2>1, <1>2, FS_Interval, FS_Subset
  <2> QED BY <2>1, <2>2, <1>3
<1>5. S \in SUBSET (1 .. Cardinality(S))
  BY <1>4
<1>6. IsFiniteSet(1 .. Cardinality(S)) /\ Cardinality(1 .. Cardinality(S)) = Cardinality(S)
  BY <1>3, FS_Interval
<1>7. S = 1 .. Cardinality(S)
  BY <1>5, <1>6, FS_Subset
<1> QED BY <1>2, <1>3, <1>7

\* insertTask() puts an event where it keeps the list sorted.
LEMMA InsertShape ==
  ASSUME NEW q \in Seq(Event), NEW e \in Event, Sorted(q)
  PROVE  \E k \in 1 .. Len(q) + 1 :
           /\ IsInsertion(Insert(q, e), q, k, e)
           /\ \A i \in 1 .. Len(q) : i < k => q[i].in <= e.in
           /\ \A i \in 1 .. Len(q) : i >= k => e.in <= q[i].in
<1> DEFINE S == {k \in DOMAIN q : q[k].in < e.in}
           c == Cardinality(S)
<1>1. /\ Len(q) \in Nat /\ DOMAIN q = 1 .. Len(q) /\ e.in \in Nat
      /\ \A i \in 1 .. Len(q) : q[i].in \in Nat
  BY ListType, EventType
<1>2. \A i, j \in 1 .. Len(q) : i < j => q[i].in <= q[j].in
  BY DEF Sorted
<1>3. S \in SUBSET (1 .. Len(q))
  BY <1>1
<1>4. ASSUME NEW k \in S, NEW j \in 1 .. k PROVE j \in S
  <2>1. k \in 1 .. Len(q) /\ j \in 1 .. Len(q) /\ q[k].in < e.in
    BY <1>1
  <2>2. q[j].in <= q[k].in
    <3>1. CASE j = k
      BY <3>1, <2>1, <1>1
    <3>2. CASE j < k
      BY <3>2, <2>1, <1>2
    <3> QED BY <3>1, <3>2, <2>1
  <2>3. q[j].in < e.in
    BY <2>1, <2>2, <1>1
  <2> QED BY <2>1, <2>3, <1>1
<1>4a. \A k \in S : \A j \in 1 .. k : j \in S
  BY <1>4
<1>5. c \in 0 .. Len(q) /\ S = 1 .. c
  <2> HIDE DEF S
  <2> QED BY <1>1, <1>3, <1>4a, DownwardClosed, Zenon
<1>6. CASE q # <<>> /\ q[1].in = e.in
  <2>1. Insert(q, e) = InsertAt(q, 2, e)
    BY <1>6 DEF Insert
  <2>2. 2 \in 1 .. Len(q) + 1 /\ 1 \in 1 .. Len(q)
    BY <1>1, <1>6
  <2>3. IsInsertion(Insert(q, e), q, 2, e)
    BY <2>1, <2>2, InsertAtShape
  <2>4. \A i \in 1 .. Len(q) : i >= 2 => e.in <= q[i].in
    BY <2>2, <1>2, <1>6
  <2>5. \A i \in 1 .. Len(q) : i < 2 => q[i].in <= e.in
    <3> TAKE i \in 1 .. Len(q)
    <3> HAVE i < 2
    <3>1. i = 1
      BY <1>1
    <3> QED BY <3>1, <1>6, <1>1
  <2> QED BY <2>2, <2>3, <2>4, <2>5
<1>7. CASE ~(q # <<>> /\ q[1].in = e.in)
  <2>1. Insert(q, e) = InsertAt(q, c + 1, e)
    BY <1>7 DEF Insert
  <2>2. c + 1 \in 1 .. Len(q) + 1
    BY <1>1, <1>5
  <2>3. IsInsertion(Insert(q, e), q, c + 1, e)
    BY <2>1, <2>2, InsertAtShape
  <2>4. \A i \in 1 .. Len(q) : i \in S <=> i <= c
    <3> HIDE DEF S, c
    <3> QED BY <1>5
  <2>5. \A i \in 1 .. Len(q) : i \in S <=> q[i].in < e.in
    BY <1>1
  <2>6. c \in Int
    BY <1>5
  <2> HIDE DEF S, c
  <2>7. \A i \in 1 .. Len(q) : i < c + 1 => q[i].in <= e.in
    BY <2>4, <2>5, <2>6, <1>1
  <2>8. \A i \in 1 .. Len(q) : i >= c + 1 => e.in <= q[i].in
    BY <2>4, <2>5, <2>6, <1>1
  <2> QED BY <2>2, <2>3, <2>7, <2>8
<1> QED BY <1>6, <1>7

\* A set of positions of the list before an insertion at p, and after it.
Shifted(S, T, n, p) ==
  /\ S \in SUBSET (1 .. n) /\ T \in SUBSET (1 .. n + 1)
  /\ \A i \in 1 .. n : i < p => (i \in T <=> i \in S)
  /\ \A i \in 1 .. n : i >= p => (i + 1 \in T <=> i \in S)

LEMMA CountInserted ==
  ASSUME NEW n \in Nat, NEW p \in 1 .. n + 1, NEW S, NEW T, Shifted(S, T, n, p)
  PROVE  /\ Cardinality(S) \in Nat
         /\ Cardinality(T) = IF p \in T THEN Cardinality(S) + 1 ELSE Cardinality(S)
<1> DEFINE f == [i \in S |-> IF i < p THEN i ELSE i + 1]
           R == T \ {p}
<1> USE DEF Shifted
<1>1. IsFiniteSet(S) /\ IsFiniteSet(T)
  <2>1. IsFiniteSet(1 .. n) /\ IsFiniteSet(1 .. n + 1)
    BY FS_Interval
  <2> QED BY <2>1, FS_Subset
<1>2. f \in Bijection(S, R)
  <2>1. \A i \in S : f[i] \in R
    OBVIOUS
  <2>2. \A i, j \in S : f[i] = f[j] => i = j
    OBVIOUS
  <2>3. ASSUME NEW k \in R PROVE \E i \in S : f[i] = k
    <3>1. CASE k < p
      BY <3>1
    <3>2. CASE k > p
      <4>1. k - 1 \in 1 .. n /\ k - 1 >= p /\ (k - 1) + 1 = k
        BY <3>2
      <4>2. k - 1 \in S
        BY <4>1
      <4> QED BY <4>1, <4>2
    <3> QED BY <3>1, <3>2
  <2> QED BY <2>1, <2>2, <2>3, Fun_IsBij
<1>3. Cardinality(R) = Cardinality(S)
  BY <1>1, <1>2, FS_Bijection DEF ExistsBijection
<1>4. Cardinality(R) = IF p \in T THEN Cardinality(T) - 1 ELSE Cardinality(T)
  BY <1>1, FS_RemoveElement
<1>5. Cardinality(S) \in Nat /\ Cardinality(T) \in Nat
  BY <1>1, FS_CardinalityType
<1> QED BY <1>3, <1>4, <1>5

LEMMA NumberInserted ==
  ASSUME NEW q \in Seq(Event), NEW r, NEW e, NEW k \in 1 .. Len(q) + 1,
         IsInsertion(r, q, k, e), NEW E
  PROVE  /\ Number(q, E) \in Nat
         /\ Number(r, E) = IF e \in E THEN Number(q, E) + 1 ELSE Number(q, E)
<1> DEFINE S == {i \in DOMAIN q : q[i] \in E}
           T == {i \in DOMAIN r : r[i] \in E}
<1>1. Len(q) \in Nat /\ DOMAIN q = 1 .. Len(q) /\ DOMAIN r = 1 .. Len(q) + 1
  BY ListType DEF IsInsertion
<1>2. \A i \in 1 .. Len(q) + 1 : r[i] = IF i < k THEN q[i] ELSE IF i = k THEN e ELSE q[i - 1]
  BY DEF IsInsertion
<1>3. S \in SUBSET (1 .. Len(q)) /\ T \in SUBSET (1 .. Len(q) + 1)
  BY <1>1
<1>4. \A i \in 1 .. Len(q) : i < k => (i \in T <=> i \in S)
  BY <1>1, <1>2
<1>5. \A i \in 1 .. Len(q) : i >= k => (i + 1 \in T <=> i \in S)
  <2> TAKE i \in 1 .. Len(q)
  <2> HAVE i >= k
  <2>1. i + 1 \in 1 .. Len(q) + 1 /\ r[i + 1] = q[i]
    BY <1>1, <1>2
  <2> QED BY <2>1, <1>1
<1>6. k \in T <=> e \in E
  BY <1>1, <1>2
<1>7. Number(q, E) = Cardinality(S) /\ Number(r, E) = Cardinality(T)
  BY DEF Number
<1> HIDE DEF S, T
<1>8. /\ Cardinality(S) \in Nat
      /\ Cardinality(T) = IF k \in T THEN Cardinality(S) + 1 ELSE Cardinality(S)
  <2>1. Shifted(S, T, Len(q), k)
    BY <1>3, <1>4, <1>5 DEF Shifted
  <2> QED BY <2>1, <1>1, CountInserted
<1> QED BY <1>6, <1>7, <1>8

\* What planning an event does to the list.
LEMMA InsertEffect ==
  ASSUME NEW q \in Seq(Event), Sorted(q), NEW e \in Event
  PROVE  /\ Insert(q, e) \in Seq(Event)
         /\ Sorted(Insert(q, e))
         /\ \A i \in 1 .. Len(Insert(q, e)) :
              Insert(q, e)[i] = e \/ \E j \in 1 .. Len(q) : Insert(q, e)[i] = q[j]
         /\ \A E : /\ Number(q, E) \in Nat
                   /\ Number(Insert(q, e), E) =
                        IF e \in E THEN Number(q, E) + 1 ELSE Number(q, E)
<1>1. PICK r : r = Insert(q, e)
  OBVIOUS
<1>2. PICK k \in 1 .. Len(q) + 1 :
           /\ IsInsertion(r, q, k, e)
           /\ \A i \in 1 .. Len(q) : i < k => q[i].in <= e.in
           /\ \A i \in 1 .. Len(q) : i >= k => e.in <= q[i].in
  BY <1>1, InsertShape
<1>3. r \in Seq(Event) /\ Len(r) = Len(q) + 1 /\ Len(q) \in Nat
      /\ \A i \in 1 .. Len(q) : q[i].in \in Nat
  BY <1>2, ListType DEF IsInsertion
<1>4. \A i \in 1 .. Len(q) + 1 :
        \/ i < k /\ i \in 1 .. Len(q) /\ r[i] = q[i]
        \/ i = k /\ r[i] = e
        \/ i > k /\ i - 1 \in 1 .. Len(q) /\ r[i] = q[i - 1]
  <2>1. \A i \in 1 .. Len(q) + 1 : r[i] = IF i < k THEN q[i] ELSE IF i = k THEN e ELSE q[i - 1]
    BY <1>2 DEF IsInsertion
  <2> QED BY <2>1, <1>3
<1>5. \A i \in 1 .. Len(r) : r[i] = e \/ \E j \in 1 .. Len(q) : r[i] = q[j]
  BY <1>3, <1>4
<1>6. \A E : /\ Number(q, E) \in Nat
             /\ Number(r, E) = IF e \in E THEN Number(q, E) + 1 ELSE Number(q, E)
  BY <1>2, NumberInserted
<1>7. Sorted(r)
  <2>0. e.in \in Nat /\ \A i, j \in 1 .. Len(q) : i < j => q[i].in <= q[j].in
    BY EventType DEF Sorted
  <2> SUFFICES ASSUME NEW i \in 1 .. Len(q) + 1, NEW j \in 1 .. Len(q) + 1, i < j
               PROVE  r[i].in <= r[j].in
    BY <1>3 DEF Sorted
  <2>1. CASE i < k /\ j < k
    <3>1. i \in 1 .. Len(q) /\ j \in 1 .. Len(q) /\ r[i] = q[i] /\ r[j] = q[j]
      BY <2>1, <1>4
    <3> QED BY <3>1, <2>0
  <2>2. CASE i < k /\ j = k
    <3>1. i \in 1 .. Len(q) /\ r[i] = q[i] /\ r[j] = e
      BY <2>2, <1>4
    <3> QED BY <3>1, <1>2, <2>2
  <2>3. CASE i < k /\ j > k
    <3>1. i \in 1 .. Len(q) /\ j - 1 \in 1 .. Len(q) /\ r[i] = q[i] /\ r[j] = q[j - 1] /\ i < j - 1
      BY <2>3, <1>4, <1>3
    <3> QED BY <3>1, <2>0
  <2>4. CASE i = k /\ j > k
    <3>1. j - 1 \in 1 .. Len(q) /\ r[i] = e /\ r[j] = q[j - 1] /\ j - 1 >= k
      BY <2>4, <1>4, <1>3
    <3> QED BY <3>1, <1>2
  <2>5. CASE i > k
    <3>1. i - 1 \in 1 .. Len(q) /\ j - 1 \in 1 .. Len(q) /\ r[i] = q[i - 1] /\ r[j] = q[j - 1]
          /\ i - 1 < j - 1
      <4>1. j > k /\ i \in 1 .. Len(q) + 1 /\ j \in 1 .. Len(q) + 1
        BY <2>5
      <4>2. i - 1 \in 1 .. Len(q) /\ r[i] = q[i - 1]
        BY <2>5, <4>1, <1>4
      <4>3. j - 1 \in 1 .. Len(q) /\ r[j] = q[j - 1]
        BY <4>1, <1>4
      <4> QED BY <4>2, <4>3
    <3> QED BY <3>1, <2>0
  <2> QED BY <2>1, <2>2, <2>3, <2>4, <2>5, <1>3
<1> QED BY <1>1, <1>3, <1>5, <1>6, <1>7

\* What running the event at the head does to the list.
LEMMA TailEffect ==
  ASSUME NEW q \in Seq(Event), Sorted(q), q # <<>>
  PROVE  /\ q[1] \in Event
         /\ Tail(q) \in Seq(Event)
         /\ Sorted(Tail(q))
         /\ \A i \in 1 .. Len(Tail(q)) : \E j \in 1 .. Len(q) : Tail(q)[i] = q[j]
         /\ \A E : /\ Number(Tail(q), E) \in Nat
                   /\ Number(q, E) =
                        IF q[1] \in E THEN Number(Tail(q), E) + 1 ELSE Number(Tail(q), E)
<1>1. PICK r : r = Tail(q)
  OBVIOUS
<1>2. /\ Len(q) \in Nat \ {0} /\ r \in Seq(Event) /\ Len(r) = Len(q) - 1
      /\ \A i \in 1 .. Len(q) - 1 : r[i] = q[i + 1]
  <2>1. Len(q) \in Nat \ {0}
    BY EmptySeq, ListType
  <2>2. /\ Tail(q) \in Seq(Event) /\ Len(Tail(q)) = Len(q) - 1
        /\ \A i \in 1 .. Len(Tail(q)) : Tail(q)[i] = q[i + 1]
    BY HeadTailProperties, Zenon
  <2> QED BY <1>1, <2>1, <2>2
<1>3. q[1] \in Event
  BY <1>2, ListType
<1>4. IsInsertion(q, r, 1, q[1])
  <2>1. \A i \in 1 .. Len(r) + 1 : q[i] = IF i < 1 THEN r[i] ELSE IF i = 1 THEN q[1] ELSE r[i - 1]
    BY <1>2
  <2> QED BY <1>2, <2>1 DEF IsInsertion
<1>5. \A E : /\ Number(r, E) \in Nat
             /\ Number(q, E) = IF q[1] \in E THEN Number(r, E) + 1 ELSE Number(r, E)
  <2>1. 1 \in 1 .. Len(r) + 1
    BY <1>2
  <2> QED BY <2>1, <1>2, <1>4, NumberInserted
<1>6. Sorted(r)
  <2>1. \A i, j \in 1 .. Len(q) : i < j => q[i].in <= q[j].in
    BY DEF Sorted
  <2> SUFFICES ASSUME NEW i \in 1 .. Len(r), NEW j \in 1 .. Len(r), i < j
               PROVE  r[i].in <= r[j].in
    BY DEF Sorted
  <2>2. i + 1 \in 1 .. Len(q) /\ j + 1 \in 1 .. Len(q) /\ i + 1 < j + 1
        /\ r[i] = q[i + 1] /\ r[j] = q[j + 1]
    BY <1>2
  <2> QED BY <2>1, <2>2
<1>7. \A i \in 1 .. Len(r) : \E j \in 1 .. Len(q) : r[i] = q[j]
  <2> TAKE i \in 1 .. Len(r)
  <2>1. i + 1 \in 1 .. Len(q) /\ r[i] = q[i + 1]
    BY <1>2
  <2> QED BY <2>1
<1> QED BY <1>1, <1>2, <1>3, <1>5, <1>6, <1>7

\* One tick brings every event nearer by one.
Nearer(q) == [k \in DOMAIN q |-> [q[k] EXCEPT !.in = @ - 1]]

LEMMA TickEffect ==
  ASSUME NEW q \in Seq(Event), Sorted(q), ~(q # <<>> /\ q[1].in = 0)
  PROVE  /\ Nearer(q) \in Seq(Event)
         /\ Sorted(Nearer(q))
         /\ Len(Nearer(q)) = Len(q)
         /\ \A i \in 1 .. Len(q) :
              /\ Nearer(q)[i].split = q[i].split
              /\ Nearer(q)[i].stage2Active = q[i].stage2Active
              /\ Nearer(q)[i].do = q[i].do
              /\ Nearer(q)[i].index = q[i].index
         /\ \A o : /\ Number(Nearer(q), OpensOf(o)) = Number(q, OpensOf(o))
                   /\ Number(Nearer(q), ClosesOf(o)) = Number(q, ClosesOf(o))
         /\ \A o : \A t \in Nat :
              /\ Number(Nearer(q), OpensBefore(o, t)) = Number(q, OpensBefore(o, t + 1))
              /\ Number(Nearer(q), ClosesBy(o, t)) = Number(q, ClosesBy(o, t + 1))
<1>1. PICK r : r = Nearer(q)
  OBVIOUS
<1>2. /\ Len(q) \in Nat /\ DOMAIN q = 1 .. Len(q)
      /\ \A i \in 1 .. Len(q) : q[i] \in Event /\ q[i].in \in Nat
  BY ListType
<1>3. ASSUME NEW i \in 1 .. Len(q) PROVE q[i].in > 0
  <2>1. q # <<>> /\ 1 \in 1 .. Len(q)
    BY <1>2
  <2>2. q[1].in \in Nat /\ q[1].in # 0 /\ q[i].in \in Nat
    BY <2>1, <1>2
  <2>3. i = 1 \/ q[1].in <= q[i].in
    BY <2>1, <1>2 DEF Sorted
  <2> QED BY <2>2, <2>3
<1>4. ASSUME NEW i \in 1 .. Len(q)
      PROVE  /\ r[i] \in Event /\ r[i].in = q[i].in - 1 /\ r[i].do = q[i].do
             /\ r[i].mask = q[i].mask /\ r[i].stage2Active = q[i].stage2Active
             /\ r[i].split = q[i].split /\ r[i].index = q[i].index
  <2>1. r[i] = [q[i] EXCEPT !.in = @ - 1]
    BY <1>1, <1>2 DEF Nearer
  <2>2. q[i] \in Event /\ q[i].in - 1 \in Nat
    BY <1>2, <1>3
  <2> QED BY <2>1, <2>2 DEF Event
<1>5. r \in Seq(Event) /\ Len(r) = Len(q) /\ DOMAIN r = 1 .. Len(q)
  <2>1. r = [k \in 1 .. Len(q) |-> r[k]]
    BY <1>1, <1>2 DEF Nearer
  <2>2. r \in [1 .. Len(q) -> Event]
    BY <2>1, <1>4
  <2> HIDE DEF Event
  <2> QED BY <2>2, <1>2
<1>6. Sorted(r)
  <2>1. \A i, j \in 1 .. Len(q) : i < j => q[i].in <= q[j].in
    BY DEF Sorted
  <2>2. \A i, j \in 1 .. Len(q) : i < j => q[i].in - 1 <= q[j].in - 1
    BY <2>1, <1>2
  <2> QED BY <2>2, <1>4, <1>5 DEF Sorted
<1>7. ASSUME NEW o, NEW i \in 1 .. Len(q)
      PROVE  /\ Opens(r[i], o) <=> Opens(q[i], o)
             /\ Closes(r[i], o) <=> Closes(q[i], o)
  BY <1>4 DEF Opens, Closes
<1>8. ASSUME NEW o
      PROVE  /\ Number(r, OpensOf(o)) = Number(q, OpensOf(o))
             /\ Number(r, ClosesOf(o)) = Number(q, ClosesOf(o))
  <2>1. {k \in DOMAIN r : r[k] \in OpensOf(o)} = {k \in DOMAIN q : q[k] \in OpensOf(o)}
    BY <1>2, <1>4, <1>5, <1>7 DEF OpensOf
  <2>2. {k \in DOMAIN r : r[k] \in ClosesOf(o)} = {k \in DOMAIN q : q[k] \in ClosesOf(o)}
    BY <1>2, <1>4, <1>5, <1>7 DEF ClosesOf
  <2> QED BY <2>1, <2>2 DEF Number
<1>9. ASSUME NEW o, NEW t \in Nat
      PROVE  /\ Number(r, OpensBefore(o, t)) = Number(q, OpensBefore(o, t + 1))
             /\ Number(r, ClosesBy(o, t)) = Number(q, ClosesBy(o, t + 1))
  <2>0. \A i \in 1 .. Len(q) : /\ r[i].in < t <=> q[i].in < t + 1
                               /\ r[i].in <= t <=> q[i].in <= t + 1
    BY <1>2, <1>4
  <2>1. {k \in DOMAIN r : r[k] \in OpensBefore(o, t)}
          = {k \in DOMAIN q : q[k] \in OpensBefore(o, t + 1)}
    BY <2>0, <1>2, <1>4, <1>5, <1>7 DEF OpensBefore
  <2>2. {k \in DOMAIN r : r[k] \in ClosesBy(o, t)}
          = {k \in DOMAIN q : q[k] \in ClosesBy(o, t + 1)}
    BY <2>0, <1>2, <1>4, <1>5, <1>7 DEF ClosesBy
  <2> QED BY <2>1, <2>2 DEF Number
<1> QED BY <1>1, <1>4, <1>5, <1>6, <1>8, <1>9

\* Whether an event is counted.
LEMMA Counted ==
  ASSUME NEW e \in Event, NEW o, NEW t
  PROVE  /\ e \in OpensOf(o) <=> Opens(e, o)
         /\ e \in ClosesOf(o) <=> Closes(e, o)
         /\ e \in OpensBefore(o, t) <=> Opens(e, o) /\ e.in < t
         /\ e \in ClosesBy(o, t) <=> Closes(e, o) /\ e.in <= t
  BY DEF OpensOf, ClosesOf, OpensBefore, ClosesBy

LEMMA NumberType ==
  ASSUME NEW q \in Seq(Event), NEW E
  PROVE  Number(q, E) \in Nat
<1>1. Len(q) \in Nat /\ DOMAIN q = 1 .. Len(q)
  BY ListType
<1>2. IsFiniteSet(1 .. Len(q))
  BY <1>1, FS_Interval
<1>3. {k \in DOMAIN q : q[k] \in E} \in SUBSET (1 .. Len(q))
  BY <1>1
<1>4. IsFiniteSet({k \in DOMAIN q : q[k] \in E})
  BY <1>2, <1>3, FS_Subset
<1> QED BY <1>4, FS_CardinalityType DEF Number

\* Nothing opens before now.
LEMMA NoneBefore ==
  ASSUME NEW q \in Seq(Event), NEW o
  PROVE  Number(q, OpensBefore(o, 0)) = 0
<1>1. OpensBefore(o, 0) = {}
  BY EventType DEF OpensBefore
<1>2. {k \in DOMAIN q : q[k] \in OpensBefore(o, 0)} = {}
  BY <1>1
<1> QED BY <1>2, FS_EmptySet DEF Number

LEMMA OutputOf ==
  ASSUME NEW o \in Outputs, NEW M, NEW J
  PROVE  /\ o[1] \in cylinders /\ o[2] \in {1, 2}
         /\ o \in M \X J <=> o[1] \in M /\ o[2] \in J
  BY DEF Outputs

-----------------------------------------------------------------------------
(* The two counts, action by action.                                       *)

\* What the counts depend on.
CountType == pending \in Seq(Event) /\ Sorted(pending) /\ overlap \in [Outputs -> Nat]

LEMMA ToBePlannedType == \A o : ToBePlanned(o) \in {0, 1} /\ ToBePlanned(o)' \in {0, 1}
  BY DEF ToBePlanned

LEMMA SameCounts ==
  ASSUME CountInv, UNCHANGED <<pending, overlap, plan>>,
         pc \notin {"close", "close2"}, pc' \notin {"close", "close2"}
  PROVE  CountInv'
<1>1. \A o \in Outputs : ToBePlanned(o) = 0 /\ ToBePlanned(o)' = 0
  BY DEF ToBePlanned
<1> QED BY <1>1 DEF CountInv, Exact, EnoughOpen, PlannedBy

\* The opening is planned, and its closing is to be planned.
LEMMA OpeningPlanned ==
  ASSUME CountInv, CountType, NEW e \in Event, e.do = "start",
         pending' = Insert(pending, e), overlap' = overlap,
         pc \notin {"close", "close2"}, pc' = "close",
         plan'.mask = e.mask, plan'.stage2Active = e.stage2Active, plan'.startIn = e.in
  PROVE  CountInv'
<1> USE DEF CountType
<1>1. \A E : /\ Number(pending, E) \in Nat
             /\ Number(pending', E) =
                  IF e \in E THEN Number(pending, E) + 1 ELSE Number(pending, E)
  BY InsertEffect
<1>2. ASSUME NEW o \in Outputs
      PROVE  /\ ToBePlanned(o) = 0
             /\ ToBePlanned(o)' = IF Opens(e, o) THEN 1 ELSE 0
             /\ ~Closes(e, o)
  BY DEF ToBePlanned, Opens, Closes
<1>3. Exact'
  <2> SUFFICES ASSUME NEW o \in Outputs
               PROVE  overlap[o] + Number(pending', OpensOf(o))
                        = Number(pending', ClosesOf(o)) + ToBePlanned(o)'
    BY DEF Exact
  <2>1. overlap[o] + Number(pending, OpensOf(o)) = Number(pending, ClosesOf(o)) + 0
    BY <1>2 DEF CountInv, Exact
  <2>2. /\ Number(pending', OpensOf(o)) =
             IF Opens(e, o) THEN Number(pending, OpensOf(o)) + 1 ELSE Number(pending, OpensOf(o))
        /\ Number(pending', ClosesOf(o)) = Number(pending, ClosesOf(o))
    BY <1>1, <1>2, Counted
  <2>3. Number(pending, OpensOf(o)) \in Nat /\ Number(pending, ClosesOf(o)) \in Nat
        /\ overlap[o] \in Nat
    BY <1>1
  <2> QED BY <2>1, <2>2, <2>3, <1>2
<1>4. EnoughOpen'
  <2> SUFFICES ASSUME NEW o \in Outputs, NEW t \in Nat
               PROVE  overlap[o] + Number(pending', OpensBefore(o, t))
                        >= Number(pending', ClosesBy(o, t)) + PlannedBy(o, t)'
    BY DEF EnoughOpen
  <2>1. overlap[o] + Number(pending, OpensBefore(o, t)) >= Number(pending, ClosesBy(o, t)) + 0
    BY <1>2 DEF CountInv, EnoughOpen, PlannedBy
  <2>2. /\ Number(pending', OpensBefore(o, t)) =
             IF Opens(e, o) /\ e.in < t
             THEN Number(pending, OpensBefore(o, t)) + 1 ELSE Number(pending, OpensBefore(o, t))
        /\ Number(pending', ClosesBy(o, t)) = Number(pending, ClosesBy(o, t))
    BY <1>1, <1>2, Counted
  <2>3. Number(pending, OpensBefore(o, t)) \in Nat /\ Number(pending, ClosesBy(o, t)) \in Nat
        /\ overlap[o] \in Nat
    BY <1>1
  <2>4. PlannedBy(o, t)' = IF Opens(e, o) /\ e.in < t THEN 1 ELSE 0
    BY <1>2 DEF PlannedBy
  <2> QED BY <2>1, <2>2, <2>3, <2>4
<1> QED BY <1>3, <1>4 DEF CountInv

\* A closing is planned that was to be planned, later than the start.
LEMMA ClosingPlanned ==
  ASSUME CountInv, CountType, NEW e \in Event, e.do # "start",
         pending' = Insert(pending, e), overlap' = overlap,
         plan.startIn \in Nat, plan.startIn < e.in,
         \A o \in Outputs :
           ToBePlanned(o) = IF Closes(e, o) THEN ToBePlanned(o)' + 1 ELSE ToBePlanned(o)',
         plan' = plan \/ \A o \in Outputs : ToBePlanned(o)' = 0
  PROVE  CountInv'
<1> USE DEF CountType
<1>1. \A E : /\ Number(pending, E) \in Nat
             /\ Number(pending', E) =
                  IF e \in E THEN Number(pending, E) + 1 ELSE Number(pending, E)
  BY InsertEffect
<1>2. ASSUME NEW o \in Outputs
      PROVE  /\ ToBePlanned(o) = IF Closes(e, o) THEN ToBePlanned(o)' + 1 ELSE ToBePlanned(o)'
             /\ ToBePlanned(o)' \in {0, 1}
             /\ ~Opens(e, o)
  BY ToBePlannedType DEF Opens
<1>3. Exact'
  <2> SUFFICES ASSUME NEW o \in Outputs
               PROVE  overlap[o] + Number(pending', OpensOf(o))
                        = Number(pending', ClosesOf(o)) + ToBePlanned(o)'
    BY DEF Exact
  <2>1. overlap[o] + Number(pending, OpensOf(o)) = Number(pending, ClosesOf(o)) + ToBePlanned(o)
    BY DEF CountInv, Exact
  <2>2. /\ Number(pending', ClosesOf(o)) =
             IF Closes(e, o) THEN Number(pending, ClosesOf(o)) + 1 ELSE Number(pending, ClosesOf(o))
        /\ Number(pending', OpensOf(o)) = Number(pending, OpensOf(o))
    BY <1>1, <1>2, Counted
  <2>3. Number(pending, OpensOf(o)) \in Nat /\ Number(pending, ClosesOf(o)) \in Nat
        /\ overlap[o] \in Nat
    BY <1>1
  <2> QED BY <2>1, <2>2, <2>3, <1>2
<1>4. EnoughOpen'
  <2> SUFFICES ASSUME NEW o \in Outputs, NEW t \in Nat
               PROVE  overlap[o] + Number(pending', OpensBefore(o, t))
                        >= Number(pending', ClosesBy(o, t)) + PlannedBy(o, t)'
    BY DEF EnoughOpen
  <2>1. overlap[o] + Number(pending, OpensBefore(o, t))
          >= Number(pending, ClosesBy(o, t)) + PlannedBy(o, t)
    BY DEF CountInv, EnoughOpen
  <2>2. /\ Number(pending', ClosesBy(o, t)) =
             IF Closes(e, o) /\ e.in <= t
             THEN Number(pending, ClosesBy(o, t)) + 1 ELSE Number(pending, ClosesBy(o, t))
        /\ Number(pending', OpensBefore(o, t)) = Number(pending, OpensBefore(o, t))
    BY <1>1, <1>2, Counted
  <2>3. Number(pending, OpensBefore(o, t)) \in Nat /\ Number(pending, ClosesBy(o, t)) \in Nat
        /\ overlap[o] \in Nat /\ e.in \in Nat
    BY <1>1, EventType
  <2>4. PlannedBy(o, t)' = (IF plan.startIn < t THEN ToBePlanned(o)' ELSE 0)
    BY <1>2 DEF PlannedBy
  <2>5. PlannedBy(o, t) = (IF plan.startIn < t THEN ToBePlanned(o) ELSE 0)
    BY DEF PlannedBy
  <2> QED BY <2>1, <2>2, <2>3, <2>4, <2>5, <1>2
<1> QED BY <1>3, <1>4 DEF CountInv

\* The opening at the head of the list runs.
LEMMA OpeningRuns ==
  ASSUME CountInv, CountType, Due, pending[1].do = "start",
         Open(pending[1].mask \X (IF pending[1].stage2Active THEN {1, 2} ELSE {1})),
         pending' = Tail(pending), UNCHANGED <<pc, plan>>
  PROVE  CountInv'
<1> USE DEF CountType
<1>0. PICK e : e = pending[1]
  OBVIOUS
<1>1. /\ e \in Event /\ e.in = 0 /\ e.do = "start"
      /\ \A E : /\ Number(pending', E) \in Nat
                /\ Number(pending, E) =
                     IF e \in E THEN Number(pending', E) + 1 ELSE Number(pending', E)
  BY <1>0, TailEffect DEF Due
<1>2. ASSUME NEW o \in Outputs
      PROVE  /\ overlap[o] \in Nat
             /\ overlap'[o] = IF Opens(e, o) THEN overlap[o] + 1 ELSE overlap[o]
             /\ ~Closes(e, o)
  <2>1. o \in e.mask \X (IF e.stage2Active THEN {1, 2} ELSE {1}) <=> Opens(e, o)
    <3>1. e.stage2Active \in BOOLEAN
      BY <1>1, EventType
    <3>2. /\ o[2] \in {1, 2}
          /\ o \in e.mask \X {1, 2} <=> o[1] \in e.mask /\ o[2] \in {1, 2}
          /\ o \in e.mask \X {1} <=> o[1] \in e.mask /\ o[2] \in {1}
      BY DEF Outputs
    <3>3. CASE e.stage2Active
      BY <3>2, <3>3, <1>1 DEF Opens
    <3>4. CASE ~e.stage2Active
      BY <3>2, <3>4, <1>1 DEF Opens
    <3> QED BY <3>1, <3>3, <3>4
  <2> QED BY <2>1, <1>0, <1>1 DEF Open, Closes
<1>3. \A o : ToBePlanned(o)' = ToBePlanned(o) /\ ToBePlanned(o) \in {0, 1}
  BY ToBePlannedType DEF ToBePlanned
<1>4. Exact'
  <2> SUFFICES ASSUME NEW o \in Outputs
               PROVE  overlap'[o] + Number(pending', OpensOf(o))
                        = Number(pending', ClosesOf(o)) + ToBePlanned(o)
    BY <1>3 DEF Exact
  <2>1. overlap[o] + Number(pending, OpensOf(o)) = Number(pending, ClosesOf(o)) + ToBePlanned(o)
    BY DEF CountInv, Exact
  <2>2. /\ Number(pending, OpensOf(o)) =
             IF Opens(e, o) THEN Number(pending', OpensOf(o)) + 1 ELSE Number(pending', OpensOf(o))
        /\ Number(pending, ClosesOf(o)) = Number(pending', ClosesOf(o))
    BY <1>1, <1>2, Counted
  <2>3. Number(pending', OpensOf(o)) \in Nat /\ Number(pending', ClosesOf(o)) \in Nat
    BY <1>1
  <2> QED BY <2>1, <2>2, <2>3, <1>2, <1>3
<1>5. EnoughOpen'
  <2> SUFFICES ASSUME NEW o \in Outputs, NEW t \in Nat
               PROVE  overlap'[o] + Number(pending', OpensBefore(o, t))
                        >= Number(pending', ClosesBy(o, t)) + PlannedBy(o, t)'
    BY DEF EnoughOpen
  <2>1. overlap[o] + Number(pending, OpensBefore(o, t))
          >= Number(pending, ClosesBy(o, t)) + PlannedBy(o, t)
    BY DEF CountInv, EnoughOpen
  <2>2. /\ Number(pending, OpensBefore(o, t)) =
             IF Opens(e, o) /\ e.in < t
             THEN Number(pending', OpensBefore(o, t)) + 1 ELSE Number(pending', OpensBefore(o, t))
        /\ Number(pending, ClosesBy(o, t)) = Number(pending', ClosesBy(o, t))
    BY <1>1, <1>2, Counted
  <2>3. Number(pending', OpensBefore(o, t)) \in Nat /\ Number(pending', ClosesBy(o, t)) \in Nat
    BY <1>1
  <2>4. PlannedBy(o, t)' = PlannedBy(o, t) /\ PlannedBy(o, t) \in {0, 1}
    BY <1>3 DEF PlannedBy
  <2> QED BY <2>1, <2>2, <2>3, <2>4, <1>2
<1> QED BY <1>4, <1>5 DEF CountInv

\* When the closing at the head of the list runs, what it closes is open.
LEMMA ClosingFindsOpen ==
  ASSUME CountInv, CountType, Due, NEW o \in Outputs, Closes(pending[1], o)
  PROVE  overlap[o] \in Nat \ {0}
<1> USE DEF CountType
<1>1. /\ pending[1] \in Event /\ pending[1].in = 0 /\ overlap[o] \in Nat
      /\ \A E : /\ Number(Tail(pending), E) \in Nat
                /\ Number(pending, E) =
                     IF pending[1] \in E THEN Number(Tail(pending), E) + 1
                                         ELSE Number(Tail(pending), E)
  BY TailEffect DEF Due
<1>2. pending[1] \in ClosesBy(o, 0)
  BY <1>1, Counted
<1>3. Number(pending, ClosesBy(o, 0)) \in Nat /\ Number(pending, ClosesBy(o, 0)) >= 1
  BY <1>1, <1>2
<1>4. Number(pending, OpensBefore(o, 0)) = 0
  BY NoneBefore
<1>5. overlap[o] + 0 >= Number(pending, ClosesBy(o, 0)) + PlannedBy(o, 0)
  BY <1>4 DEF CountInv, EnoughOpen
<1>6. PlannedBy(o, 0) \in {0, 1}
  BY ToBePlannedType DEF PlannedBy
<1>7. overlap[o] \in Nat
  BY <1>1
<1>8. PICK n \in Nat, p \in {0, 1} : n >= 1 /\ overlap[o] >= n + p
  BY <1>3, <1>5, <1>6, <1>7
<1> QED BY <1>7, <1>8

\* The list r has one more pulse than q, or none: as many openings as
\* closings were added, and the opening comes first.
PulseAdded(q, r) ==
  \A o \in Outputs :
    /\ \E b \in {0, 1} : /\ Number(r, OpensOf(o)) = Number(q, OpensOf(o)) + b
                         /\ Number(r, ClosesOf(o)) = Number(q, ClosesOf(o)) + b
    /\ \A t \in Nat : \E b, c \in {0, 1} :
         /\ b >= c
         /\ Number(r, OpensBefore(o, t)) = Number(q, OpensBefore(o, t)) + b
         /\ Number(r, ClosesBy(o, t)) = Number(q, ClosesBy(o, t)) + c

LEMMA NoPulseAdded ==
  ASSUME NEW q \in Seq(Event)
  PROVE  PulseAdded(q, q)
<1>1. \A E : Number(q, E) = Number(q, E) + 0
  BY NumberType
<1> QED BY <1>1 DEF PulseAdded

\* The second pulse of a split injection.
LEMMA SecondPulseAdded ==
  ASSUME NEW q \in Seq(Event), Sorted(q), NEW a \in Event, NEW z \in Event,
         a.do = "start", z.do # "start", a.in < z.in,
         \A o \in Outputs : Opens(a, o) <=> Closes(z, o)
  PROVE  PulseAdded(q, Insert(Insert(q, a), z))
<1>1. PICK r, s : r = Insert(q, a) /\ s = Insert(r, z)
  OBVIOUS
<1>2. /\ r \in Seq(Event) /\ Sorted(r)
      /\ \A E : /\ Number(q, E) \in Nat
                /\ Number(r, E) = IF a \in E THEN Number(q, E) + 1 ELSE Number(q, E)
  BY <1>1, InsertEffect, Zenon
<1>3. \A E : Number(s, E) = IF z \in E THEN Number(r, E) + 1 ELSE Number(r, E)
  <2>1. r \in Seq(Event) /\ Sorted(r)
    BY <1>2
  <2>2. \A E : Number(Insert(r, z), E) = IF z \in E THEN Number(r, E) + 1 ELSE Number(r, E)
    BY <2>1, InsertEffect
  <2> QED BY <1>1, <2>2
<1>4. a.in \in Nat /\ z.in \in Nat
  BY EventType
<1>5. \A o : ~Closes(a, o) /\ ~Opens(z, o)
  BY DEF Opens, Closes
<1>6. ASSUME NEW o \in Outputs
      PROVE  \E b \in {0, 1} : /\ Number(s, OpensOf(o)) = Number(q, OpensOf(o)) + b
                               /\ Number(s, ClosesOf(o)) = Number(q, ClosesOf(o)) + b
  <2>1. Number(q, OpensOf(o)) \in Nat /\ Number(q, ClosesOf(o)) \in Nat
    BY <1>2
  <2>2. CASE Opens(a, o)
    <3>1. /\ Number(s, OpensOf(o)) = Number(q, OpensOf(o)) + 1
          /\ Number(s, ClosesOf(o)) = Number(q, ClosesOf(o)) + 1
      BY <2>2, <1>2, <1>3, <1>5, Counted
    <3> QED BY <3>1
  <2>3. CASE ~Opens(a, o)
    <3>1. /\ Number(s, OpensOf(o)) = Number(q, OpensOf(o))
          /\ Number(s, ClosesOf(o)) = Number(q, ClosesOf(o))
      BY <2>3, <1>2, <1>3, <1>5, Counted
    <3>2. /\ Number(s, OpensOf(o)) = Number(q, OpensOf(o)) + 0
          /\ Number(s, ClosesOf(o)) = Number(q, ClosesOf(o)) + 0
      BY <3>1, <2>1
    <3> QED BY <3>2
  <2> QED BY <2>2, <2>3
<1>7. ASSUME NEW o \in Outputs, NEW t \in Nat
      PROVE  \E b, c \in {0, 1} :
               /\ b >= c
               /\ Number(s, OpensBefore(o, t)) = Number(q, OpensBefore(o, t)) + b
               /\ Number(s, ClosesBy(o, t)) = Number(q, ClosesBy(o, t)) + c
  <2>1. Number(q, OpensBefore(o, t)) \in Nat /\ Number(q, ClosesBy(o, t)) \in Nat
    BY <1>2
  <2>2. CASE Opens(a, o) /\ a.in < t
    <3>1. Number(s, OpensBefore(o, t)) = Number(q, OpensBefore(o, t)) + 1
      BY <2>2, <1>2, <1>3, <1>5, Counted
    <3>2. \/ Number(s, ClosesBy(o, t)) = Number(q, ClosesBy(o, t)) + 1
          \/ Number(s, ClosesBy(o, t)) = Number(q, ClosesBy(o, t)) + 0
      BY <2>1, <1>2, <1>3, <1>5, Counted
    <3> QED BY <3>1, <3>2
  <2>3. CASE ~(Opens(a, o) /\ a.in < t)
    <3>0. ~(Closes(z, o) /\ z.in <= t)
      BY <2>3, <1>4
    <3>1. /\ Number(s, OpensBefore(o, t)) = Number(q, OpensBefore(o, t))
          /\ Number(s, ClosesBy(o, t)) = Number(q, ClosesBy(o, t))
      BY <3>0, <2>3, <1>2, <1>3, <1>5, Counted
    <3>2. /\ Number(s, OpensBefore(o, t)) = Number(q, OpensBefore(o, t)) + 0
          /\ Number(s, ClosesBy(o, t)) = Number(q, ClosesBy(o, t)) + 0
      BY <3>1, <2>1
    <3> QED BY <3>2
  <2> QED BY <2>2, <2>3
<1> QED BY <1>1, <1>6, <1>7 DEF PulseAdded

\* The closing at the head of the list runs and closes `outs`.
LEMMA ClosingRuns ==
  ASSUME CountInv, CountType, Due, pending[1].do # "start", NEW outs, Close(outs),
         \A o \in Outputs : o \in outs <=> Closes(pending[1], o),
         UNCHANGED <<pc, plan>>, PulseAdded(Tail(pending), pending')
  PROVE  CountInv'
<1>0. PICK e, q : e = pending[1] /\ q = Tail(pending)
  OBVIOUS
<1>1. /\ e \in Event /\ e.in = 0 /\ e.do # "start"
      /\ \A E : /\ Number(q, E) \in Nat
                /\ Number(pending, E) = IF e \in E THEN Number(q, E) + 1 ELSE Number(q, E)
  BY <1>0, TailEffect DEF Due, CountType
<1>2. ASSUME NEW o \in Outputs
      PROVE  /\ overlap[o] \in Nat
             /\ Closes(e, o) => overlap[o] > 0
             /\ overlap'[o] = IF Closes(e, o) THEN overlap[o] - 1 ELSE overlap[o]
             /\ ~Opens(e, o)
  <2>1. overlap[o] \in Nat /\ (Closes(e, o) => overlap[o] > 0)
    BY <1>0, ClosingFindsOpen DEF CountType
  <2>2. o \in outs <=> Closes(e, o)
    BY <1>0
  <2>3. overlap'[o] = IF o \in outs /\ overlap[o] > 0 THEN overlap[o] - 1 ELSE overlap[o]
    BY DEF Close
  <2> QED BY <2>1, <2>2, <2>3, <1>1 DEF Opens
<1>3. \A o : ToBePlanned(o)' = ToBePlanned(o) /\ ToBePlanned(o) \in {0, 1}
  BY ToBePlannedType DEF ToBePlanned
<1>4. PulseAdded(q, pending')
  BY <1>0
<1>5. Exact'
  <2> SUFFICES ASSUME NEW o \in Outputs
               PROVE  overlap'[o] + Number(pending', OpensOf(o))
                        = Number(pending', ClosesOf(o)) + ToBePlanned(o)
    BY <1>3 DEF Exact
  <2>1. overlap[o] + Number(pending, OpensOf(o)) = Number(pending, ClosesOf(o)) + ToBePlanned(o)
    BY DEF CountInv, Exact
  <2>2. /\ Number(pending, ClosesOf(o)) =
             IF Closes(e, o) THEN Number(q, ClosesOf(o)) + 1 ELSE Number(q, ClosesOf(o))
        /\ Number(pending, OpensOf(o)) = Number(q, OpensOf(o))
    BY <1>1, <1>2, Counted
  <2>3. Number(q, OpensOf(o)) \in Nat /\ Number(q, ClosesOf(o)) \in Nat
    BY <1>1
  <2>4. PICK b \in {0, 1} : /\ Number(pending', OpensOf(o)) = Number(q, OpensOf(o)) + b
                            /\ Number(pending', ClosesOf(o)) = Number(q, ClosesOf(o)) + b
    BY <1>4 DEF PulseAdded
  <2> QED BY <2>1, <2>2, <2>3, <2>4, <1>2, <1>3
<1>6. EnoughOpen'
  <2> SUFFICES ASSUME NEW o \in Outputs, NEW t \in Nat
               PROVE  overlap'[o] + Number(pending', OpensBefore(o, t))
                        >= Number(pending', ClosesBy(o, t)) + PlannedBy(o, t)'
    BY DEF EnoughOpen
  <2>1. overlap[o] + Number(pending, OpensBefore(o, t))
          >= Number(pending, ClosesBy(o, t)) + PlannedBy(o, t)
    BY DEF CountInv, EnoughOpen
  <2>2. /\ Number(pending, ClosesBy(o, t)) =
             IF Closes(e, o) THEN Number(q, ClosesBy(o, t)) + 1 ELSE Number(q, ClosesBy(o, t))
        /\ Number(pending, OpensBefore(o, t)) = Number(q, OpensBefore(o, t))
    BY <1>1, <1>2, Counted
  <2>3. Number(q, OpensBefore(o, t)) \in Nat /\ Number(q, ClosesBy(o, t)) \in Nat
    BY <1>1
  <2>4. PlannedBy(o, t)' = PlannedBy(o, t) /\ PlannedBy(o, t) \in {0, 1}
    BY <1>3 DEF PlannedBy
  <2>5. PICK b \in {0, 1}, c \in {0, 1} :
             /\ b >= c
             /\ Number(pending', OpensBefore(o, t)) = Number(q, OpensBefore(o, t)) + b
             /\ Number(pending', ClosesBy(o, t)) = Number(q, ClosesBy(o, t)) + c
    BY <1>4 DEF PulseAdded
  <2> QED BY <2>1, <2>2, <2>3, <2>4, <2>5, <1>2
<1> QED BY <1>5, <1>6 DEF CountInv

\* The priming pulse opens all injectors and plans their closing.
LEMMA PrimingCounts ==
  ASSUME CountInv, CountType, NEW e \in Event, e.do = "primeEnd", e.in > 0, e.mask = cylinders,
         Open(cylinders \X {1}), pending' = Insert(pending, e), UNCHANGED <<pc, plan>>
  PROVE  CountInv'
<1>1. \A E : /\ Number(pending, E) \in Nat
             /\ Number(pending', E) =
                  IF e \in E THEN Number(pending, E) + 1 ELSE Number(pending, E)
  BY InsertEffect DEF CountType
<1>2. ASSUME NEW o \in Outputs
      PROVE  /\ overlap[o] \in Nat
             /\ overlap'[o] = IF Closes(e, o) THEN overlap[o] + 1 ELSE overlap[o]
             /\ ~Opens(e, o)
  <2>1. o \in cylinders \X {1} <=> Closes(e, o)
    BY DEF Closes, Outputs
  <2>2. overlap'[o] = IF o \in cylinders \X {1} THEN overlap[o] + 1 ELSE overlap[o]
    BY DEF Open
  <2> QED BY <2>1, <2>2 DEF Opens, CountType
<1>3. \A o : ToBePlanned(o)' = ToBePlanned(o) /\ ToBePlanned(o) \in {0, 1}
  BY ToBePlannedType DEF ToBePlanned
<1>4. Exact'
  <2> SUFFICES ASSUME NEW o \in Outputs
               PROVE  overlap'[o] + Number(pending', OpensOf(o))
                        = Number(pending', ClosesOf(o)) + ToBePlanned(o)
    BY <1>3 DEF Exact
  <2>1. overlap[o] + Number(pending, OpensOf(o)) = Number(pending, ClosesOf(o)) + ToBePlanned(o)
    BY DEF CountInv, Exact
  <2>2. /\ Number(pending', ClosesOf(o)) =
             IF Closes(e, o) THEN Number(pending, ClosesOf(o)) + 1 ELSE Number(pending, ClosesOf(o))
        /\ Number(pending', OpensOf(o)) = Number(pending, OpensOf(o))
    BY <1>1, <1>2, Counted
  <2>3. Number(pending, OpensOf(o)) \in Nat /\ Number(pending, ClosesOf(o)) \in Nat
    BY <1>1
  <2> QED BY <2>1, <2>2, <2>3, <1>2, <1>3
<1>5. EnoughOpen'
  <2> SUFFICES ASSUME NEW o \in Outputs, NEW t \in Nat
               PROVE  overlap'[o] + Number(pending', OpensBefore(o, t))
                        >= Number(pending', ClosesBy(o, t)) + PlannedBy(o, t)'
    BY DEF EnoughOpen
  <2>1. overlap[o] + Number(pending, OpensBefore(o, t))
          >= Number(pending, ClosesBy(o, t)) + PlannedBy(o, t)
    BY DEF CountInv, EnoughOpen
  <2>2. /\ Number(pending', ClosesBy(o, t)) =
             IF Closes(e, o) /\ e.in <= t
             THEN Number(pending, ClosesBy(o, t)) + 1 ELSE Number(pending, ClosesBy(o, t))
        /\ Number(pending', OpensBefore(o, t)) = Number(pending, OpensBefore(o, t))
    BY <1>1, <1>2, Counted
  <2>3. Number(pending, OpensBefore(o, t)) \in Nat /\ Number(pending, ClosesBy(o, t)) \in Nat
    BY <1>1
  <2>4. PlannedBy(o, t)' = PlannedBy(o, t) /\ PlannedBy(o, t) \in {0, 1}
    BY <1>3 DEF PlannedBy
  <2> QED BY <2>1, <2>2, <2>3, <2>4, <1>2
<1> QED BY <1>4, <1>5 DEF CountInv

LEMMA TickCounts ==
  ASSUME CountInv, CountType, ~Due, pending' = Nearer(pending), UNCHANGED <<overlap, plan, pc>>,
         pc = "idle"
  PROVE  CountInv'
<1>1. \A o : ToBePlanned(o) = 0 /\ ToBePlanned(o)' = 0
  BY DEF ToBePlanned
<1>2. \A o, t : PlannedBy(o, t) = 0 /\ PlannedBy(o, t)' = 0
  BY <1>1 DEF PlannedBy
<1>3. /\ \A o : /\ Number(pending', OpensOf(o)) = Number(pending, OpensOf(o))
                /\ Number(pending', ClosesOf(o)) = Number(pending, ClosesOf(o))
      /\ \A o : \A t \in Nat :
           /\ Number(pending', OpensBefore(o, t)) = Number(pending, OpensBefore(o, t + 1))
           /\ Number(pending', ClosesBy(o, t)) = Number(pending, ClosesBy(o, t + 1))
  <2>1. pending \in Seq(Event) /\ Sorted(pending) /\ ~(pending # <<>> /\ pending[1].in = 0)
    BY DEF CountType, Due
  <2> QED BY <2>1, TickEffect
<1>4. Exact'
  BY <1>1, <1>3 DEF CountInv, Exact
<1>5. EnoughOpen'
  <2> SUFFICES ASSUME NEW o \in Outputs, NEW t \in Nat
               PROVE  overlap[o] + Number(pending', OpensBefore(o, t))
                        >= Number(pending', ClosesBy(o, t)) + 0
    BY <1>2 DEF EnoughOpen
  <2>1. t + 1 \in Nat
    OBVIOUS
  <2>2. overlap[o] + Number(pending, OpensBefore(o, t + 1))
          >= Number(pending, ClosesBy(o, t + 1)) + 0
    BY <2>1, <1>2 DEF CountInv, EnoughOpen
  <2> QED BY <2>2, <1>3
<1> QED BY <1>4, <1>5 DEF CountInv

-----------------------------------------------------------------------------
(* Types.                                                                  *)

LEMMA ElementType ==
  ASSUME EngineType, NEW i \in cylinders
  PROVE  elements[i].angle \in 0 .. Cycle - 1 /\ elements[i].mode \in InjectionModes
  BY DEF EngineType

LEMMA MaskType ==
  ASSUME EngineType, NEW i \in cylinders
  PROVE  calculateInjectorOutputMask(i) \in SUBSET cylinders
<1>1. elements[i].mode \in InjectionModes
  BY ElementType
<1>2. cylindersCount \in Nat \ {0} /\ i \in Nat /\ i < cylindersCount
  BY FuelAssumption DEF cylinders
<1>3. cylindersCount \div 2 \in Nat
  BY <1>2
<1>4. (i + cylindersCount \div 2) % cylindersCount \in cylinders
  BY <1>2, <1>3 DEF cylinders
<1>5. 0 \in cylinders
  BY <1>2 DEF cylinders
<1> QED BY <1>1, <1>4, <1>5 DEF calculateInjectorOutputMask, InjectionModes

LEMMA UpdatedType ==
  ASSUME EngineType, NEW i \in cylinders, NEW offset \in Offsets, NEW lock \in MayLock
  PROVE  Updated(i, offset, lock) \in [angle : 0 .. Cycle - 1, mode : InjectionModes]
<1>1. elements[i].angle \in 0 .. Cycle - 1 /\ mode \in InjectionModes
  BY ElementType DEF EngineType
<1>2. Cycle \in Nat \ {0} /\ cylindersCount \in Nat \ {0} /\ i \in Int /\ offset \in Int
  BY FuelAssumption, CycleAssumption DEF cylinders
<1>3. Cycle \div cylindersCount \in Int
  BY <1>2
<1>4. i * (Cycle \div cylindersCount) \in Int
  BY <1>2, <1>3
<1>5. wrapAngle(offset + i * (Cycle \div cylindersCount)) \in 0 .. Cycle - 1
  BY <1>2, <1>4 DEF wrapAngle
<1> QED BY <1>1, <1>5 DEF Updated

LEMMA UpdateType ==
  ASSUME EngineType, NEW i \in cylinders, Update(i), UNCHANGED <<tooth, mode>>
  PROVE  EngineType'
<1>1. CASE UNCHANGED elements
  BY <1>1 DEF EngineType
<1>2. CASE \E offset \in Offsets, lock \in MayLock :
             elements' = [elements EXCEPT ![i] = Updated(i, offset, lock)]
  BY <1>2, UpdatedType DEF EngineType
<1> QED BY <1>1, <1>2 DEF Update

LEMMA StartType ==
  ASSUME EngineType, NEW i \in cylinders
  PROVE  getAngleFromNow(elements[i].angle, tooth * ToothWidth) \in Nat
<1>1. elements[i].angle \in 0 .. Cycle - 1
  BY ElementType
<1>2. Cycle \in Nat \ {0} /\ ToothWidth \in Nat \ {0} /\ Cycle % ToothWidth = 0
  BY FuelAssumption, CycleAssumption
<1>3. PICK n \in Int : n = Cycle \div ToothWidth
  BY <1>2
<1>4. Cycle = n * ToothWidth
  BY <1>2, <1>3
<1>5. tooth \in Nat /\ tooth <= n - 1
  BY <1>3 DEF EngineType
<1>6. tooth * ToothWidth \in Nat /\ tooth * ToothWidth <= (n - 1) * ToothWidth
  BY <1>2, <1>5
<1>7. (n - 1) * ToothWidth = n * ToothWidth - ToothWidth
  BY <1>2
<1>8. tooth * ToothWidth \in 0 .. Cycle - 1
  BY <1>2, <1>4, <1>6, <1>7
<1> QED BY <1>1, <1>2, <1>8 DEF getAngleFromNow

-----------------------------------------------------------------------------
(* The list, the handler's plan and the outputs.                           *)

LEMMA PlannedList ==
  ASSUME ListInv, NEW e \in Event, Sound(e), pending' = Insert(pending, e)
  PROVE  ListInv'
<1>1. pending \in Seq(Event) /\ Sorted(pending) /\ \A i \in 1 .. Len(pending) : Sound(pending[i])
  BY DEF ListInv
<1>2. /\ pending' \in Seq(Event) /\ Sorted(pending')
      /\ \A i \in 1 .. Len(pending') :
           pending'[i] = e \/ \E j \in 1 .. Len(pending) : pending'[i] = pending[j]
  <2>1. pending \in Seq(Event) /\ Sorted(pending)
    BY <1>1
  <2>2. Insert(pending, e) \in Seq(Event) /\ Sorted(Insert(pending, e))
    BY <2>1, InsertEffect
  <2>3. \A i \in 1 .. Len(Insert(pending, e)) :
           \/ Insert(pending, e)[i] = e
           \/ \E j \in 1 .. Len(pending) : Insert(pending, e)[i] = pending[j]
    BY <2>1, InsertEffect
  <2> QED BY <2>2, <2>3
<1>3. \A i \in 1 .. Len(pending') : Sound(pending'[i])
  BY <1>1, <1>2
<1> QED BY <1>2, <1>3 DEF ListInv

LEMMA HeadSound ==
  ASSUME ListInv, Due
  PROVE  /\ pending[1] \in Event /\ Sound(pending[1]) /\ pending # <<>>
         /\ Tail(pending) \in Seq(Event) /\ Sorted(Tail(pending))
         /\ \A i \in 1 .. Len(Tail(pending)) : Sound(Tail(pending)[i])
<1>1. pending \in Seq(Event) /\ Sorted(pending) /\ pending # <<>>
  BY DEF ListInv, Due
<1>2. 1 \in 1 .. Len(pending)
  BY <1>1, ListType
<1>3. \A i \in 1 .. Len(pending) : Sound(pending[i])
  BY DEF ListInv
<1> QED BY <1>1, <1>2, <1>3, TailEffect

LEMMA RunList ==
  ASSUME ListInv, Due, pending' = Tail(pending)
  PROVE  ListInv'
  BY HeadSound DEF ListInv

LEMMA TickList ==
  ASSUME ListInv, ~Due, pending' = Nearer(pending)
  PROVE  ListInv'
<1>1. pending \in Seq(Event) /\ Sorted(pending) /\ ~(pending # <<>> /\ pending[1].in = 0)
      /\ \A i \in 1 .. Len(pending) : Sound(pending[i])
  BY DEF ListInv, Due
<1>2. /\ pending' \in Seq(Event) /\ Sorted(pending') /\ Len(pending') = Len(pending)
      /\ \A i \in 1 .. Len(pending) :
              /\ pending'[i].split = pending[i].split
              /\ pending'[i].stage2Active = pending[i].stage2Active
              /\ pending'[i].do = pending[i].do
              /\ pending'[i].index = pending[i].index
  BY <1>1, TickEffect
<1>3. \A i \in 1 .. Len(pending') : Sound(pending'[i])
  BY <1>1, <1>2 DEF Sound
<1> QED BY <1>2, <1>3 DEF ListInv

LEMMA NextCylinderType ==
  ASSUME PlanInv, NextCylinder
  PROVE  cylinder' \in cylinders /\ pc' \in {"fuel", "idle"}
<1>1. cylindersCount \in Nat \ {0} /\ cylinder \in Nat
  BY FuelAssumption DEF PlanInv, cylinders
<1>2. (cylinder + 1) % cylindersCount \in cylinders
  BY <1>1 DEF cylinders
<1> QED BY <1>2 DEF NextCylinder

LEMMA NoPlanType ==
  /\ NoPlan.mask \in SUBSET cylinders /\ NoPlan.split = 0 /\ NoPlan.stage2Active = FALSE
  /\ NoPlan.startIn = 0 /\ NoPlan.duration = 0 /\ NoPlan.durationStage2 = 0
  BY DEF NoPlan

\* Opening and closing keep the types, and an output that is on is counted.
LEMMA OpenPins ==
  ASSUME PinType, NEW outs, Open(outs)
  PROVE  PinType' /\ (LevelFollowsCount => LevelFollowsCount')
<1>1. \A o \in Outputs : overlap[o] \in Nat /\ level[o] \in BOOLEAN
  BY DEF PinType
<1>2. PinType'
  <2>1. overlap' \in [Outputs -> Nat]
    BY <1>1 DEF Open
  <2>2. level' \in [Outputs -> BOOLEAN]
    BY <1>1, Zenon DEF Open
  <2> QED BY <2>1, <2>2 DEF PinType
<1>3. ASSUME LevelFollowsCount, NEW o \in Outputs, level'[o] PROVE overlap'[o] > 0
  BY <1>1, <1>3 DEF Open, LevelFollowsCount
<1> QED BY <1>2, <1>3 DEF LevelFollowsCount

LEMMA ClosePins ==
  ASSUME PinType, NEW outs, Close(outs)
  PROVE  PinType' /\ (LevelFollowsCount => LevelFollowsCount')
<1>1. \A o \in Outputs : overlap[o] \in Nat /\ level[o] \in BOOLEAN
  BY DEF PinType
<1>2. PinType'
  <2>1. overlap' \in [Outputs -> Nat]
    BY <1>1 DEF Close
  <2>2. level' \in [Outputs -> BOOLEAN]
    BY <1>1, Zenon DEF Close
  <2> QED BY <2>1, <2>2 DEF PinType
<1>3. ASSUME LevelFollowsCount, NEW o \in Outputs, level'[o] PROVE overlap'[o] > 0
  BY <1>1, <1>3 DEF Close, LevelFollowsCount
<1> QED BY <1>2, <1>3 DEF LevelFollowsCount

LEMMA InitInv == Init => FuelInv
<1> SUFFICES ASSUME Init PROVE FuelInv
  OBVIOUS
<1>1. Cycle \in Nat \ {0} /\ ToothWidth \in Nat \ {0} /\ cylindersCount \in Nat \ {0}
      /\ Cycle % ToothWidth = 0
  BY FuelAssumption, CycleAssumption
<1>2. PICK n \in Int : n = Cycle \div ToothWidth
  BY <1>1
<1>3. Cycle = n * ToothWidth
  BY <1>1, <1>2
<1>4. n > 0
  BY <1>1, <1>3
<1>5. EngineType
  BY <1>1, <1>2, <1>4, FuelAssumption DEF Init, EngineType, InjectionModes
<1>6. PlanInv
  <2>1. pc = "idle" /\ cylinder = 0 /\ plan = NoPlan /\ 0 \in cylinders
    BY <1>1 DEF Init, cylinders
  <2>2. /\ plan.mask \in SUBSET cylinders /\ plan.split = 0 /\ ~plan.stage2Active
        /\ plan.startIn = 0 /\ plan.duration = 0 /\ plan.durationStage2 = 0
        /\ plan.stage2Active \in BOOLEAN
    BY <2>1, NoPlanType
  <2> QED BY <2>1, <2>2 DEF PlanInv
<1>7. pending = <<>> /\ pending \in Seq(Event) /\ Len(pending) = 0
  BY DEF Init
<1>8. ListInv
  BY <1>7 DEF ListInv, Sorted
<1>9. PinType
  BY DEF Init, PinType
<1>10. \A E : Number(pending, E) = 0
  <2>1. \A E : {k \in DOMAIN pending : pending[k] \in E} = {}
    BY <1>7
  <2> QED BY <2>1, FS_EmptySet DEF Number
<1>11. \A o \in Outputs : overlap[o] = 0 /\ ToBePlanned(o) = 0
  BY DEF Init, ToBePlanned
<1>12. CountInv
  BY <1>10, <1>11 DEF CountInv, Exact, EnoughOpen, PlannedBy
<1> QED BY <1>5, <1>6, <1>8, <1>9, <1>12 DEF FuelInv

\* The value of the member stage2Active.
LEMMA PositiveIsBoolean ==
  ASSUME NEW n \in Nat
  PROVE  \E s \in BOOLEAN : s = (n > 0) /\ (s <=> n > 0)
<1>1. CASE n > 0
  <2>1. TRUE = (n > 0) /\ (TRUE <=> n > 0)
    BY <1>1
  <2> QED BY <2>1, Zenon
<1>2. CASE ~(n > 0)
  <2>1. FALSE = (n > 0) /\ (FALSE <=> n > 0)
    BY <1>2
  <2> QED BY <2>1, Zenon
<1> QED BY <1>1, <1>2

\* The handler plans an injection.
LEMMA PlanOpenInv ==
  ASSUME FuelInv, NEW d \in Durations, NEW d2 \in DurationsStage2, NEW doSplit \in MaySplit,
         PlanOpen(d, d2, doSplit)
  PROVE  FuelInv'
<1> USE DEF FuelInv
<1>0. cylinder \in cylinders /\ d \in Nat /\ d2 \in Nat /\ doSplit \in BOOLEAN
      /\ SplitRange \in Nat \ {0}
  BY FuelAssumption DEF PlanInv
<1>1. PICK duration : duration = IF doSplit THEN d \div 2 ELSE d
  OBVIOUS
<1>2. PICK stage2 : stage2 = Stage2Duration(d2, doSplit)
  OBVIOUS
<1>3. PICK angle : angle = getAngleFromNow(elements[cylinder].angle, tooth * ToothWidth)
  OBVIOUS
<1>4. PICK mask : mask = calculateInjectorOutputMask(cylinder)
  OBVIOUS
<1>5. PICK split : split = IF doSplit THEN duration % SplitRange ELSE 0
  OBVIOUS
<1>6. duration \in Nat /\ stage2 \in Nat /\ angle \in Nat /\ mask \in SUBSET cylinders
  BY <1>0, <1>1, <1>2, <1>3, <1>4, StartType, MaskType DEF Stage2Duration
<1>7. split \in Nat /\ (split > 0 => stage2 = 0)
  BY <1>0, <1>2, <1>5, <1>6 DEF Stage2Duration
<1>7a. PICK staged \in BOOLEAN : staged = (stage2 > 0) /\ (staged <=> stage2 > 0)
  BY <1>6, PositiveIsBoolean, Zenon
<1>7b. staged <=> stage2 > 0
  BY <1>7a
<1>7c. split > 0 => ~staged
  BY <1>6, <1>7, <1>7b
<1>8. PICK e : e = [in |-> angle, do |-> "start", mask |-> mask, index |-> cylinder,
                    split |-> split, stage2Active |-> staged]
  OBVIOUS
<1>9. /\ plan' = [mask |-> mask, split |-> split, stage2Active |-> staged,
                  startIn |-> angle, duration |-> duration, durationStage2 |-> stage2,
                  doSplit |-> doSplit]
      /\ pending' = Insert(pending, e)
      /\ pc = "fuel" /\ pc' = "close" /\ duration > 0
      /\ UNCHANGED <<engineVars, scheduleVars, cylinder, pinVars>>
  <2>1. ~TooShort(duration) => duration > 0
    BY <1>6 DEF TooShort
  <2> QED BY <2>1, <1>1, <1>2, <1>3, <1>4, <1>5, <1>7a, <1>8 DEF PlanOpen
<1>10. e \in Event /\ e.do = "start" /\ Sound(e)
  <2>1. cylinder \in 0 .. cylindersCount
    BY <1>0, FuelAssumption DEF cylinders
  <2>2. e \in Event /\ e.do = "start"
    BY <2>1, <1>6, <1>7, <1>7b, <1>8 DEF Event
  <2>3. e.split = split /\ e.stage2Active = staged /\ e.index \in cylinders
    BY <1>0, <1>8
  <2> QED BY <2>2, <2>3, <1>7c DEF Sound
<1>11. EngineType'
  BY <1>9 DEF EngineType, engineVars, scheduleVars
<1>12. PlanInv'
  <2>1. /\ plan'.mask = mask /\ plan'.split = split /\ plan'.stage2Active = staged
        /\ plan'.startIn = angle /\ plan'.duration = duration /\ plan'.durationStage2 = stage2
        /\ cylinder' = cylinder
    BY <1>9
  <2> QED BY <2>1, <1>0, <1>6, <1>7, <1>7b, <1>7c, <1>9 DEF PlanInv
<1>13. ListInv'
  BY <1>9, <1>10, PlannedList
<1>14. PinType'
  BY <1>9 DEF PinType, pinVars
<1>15. CountInv'
  <2>1. CountType /\ overlap' = overlap
    BY <1>9 DEF CountType, ListInv, PinType, pinVars
  <2>2. plan'.mask = e.mask /\ plan'.stage2Active = e.stage2Active /\ plan'.startIn = e.in
    BY <1>8, <1>9
  <2> QED BY <2>1, <2>2, <1>9, <1>10, OpeningPlanned
<1> QED BY <1>11, <1>12, <1>13, <1>14, <1>15

\* The handler plans the closing of the first stage.
LEMMA PlanCloseInv == FuelInv /\ PlanClose => FuelInv'
<1> SUFFICES ASSUME FuelInv, PlanClose PROVE FuelInv'
  OBVIOUS
<1>0. EngineType /\ PlanInv /\ ListInv /\ PinType /\ CountInv
  BY DEF FuelInv
<1>1. PICK e : e = [in |-> plan.startIn + plan.duration, do |-> "end", mask |-> plan.mask,
                    index |-> cylinder, split |-> plan.split, stage2Active |-> plan.stage2Active]
  OBVIOUS
<1>2. /\ pc = "close" /\ pending' = Insert(pending, e)
      /\ UNCHANGED <<engineVars, scheduleVars, inline, pinVars, isPriming>>
      /\ \/ plan.stage2Active /\ pc' = "close2" /\ UNCHANGED <<cylinder, plan>>
         \/ ~plan.stage2Active /\ NextCylinder /\ plan' = NoPlan
  BY <1>1 DEF PlanClose
<1>3. /\ plan.startIn \in Nat /\ plan.duration \in Nat /\ plan.duration > 0
      /\ plan.mask \in SUBSET cylinders /\ plan.split \in Nat /\ plan.stage2Active \in BOOLEAN
      /\ plan.split > 0 => ~plan.stage2Active
      /\ cylinder \in cylinders
  BY <1>0, <1>2 DEF PlanInv
<1>4. e \in Event /\ e.do = "end" /\ Sound(e) /\ e.mask = plan.mask /\ plan.startIn < e.in
  <2>1. cylinder \in 0 .. cylindersCount
    BY <1>3, FuelAssumption DEF cylinders
  <2>2. e \in Event
    BY <2>1, <1>1, <1>3 DEF Event
  <2>3. /\ e.do = "end" /\ e.mask = plan.mask /\ e.in = plan.startIn + plan.duration
        /\ e.split = plan.split /\ e.stage2Active = plan.stage2Active /\ e.index = cylinder
    BY <1>1
  <2> QED BY <2>2, <2>3, <1>3 DEF Sound
<1>5. EngineType' /\ PinType' /\ overlap' = overlap
  BY <1>0, <1>2 DEF EngineType, PinType, engineVars, scheduleVars, pinVars
<1>6. ListInv'
  BY <1>0, <1>2, <1>4, PlannedList
<1>7. PlanInv'
  <2>1. CASE pc' = "close2" /\ UNCHANGED <<cylinder, plan>> /\ plan.stage2Active
    BY <2>1, <1>0 DEF PlanInv
  <2>2. CASE NextCylinder /\ plan' = NoPlan
    <3>1. cylinder' \in cylinders /\ pc' \in {"fuel", "idle"}
      BY <2>2, <1>0, NextCylinderType
    <3>2. /\ plan'.mask \in SUBSET cylinders /\ plan'.split = 0 /\ ~plan'.stage2Active
          /\ plan'.startIn = 0 /\ plan'.duration = 0 /\ plan'.durationStage2 = 0
          /\ plan'.stage2Active \in BOOLEAN
      BY <2>2, NoPlanType
    <3> QED BY <3>1, <3>2 DEF PlanInv
  <2> QED BY <2>1, <2>2, <1>2
<1>8. CountInv'
  <2>1. CountType
    BY <1>0 DEF CountType, ListInv, PinType
  <2>2. ASSUME NEW o \in Outputs
        PROVE  /\ ToBePlanned(o) = IF Closes(e, o) THEN ToBePlanned(o)' + 1 ELSE ToBePlanned(o)'
               /\ plan' = plan \/ ToBePlanned(o)' = 0
    <3>1. o[2] \in {1, 2}
      BY OutputOf
    <3>2. Closes(e, o) <=> o[1] \in plan.mask /\ o[2] = 1
      BY <3>1, <1>4 DEF Closes
    <3>3. CASE plan.stage2Active /\ pc' = "close2" /\ UNCHANGED <<cylinder, plan>>
      BY <3>1, <3>2, <3>3, <1>2 DEF ToBePlanned
    <3>4. CASE ~plan.stage2Active /\ NextCylinder /\ plan' = NoPlan
      <4>1. pc' \in {"fuel", "idle"}
        BY <3>4, <1>0, NextCylinderType
      <4> QED BY <3>1, <3>2, <3>4, <4>1, <1>2 DEF ToBePlanned
    <3> QED BY <3>3, <3>4, <1>2
  <2>3. e.do # "start"
    BY <1>4
  <2> QED BY <2>1, <2>2, <2>3, <1>0, <1>2, <1>3, <1>4, <1>5, ClosingPlanned
<1> QED BY <1>5, <1>6, <1>7, <1>8 DEF FuelInv

\* The handler plans the closing of the second stage.
LEMMA PlanCloseStage2Inv == FuelInv /\ PlanCloseStage2 => FuelInv'
<1> SUFFICES ASSUME FuelInv, PlanCloseStage2 PROVE FuelInv'
  OBVIOUS
<1>0. EngineType /\ PlanInv /\ ListInv /\ PinType /\ CountInv
  BY DEF FuelInv
<1>1. PICK e : e = [in |-> plan.startIn + plan.durationStage2, do |-> "endStage2",
                    mask |-> plan.mask, index |-> cylinder, split |-> plan.split,
                    stage2Active |-> plan.stage2Active]
  OBVIOUS
<1>2. /\ pc = "close2" /\ pending' = Insert(pending, e) /\ NextCylinder /\ plan' = NoPlan
      /\ UNCHANGED <<engineVars, scheduleVars, inline, pinVars, isPriming>>
  BY <1>1 DEF PlanCloseStage2
<1>3. /\ plan.startIn \in Nat /\ plan.durationStage2 \in Nat /\ plan.durationStage2 > 0
      /\ plan.mask \in SUBSET cylinders /\ plan.split \in Nat /\ plan.stage2Active \in BOOLEAN
      /\ plan.split > 0 => ~plan.stage2Active
      /\ cylinder \in cylinders
  BY <1>0, <1>2 DEF PlanInv
<1>4. e \in Event /\ e.do = "endStage2" /\ Sound(e) /\ e.mask = plan.mask /\ plan.startIn < e.in
  <2>1. cylinder \in 0 .. cylindersCount
    BY <1>3, FuelAssumption DEF cylinders
  <2>2. e \in Event
    BY <2>1, <1>1, <1>3 DEF Event
  <2>3. /\ e.do = "endStage2" /\ e.mask = plan.mask /\ e.in = plan.startIn + plan.durationStage2
        /\ e.split = plan.split /\ e.stage2Active = plan.stage2Active /\ e.index = cylinder
    BY <1>1
  <2> QED BY <2>2, <2>3, <1>3 DEF Sound
<1>5. EngineType' /\ PinType' /\ overlap' = overlap
  BY <1>0, <1>2 DEF EngineType, PinType, engineVars, scheduleVars, pinVars
<1>6. ListInv'
  BY <1>0, <1>2, <1>4, PlannedList
<1>7. PlanInv' /\ pc' \in {"fuel", "idle"}
  <2>1. cylinder' \in cylinders /\ pc' \in {"fuel", "idle"}
    BY <1>0, <1>2, NextCylinderType
  <2>2. /\ plan'.mask \in SUBSET cylinders /\ plan'.split = 0 /\ ~plan'.stage2Active
        /\ plan'.startIn = 0 /\ plan'.duration = 0 /\ plan'.durationStage2 = 0
        /\ plan'.stage2Active \in BOOLEAN
    BY <1>2, NoPlanType
  <2> QED BY <2>1, <2>2 DEF PlanInv
<1>8. CountInv'
  <2>1. CountType
    BY <1>0 DEF CountType, ListInv, PinType
  <2>2. ASSUME NEW o \in Outputs
        PROVE  /\ ToBePlanned(o) = IF Closes(e, o) THEN ToBePlanned(o)' + 1 ELSE ToBePlanned(o)'
               /\ ToBePlanned(o)' = 0
    <3>1. o[2] \in {1, 2}
      BY OutputOf
    <3>2. Closes(e, o) <=> o[1] \in plan.mask /\ o[2] = 2
      BY <3>1, <1>4 DEF Closes
    <3> QED BY <3>1, <3>2, <1>2, <1>7 DEF ToBePlanned
  <2>3. e.do # "start"
    BY <1>4
  <2> QED BY <2>1, <2>2, <2>3, <1>0, <1>2, <1>3, <1>4, <1>5, ClosingPlanned
<1> QED BY <1>5, <1>6, <1>7, <1>8 DEF FuelInv

\* The head of the list and the outputs that a closing is for.
LEMMA HeadCloses ==
  ASSUME Due, NEW o \in Outputs
  PROVE  /\ pending[1].do \in {"end", "primeEnd"} =>
              (o \in pending[1].mask \X {1} <=> Closes(pending[1], o))
         /\ pending[1].do = "endStage2" =>
              (o \in pending[1].mask \X {2} <=> Closes(pending[1], o))
<1>1. o[2] \in {1, 2}
  BY OutputOf
<1>2. o \in pending[1].mask \X {1} <=> o[1] \in pending[1].mask /\ o[2] = 1
  BY DEF Outputs
<1>3. o \in pending[1].mask \X {2} <=> o[1] \in pending[1].mask /\ o[2] = 2
  BY DEF Outputs
<1> QED BY <1>1, <1>2, <1>3 DEF Closes

\* What every callback keeps.
LEMMA CallbackKeeps ==
  ASSUME FuelInv, UNCHANGED handlerVars
  PROVE  /\ PlanInv'
         /\ UNCHANGED <<pc, plan>>
         /\ CountType
  BY DEF FuelInv, PlanInv, handlerVars, CountType, ListInv, PinType

\* A callback that closes, and plans nothing.
LEMMA ClosingInv ==
  ASSUME FuelInv, Due, pending[1].do # "start", NEW outs, Close(outs),
         \A o \in Outputs : o \in outs <=> Closes(pending[1], o),
         pending' = Tail(pending), UNCHANGED handlerVars, EngineType'
  PROVE  FuelInv'
<1>0. EngineType /\ PlanInv /\ ListInv /\ PinType /\ CountInv
  BY DEF FuelInv
<1>1. PlanInv' /\ UNCHANGED <<pc, plan>> /\ CountType
  BY CallbackKeeps
<1>2. ListInv'
  BY <1>0, RunList
<1>3. PinType'
  BY <1>0, ClosePins
<1>4. PulseAdded(Tail(pending), pending')
  <2>1. Tail(pending) \in Seq(Event)
    BY <1>0, HeadSound
  <2> QED BY <2>1, NoPulseAdded
<1>5. CountInv'
  BY <1>0, <1>1, <1>4, ClosingRuns
<1> QED BY <1>1, <1>2, <1>3, <1>5 DEF FuelInv

LEMMA StartInjectionInv == FuelInv /\ StartInjection => FuelInv'
<1> SUFFICES ASSUME FuelInv, StartInjection PROVE FuelInv'
  OBVIOUS
<1>0. EngineType /\ PlanInv /\ ListInv /\ PinType /\ CountInv
  BY DEF FuelInv
<1>1. /\ Due /\ pending[1].do = "start" /\ pending' = Tail(pending)
      /\ Open(pending[1].mask \X (IF pending[1].stage2Active THEN {1, 2} ELSE {1}))
      /\ UNCHANGED <<engineVars, scheduleVars, handlerVars>>
  BY DEF StartInjection, RunHead
<1>2. PlanInv' /\ UNCHANGED <<pc, plan>> /\ CountType
  BY <1>1, CallbackKeeps
<1>3. EngineType'
  BY <1>0, <1>1 DEF EngineType, engineVars, scheduleVars
<1>4. ListInv'
  BY <1>0, <1>1, RunList
<1>5. PinType'
  BY <1>0, <1>1, OpenPins
<1>6. CountInv'
  BY <1>0, <1>1, <1>2, OpeningRuns
<1> QED BY <1>2, <1>3, <1>4, <1>5, <1>6 DEF FuelInv

LEMMA EndInjectionInv == FuelInv /\ EndInjection => FuelInv'
<1> SUFFICES ASSUME FuelInv, EndInjection PROVE FuelInv'
  OBVIOUS
<1>1. /\ Due /\ pending[1].do = "end" /\ pending' = Tail(pending)
      /\ Close(pending[1].mask \X {1}) /\ Update(pending[1].index)
      /\ UNCHANGED <<engineVars, handlerVars>>
  BY DEF EndInjection, RunHead, MaskOf, PrepareNext
<1>2. pending[1].index \in cylinders
  BY <1>1, HeadSound DEF FuelInv, Sound
<1>3. EngineType'
  BY <1>1, <1>2, UpdateType DEF FuelInv, engineVars
<1>4. \A o \in Outputs : o \in pending[1].mask \X {1} <=> Closes(pending[1], o)
  BY <1>1, HeadCloses
<1>5. pending[1].do # "start"
  BY <1>1
<1> QED BY <1>1, <1>3, <1>4, <1>5, ClosingInv

LEMMA EndInjectionStage2Inv == FuelInv /\ EndInjectionStage2 => FuelInv'
<1> SUFFICES ASSUME FuelInv, EndInjectionStage2 PROVE FuelInv'
  OBVIOUS
<1>1. /\ Due /\ pending[1].do = "endStage2" /\ pending' = Tail(pending)
      /\ Close(pending[1].mask \X {2})
      /\ UNCHANGED <<engineVars, scheduleVars, handlerVars>>
  BY DEF EndInjectionStage2, RunHead
<1>2. EngineType'
  BY <1>1 DEF FuelInv, EngineType, engineVars, scheduleVars
<1>3. \A o \in Outputs : o \in pending[1].mask \X {2} <=> Closes(pending[1], o)
  BY <1>1, HeadCloses
<1>4. pending[1].do # "start"
  BY <1>1
<1> QED BY <1>1, <1>2, <1>3, <1>4, ClosingInv

LEMMA OnPrimeEndInv == FuelInv /\ OnPrimeEnd => FuelInv'
<1> SUFFICES ASSUME FuelInv, OnPrimeEnd PROVE FuelInv'
  OBVIOUS
<1>1. /\ Due /\ pending[1].do = "primeEnd" /\ pending' = Tail(pending)
      /\ Close(pending[1].mask \X {1})
      /\ UNCHANGED <<engineVars, scheduleVars, handlerVars>>
  BY DEF OnPrimeEnd, RunHead
<1>2. EngineType'
  BY <1>1 DEF FuelInv, EngineType, engineVars, scheduleVars
<1>3. \A o \in Outputs : o \in pending[1].mask \X {1} <=> Closes(pending[1], o)
  BY <1>1, HeadCloses
<1>4. pending[1].do # "start"
  BY <1>1
<1> QED BY <1>1, <1>2, <1>3, <1>4, ClosingInv

\* The first pulse of a split injection ends, and the second one is planned.
LEMMA EndInjectionSplitInv == FuelInv /\ EndInjectionSplit => FuelInv'
<1> SUFFICES ASSUME FuelInv, EndInjectionSplit PROVE FuelInv'
  OBVIOUS
<1>0. EngineType /\ PlanInv /\ ListInv /\ PinType /\ CountInv
  BY DEF FuelInv
<1>1. PICK a : a = [pending[1] EXCEPT !.in = SplitDelay, !.split = 0, !.do = "start"]
  OBVIOUS
<1>2. PICK z : z = [a EXCEPT !.in = SplitDelay + pending[1].split, !.do = "end"]
  OBVIOUS
<1>3. PICK q : q = Tail(pending)
  OBVIOUS
<1>4. /\ Due /\ pending[1].do = "end" /\ pending[1].split > 0
      /\ Close(pending[1].mask \X {1})
      /\ pending' = Insert(Insert(q, a), z)
      /\ UNCHANGED <<engineVars, scheduleVars, handlerVars>>
  BY <1>1, <1>2, <1>3 DEF EndInjectionSplit, RunHead, MaskOf
<1>5. /\ pending[1] \in Event /\ Sound(pending[1]) /\ q \in Seq(Event) /\ Sorted(q)
      /\ \A i \in 1 .. Len(q) : Sound(q[i])
  BY <1>0, <1>3, <1>4, HeadSound
<1>6. /\ SplitDelay \in Nat /\ pending[1].split \in Nat /\ pending[1].mask \in SUBSET cylinders
      /\ pending[1].index \in 0 .. cylindersCount /\ pending[1].stage2Active \in BOOLEAN
  BY <1>5, EventType, FuelAssumption
<1>7. /\ a \in Event /\ a.do = "start" /\ a.in = SplitDelay /\ a.split = 0
      /\ a.mask = pending[1].mask /\ a.index = pending[1].index
      /\ a.stage2Active = pending[1].stage2Active
  <2>1. PICK e \in Event : e = pending[1]
    BY <1>5
  <2>2. a = [e EXCEPT !.in = SplitDelay, !.split = 0, !.do = "start"]
    BY <2>1, <1>1
  <2>3. a \in Event
    BY <2>2, <1>6 DEF Event
  <2> QED BY <2>1, <2>2, <2>3, <1>6 DEF Event
<1>8. /\ z \in Event /\ z.do = "end" /\ z.in = SplitDelay + pending[1].split /\ z.split = 0
      /\ z.mask = a.mask /\ z.index = a.index
  <2>1. PICK e \in Event : e = a
    BY <1>7
  <2>2. SplitDelay + pending[1].split \in Nat
    BY <1>6
  <2>3. z = [e EXCEPT !.in = SplitDelay + pending[1].split, !.do = "end"]
    BY <2>1, <1>2
  <2>4. z \in Event
    BY <2>2, <2>3 DEF Event
  <2>5. z.do = "end" /\ z.in = SplitDelay + pending[1].split /\ z.split = e.split
        /\ z.mask = e.mask /\ z.index = e.index
    BY <2>3 DEF Event
  <2> QED BY <2>1, <2>4, <2>5, <1>7
<1>9. ~pending[1].stage2Active /\ pending[1].index \in cylinders
  BY <1>4, <1>5 DEF Sound
<1>10. Sound(a) /\ Sound(z)
  BY <1>7, <1>8, <1>9 DEF Sound
<1>11. ListInv'
  <2>1. PICK r : r = Insert(q, a)
    OBVIOUS
  <2>2. r \in Seq(Event) /\ Sorted(r)
    <3>1. q \in Seq(Event) /\ Sorted(q) /\ a \in Event
      BY <1>5, <1>7
    <3>2. Insert(q, a) \in Seq(Event) /\ Sorted(Insert(q, a))
      BY <3>1, InsertEffect
    <3> QED BY <3>2, <2>1
  <2>3. \A i \in 1 .. Len(r) : r[i] = a \/ \E j \in 1 .. Len(q) : r[i] = q[j]
    <3>1. q \in Seq(Event) /\ Sorted(q) /\ a \in Event
      BY <1>5, <1>7
    <3>2. \A i \in 1 .. Len(Insert(q, a)) :
            Insert(q, a)[i] = a \/ \E j \in 1 .. Len(q) : Insert(q, a)[i] = q[j]
      BY <3>1, InsertEffect
    <3> QED BY <3>2, <2>1
  <2>4. \A i \in 1 .. Len(r) : Sound(r[i])
    BY <2>3, <1>5, <1>10
  <2>5. Insert(r, z) \in Seq(Event) /\ Sorted(Insert(r, z))
    BY <2>2, <1>8, InsertEffect, Zenon
  <2>6. \A i \in 1 .. Len(Insert(r, z)) :
          Insert(r, z)[i] = z \/ \E j \in 1 .. Len(r) : Insert(r, z)[i] = r[j]
    BY <2>2, <1>8, InsertEffect, Zenon
  <2>7. \A i \in 1 .. Len(Insert(r, z)) : Sound(Insert(r, z)[i])
    BY <2>4, <2>6, <1>10
  <2> QED BY <2>1, <2>5, <2>7, <1>4 DEF ListInv
<1>12. PulseAdded(q, pending')
  <2>1. ASSUME NEW o \in Outputs PROVE Opens(a, o) <=> Closes(z, o)
    <3>1. o[2] \in {1, 2}
      BY OutputOf
    <3> QED BY <3>1, <1>7, <1>8, <1>9 DEF Opens, Closes
  <2>2. a.in < z.in /\ z.do # "start"
    BY <1>4, <1>6, <1>7, <1>8
  <2> QED BY <2>1, <2>2, <1>4, <1>5, <1>7, <1>8, SecondPulseAdded
<1>13. \A o \in Outputs : o \in pending[1].mask \X {1} <=> Closes(pending[1], o)
  BY <1>4, HeadCloses
<1>14. PlanInv' /\ UNCHANGED <<pc, plan>> /\ CountType
  BY <1>4, CallbackKeeps
<1>15. CountInv'
  <2>1. pending[1].do # "start" /\ PulseAdded(Tail(pending), pending')
    BY <1>3, <1>4, <1>12
  <2> QED BY <2>1, <1>0, <1>4, <1>13, <1>14, ClosingRuns
<1>16. EngineType' /\ PinType'
  <2>1. EngineType'
    BY <1>0, <1>4 DEF EngineType, engineVars, scheduleVars
  <2>2. PinType'
    BY <1>0, <1>4, ClosePins
  <2> QED BY <2>1, <2>2
<1> QED BY <1>11, <1>14, <1>15, <1>16 DEF FuelInv

LEMMA OnPrimeStartInv == FuelInv /\ OnPrimeStart => FuelInv'
<1> SUFFICES ASSUME FuelInv, OnPrimeStart PROVE FuelInv'
  OBVIOUS
<1>0. EngineType /\ PlanInv /\ ListInv /\ PinType /\ CountInv
  BY DEF FuelInv
<1>1. PICK e : e = [in |-> PrimeDuration, do |-> "primeEnd", mask |-> cylinders,
                    index |-> cylindersCount, split |-> 0, stage2Active |-> FALSE]
  OBVIOUS
<1>2. /\ PrimeDuration > 0 /\ Open(cylinders \X {1}) /\ pending' = Insert(pending, e)
      /\ UNCHANGED <<engineVars, scheduleVars, handlerVars>>
  BY <1>1 DEF OnPrimeStart
<1>3. /\ e \in Event /\ e.do = "primeEnd" /\ e.in > 0 /\ e.mask = cylinders
      /\ e.split = 0
  BY <1>1, <1>2, FuelAssumption DEF Event
<1>4. Sound(e)
  BY <1>3 DEF Sound
<1>5. PlanInv' /\ UNCHANGED <<pc, plan>> /\ CountType
  BY <1>2, CallbackKeeps
<1>6. EngineType'
  BY <1>0, <1>2 DEF EngineType, engineVars, scheduleVars
<1>7. ListInv'
  BY <1>0, <1>2, <1>3, <1>4, PlannedList
<1>8. PinType'
  BY <1>0, <1>2, OpenPins
<1>9. CountInv'
  BY <1>0, <1>2, <1>3, <1>5, PrimingCounts
<1> QED BY <1>5, <1>6, <1>7, <1>8, <1>9 DEF FuelInv

LEMMA TickInv == FuelInv /\ Tick => FuelInv'
<1> SUFFICES ASSUME FuelInv, Tick PROVE FuelInv'
  OBVIOUS
<1>0. EngineType /\ PlanInv /\ ListInv /\ PinType /\ CountInv
  BY DEF FuelInv
<1>1. /\ pc = "idle" /\ ~Due /\ pending' = Nearer(pending)
      /\ UNCHANGED <<tooth, mode, scheduleVars, handlerVars, pinVars>>
  BY DEF Tick, Nearer
<1>2. PlanInv' /\ UNCHANGED <<pc, plan>> /\ CountType
  BY <1>1, CallbackKeeps
<1>3. EngineType' /\ PinType' /\ overlap' = overlap
  BY <1>0, <1>1 DEF EngineType, PinType, scheduleVars, pinVars
<1>4. ListInv'
  BY <1>0, <1>1, TickList
<1>5. CountInv'
  BY <1>0, <1>1, <1>2, <1>3, TickCounts
<1> QED BY <1>2, <1>3, <1>4, <1>5 DEF FuelInv

\* The other actions leave the list, the counters and the plan alone.
LEMMA QuietInv ==
  ASSUME FuelInv, UNCHANGED <<pending, overlap, plan>>,
         pc \notin {"close", "close2"}, pc' \in {"idle", "fuel"},
         EngineType', cylinder' \in cylinders, level' \in [Outputs -> BOOLEAN]
  PROVE  FuelInv'
<1>1. ListInv' /\ PinType'
  BY DEF FuelInv, ListInv, PinType
<1>2. PlanInv'
  BY DEF FuelInv, PlanInv
<1>3. CountInv'
  BY SameCounts DEF FuelInv
<1> QED BY <1>1, <1>2, <1>3 DEF FuelInv

LEMMA OnToothInv ==
  ASSUME FuelInv, NEW allowInjection \in BOOLEAN, OnTooth(allowInjection)
  PROVE  FuelInv'
<1>1. tooth' \in 0 .. (Cycle \div ToothWidth) - 1
  <2>1. Cycle \in Nat \ {0} /\ ToothWidth \in Nat \ {0}
    BY FuelAssumption, CycleAssumption
  <2>2. PICK n \in Int : n = Cycle \div ToothWidth
    BY <2>1
  <2>3. tooth \in 0 .. n - 1 /\ tooth' = (tooth + 1) % n
    BY <2>2 DEF OnTooth, FuelInv, EngineType
  <2>4. n > 0
    BY <2>3
  <2> QED BY <2>2, <2>3, <2>4
<1>2. EngineType'
  BY <1>1 DEF FuelInv, EngineType, OnTooth, scheduleVars
<1>3. 0 \in cylinders
  BY FuelAssumption DEF cylinders
<1>4. level' \in [Outputs -> BOOLEAN]
  BY DEF FuelInv, PinType, OnTooth, pinVars
<1>5. /\ UNCHANGED <<pending, overlap, plan>> /\ pc = "idle" /\ pc' \in {"idle", "fuel"}
      /\ cylinder' = 0
  BY DEF OnTooth, pinVars
<1> QED BY <1>2, <1>3, <1>4, <1>5, QuietInv

LEMMA AddFuelEventsInv == FuelInv /\ AddFuelEvents => FuelInv'
<1> SUFFICES ASSUME FuelInv, AddFuelEvents PROVE FuelInv'
  OBVIOUS
<1>0. EngineType
  BY DEF FuelInv
<1>1. PICK offset \in Offsets, lock \in MayLock :
        elements' = [i \in cylinders |-> Updated(i, offset, lock)]
  BY DEF AddFuelEvents
<1>2. elements' \in [cylinders -> [angle : 0 .. Cycle - 1, mode : InjectionModes]]
  BY <1>0, <1>1, UpdatedType
<1>3. EngineType'
  BY <1>0, <1>2 DEF EngineType, AddFuelEvents, engineVars
<1>4. /\ UNCHANGED <<pending, overlap, plan>> /\ pc = "fuel" /\ pc' = "fuel"
      /\ cylinder' \in cylinders /\ level' \in [Outputs -> BOOLEAN]
  BY DEF AddFuelEvents, FuelInv, PlanInv, PinType, pinVars, handlerVars
<1> QED BY <1>3, <1>4, QuietInv

LEMMA SkipCylinderInv == FuelInv /\ SkipCylinder => FuelInv'
<1> SUFFICES ASSUME FuelInv, SkipCylinder PROVE FuelInv'
  OBVIOUS
<1>1. cylinder' \in cylinders /\ pc' \in {"fuel", "idle"}
  BY NextCylinderType DEF FuelInv, SkipCylinder
<1>2. EngineType'
  BY DEF FuelInv, EngineType, SkipCylinder, engineVars, scheduleVars
<1>3. /\ UNCHANGED <<pending, overlap, plan>> /\ pc = "fuel" /\ level' \in [Outputs -> BOOLEAN]
  BY DEF FuelInv, SkipCylinder, PinType, pinVars
<1> QED BY <1>1, <1>2, <1>3, QuietInv

LEMMA SlowInv ==
  FuelInv /\ (NewMode \/ TriggerLost \/ SynchronizationLost \/ Invalidate \/ EfiWatchdog \/ Restart)
    => FuelInv'
<1> SUFFICES ASSUME FuelInv,
                    \/ NewMode \/ TriggerLost \/ SynchronizationLost \/ Invalidate
                    \/ EfiWatchdog \/ Restart
             PROVE  FuelInv'
  OBVIOUS
<1>1. /\ UNCHANGED <<pending, overlap, plan, tooth, elements, cylinder, pc>> /\ pc = "idle"
      /\ mode' \in Mode \cup {mode}
      /\ level' = level \/ level' = [o \in Outputs |-> FALSE]
  BY DEF NewMode, TriggerLost, SynchronizationLost, Invalidate, EfiWatchdog, Restart,
         handlerVars, pinVars, scheduleVars, engineVars
<1>2. EngineType'
  BY <1>1, FuelAssumption DEF FuelInv, EngineType, InjectionModes
<1>3. level' \in [Outputs -> BOOLEAN] /\ cylinder' \in cylinders
  BY <1>1 DEF FuelInv, PinType, PlanInv
<1> QED BY <1>1, <1>2, <1>3, QuietInv

LEMMA StepInv == FuelInv /\ [Next]_vars => FuelInv'
<1> SUFFICES ASSUME FuelInv, [Next]_vars PROVE FuelInv'
  OBVIOUS
<1>1. CASE \E allowInjection \in BOOLEAN : OnTooth(allowInjection)
  BY <1>1, OnToothInv
<1>2. CASE AddFuelEvents
  BY <1>2, AddFuelEventsInv
<1>3. CASE SkipCylinder
  BY <1>3, SkipCylinderInv
<1>4. CASE Plan
  BY <1>4, PlanOpenInv DEF Plan
<1>5. CASE PlanClose
  BY <1>5, PlanCloseInv
<1>6. CASE PlanCloseStage2
  BY <1>6, PlanCloseStage2Inv
<1>7. CASE Callback
  BY <1>7, StartInjectionInv, EndInjectionSplitInv, EndInjectionInv, EndInjectionStage2Inv,
     OnPrimeEndInv DEF Callback
<1>8. CASE OnPrimeStart
  BY <1>8, OnPrimeStartInv
<1>9. CASE Tick
  BY <1>9, TickInv
<1>10. CASE NewMode \/ TriggerLost \/ SynchronizationLost \/ Invalidate \/ EfiWatchdog \/ Restart
  BY <1>10, SlowInv
<1>11. CASE UNCHANGED vars
  <2>1. UNCHANGED <<tooth, mode, elements, pc, cylinder, plan, pending, overlap, level>>
    BY <1>11 DEF vars, engineVars, scheduleVars, handlerVars, pinVars
  <2>2. EngineType' /\ PlanInv' /\ ListInv' /\ PinType'
    BY <2>1 DEF FuelInv, EngineType, PlanInv, ListInv, PinType
  <2>3. CountInv'
    <3>1. \A o : ToBePlanned(o)' = ToBePlanned(o)
      BY <2>1 DEF ToBePlanned
    <3> QED BY <2>1, <3>1 DEF FuelInv, CountInv, Exact, EnoughOpen, PlannedBy
  <2> QED BY <2>2, <2>3 DEF FuelInv
<1> QED BY <1>1, <1>2, <1>3, <1>4, <1>5, <1>6, <1>7, <1>8, <1>9, <1>10, <1>11 DEF Next

-----------------------------------------------------------------------------
(***************************************************************************)
(* The inductive invariant.                                                *)
(***************************************************************************)
THEOREM FuelInvariant == Spec => []FuelInv
<1>1. Init => FuelInv
  BY InitInv
<1>2. FuelInv /\ [Next]_vars => FuelInv'
  BY StepInv
<1> QED BY <1>1, <1>2, PTL DEF Spec

(***************************************************************************)
(* The overlap counter of InjectorOutputPin is exact for every output, on  *)
(* any engine and with any durations: no closing is lost at a counter of   *)
(* zero, and every opening has its closing.                                *)
(***************************************************************************)
THEOREM OverlapIsExact == Spec => []OverlapCountExact
<1>1. FuelInv => OverlapCountExact
  <2> SUFFICES ASSUME FuelInv, NEW o \in Outputs
               PROVE  overlap[o] + Count(Opens, o) = Count(Closes, o) + ToBePlanned(o)
    BY DEF OverlapCountExact
  <2>1. /\ DOMAIN pending = 1 .. Len(pending)
        /\ \A i \in 1 .. Len(pending) : pending[i] \in Event
    BY ListType DEF FuelInv, ListInv
  <2>2. {k \in DOMAIN pending : Opens(pending[k], o)}
          = {k \in DOMAIN pending : pending[k] \in OpensOf(o)}
    BY <2>1 DEF OpensOf
  <2>3. {k \in DOMAIN pending : Closes(pending[k], o)}
          = {k \in DOMAIN pending : pending[k] \in ClosesOf(o)}
    BY <2>1 DEF ClosesOf
  <2>4. Count(Opens, o) = Number(pending, OpensOf(o))
        /\ Count(Closes, o) = Number(pending, ClosesOf(o))
    BY <2>2, <2>3 DEF Count, Number
  <2> QED BY <2>4 DEF FuelInv, CountInv, Exact
<1> QED BY <1>1, FuelInvariant, PTL

\* The actions that touch the outputs.
PinStep ==
  \/ \E outs : Open(outs)
  \/ \E outs : Close(outs)
  \/ UNCHANGED pinVars
  \/ toothIn = Off /\ overlap' = overlap /\ level' = [o \in Outputs |-> FALSE]

LEMMA PinSteps == [Next]_vars => PinStep
<1> SUFFICES ASSUME [Next]_vars PROVE PinStep
  OBVIOUS
<1>1. CASE \E allowInjection \in BOOLEAN : OnTooth(allowInjection)
  BY <1>1 DEF OnTooth, PinStep
<1>2. CASE AddFuelEvents \/ SkipCylinder \/ PlanClose \/ PlanCloseStage2
  BY <1>2 DEF AddFuelEvents, SkipCylinder, PlanClose, PlanCloseStage2, PinStep
<1>3. CASE Plan
  BY <1>3 DEF Plan, PlanOpen, PinStep
<1>4. CASE Callback
  BY <1>4 DEF Callback, StartInjection, EndInjectionSplit, EndInjection, EndInjectionStage2,
              OnPrimeEnd, PinStep
<1>5. CASE OnPrimeStart
  BY <1>5 DEF OnPrimeStart, PinStep
<1>6. CASE Tick \/ NewMode \/ TriggerLost \/ SynchronizationLost \/ Invalidate \/ Restart
  BY <1>6 DEF Tick, NewMode, TriggerLost, SynchronizationLost, Invalidate, Restart, PinStep
<1>7. CASE EfiWatchdog
  BY <1>7 DEF EfiWatchdog, PinStep
<1>8. CASE UNCHANGED vars
  BY <1>8 DEF vars, PinStep
<1> QED BY <1>1, <1>2, <1>3, <1>4, <1>5, <1>6, <1>7, <1>8 DEF Next

(***************************************************************************)
(* An output that is on is counted, so that with OverlapIsExact its        *)
(* closing is planned: no injector stays open.                             *)
(***************************************************************************)
THEOREM LevelIsCounted == Spec => []LevelFollowsCount
<1>1. Init => LevelFollowsCount
  BY DEF Init, LevelFollowsCount
<1>2. FuelInv /\ LevelFollowsCount /\ [Next]_vars => LevelFollowsCount'
  <2> SUFFICES ASSUME PinType, LevelFollowsCount, PinStep PROVE LevelFollowsCount'
    BY PinSteps DEF FuelInv
  <2>1. CASE \E outs : Open(outs)
    BY <2>1, OpenPins
  <2>2. CASE \E outs : Close(outs)
    BY <2>2, ClosePins
  <2>3. CASE UNCHANGED pinVars
    BY <2>3 DEF LevelFollowsCount, pinVars
  <2>4. CASE level' = [o \in Outputs |-> FALSE]
    BY <2>4 DEF LevelFollowsCount
  <2> QED BY <2>1, <2>2, <2>3, <2>4 DEF PinStep
<1> QED BY <1>1, <1>2, FuelInvariant, PTL DEF Spec

(***************************************************************************)
(* A pulse that overlaps another never ends it: close() turns the output   *)
(* off only when the counter reaches zero, stopPins() only without teeth.  *)
(***************************************************************************)
THEOREM LastPulseTurnsOff == Spec => OffWithLastPulse
<1>1. FuelInv /\ [Next]_vars =>
        [\A o \in Outputs : level[o] /\ ~level'[o] => overlap'[o] = 0 \/ toothIn = Off]_vars
  <2> SUFFICES ASSUME PinType, PinStep, NEW o \in Outputs, level[o], ~level'[o]
               PROVE  overlap'[o] = 0 \/ toothIn = Off
    BY PinSteps DEF FuelInv
  <2>0. overlap[o] \in Nat
    BY DEF PinType
  <2>1. CASE \E outs : Open(outs)
    BY <2>1 DEF Open
  <2>2. CASE \E outs : Close(outs)
    BY <2>0, <2>2 DEF Close
  <2>3. CASE UNCHANGED pinVars
    BY <2>3 DEF pinVars
  <2> QED BY <2>1, <2>2, <2>3 DEF PinStep
<1> QED BY <1>1, FuelInvariant, PTL DEF Spec, OffWithLastPulse

===============================================================================
