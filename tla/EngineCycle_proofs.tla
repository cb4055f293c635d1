-------------------------- MODULE EngineCycle_proofs --------------------------
(***************************************************************************)
(* Where the engine is, and ignition on top of it.                         *)
(*                                                                         *)
(* Proofs about EnginePhase, for any wheel: any number of edges at any     *)
(* angles, on crank or cam, decoded on rising or on both edges, with any   *)
(* synchronisation point, and any position of top dead centre.             *)
(*                                                                         *)
(* All of it rests on one fact about prepareEventAngles(): the angles that *)
(* the slots hold, counted from the synchronisation point, ascend from     *)
(* zero (AnglesAscend, RotatedAscend), and with rising edges only each     *)
(* rising edge fills its own slot and the one behind it (RiseOnlyIs, by    *)
(* induction over the loop).  WheelInv is what PhaseInit says of the wheel,*)
(* and that the index is one at which a tooth is decoded.                  *)
(*                                                                         *)
(* Proofs about SparkLogic, for any teeth, timing and dwell tables that    *)
(* PlainIgnition admits.  PlannedInv says by whom the spark's timer was    *)
(* set: by the angle of this tooth, as overdwell protection, or again      *)
(* because of too little dwell.  In each case it runs out before the tooth *)
(* of the next start of charge comes, so no charge ever meets an old timer.*)
(* A schedule rebuilt with a charge or a spark pending breaks all of it;   *)
(* IgnInv adds that the types survive that, and that the first tooth which *)
(* finds the coil and its timers at rest begins PlannedInv anew.           *)
(***************************************************************************)
EXTENDS EnginePhase, SparkLogic, SequenceTheorems, FunctionTheorems, FiniteSetTheorems, TLAPS

\* Division and remainder near zero.
LEMMA DivMod ==
  ASSUME NEW n \in Nat \ {0}, NEW i \in Int
  PROVE  /\ 0 <= i /\ i < n => i \div n = 0 /\ i % n = i
         /\ n <= i /\ i < 2 * n => i \div n = 1 /\ i % n = i - n
         /\ -n <= i /\ i < 0 => i % n = i + n
         /\ i % n \in 0 .. n - 1
  OBVIOUS

\* The same in the form in which it is used.
LEMMA ModSmall ==
  ASSUME NEW n \in Nat \ {0}, NEW i \in 0 .. n - 1
  PROVE  i % n = i
  BY DivMod

\* One turn too far.
LEMMA ModOver ==
  ASSUME NEW n \in Nat \ {0}, NEW i \in Int, n <= i, i < 2 * n
  PROVE  i % n = i - n
  BY DivMod

\* Quotient and remainder.
LEMMA DivRem ==
  ASSUME NEW n \in Nat \ {0}, NEW i \in Int
  PROVE  i \div n \in Int /\ i = n * (i \div n) + (i % n)
  OBVIOUS

\* Products grow with their factors.
LEMMA TimesGrows ==
  ASSUME NEW i \in Int, NEW j \in Int, NEW n \in Nat, i <= j
  PROVE  i * n <= j * n
<1>1. (j - i) * n >= 0
  OBVIOUS
<1>2. (j - i) * n = j * n - i * n
  OBVIOUS
<1> QED
  BY <1>1, <1>2

\* wrapAngle() of an angle that is off by at most one cycle.
LEMMA WrapIs ==
  ASSUME NEW a \in Int
  PROVE  /\ 0 <= a /\ a < Cycle => wrapAngle(a) = a
         /\ -Cycle <= a /\ a < 0 => wrapAngle(a) = a + Cycle
         /\ Cycle <= a /\ a < 2 * Cycle => wrapAngle(a) = a - Cycle
         /\ wrapAngle(a) \in 0 .. Cycle - 1
  BY CycleAssumption, DivMod DEF wrapAngle

\* What stays as PhaseInit makes it, and the index of a tooth.
WheelInv ==
  /\ switchAngle \in [1 .. getSize -> 1 .. Cycle]
  /\ getSize \in Nat /\ getSize >= 2 /\ getSize % 2 = 0
  /\ \A i, j \in 1 .. getSize : i < j => switchAngle[i] < switchAngle[j]
  /\ multiplier \in {1, 2}
  /\ switchAngle[getSize] <= getCycleDuration
  /\ useOnlyRisingEdges \in BOOLEAN
  /\ useOnlyRisingEdges => getLength > 2 /\ synchPoint % 2 = 0
  /\ synchPoint \in 0 .. getSize - 1
  /\ tdcPosition \in 0 .. Cycle - 1
  /\ index \in ToothIndex

\* The wheel turns once or twice in an engine cycle.
LEMMA Lengths ==
  ASSUME WheelInv
  PROVE  /\ getLength \in Nat \ {0} /\ getLength >= 2 /\ getLength % 2 = 0
         /\ getLength = getSize \/ getLength = 2 * getSize
         /\ getCycleDuration \in Nat
         /\ getLength = 2 * getSize => 2 * getCycleDuration = Cycle
         /\ getLength = getSize => getCycleDuration = Cycle
<1>1. getSize \in Nat /\ getSize >= 2 /\ getSize % 2 = 0 /\ multiplier \in {1, 2}
  BY DEF WheelInv
<1>2. Cycle \in Nat \ {0} /\ Cycle % 2 = 0
  BY CycleAssumption, PhaseAssumption
<1>3. getLength = multiplier * getSize /\ getCycleDuration = Cycle \div multiplier
  BY DEF getLength, getCycleDuration
<1>4. CASE multiplier = 1
  BY <1>1, <1>2, <1>3, <1>4
<1>5. CASE multiplier = 2
  BY <1>1, <1>2, <1>3, <1>5
<1> QED
  BY <1>1, <1>4, <1>5

\* getAngle() ascends over the engine cycle.
LEMMA AnglesAscend ==
  ASSUME WheelInv
  PROVE  /\ \A i \in 0 .. getLength - 1 : getAngle(i) \in 1 .. Cycle
         /\ \A i, j \in 0 .. getLength - 1 : i < j => getAngle(i) < getAngle(j)
<1> DEFINE N == getSize
           D == getCycleDuration
<1>1. /\ N \in Nat \ {0} /\ N >= 2 /\ D \in Nat /\ getLength \in Nat
      /\ getLength = N \/ getLength = 2 * N
      /\ getLength = 2 * N => 2 * D = Cycle
      /\ getLength = N => D = Cycle
      /\ Cycle \in Nat \ {0}
  BY Lengths, CycleAssumption DEF WheelInv
<1>2. \A i \in 1 .. N : switchAngle[i] \in 1 .. Cycle /\ switchAngle[i] <= D
  <2>1. ASSUME NEW i \in 1 .. N PROVE switchAngle[i] \in 1 .. Cycle /\ switchAngle[i] <= D
    <3>1. /\ switchAngle[i] \in 1 .. Cycle /\ switchAngle[N] \in 1 .. Cycle
          /\ switchAngle[N] <= D
          /\ i < N => switchAngle[i] < switchAngle[N]
      BY <1>1 DEF WheelInv
    <3> QED
      BY <1>1, <3>1
  <2> QED
    BY <2>1
<1>3. \A i \in 0 .. N - 1 : i + 1 \in 1 .. N /\ getAngle(i) = switchAngle[i + 1]
  <2>1. ASSUME NEW i \in 0 .. N - 1 PROVE i + 1 \in 1 .. N /\ getAngle(i) = switchAngle[i + 1]
    <3>1. i \div N = 0 /\ i % N = i
      BY <1>1, DivMod
    <3>2. i + 1 \in 1 .. N /\ switchAngle[i + 1] \in Int
      BY <1>1, <1>2
    <3> QED
      BY <1>1, <3>1, <3>2 DEF getAngle
  <2> QED
    BY <2>1
<1>4. \A i \in N .. 2 * N - 1 : i - N + 1 \in 1 .. N /\ getAngle(i) = D + switchAngle[i - N + 1]
  <2>1. ASSUME NEW i \in N .. 2 * N - 1
        PROVE  i - N + 1 \in 1 .. N /\ getAngle(i) = D + switchAngle[i - N + 1]
    <3>0. N \in Nat \ {0} /\ i \in Int /\ N <= i /\ i < 2 * N
      BY <1>1
    <3>1. i \div N = 1 /\ i % N = i - N
      BY <3>0, DivMod
    <3>2. i - N + 1 \in 1 .. N
      BY <1>1
    <3>3. getAngle(i) = D * (i \div N) + switchAngle[(i % N) + 1]
      BY DEF getAngle
    <3>4. getAngle(i) = D * 1 + switchAngle[i - N + 1]
      BY <3>1, <3>3
    <3>5. switchAngle[i - N + 1] \in Int
      BY <1>2, <3>2
    <3> QED
      BY <1>1, <3>2, <3>4, <3>5
  <2> QED
    BY <2>1
<1>5. ASSUME NEW i \in 0 .. getLength - 1 PROVE getAngle(i) \in 1 .. Cycle
  <2>1. CASE i < N
    BY <1>1, <1>2, <1>3, <2>1
  <2>2. CASE ~(i < N)
    <3>1. i \in N .. 2 * N - 1 /\ 2 * D = Cycle
      BY <1>1, <2>2
    <3>2. getAngle(i) = D + switchAngle[i - N + 1] /\ switchAngle[i - N + 1] \in 1 .. Cycle
          /\ switchAngle[i - N + 1] <= D
      BY <1>2, <1>4, <3>1
    <3> QED
      BY <1>1, <3>1, <3>2
  <2> QED
    BY <2>1, <2>2
<1>6. ASSUME NEW i \in 0 .. getLength - 1, NEW j \in 0 .. getLength - 1, i < j
      PROVE  getAngle(i) < getAngle(j)
  <2>1. CASE j < N
    <3>1. i + 1 \in 1 .. N /\ j + 1 \in 1 .. N /\ i + 1 < j + 1 /\ i \in 0 .. N - 1 /\ j \in 0 .. N - 1
      BY <1>1, <1>6, <2>1
    <3>2. switchAngle[i + 1] < switchAngle[j + 1]
      BY <3>1 DEF WheelInv
    <3> QED
      BY <1>3, <3>1, <3>2
  <2>2. CASE i < N /\ ~(j < N)
    <3>1. i \in 0 .. N - 1 /\ j \in N .. 2 * N - 1
      BY <1>1, <2>2
    <3>2. getAngle(i) = switchAngle[i + 1] /\ switchAngle[i + 1] <= D /\ switchAngle[i + 1] \in 1 .. Cycle
      BY <1>2, <1>3, <3>1
    <3>3. getAngle(j) = D + switchAngle[j - N + 1] /\ switchAngle[j - N + 1] \in 1 .. Cycle
      BY <1>2, <1>4, <3>1
    <3> QED
      BY <1>1, <3>2, <3>3
  <2>3. CASE ~(i < N)
    <3>1. i \in N .. 2 * N - 1 /\ j \in N .. 2 * N - 1
      BY <1>1, <1>6, <2>3
    <3>2. i - N + 1 \in 1 .. N /\ j - N + 1 \in 1 .. N /\ i - N + 1 < j - N + 1
      BY <1>1, <1>6, <3>1
    <3>3. switchAngle[i - N + 1] < switchAngle[j - N + 1]
      BY <3>2 DEF WheelInv
    <3>4. switchAngle[i - N + 1] \in Int /\ switchAngle[j - N + 1] \in Int
      BY <1>2, <3>2
    <3> QED
      BY <1>1, <1>4, <3>1, <3>3, <3>4
  <2> QED
    BY <1>1, <1>6, <2>1, <2>2, <2>3
<1> QED
  BY <1>5, <1>6

\* The angles counted from the synchronisation point ascend from zero.
LEMMA RotatedAscend ==
  ASSUME WheelInv
  PROVE  /\ Angle(0) = 0
         /\ \A k \in 0 .. getLength - 1 : Angle(k) \in 0 .. Cycle - 1
         /\ \A k, l \in 0 .. getLength - 1 : k < l => Angle(k) < Angle(l)
<1> DEFINE L == getLength
           p == synchPoint
           G(i) == getAngle(i)
<1>1. /\ L \in Nat \ {0} /\ p \in 0 .. L - 1 /\ Cycle \in Nat \ {0}
  BY Lengths, CycleAssumption DEF WheelInv
<1>2. /\ \A i \in 0 .. L - 1 : G(i) \in 1 .. Cycle
      /\ \A i, j \in 0 .. L - 1 : i < j => G(i) < G(j)
  BY AnglesAscend
<1> HIDE DEF G
<1>3. ASSUME NEW k \in 0 .. L - 1, p + k < L
      PROVE  /\ p + k \in 0 .. L - 1
             /\ Angle(k) = G(p + k) - G(p)
             /\ Angle(k) \in 0 .. Cycle - 1
  <2>1. p + k \in 0 .. L - 1 /\ p + k \in Int /\ 0 <= p + k
    BY <1>1, <1>3
  <2>2. (p + k) % L = p + k
    BY <1>1, <1>3, <2>1, DivMod
  <2>3. Angle(k) = wrapAngle(G(p + k) - G(p))
    BY <2>2 DEF Angle, Rotated, G
  <2>4. G(p + k) \in 1 .. Cycle /\ G(p) \in 1 .. Cycle /\ G(p + k) >= G(p)
    <3>1. CASE k = 0
      <4>1. p + k = p
        BY <1>1, <3>1
      <4> QED
        BY <1>1, <1>2, <4>1
    <3>2. CASE k # 0
      <4>1. p < p + k
        BY <1>1, <3>2
      <4> QED
        BY <1>1, <1>2, <2>1, <4>1
    <3> QED
      BY <3>1, <3>2
  <2>5. G(p + k) - G(p) \in Int /\ 0 <= G(p + k) - G(p) /\ G(p + k) - G(p) < Cycle
    BY <1>1, <2>4
  <2>6. Angle(k) = G(p + k) - G(p)
    BY <2>3, <2>5, WrapIs
  <2>7. Angle(k) \in 0 .. Cycle - 1
    BY <2>3, <2>5, WrapIs
  <2> QED
    BY <2>1, <2>6, <2>7
<1>4. ASSUME NEW k \in 0 .. L - 1, ~(p + k < L)
      PROVE  /\ p + k - L \in 0 .. L - 1 /\ p + k - L < p
             /\ Angle(k) = G(p + k - L) - G(p) + Cycle
             /\ Angle(k) \in 0 .. Cycle - 1
  <2>1. p + k - L \in 0 .. L - 1 /\ p + k \in Int /\ L <= p + k /\ p + k < 2 * L /\ p + k - L < p
    BY <1>1, <1>4
  <2>2. (p + k) % L = p + k - L
    <3>1. (p + k) % L = (p + k) - L
      BY <1>1, <2>1, ModOver
    <3> QED
      BY <1>1, <3>1
  <2>3. Angle(k) = wrapAngle(G(p + k - L) - G(p))
    BY <2>2 DEF Angle, Rotated, G
  <2>4. G(p + k - L) \in 1 .. Cycle /\ G(p) \in 1 .. Cycle /\ G(p + k - L) < G(p)
    BY <1>1, <1>2, <2>1
  <2>5. G(p + k - L) - G(p) \in Int /\ -Cycle <= G(p + k - L) - G(p) /\ G(p + k - L) - G(p) < 0
    BY <1>1, <2>4
  <2>6. Angle(k) = G(p + k - L) - G(p) + Cycle
    BY <2>3, <2>5, WrapIs
  <2>7. Angle(k) \in 0 .. Cycle - 1
    BY <2>3, <2>5, WrapIs
  <2> QED
    BY <2>1, <2>6, <2>7
<1>5. ASSUME NEW k \in 0 .. L - 1, NEW l \in 0 .. L - 1, k < l
      PROVE  Angle(k) < Angle(l)
  <2>1. G(p) \in 1 .. Cycle
    BY <1>1, <1>2
  <2>2. CASE p + l < L
    <3>1. p + k < L /\ p + k < p + l
      BY <1>1, <1>5, <2>2
    <3>2. Angle(k) = G(p + k) - G(p) /\ Angle(l) = G(p + l) - G(p)
          /\ p + k \in 0 .. L - 1 /\ p + l \in 0 .. L - 1
      BY <1>3, <2>2, <3>1
    <3>3. G(p + k) < G(p + l) /\ G(p + k) \in 1 .. Cycle /\ G(p + l) \in 1 .. Cycle
      BY <1>2, <3>1, <3>2
    <3> QED
      BY <2>1, <3>2, <3>3
  <2>3. CASE p + k < L /\ ~(p + l < L)
    <3>1. Angle(k) = G(p + k) - G(p) /\ p + k \in 0 .. L - 1
      BY <1>3, <2>3
    <3>2. Angle(l) = G(p + l - L) - G(p) + Cycle /\ p + l - L \in 0 .. L - 1
      BY <1>4, <2>3
    <3>3. G(p + k) \in 1 .. Cycle /\ G(p + l - L) \in 1 .. Cycle
      BY <1>2, <3>1, <3>2
    <3> QED
      BY <1>1, <2>1, <3>1, <3>2, <3>3
  <2>4. CASE ~(p + k < L)
    <3>1. ~(p + l < L) /\ p + k - L < p + l - L
      BY <1>1, <1>5, <2>4
    <3>2. Angle(k) = G(p + k - L) - G(p) + Cycle /\ Angle(l) = G(p + l - L) - G(p) + Cycle
          /\ p + k - L \in 0 .. L - 1 /\ p + l - L \in 0 .. L - 1
      BY <1>4, <2>4, <3>1
    <3>3. G(p + k - L) < G(p + l - L) /\ G(p + k - L) \in 1 .. Cycle /\ G(p + l - L) \in 1 .. Cycle
      BY <1>2, <3>1, <3>2
    <3> QED
      BY <1>1, <2>1, <3>2, <3>3
  <2> QED
    BY <2>2, <2>3, <2>4
<1>6. Angle(0) = 0
  <2>1. 0 \in 0 .. L - 1 /\ p + 0 = p /\ p + 0 < L /\ G(p) \in 1 .. Cycle
    BY <1>1, <1>2
  <2>2. Angle(0) = G(p + 0) - G(p)
    BY <1>3, <2>1
  <2> QED
    BY <2>1, <2>2
<1> QED
  BY <1>3, <1>4, <1>5, <1>6

\* A set of natural numbers has a least one.
LEMMA LeastNumber ==
  ASSUME NEW S \in SUBSET Nat, S # {}
  PROVE  \E n \in S : \A m \in S : n <= m
<1>1. PICK n \in S : \A m \in S : ~(<<m, n>> \in OpToRel(<, Nat))
  BY NatLessThanWellFounded, WFMin, Zenon
<1>2. \A m \in S : ~(m < n)
  BY <1>1 DEF OpToRel
<1> QED
  BY <1>2

\* Induction up to m, on a set of numbers.
LEMMA CountUp ==
  ASSUME NEW m \in Nat, NEW S, 0 \in S,
         \A n \in 0 .. m - 1 : n \in S => n + 1 \in S
  PROVE  \A n \in 0 .. m : n \in S
<1> DEFINE T == {n \in 0 .. m : n \notin S}
<1>1. SUFFICES ASSUME T # {} PROVE FALSE
  OBVIOUS
<1>2. T \in SUBSET Nat
  OBVIOUS
<1>3. PICK n \in T : \A k \in T : n <= k
  BY <1>1, <1>2, LeastNumber
<1>4. n # 0 /\ n - 1 \in 0 .. m - 1
  BY <1>3
<1>5. n - 1 \in S
  BY <1>3, <1>4
<1> QED
  BY <1>3, <1>4, <1>5

\* On a wheel decoded on rising edges, every second edge is one.
LEMMA RiseIsEven ==
  ASSUME WheelInv, useOnlyRisingEdges, NEW k \in 0 .. getLength - 1
  PROVE  isRiseEvent(Rotated(k)) <=> k % 2 = 0
<1> DEFINE L == getLength
           N == getSize
           p == synchPoint
<1>1. /\ L \in Nat \ {0} /\ N \in Nat \ {0} /\ p \in 0 .. N - 1
      /\ L = N \/ L = 2 * N
      /\ N % 2 = 0 /\ p % 2 = 0
  BY Lengths DEF WheelInv
<1>2. PICK h \in Nat : N = 2 * h
  <2>1. N \div 2 \in Nat /\ N = 2 * (N \div 2)
    BY <1>1
  <2> QED
    BY <2>1
<1>3. PICK q \in Nat : p = 2 * q
  <2>1. p \div 2 \in Nat /\ p = 2 * (p \div 2)
    BY <1>1
  <2> QED
    BY <2>1
<1>4. PICK m \in 0 .. L - 1 : m = Rotated(k) /\ (m = p + k \/ m = (p + k) - L)
  <2>1. p + k \in Int /\ 0 <= p + k /\ p + k < 2 * L
    BY <1>1
  <2>2. CASE p + k < L
    <3>1. (p + k) % L = p + k
      BY <1>1, <2>1, <2>2, DivMod
    <3> QED
      BY <1>1, <2>1, <2>2, <3>1 DEF Rotated
  <2>3. CASE ~(p + k < L)
    <3>1. L <= p + k /\ L \in Nat \ {0}
      BY <1>1, <2>1, <2>3
    <3>2. (p + k) % L = (p + k) - L
      BY <2>1, <3>1, ModOver
    <3> QED
      BY <1>1, <2>1, <2>3, <3>2 DEF Rotated
  <2> QED
    BY <2>2, <2>3
<1>5. PICK r \in Nat : r = m % N /\ (r = m \/ r = m - N)
  <2>1. CASE m < N
    <3>1. m % N = m
      BY <1>1, <2>1, DivMod
    <3> QED
      BY <1>1, <3>1
  <2>2. CASE ~(m < N)
    <3>1. m \in Int /\ N <= m /\ m < 2 * N
      BY <1>1, <2>2
    <3>2. m % N = m - N
      BY <1>1, <3>1, ModOver
    <3> QED
      BY <1>1, <3>1, <3>2
  <2> QED
    BY <2>1, <2>2
<1>6. isRiseEvent(Rotated(k)) <=> r % 2 = 0
  BY <1>4, <1>5 DEF isRiseEvent
<1>7. r % 2 = 0 <=> k % 2 = 0
  <2>1. L = 2 * h \/ L = 4 * h
    BY <1>1, <1>2
  <2>2. \E d \in Int : r = k + 2 * d
    <3>1. r = k + 2 * q \/ r = k + 2 * (q - h) \/ r = k + 2 * (q - 2 * h)
          \/ r = k + 2 * (q - 3 * h)
      BY <1>1, <1>2, <1>3, <1>4, <1>5, <2>1
    <3>2. q \in Int /\ q - h \in Int /\ q - 2 * h \in Int /\ q - 3 * h \in Int
      OBVIOUS
    <3> QED
      BY <3>1, <3>2
  <2>3. PICK d \in Int : r = k + 2 * d
    BY <2>2
  <2> QED
    BY <1>1, <2>3
<1> QED
  BY <1>6, <1>7

\* The slot of a rising edge is its own index: the counter never lags behind.
LEMMA RiseOnlyIs ==
  ASSUME WheelInv, useOnlyRisingEdges
  PROVE  \A k \in 0 .. getLength - 1 : riseOnlyIndex[k] = 2 * (k \div 2)
<1> DEFINE L == getLength
           Add(k) == IF isRiseEvent(Rotated(k)) THEN 2 ELSE 0
           Def(f) == [k \in 0 .. L - 1 |-> IF k = 0 THEN 0 ELSE f[k - 1] + Add(k)]
           g == [k \in 0 .. L - 1 |-> 2 * (k \div 2)]
           R == riseOnlyIndex
<1>1. L \in Nat \ {0}
  BY Lengths
<1>2. g = Def(g)
  <2>1. ASSUME NEW k \in 0 .. L - 1
        PROVE  g[k] = IF k = 0 THEN 0 ELSE g[k - 1] + Add(k)
    <3>1. CASE k = 0
      BY <1>1, <3>1
    <3>2. CASE k # 0
      <4>1. k - 1 \in 0 .. L - 1 /\ g[k - 1] = 2 * ((k - 1) \div 2) /\ g[k] = 2 * (k \div 2)
        BY <1>1, <3>2
      <4>2. Add(k) = IF k % 2 = 0 THEN 2 ELSE 0
        BY RiseIsEven
      <4>3. 2 * (k \div 2) = 2 * ((k - 1) \div 2) + (IF k % 2 = 0 THEN 2 ELSE 0)
        BY <1>1, <3>2
      <4> HIDE DEF Add, g
      <4> QED
        BY <3>2, <4>1, <4>2, <4>3
    <3> QED
      BY <3>1, <3>2
  <2> HIDE DEF Add
  <2> QED
    BY <2>1
<1> HIDE DEF Add
<1>3. R = Def(R)
  <2>1. R = CHOOSE f : f = Def(f)
    BY DEF riseOnlyIndex, Add
  <2> HIDE DEF Def, g, R
  <2> QED
    BY <2>1, <1>2
<1>4. \A k \in 0 .. L - 1 : R[k] = IF k = 0 THEN 0 ELSE R[k - 1] + Add(k)
  <2> HIDE DEF R
  <2> QED
    BY <1>3
<1>5. \A k \in 0 .. L - 1 : g[k] = IF k = 0 THEN 0 ELSE g[k - 1] + Add(k)
  <2> HIDE DEF g
  <2> QED
    BY <1>2
<1> DEFINE S == {k \in 0 .. L - 1 : R[k] = g[k]}
<1>6. \A k \in 0 .. L - 1 : k \in S
  <2> HIDE DEF g, R
  <2>1. 0 \in S
    BY <1>1, <1>4, <1>5
  <2>2. ASSUME NEW n \in 0 .. (L - 1) - 1, n \in S
        PROVE  n + 1 \in S
    <3>1. n + 1 \in 0 .. L - 1 /\ n + 1 # 0 /\ (n + 1) - 1 = n
      BY <1>1
    <3>2. R[n + 1] = R[n] + Add(n + 1)
      BY <1>4, <3>1
    <3>3. g[n + 1] = g[n] + Add(n + 1)
      BY <1>5, <3>1
    <3> QED
      BY <2>2, <3>1, <3>2, <3>3
  <2>3. L - 1 \in Nat
    BY <1>1
  <2> HIDE DEF S
  <2> QED
    BY <2>1, <2>2, <2>3, CountUp
<1> QED
  BY <1>6

\* A tooth's own slot holds its angle; the slot behind it holds it again when
\* only rising edges count.
LEMMA SlotsAre ==
  ASSUME WheelInv, NEW i \in ToothIndex
  PROVE  /\ i \in 0 .. getLength - 1
         /\ eventAngles[i] = Angle(i)
         /\ useOnlyRisingEdges => i % 2 = 0 /\ i + 1 \in 0 .. getLength - 1
                                  /\ eventAngles[i + 1] = Angle(i)
<1> DEFINE L == getLength
<1>1. L \in Nat \ {0} /\ L % 2 = 0 /\ i \in 0 .. L - 1 /\ i % Step = 0
  BY Lengths DEF ToothIndex
<1>2. \A slot \in 0 .. L - 1 : eventAngles[slot] = Angle(EdgeOfSlot(slot))
  BY DEF eventAngles
<1>3. CASE ~useOnlyRisingEdges
  BY <1>1, <1>2, <1>3 DEF EdgeOfSlot
<1>4. CASE useOnlyRisingEdges
  <2>1. i % 2 = 0
    BY <1>1, <1>4 DEF Step
  <2>2. i + 1 \in 0 .. L - 1 /\ i \div 2 = (i + 1) \div 2 /\ 2 * (i \div 2) = i
    BY <1>1, <2>1
  <2>3. ASSUME NEW slot \in 0 .. L - 1, 2 * (slot \div 2) = i
        PROVE  EdgeOfSlot(slot) = i
    <3> DEFINE P(k) == riseOnlyIndex[k] = 2 * (slot \div 2) /\ (k > 0 => isRiseEvent(Rotated(k)))
    <3>1. EdgeOfSlot(slot) = CHOOSE k \in 0 .. L - 1 : P(k)
      BY <1>4 DEF EdgeOfSlot
    <3>2. P(i)
      <4>1. riseOnlyIndex[i] = 2 * (i \div 2)
        BY <1>1, <1>4, RiseOnlyIs
      <4>2. isRiseEvent(Rotated(i))
        BY <1>1, <1>4, <2>1, RiseIsEven
      <4> QED
        BY <2>2, <2>3, <4>1, <4>2
    <3>3. ASSUME NEW k \in 0 .. L - 1, P(k) PROVE k = i
      <4>1. riseOnlyIndex[k] = 2 * (k \div 2)
        BY <1>4, RiseOnlyIs
      <4>2. k > 0 => k % 2 = 0
        BY <1>4, <3>3, RiseIsEven
      <4>3. 2 * (k \div 2) = i /\ k \in Nat
        BY <1>1, <2>3, <3>3, <4>1
      <4> QED
        BY <1>1, <2>1, <4>2, <4>3
    <3> HIDE DEF P
    <3> QED
      BY <1>1, <3>1, <3>2, <3>3
  <2>4. EdgeOfSlot(i) = i
    BY <1>1, <2>2, <2>3
  <2>5. EdgeOfSlot(i + 1) = i
    <3>1. 2 * ((i + 1) \div 2) = i
      BY <2>2
    <3> QED
      BY <2>2, <2>3, <3>1
  <2> QED
    BY <1>1, <1>2, <2>1, <2>2, <2>4, <2>5
<1> QED
  BY <1>3, <1>4

\* The tooth that comes next: the following one, or the first of the cycle.
After(i) == IF i + Step < getLength THEN i + Step ELSE 0

\* The remainder that moves the index on finds it.
LEMMA AfterIs ==
  ASSUME WheelInv, NEW i \in ToothIndex
  PROVE  /\ (i + Step) % getLength = After(i)
         /\ After(i) \in ToothIndex /\ 0 \in ToothIndex
         /\ After(i) # i /\ After(i) \in 0 .. getLength - 1
         /\ ~(i + Step < getLength) => i + Step = getLength
<1> DEFINE L == getLength
<1>1. /\ L \in Nat \ {0} /\ L >= 2 /\ L % 2 = 0 /\ i \in 0 .. L - 1 /\ i % Step = 0
      /\ useOnlyRisingEdges => L > 2
      /\ Step = IF useOnlyRisingEdges THEN 2 ELSE 1
      /\ useOnlyRisingEdges \in BOOLEAN
  BY Lengths DEF ToothIndex, Step, WheelInv
<1>2. Step \in {1, 2} /\ i + Step <= L /\ L % Step = 0 /\ Step < L
  <2>1. CASE useOnlyRisingEdges
    BY <1>1, <2>1
  <2>2. CASE ~useOnlyRisingEdges
    BY <1>1, <2>2
  <2> QED
    BY <2>1, <2>2
<1>3. CASE i + Step < L
  <2>0. i + Step \in 0 .. L - 1
    BY <1>1, <1>2, <1>3
  <2>1. (i + Step) % L = i + Step
    BY <1>1, <2>0, ModSmall
  <2>2. (i + Step) % Step = 0 /\ 0 % Step = 0
    BY <1>1, <1>2
  <2> QED
    BY <1>1, <1>2, <1>3, <2>1, <2>2 DEF After, ToothIndex
<1>4. CASE ~(i + Step < L)
  <2>1. i + Step = L /\ i # 0
    BY <1>1, <1>2, <1>4
  <2>2. L % L = 0 /\ 0 % Step = 0
    BY <1>1, <1>2
  <2> QED
    BY <1>1, <1>2, <1>4, <2>1, <2>2 DEF After, ToothIndex
<1> QED
  BY <1>3, <1>4

\* The search of handleShaftSignal() finds it.
LEMMA NextToothIs ==
  ASSUME WheelInv, NEW i \in ToothIndex
  PROVE  NextToothIndex(i) = After(i)
<1> DEFINE L == getLength
           E(s) == eventAngles[s]
           P(k) == /\ E((i + k) % L) # E(i)
                   /\ \A j \in 1 .. k - 1 : E((i + j) % L) = E(i)
<1>1. /\ L \in Nat \ {0} /\ L >= 2 /\ i \in 0 .. L - 1
      /\ useOnlyRisingEdges => L > 2
      /\ Step = IF useOnlyRisingEdges THEN 2 ELSE 1
      /\ useOnlyRisingEdges \in BOOLEAN
  BY Lengths DEF ToothIndex, Step, WheelInv
<1>2. /\ (i + Step) % L = After(i) /\ After(i) \in ToothIndex /\ After(i) # i
  BY AfterIs
<1>3. E(After(i)) = Angle(After(i)) /\ E(i) = Angle(i) /\ After(i) \in 0 .. L - 1
  BY <1>2, SlotsAre
<1>4. E(After(i)) # E(i)
  <2>1. Angle(i) \in 0 .. Cycle - 1 /\ Angle(After(i)) \in 0 .. Cycle - 1
    BY <1>1, <1>3, RotatedAscend
  <2>2. i < After(i) \/ After(i) < i
    BY <1>1, <1>2, <1>3
  <2>3. Angle(i) < Angle(After(i)) \/ Angle(After(i)) < Angle(i)
    BY <1>1, <1>3, <2>2, RotatedAscend
  <2> QED
    BY <1>3, <2>1, <2>3
<1>5. \A j \in 1 .. Step - 1 : E((i + j) % L) = E(i)
  <2>1. CASE ~useOnlyRisingEdges
    BY <1>1, <2>1
  <2>2. CASE useOnlyRisingEdges
    <3>1. i + 1 \in 0 .. L - 1 /\ E(i + 1) = E(i)
      BY <1>3, <2>2, SlotsAre
    <3>2. (i + 1) % L = i + 1
      BY <1>1, <3>1, ModSmall
    <3>3. \A j \in 1 .. Step - 1 : j = 1
      BY <1>1, <2>2
    <3> HIDE DEF E
    <3> QED
      BY <3>1, <3>2, <3>3
  <2> QED
    BY <2>1, <2>2
<1>6. P(Step) /\ Step \in 1 .. L
  BY <1>1, <1>2, <1>4, <1>5
<1>7. ASSUME NEW k \in 1 .. L, P(k) PROVE k = Step
  <2> HIDE DEF E
  <2>1. ~(k < Step)
    <3>1. SUFFICES ASSUME k < Step PROVE FALSE
      OBVIOUS
    <3>2. k \in 1 .. Step - 1
      BY <1>1, <3>1
    <3> QED
      BY <1>5, <1>7, <3>2
  <2>2. ~(Step < k)
    <3>1. SUFFICES ASSUME Step < k PROVE FALSE
      OBVIOUS
    <3>2. Step \in 1 .. k - 1
      BY <1>1, <3>1
    <3>3. E((i + Step) % L) = E(i)
      BY <1>7, <3>2
    <3> QED
      BY <1>2, <1>4, <3>3
  <2> QED
    BY <1>1, <2>1, <2>2
<1>8. NextToothIndex(i) = (i + (CHOOSE k \in 1 .. L : P(k))) % L
  BY DEF NextToothIndex
<1> HIDE DEF P
<1>9. (CHOOSE k \in 1 .. L : P(k)) = Step
  BY <1>6, <1>7
<1> QED
  BY <1>2, <1>8, <1>9

\* What handleShaftSignal() makes of a tooth.
LEMMA PhaseInfoIs ==
  ASSUME WheelInv, NEW i \in ToothIndex
  PROVE  /\ PhaseInfo(i).currentTrgPhase = Angle(i) /\ Angle(i) \in 0 .. Cycle - 1
         /\ PhaseInfo(i).nextTrgPhase = Angle(After(i)) /\ Angle(After(i)) \in 0 .. Cycle - 1
         /\ PhaseInfo(i).currentEngPhase = toEngPhase(Angle(i))
         /\ PhaseInfo(i).nextEngPhase = toEngPhase(Angle(After(i)))
         /\ eventAngles[After(i)] = Angle(After(i))
<1>1. /\ After(i) \in ToothIndex /\ After(i) \in 0 .. getLength - 1 /\ i \in 0 .. getLength - 1
      /\ eventAngles[i] = Angle(i) /\ eventAngles[After(i)] = Angle(After(i))
  BY AfterIs, SlotsAre
<1>2. Angle(i) \in 0 .. Cycle - 1 /\ Angle(After(i)) \in 0 .. Cycle - 1
  BY <1>1, RotatedAscend
<1>3. wrapAngle(Angle(After(i))) = Angle(After(i))
  BY <1>2, CycleAssumption, WrapIs
<1>4. NextToothIndex(i) = After(i)
  BY NextToothIs
<1> QED
  BY <1>1, <1>2, <1>3, <1>4 DEF PhaseInfo

-------------------------------------------------------------------------------
\* Both coordinate systems cut the circle at other places, and agree on
\* which angles lie between two others.
LEMMA RangeShift ==
  ASSUME NEW c \in 0 .. Cycle - 1, NEW n \in 0 .. Cycle - 1,
         NEW p \in 0 .. Cycle - 1, NEW t \in 0 .. Cycle - 1
  PROVE  isPhaseInRange(p, wrapAngle(c - t), wrapAngle(n - t))
           <=> isPhaseInRange(wrapAngle(p + t), c, n)
<1>0. Cycle \in Nat \ {0}
  BY CycleAssumption
<1>1. PICK ce \in Int : ce = wrapAngle(c - t) /\ ce = IF c >= t THEN c - t ELSE c - t + Cycle
  BY <1>0, WrapIs
<1>2. PICK ne \in Int : ne = wrapAngle(n - t) /\ ne = IF n >= t THEN n - t ELSE n - t + Cycle
  BY <1>0, WrapIs
<1>3. PICK q \in Int : q = wrapAngle(p + t) /\ q = IF p + t < Cycle THEN p + t ELSE p + t - Cycle
  BY <1>0, WrapIs
<1>4. isPhaseInRange(p, ce, ne) <=> isPhaseInRange(q, c, n)
  BY <1>0, <1>1, <1>2, <1>3 DEF isPhaseInRange
<1> QED
  BY <1>1, <1>2, <1>3, <1>4

\* The distance from the tooth is the same in both, and ends before the next.
LEMMA OffsetShift ==
  ASSUME NEW c \in 0 .. Cycle - 1, NEW n \in 0 .. Cycle - 1, c # n,
         NEW p \in 0 .. Cycle - 1, NEW t \in 0 .. Cycle - 1,
         isPhaseInRange(p, wrapAngle(c - t), wrapAngle(n - t))
  PROVE  /\ getAngleFromNow(p, wrapAngle(c - t)) \in 0 .. wrapAngle(n - c) - 1
         /\ getAngleFromNow(wrapAngle(p + t), c) = getAngleFromNow(p, wrapAngle(c - t))
<1>0. Cycle \in Nat \ {0}
  BY CycleAssumption
<1>1. PICK ce \in Int : ce = wrapAngle(c - t) /\ ce = IF c >= t THEN c - t ELSE c - t + Cycle
  BY <1>0, WrapIs
<1>2. PICK ne \in Int : ne = wrapAngle(n - t) /\ ne = IF n >= t THEN n - t ELSE n - t + Cycle
  BY <1>0, WrapIs
<1>3. PICK q \in Int : q = wrapAngle(p + t) /\ q = IF p + t < Cycle THEN p + t ELSE p + t - Cycle
  BY <1>0, WrapIs
<1>4. PICK w \in Int : w = wrapAngle(n - c) /\ w = IF n >= c THEN n - c ELSE n - c + Cycle
  BY <1>0, WrapIs
<1>5. isPhaseInRange(p, ce, ne)
  BY <1>1, <1>2
<1>6. getAngleFromNow(p, ce) \in 0 .. w - 1
  BY <1>0, <1>1, <1>2, <1>4, <1>5 DEF isPhaseInRange, getAngleFromNow
<1>7. getAngleFromNow(q, c) = getAngleFromNow(p, ce)
  BY <1>0, <1>1, <1>3 DEF getAngleFromNow
<1> QED
  BY <1>1, <1>3, <1>4, <1>6, <1>7

\* The teeth are in order and the first is at the synchronisation point.
LEMMA TeethAscend ==
  ASSUME WheelInv, NEW i \in ToothIndex
  PROVE  /\ i + Step < getLength => After(i) = i + Step /\ Angle(i) < Angle(After(i))
         /\ ~(i + Step < getLength) => Angle(After(i)) = 0
         /\ Angle(After(i)) # Angle(i)
<1>1. /\ After(i) \in 0 .. getLength - 1 /\ i \in 0 .. getLength - 1 /\ After(i) # i
      /\ After(i) = IF i + Step < getLength THEN i + Step ELSE 0
  BY AfterIs DEF After, ToothIndex
<1>2. Step \in {1, 2}
  BY DEF Step
<1>3. Angle(i) \in 0 .. Cycle - 1 /\ Angle(After(i)) \in 0 .. Cycle - 1 /\ Angle(0) = 0
  BY <1>1, RotatedAscend
<1>4. i < After(i) => Angle(i) < Angle(After(i))
  BY <1>1, RotatedAscend
<1>5. After(i) < i => Angle(After(i)) < Angle(i)
  BY <1>1, RotatedAscend
<1>6. i < After(i) \/ After(i) < i
  BY <1>1
<1> QED
  BY <1>1, <1>2, <1>3, <1>4, <1>5, <1>6

\* Which angles belong to a tooth, in the coordinates of the trigger.
LEMMA InRangeIs ==
  ASSUME WheelInv, NEW i \in ToothIndex, NEW p \in 0 .. Cycle - 1
  PROVE  /\ toTrgPhase(p) \in 0 .. Cycle - 1
         /\ InEngRange(p, PhaseInfo(i)) <=> InTrgRange(toTrgPhase(p), PhaseInfo(i))
         /\ InEngRange(p, PhaseInfo(i)) <=>
              /\ toTrgPhase(p) >= Angle(i)
              /\ i + Step < getLength => toTrgPhase(p) < Angle(i + Step)
<1> DEFINE q == toTrgPhase(p)
<1>1. /\ Angle(i) \in 0 .. Cycle - 1 /\ Angle(After(i)) \in 0 .. Cycle - 1
      /\ PhaseInfo(i).currentTrgPhase = Angle(i) /\ PhaseInfo(i).nextTrgPhase = Angle(After(i))
      /\ PhaseInfo(i).currentEngPhase = wrapAngle(Angle(i) - tdcPosition)
      /\ PhaseInfo(i).nextEngPhase = wrapAngle(Angle(After(i)) - tdcPosition)
  BY PhaseInfoIs DEF toEngPhase
<1>2. tdcPosition \in 0 .. Cycle - 1 /\ q = wrapAngle(p + tdcPosition)
  BY DEF WheelInv, toTrgPhase
<1>3. q \in 0 .. Cycle - 1
  <2>1. p + tdcPosition \in Int
    BY <1>2
  <2> QED
    BY <1>2, <2>1, WrapIs
<1> HIDE DEF q
<1>4. InTrgRange(q, PhaseInfo(i)) <=> isPhaseInRange(q, Angle(i), Angle(After(i)))
  BY <1>1 DEF InTrgRange
<1>5. InEngRange(p, PhaseInfo(i)) <=> isPhaseInRange(q, Angle(i), Angle(After(i)))
  BY <1>1, <1>2, RangeShift DEF InEngRange
<1>6. isPhaseInRange(q, Angle(i), Angle(After(i))) <=>
        q >= Angle(i) /\ (i + Step < getLength => q < Angle(i + Step))
  <2>1. CASE i + Step < getLength
    BY <1>1, <1>3, <2>1, TeethAscend DEF isPhaseInRange
  <2>2. CASE ~(i + Step < getLength)
    BY <1>1, <1>3, <2>2, TeethAscend DEF isPhaseInRange
  <2> QED
    BY <2>1, <2>2
<1> QED
  BY <1>3, <1>4, <1>5, <1>6 DEF q

\* Exactly one tooth claims an angle.
LEMMA OneToothClaims ==
  ASSUME WheelInv, NEW p \in 0 .. Cycle - 1
  PROVE  \E i \in ToothIndex :
           {j \in ToothIndex : InEngRange(p, PhaseInfo(j))} = {i}
<1> DEFINE L == getLength
           q == toTrgPhase(p)
           Claims(i) == q >= Angle(i) /\ (i + Step < L => q < Angle(i + Step))
<1>1. /\ L \in Nat \ {0} /\ L >= 2 /\ L % 2 = 0 /\ Step \in {1, 2} /\ L % Step = 0
      /\ 0 \in ToothIndex
  BY Lengths DEF Step, ToothIndex
<1>2. /\ q \in 0 .. Cycle - 1
      /\ \A i \in ToothIndex : InEngRange(p, PhaseInfo(i)) <=> Claims(i)
  BY <1>1, InRangeIs
<1> HIDE DEF q
<1>3. \A i \in ToothIndex : i \in 0 .. L - 1 /\ i % Step = 0 /\ Angle(i) \in 0 .. Cycle - 1
  BY RotatedAscend DEF ToothIndex
<1>4. \A i, j \in ToothIndex : i < j => i + Step <= j /\ i + Step \in ToothIndex
  <2>1. ASSUME NEW i \in ToothIndex, NEW j \in ToothIndex, i < j
        PROVE  i + Step <= j /\ i + Step \in ToothIndex
    <3>1. i + Step <= j /\ (i + Step) % Step = 0
      BY <1>1, <1>3, <2>1
    <3> QED
      BY <1>1, <1>3, <3>1 DEF ToothIndex
  <2> QED
    BY <2>1
<1>5. ASSUME NEW i \in ToothIndex, NEW j \in ToothIndex, Claims(i), Claims(j), i < j
      PROVE  FALSE
  <2>1. i + Step \in ToothIndex /\ i + Step <= j /\ i + Step < L
    BY <1>1, <1>3, <1>4, <1>5
  <2>2. Angle(i + Step) <= Angle(j)
    <3>1. CASE i + Step = j
      BY <1>3, <3>1
    <3>2. CASE i + Step # j
      <4>1. i + Step \in 0 .. L - 1 /\ j \in 0 .. L - 1 /\ i + Step < j
        BY <1>1, <1>3, <2>1, <3>2
      <4>2. Angle(i + Step) < Angle(j)
        BY <4>1, RotatedAscend
      <4> QED
        BY <1>3, <2>1, <4>2
    <3> QED
      BY <3>1, <3>2
  <2>3. q < Angle(i + Step) /\ q >= Angle(j)
    BY <1>5, <2>1
  <2> QED
    BY <1>2, <1>3, <2>1, <2>2, <2>3
<1>6. \E i \in ToothIndex : Claims(i)
  <2> DEFINE T == {j \in ToothIndex : q < Angle(j)}
  <2>1. CASE T = {}
    <3>1. L - Step \in ToothIndex /\ ~((L - Step) + Step < L)
      BY <1>1 DEF ToothIndex
    <3>2. q >= Angle(L - Step)
      BY <1>2, <1>3, <2>1, <3>1
    <3> QED
      BY <3>1, <3>2
  <2>2. CASE T # {}
    <3>1. T \in SUBSET Nat
      BY <1>3
    <3>2. PICK j \in T : \A k \in T : j <= k
      BY <2>2, <3>1, LeastNumber
    <3>3. j \in ToothIndex /\ q < Angle(j) /\ j # 0
      <4>1. Angle(0) = 0
        BY RotatedAscend
      <4> QED
        BY <1>2, <3>2, <4>1
    <3>4. j - Step \in ToothIndex /\ (j - Step) + Step = j /\ ~(j <= j - Step)
      <4>1. j - Step \in 0 .. L - 1 /\ (j - Step) % Step = 0 /\ (j - Step) + Step = j /\ ~(j <= j - Step)
        BY <1>1, <1>3, <3>3
      <4> QED
        BY <4>1 DEF ToothIndex
    <3>5. q >= Angle(j - Step)
      BY <1>2, <1>3, <3>2, <3>4
    <3>6. Claims(j - Step)
      BY <3>3, <3>4, <3>5
    <3> QED
      BY <3>4, <3>6
  <2> QED
    BY <2>1, <2>2
<1>7. PICK i \in ToothIndex : Claims(i)
  BY <1>6
<1>8. ASSUME NEW j \in ToothIndex, Claims(j) PROVE j = i
  BY <1>3, <1>5, <1>7, <1>8
<1> HIDE DEF Claims
<1>9. {j \in ToothIndex : InEngRange(p, PhaseInfo(j))} = {i}
  BY <1>2, <1>7, <1>8
<1> QED
  BY <1>9

-------------------------------------------------------------------------------
(***************************************************************************)
(* The wheel stays what PhaseInit made it and the index stays that of a tooth.  *)
(***************************************************************************)
THEOREM WheelInvariant == PhaseSpec => []WheelInv
<1>1. PhaseInit => WheelInv
  <2>1. SUFFICES ASSUME PhaseInit PROVE WheelInv
    OBVIOUS
  <2>2. PICK n \in {n \in 2 .. MaxEdges : n % 2 = 0} :
          switchAngle \in {s \in [1 .. n -> 1 .. Cycle] : Ascending(s)}
    BY <2>1 DEF PhaseInit, Wheels
  <2>3. n \in Nat /\ n >= 2 /\ n % 2 = 0 /\ switchAngle \in [1 .. n -> 1 .. Cycle]
        /\ Ascending(switchAngle)
    BY <2>2
  <2>4. getSize = n
    <3>1. switchAngle \in Seq(1 .. Cycle)
      BY <2>3, SeqDef
    <3>2. Len(switchAngle) \in Nat /\ DOMAIN switchAngle = 1 .. Len(switchAngle)
      BY <3>1, LenProperties
    <3>3. 1 .. Len(switchAngle) = 1 .. n
      BY <2>3, <3>2
    <3> QED
      BY <2>3, <3>2, <3>3 DEF getSize
  <2>5. /\ switchAngle \in [1 .. getSize -> 1 .. Cycle]
        /\ getSize \in Nat /\ getSize >= 2 /\ getSize % 2 = 0
        /\ \A i, j \in 1 .. getSize : i < j => switchAngle[i] < switchAngle[j]
    BY <2>3, <2>4 DEF Ascending
  <2>6. synchPoint \in 0 .. getSize - 1 /\ multiplier \in {1, 2} /\ tdcPosition \in 0 .. Cycle - 1
        /\ index = 0 /\ useOnlyRisingEdges \in BOOLEAN
    BY <2>1 DEF PhaseInit
  <2>7. useOnlyRisingEdges => synchPoint % 2 = 0
    <3>1. synchPoint % getSize = synchPoint
      BY <2>5, <2>6, ModSmall
    <3> QED
      BY <2>1, <3>1 DEF PhaseInit, isRiseEvent
  <2>8. index \in ToothIndex
    <3>1. getLength \in Nat /\ getLength >= 2 /\ 0 % Step = 0
      BY <2>5, <2>6 DEF getLength, Step
    <3> QED
      BY <2>6, <3>1 DEF ToothIndex
  <2> QED
    BY <2>1, <2>5, <2>6, <2>7, <2>8 DEF PhaseInit, WheelInv
<1>2. WheelInv /\ [NextTooth]_phaseVars => WheelInv'
  <2>1. SUFFICES ASSUME WheelInv, [NextTooth]_phaseVars PROVE WheelInv'
    OBVIOUS
  <2>2. UNCHANGED <<switchAngle, multiplier, useOnlyRisingEdges, synchPoint, tdcPosition>>
    BY <2>1 DEF NextTooth, phaseVars
  <2>3. index' \in ToothIndex
    <3>1. CASE NextTooth
      <4>1. index \in ToothIndex /\ index' = (index + Step) % getLength
        BY <2>1, <3>1 DEF NextTooth, WheelInv
      <4> QED
        BY <2>1, <4>1, AfterIs
    <3>2. CASE UNCHANGED phaseVars
      BY <2>1, <3>2 DEF phaseVars, WheelInv
    <3> QED
      BY <2>1, <3>1, <3>2
  <2>4. getSize' = getSize /\ getLength' = getLength /\ getCycleDuration' = getCycleDuration
        /\ ToothIndex' = ToothIndex
    BY <2>2 DEF getSize, getLength, getCycleDuration, ToothIndex, Step
  <2> QED
    BY <2>1, <2>2, <2>3, <2>4 DEF WheelInv
<1> QED
  BY <1>1, <1>2, PTL DEF PhaseSpec

(***************************************************************************)
(* NextPhaseIsNextTooth: the loop in handleShaftSignal() that looks for    *)
(* the next tooth ("is this logic [...] correct?") finds it on every wheel.*)
(***************************************************************************)
THEOREM NextToothIsFound == PhaseSpec => []NextPhaseIsNextTooth
<1>1. WheelInv => NextPhaseIsNextTooth
  <2>1. SUFFICES ASSUME WheelInv PROVE NextPhaseIsNextTooth
    OBVIOUS
  <2>2. index \in ToothIndex
    BY <2>1 DEF WheelInv
  <2>3. PhaseInfo(index).nextTrgPhase = Angle(After(index))
        /\ eventAngles[After(index)] = Angle(After(index))
    BY <2>1, <2>2, PhaseInfoIs
  <2>4. (index + Step) % getLength = After(index)
    BY <2>1, <2>2, AfterIs
  <2> QED
    BY <2>3, <2>4 DEF NextPhaseIsNextTooth
<1> QED
  BY <1>1, WheelInvariant, PTL

(***************************************************************************)
(* PhaseClaimedOnce: in an engine cycle every engine phase belongs to      *)
(* exactly one tooth, by the test of isPhaseInRange().                     *)
(***************************************************************************)
THEOREM EveryPhaseHasOneTooth == PhaseSpec => []PhaseClaimedOnce
<1>1. WheelInv => PhaseClaimedOnce
  <2>1. SUFFICES ASSUME WheelInv, NEW p \in 0 .. Cycle - 1
                 PROVE  Cardinality({i \in ToothIndex : InEngRange(p, PhaseInfo(i))}) = 1
    BY DEF PhaseClaimedOnce
  <2>2. PICK i \in ToothIndex : {j \in ToothIndex : InEngRange(p, PhaseInfo(j))} = {i}
    BY <2>1, OneToothClaims
  <2> QED
    BY <2>2, FS_Singleton
<1> QED
  BY <1>1, WheelInvariant, PTL

(***************************************************************************)
(* SpacesAgree: the test in engine phases and the test in trigger phases   *)
(* give an angle to the same tooth, wherever top dead centre is.           *)
(***************************************************************************)
THEOREM CoordinatesAgree == PhaseSpec => []SpacesAgree
<1>1. WheelInv => SpacesAgree
  <2>1. SUFFICES ASSUME WheelInv, NEW p \in 0 .. Cycle - 1
                 PROVE  InEngRange(p, PhaseInfo(index))
                          <=> InTrgRange(toTrgPhase(p), PhaseInfo(index))
    BY DEF SpacesAgree
  <2>2. index \in ToothIndex
    BY <2>1 DEF WheelInv
  <2> QED
    BY <2>1, <2>2, InRangeIs
<1> QED
  BY <1>1, WheelInvariant, PTL

(***************************************************************************)
(* OffsetWithinTooth: the delay that getAngleFromNow() gives for an angle  *)
(* of this tooth ends before the next tooth, the same in both systems.     *)
(***************************************************************************)
THEOREM OffsetsEndInTime == PhaseSpec => []OffsetWithinTooth
<1>1. WheelInv => OffsetWithinTooth
  <2> DEFINE info == PhaseInfo(index)
             width == wrapAngle(info.nextTrgPhase - info.currentTrgPhase)
  <2>1. SUFFICES ASSUME WheelInv, NEW p \in 0 .. Cycle - 1, InEngRange(p, info)
                 PROVE  /\ getAngleFromNow(p, info.currentEngPhase) \in 0 .. width - 1
                        /\ getAngleFromNow(toTrgPhase(p), info.currentTrgPhase)
                             = getAngleFromNow(p, info.currentEngPhase)
    BY DEF OffsetWithinTooth
  <2>2. index \in ToothIndex /\ tdcPosition \in 0 .. Cycle - 1
    BY <2>1 DEF WheelInv
  <2> DEFINE c == Angle(index)
             n == Angle(After(index))
  <2>3. /\ info.currentTrgPhase = c /\ c \in 0 .. Cycle - 1
        /\ info.nextTrgPhase = n /\ n \in 0 .. Cycle - 1
        /\ info.currentEngPhase = wrapAngle(c - tdcPosition)
        /\ info.nextEngPhase = wrapAngle(n - tdcPosition)
    BY <2>1, <2>2, PhaseInfoIs DEF toEngPhase
  <2>4. c # n
    BY <2>1, <2>2, TeethAscend
  <2>5. toTrgPhase(p) = wrapAngle(p + tdcPosition)
    BY DEF toTrgPhase
  <2> HIDE DEF info, c, n
  <2>6. isPhaseInRange(p, wrapAngle(c - tdcPosition), wrapAngle(n - tdcPosition))
    BY <2>1, <2>3 DEF InEngRange
  <2>7. /\ getAngleFromNow(p, wrapAngle(c - tdcPosition)) \in 0 .. wrapAngle(n - c) - 1
        /\ getAngleFromNow(wrapAngle(p + tdcPosition), c)
             = getAngleFromNow(p, wrapAngle(c - tdcPosition))
    BY <2>1, <2>2, <2>3, <2>4, <2>6, OffsetShift
  <2> QED
    BY <2>3, <2>5, <2>7
<1> QED
  BY <1>1, WheelInvariant, PTL

-------------------------------------------------------------------------------
(***************************************************************************)
(* Ignition.  The teeth of the cycle, and angles seen from a tooth.        *)
(***************************************************************************)
Teeth == Cycle \div ToothWidth

\* The engine cycle is a whole number of teeth.
LEMMA TeethFill == Teeth \in Nat \ {0} /\ Teeth * ToothWidth = Cycle
<1>1. /\ Cycle \in Nat \ {0} /\ ToothWidth \in Nat \ {0}
      /\ Cycle % ToothWidth = 0
  BY CycleAssumption, SparkAssumption
<1>2. Cycle = ToothWidth * Teeth + (Cycle % ToothWidth) /\ Teeth \in Int
  <2>1. Cycle \in Int /\ ToothWidth \in Nat \ {0}
    BY <1>1
  <2>2. /\ Cycle \div ToothWidth \in Int
        /\ Cycle = ToothWidth * (Cycle \div ToothWidth) + (Cycle % ToothWidth)
    BY <2>1, DivRem, Zenon
  <2> QED
    BY <2>2, Zenon DEF Teeth
<1>3. Teeth * ToothWidth = Cycle
  BY <1>1, <1>2
<1>4. Teeth > 0
  BY <1>1, <1>2, <1>3
<1> QED
  BY <1>2, <1>3, <1>4

\* The teeth start within the cycle, and the last one ends with it.
LEMMA ToothStarts ==
  ASSUME NEW k \in 0 .. Teeth - 1
  PROVE  /\ k * ToothWidth \in 0 .. Cycle - ToothWidth
         /\ (k + 1) * ToothWidth = k * ToothWidth + ToothWidth
         /\ k + 1 < Teeth => k * ToothWidth + ToothWidth <= Cycle - ToothWidth
                             /\ (k + 1) % Teeth = k + 1
         /\ k + 1 = Teeth => k * ToothWidth = Cycle - ToothWidth /\ (k + 1) % Teeth = 0
<1>1. Teeth \in Nat \ {0} /\ Teeth * ToothWidth = Cycle /\ ToothWidth \in Nat \ {0}
  BY TeethFill, SparkAssumption
<1>2. k \in Int /\ 0 <= k /\ k <= Teeth - 1
  BY <1>1
<1>3. (k + 1) * ToothWidth = k * ToothWidth + ToothWidth /\ k * ToothWidth \in Int
  BY <1>1, <1>2
<1>4. 0 <= k * ToothWidth
  BY <1>1, <1>2
<1>5. (k + 1) * ToothWidth <= Teeth * ToothWidth
  <2>1. k + 1 \in Int /\ Teeth \in Int /\ ToothWidth \in Nat /\ k + 1 <= Teeth
    BY <1>1, <1>2
  <2> QED
    BY <2>1, TimesGrows, Zenon
<1>6. k + 1 < Teeth => (k + 2) * ToothWidth <= Teeth * ToothWidth
  <2>1. k + 2 \in Int /\ Teeth \in Int /\ ToothWidth \in Nat /\ (k + 1 < Teeth => k + 2 <= Teeth)
    BY <1>1, <1>2
  <2> QED
    BY <2>1, TimesGrows, Zenon
<1>7. (k + 2) * ToothWidth = k * ToothWidth + 2 * ToothWidth
  BY <1>1, <1>2
<1>8. /\ k + 1 < Teeth => (k + 1) % Teeth = k + 1
      /\ k + 1 = Teeth => (k + 1) % Teeth = 0
  <2> DEFINE i == k + 1
  <2>1. i \in Int /\ 0 <= i /\ i <= Teeth
    BY <1>1, <1>2
  <2> HIDE DEF i
  <2>2. i < Teeth => i % Teeth = i
    <3>1. i < Teeth => i \in 0 .. Teeth - 1
      BY <1>1, <2>1
    <3> QED
      BY <1>1, <3>1, ModSmall, Zenon
  <2>3. i = Teeth => i % Teeth = i - Teeth
    <3>1. i = Teeth => Teeth <= i /\ i < 2 * Teeth
      BY <1>1, <2>1
    <3> QED
      BY <1>1, <2>1, <3>1, ModOver, Zenon
  <2> QED
    BY <1>1, <2>1, <2>2, <2>3 DEF i
<1>10. Cycle \in Nat
  BY CycleAssumption
<1>11. k * ToothWidth \in 0 .. Cycle - ToothWidth
  BY <1>1, <1>3, <1>4, <1>5, <1>10
<1>12. k + 1 = Teeth => k * ToothWidth = Cycle - ToothWidth
  BY <1>1, <1>3, <1>10
<1>13. k + 1 < Teeth => k * ToothWidth + ToothWidth <= Cycle - ToothWidth
  BY <1>1, <1>3, <1>6, <1>7, <1>10
<1> QED
  BY <1>3, <1>8, <1>11, <1>12, <1>13

\* Where an angle is seen from a tooth: an angle belongs to the tooth when it
\* is less than a tooth away, and the next tooth is one tooth nearer to it.
LEMMA ToothAngles ==
  ASSUME NEW a \in 0 .. Cycle - 1, NEW k \in 0 .. Teeth - 1
  PROVE  /\ FromTooth(a, k) \in 0 .. Cycle - 1
         /\ InTooth(a, k) <=> FromTooth(a, k) < ToothWidth
         /\ FromTooth(a, (k + 1) % Teeth)
              = IF FromTooth(a, k) < ToothWidth THEN FromTooth(a, k) + (Cycle - ToothWidth)
                                                ELSE FromTooth(a, k) - ToothWidth
<1> DEFINE s == k * ToothWidth
           t == (k + 1) * ToothWidth
           j == (k + 1) % Teeth
           u == j * ToothWidth
<1>1. Cycle \in Nat \ {0} /\ ToothWidth \in Nat \ {0} /\ Teeth \in Nat \ {0}
      /\ Teeth * ToothWidth = Cycle
  BY CycleAssumption, SparkAssumption, TeethFill
<1>2. /\ s \in 0 .. Cycle - ToothWidth /\ t = s + ToothWidth
      /\ k + 1 < Teeth => s + ToothWidth <= Cycle - ToothWidth /\ j = k + 1
      /\ k + 1 = Teeth => s = Cycle - ToothWidth /\ j = 0
  BY ToothStarts
<1>3. k + 1 < Teeth \/ k + 1 = Teeth
  BY <1>1
<1>4. u = IF s = Cycle - ToothWidth THEN 0 ELSE s + ToothWidth
  <2>1. CASE k + 1 < Teeth
    BY <1>1, <1>2, <2>1
  <2>2. CASE k + 1 = Teeth
    BY <1>1, <1>2, <2>2
  <2> QED
    BY <1>3, <2>1, <2>2
<1>5. wrapAngle(t) = u
  <2>1. t \in Int /\ 0 <= t /\ t <= Cycle /\ (s = Cycle - ToothWidth => t = Cycle)
        /\ (s # Cycle - ToothWidth => t < Cycle)
    BY <1>1, <1>2, <1>3
  <2> QED
    BY <1>1, <1>2, <1>4, <2>1, WrapIs
<1>6. FromTooth(a, k) = IF a - s < 0 THEN a - s + Cycle ELSE a - s
  BY DEF FromTooth, getAngleFromNow
<1>7. FromTooth(a, j) = IF a - u < 0 THEN a - u + Cycle ELSE a - u
  BY DEF FromTooth, getAngleFromNow
<1>8. InTooth(a, k) <=> IF u > s THEN a >= s /\ a < u ELSE a >= s \/ a < u
  BY <1>5 DEF InTooth, isPhaseInRange
<1>9. s \in Int /\ s >= 0 /\ s <= Cycle - ToothWidth /\ (s # Cycle - ToothWidth => s <= Cycle - 2 * ToothWidth)
  BY <1>1, <1>2, <1>3
<1> HIDE DEF s, t, j, u
<1>10. FromTooth(a, k) \in 0 .. Cycle - 1
  BY <1>1, <1>6, <1>9
<1>11. InTooth(a, k) <=> FromTooth(a, k) < ToothWidth
  BY <1>1, <1>4, <1>6, <1>8, <1>9
<1>12. FromTooth(a, j)
         = IF FromTooth(a, k) < ToothWidth THEN FromTooth(a, k) + (Cycle - ToothWidth)
                                           ELSE FromTooth(a, k) - ToothWidth
  BY <1>1, <1>4, <1>6, <1>7, <1>9
<1> QED
  BY <1>10, <1>11, <1>12 DEF j
-------------------------------------------------------------------------------
(***************************************************************************)
(* Ignition as it is set up by default, at a speed that does not rise from *)
(* one tooth to the next: no extra sparks; a tooth never comes before the  *)
(* time the last one promised; from one cycle to the next the timing moves *)
(* by less than the dwell; and the cycle leaves room for two teeth, for    *)
(* the way from a start of charge to the spark, for a spark put off and    *)
(* for a second one.                                                       *)
(***************************************************************************)
PlainIgnition ==
  /\ ExtraSparks = 0
  /\ \A i \in Interval : i >= ToothWidth
  /\ \A a, b \in Advance, d \in Dwell : 0 < a - b + d
  /\ \A a, b \in Advance, d, e, f \in Dwell :
       2 * ToothWidth + (a - b + d) + e + f <= Cycle

\* The angles at which a charge may start.
ChargeAngles == {wrapAngle(a - d) : a \in Advance, d \in Dwell}

\* What the hypothesis says, in the form in which it is used.
LEMMA PlainIs ==
  ASSUME PlainIgnition
  PROVE  /\ ExtraSparks = 0
         /\ Cycle \in Nat \ {0} /\ ToothWidth \in Nat \ {0} /\ LongAgo \in Nat \ {0}
         /\ 2 * ToothWidth < Cycle
         /\ \A i \in Interval : i \in Int /\ i >= ToothWidth
         /\ \A a \in Advance : a \in 0 .. Cycle - 1
         /\ \A d \in Dwell : d \in 1 .. LongAgo /\ 2 * d + 2 * ToothWidth < Cycle
         /\ \A c \in ChargeAngles : c \in 0 .. Cycle - 1
<1>1. /\ Cycle \in Nat \ {0} /\ ToothWidth \in Nat \ {0} /\ LongAgo \in Nat
      /\ Interval \subseteq Nat \ {0}
      /\ Advance \subseteq 0 .. Cycle - 1 /\ Advance # {}
      /\ Dwell \subseteq 1 .. LongAgo /\ Dwell # {}
  BY CycleAssumption, SparkAssumption
<1>2. \A d \in Dwell : d \in 1 .. LongAgo /\ 2 * d + 2 * ToothWidth < Cycle
  <2>1. ASSUME NEW d \in Dwell PROVE d \in 1 .. LongAgo /\ 2 * d + 2 * ToothWidth < Cycle
    <3>1. PICK a \in Advance : TRUE
      BY <1>1
    <3>2. 0 < a - a + d /\ 2 * ToothWidth + (a - a + d) + d + d <= Cycle
      BY DEF PlainIgnition
    <3>3. a \in Int /\ d \in 1 .. LongAgo
      BY <1>1
    <3> QED
      BY <1>1, <3>2, <3>3
  <2> QED
    BY <2>1
<1>3. PICK f \in Dwell : TRUE
  BY <1>1
<1>4. f \in 1 .. LongAgo /\ 2 * f + 2 * ToothWidth < Cycle
  BY <1>2
<1>5. LongAgo \in Nat \ {0} /\ 2 * ToothWidth < Cycle
  BY <1>1, <1>4
<1>6. \A c \in ChargeAngles : c \in 0 .. Cycle - 1
  <2>1. ASSUME NEW c \in ChargeAngles PROVE c \in 0 .. Cycle - 1
    <3>1. PICK b \in Advance, d \in Dwell : c = wrapAngle(b - d)
      BY DEF ChargeAngles
    <3>2. b \in 0 .. Cycle - 1 /\ d \in 1 .. LongAgo
      BY <1>1, Zenon
    <3>3. b - d \in Int
      BY <1>1, <3>2
    <3> QED
      BY <3>1, <3>3, WrapIs
  <2> QED
    BY <2>1
<1>7. \A i \in Interval : i \in Int /\ i >= ToothWidth
  BY <1>1 DEF PlainIgnition
<1>8. ExtraSparks = 0 /\ \A a \in Advance : a \in 0 .. Cycle - 1
  BY <1>1 DEF PlainIgnition
<1> QED
  BY <1>1, <1>2, <1>5, <1>6, <1>7, <1>8

\* Seen from any tooth, a start of charge is before the spark by less than
\* the cycle minus the room that PlainIgnition leaves.
LEMMA ChargeToSpark ==
  ASSUME PlainIgnition, NEW a \in Advance, NEW c \in ChargeAngles, NEW k \in 0 .. Teeth - 1
  PROVE  \E w \in 1 .. Cycle - 1 :
           /\ \A e, f \in Dwell : 2 * ToothWidth + w + e + f <= Cycle
           /\ FromTooth(c, k) = IF w <= FromTooth(a, k) THEN FromTooth(a, k) - w
                                ELSE FromTooth(a, k) - w + Cycle
<1>2. PICK b \in Advance, d \in Dwell : c = wrapAngle(b - d)
  BY DEF ChargeAngles
<1> DEFINE w == a - b + d
           s == k * ToothWidth
<1>3. /\ Cycle \in Nat \ {0} /\ ToothWidth \in Nat \ {0}
      /\ a \in 0 .. Cycle - 1 /\ b \in 0 .. Cycle - 1 /\ d \in Int
      /\ d \in 1 .. LongAgo /\ LongAgo \in Nat /\ 2 * d < Cycle /\ c \in 0 .. Cycle - 1
  <2>1. d \in 1 .. LongAgo /\ 2 * d + 2 * ToothWidth < Cycle
    BY <1>2, PlainIs
  <2>2. /\ Cycle \in Nat \ {0} /\ ToothWidth \in Nat \ {0} /\ LongAgo \in Nat \ {0}
        /\ a \in 0 .. Cycle - 1 /\ b \in 0 .. Cycle - 1 /\ c \in 0 .. Cycle - 1
    BY <1>2, PlainIs
  <2> QED
    BY <2>1, <2>2
<1>4. \A e, f \in Dwell : 2 * ToothWidth + w + e + f <= Cycle
  BY <1>2 DEF PlainIgnition
<1>5. w \in 1 .. Cycle - 1
  <2>1. 0 < w /\ 2 * ToothWidth + w + d + d <= Cycle /\ w \in Int
    BY <1>2, <1>3, <1>4 DEF PlainIgnition
  <2> QED
    BY <1>3, <2>1
<1>6. c = IF b - d >= 0 THEN b - d ELSE b - d + Cycle
  <2>1. b - d \in Int /\ -Cycle <= b - d /\ b - d < Cycle
    BY <1>3
  <2> QED
    BY <1>2, <2>1, WrapIs
<1>7. s \in 0 .. Cycle - ToothWidth
  BY ToothStarts
<1>8. /\ FromTooth(a, k) = IF a - s < 0 THEN a - s + Cycle ELSE a - s
      /\ FromTooth(c, k) = IF c - s < 0 THEN c - s + Cycle ELSE c - s
  BY DEF FromTooth, getAngleFromNow
<1> HIDE DEF s
<1>9. FromTooth(c, k) = IF w <= FromTooth(a, k) THEN FromTooth(a, k) - w
                        ELSE FromTooth(a, k) - w + Cycle
  BY <1>3, <1>5, <1>6, <1>7, <1>8
<1> QED
  BY <1>4, <1>5, <1>9

-------------------------------------------------------------------------------
\* MaxOf() of a set of numbers up to a bound.
LEMMA MaxOfIs ==
  ASSUME NEW m \in Nat, NEW S \in SUBSET (0 .. m), S # {}
  PROVE  MaxOf(S) \in S /\ \A i \in S : i <= MaxOf(S)
<1> DEFINE T == {n \in Nat : \A i \in S : i <= n}
<1>1. T \in SUBSET Nat /\ m \in T
  OBVIOUS
<1>2. PICK n \in T : \A j \in T : n <= j
  BY <1>1, LeastNumber
<1>3. n \in S
  <2>1. SUFFICES ASSUME n \notin S PROVE FALSE
    OBVIOUS
  <2>2. PICK i \in S : TRUE
    OBVIOUS
  <2>3. \A j \in S : j \in Nat /\ j <= n /\ j # n
    BY <1>2, <2>1
  <2>4. n \in Nat /\ n - 1 \in Nat
    BY <1>2, <2>2, <2>3
  <2>5. \A j \in S : j <= n - 1
    BY <2>3, <2>4
  <2>6. n - 1 \in T
    BY <2>4, <2>5
  <2> QED
    BY <1>2, <2>4, <2>6
<1>4. \E k \in S : \A i \in S : i <= k
  BY <1>2, <1>3
<1> HIDE DEF T
<1> QED
  BY <1>4 DEF MaxOf

\* How long a coil may be charged before the overdwell protection fires it.
Protection == (3 * MaxOf(Dwell)) \div 2

\* It covers every dwell time of the table.
LEMMA ProtectionIs ==
  /\ Protection \in Nat
  /\ \A d \in Dwell : d <= Protection /\ (3 * d) \div 2 \in Nat /\ (3 * d) \div 2 <= Protection
<1>1. LongAgo \in Nat /\ Dwell \in SUBSET (0 .. LongAgo) /\ Dwell # {}
      /\ \A d \in Dwell : d \in Nat
  BY SparkAssumption
<1>2. MaxOf(Dwell) \in Dwell /\ \A d \in Dwell : d <= MaxOf(Dwell)
  BY <1>1, MaxOfIs
<1>3. MaxOf(Dwell) \in Nat
  BY <1>1, <1>2
<1>4. Protection \in Nat
  BY <1>3 DEF Protection
<1>5. ASSUME NEW d \in Dwell
      PROVE  d <= Protection /\ (3 * d) \div 2 \in Nat /\ (3 * d) \div 2 <= Protection
  <2>1. d \in Nat /\ d <= MaxOf(Dwell)
    BY <1>1, <1>2
  <2> QED
    BY <1>3, <2>1 DEF Protection
<1> QED
  BY <1>4, <1>5

-------------------------------------------------------------------------------
(***************************************************************************)
(* The inductive invariant.                                                *)
(***************************************************************************)
\* How far behind the last tooth an angle is, and how far ahead the next
\* tooth that takes it.
Ahead(c) == FromTooth(c, tooth)
Later(c) == IF Ahead(c) < ToothWidth THEN Ahead(c) + Cycle ELSE Ahead(c)

\* A timer with t ticks to go runs out before the tooth of angle c comes.
EndsBefore(t, c) == toothIn # Off => t + 2 * ToothWidth <= toothIn + Later(c)

SparkTimer == [in : Int, sparks : {0}, overdwell : BOOLEAN]

IgnTypes ==
  /\ tooth \in 0 .. Teeth - 1
  /\ toothIn \in Int /\ toothIn >= Off
  /\ pc \in {"idle", "spark", "plan"}
  /\ pc # "idle" => toothIn \in Interval
  /\ dwellStartTimer \in SparkTimer /\ dwellStartTimer.in >= Off
  /\ scheduling \in SparkTimer /\ scheduling.in >= Off
  /\ queuedSparks = 0
  /\ queued => sparkPhase \in Advance
  /\ advance \in Advance /\ dwell \in Dwell
  /\ sparkDwell \in Dwell \cup {0}
  /\ isReady => dwellAngle \in ChargeAngles /\ sparkDwell \in Dwell
  /\ actualDwell \in 0 .. LongAgo

\* With the engine stopped nothing is left to happen.
AtRest ==
  ~rpmKnown => /\ pc = "idle" /\ toothIn = Off
               /\ dwellStartTimer.in = Off /\ scheduling.in = Off
               /\ ~coil /\ ~isReady

\* A charge that is planned or under way has its spark behind it, and no
\* second charge comes up before that.
CoilInv ==
  /\ coil => isReady /\ (scheduling.in # Off \/ pc = "plan")
  /\ coil /\ pc = "spark" => Ahead(dwellAngle) >= ToothWidth
  /\ pc = "spark" => dwellStartTimer.in = Off
  /\ dwellStartTimer.in # Off => /\ isReady /\ ~coil
                                 /\ toothIn # Off => dwellStartTimer.in < toothIn
  /\ dwellStartTimer.in # Off /\ pc = "idle" =>
       scheduling.in # Off /\ dwellStartTimer.in < scheduling.in

\* Between the two halves of scheduleSparkEvent().
PlanInv ==
  pc = "plan" =>
    /\ isReady
    /\ Ahead(dwellAngle) < ToothWidth
    /\ plan.chargeIn = Ahead(dwellAngle)
    /\ plan.sparkAngle \in Advance
    /\ plan.dwellMs \in Dwell
    /\ dwellStartTimer.in \in {Off, plan.chargeIn}
    /\ plan.limited => dwellStartTimer.in = Off /\ ~coil
    /\ coil => plan.chargeIn = 0 /\ actualDwell = 0
    /\ scheduling.in # Off => plan.chargeIn < scheduling.in

\* The spark's timer was set by the angle of this tooth,
ByAngle ==
  /\ ~scheduling.overdwell
  /\ toothIn # Off => scheduling.in < toothIn
  /\ \E a \in Advance : /\ Ahead(a) < ToothWidth
                        /\ pc # "idle" => scheduling.in = Ahead(a)
  /\ coil => actualDwell + scheduling.in < Protection + ToothWidth
  /\ dwellStartTimer.in # Off => scheduling.in - dwellStartTimer.in < ToothWidth

\* or as the protection of a coil whose spark waits for a later tooth,
ByProtection ==
  /\ scheduling.overdwell
  /\ isReady
  /\ pc # "plan"
  /\ EndsBefore(scheduling.in, dwellAngle)
  /\ pc = "spark" => Ahead(dwellAngle) >= ToothWidth
  /\ dwellStartTimer.in # Off => scheduling.in - dwellStartTimer.in <= Protection
  /\ coil => actualDwell + scheduling.in <= Protection

\* or again because the coil was not charged long enough.  A second delay
\* may follow when the schedule is built in between.
Enough == 5 * (actualDwell + scheduling.in) >= 4 * sparkDwell

PutOff ==
  /\ ~scheduling.overdwell
  /\ pc # "plan"
  /\ dwellStartTimer.in = Off
  /\ Enough \/ isReady
  /\ \A c \in ChargeAngles : /\ pc = "spark" => Ahead(c) >= ToothWidth
                             /\ EndsBefore(scheduling.in, c)
  /\ ~(Enough /\ isReady) =>
       \A c \in ChargeAngles, e \in Dwell : EndsBefore(scheduling.in + e, c)
  /\ coil => actualDwell + scheduling.in <= Protection

SparkInv == scheduling.in # Off => ByAngle \/ ByProtection \/ PutOff

PlannedInv == IgnTypes /\ AtRest /\ CoilInv /\ PlanInv /\ SparkInv

\* What is left of it while a rebuilt schedule meets the charges and sparks of
\* the one before.
PlanTypes ==
  pc = "plan" => /\ plan.sparkAngle \in Advance
                 /\ plan.chargeIn \in 0 .. Cycle - 1
                 /\ plan.dwellMs \in Dwell

IgnInv == IgnTypes /\ PlanTypes /\ AtRest /\ (~rebuilt => PlannedInv)

-------------------------------------------------------------------------------
\* The angles of a state in numbers.
LEMMA AnglesHere ==
  ASSUME PlainIgnition, IgnTypes
  PROVE  /\ \A c \in 0 .. Cycle - 1 : /\ Ahead(c) \in 0 .. Cycle - 1
                                      /\ InTooth(c, tooth) <=> Ahead(c) < ToothWidth
                                      /\ Later(c) \in ToothWidth .. Cycle + ToothWidth - 1
         /\ \A a \in Advance : a \in 0 .. Cycle - 1
         /\ \A c \in ChargeAngles : c \in 0 .. Cycle - 1
         /\ isReady => dwellAngle \in 0 .. Cycle - 1
<1>1. Cycle \in Nat \ {0} /\ ToothWidth \in Nat \ {0} /\ 2 * ToothWidth < Cycle
  BY PlainIs
<1>2. tooth \in 0 .. Teeth - 1
  BY DEF IgnTypes
<1>3. ASSUME NEW c \in 0 .. Cycle - 1
      PROVE  /\ Ahead(c) \in 0 .. Cycle - 1
             /\ InTooth(c, tooth) <=> Ahead(c) < ToothWidth
             /\ Later(c) \in ToothWidth .. Cycle + ToothWidth - 1
  <2>1. Ahead(c) \in 0 .. Cycle - 1 /\ (InTooth(c, tooth) <=> Ahead(c) < ToothWidth)
    BY <1>2, ToothAngles DEF Ahead
  <2> QED
    BY <1>1, <2>1 DEF Later
<1>4. /\ \A a \in Advance : a \in 0 .. Cycle - 1
      /\ \A c \in ChargeAngles : c \in 0 .. Cycle - 1
  BY PlainIs
<1>5. isReady => dwellAngle \in 0 .. Cycle - 1
  BY <1>4 DEF IgnTypes
<1> QED
  BY <1>3, <1>4, <1>5

\* A step that changes only the timing asked for, or the trailing coil.
LEMMA IgnFrame ==
  ASSUME PlannedInv,
         UNCHANGED <<tooth, toothIn, pc, plan, dwellStartTimer, scheduling, queued, sparkPhase,
                     queuedSparks, coil, actualDwell, dwellAngle, sparkDwell, isReady, rpmKnown>>,
         advance' \in Advance, dwell' \in Dwell
  PROVE  PlannedInv'
<1>1. IgnTypes'
  BY DEF PlannedInv, IgnTypes
<1>2. AtRest' /\ CoilInv' /\ PlanInv'
  BY DEF PlannedInv, AtRest, CoilInv, PlanInv, Ahead
<1>3. ByAngle' <=> ByAngle
  BY DEF ByAngle, Ahead
<1>4. ByProtection' <=> ByProtection
  BY DEF ByProtection, Ahead, EndsBefore, Later
<1>5. PutOff' <=> PutOff
  BY DEF PutOff, Ahead, EndsBefore, Later, Enough
<1> QED
  BY <1>1, <1>2, <1>3, <1>4, <1>5 DEF PlannedInv, SparkInv

\* A tooth, reported or missed, whose trigger configuration has not changed: no
\* timer set by an earlier tooth is left when the tooth of a start of charge comes.
FromQueue == queued /\ InTooth(sparkPhase, tooth') /\ queued' = FALSE /\ TakeFromQueue

LEMMA ToothKeeps ==
  ASSUME PlainIgnition, PlannedInv, ToothPasses, pc' \in {"idle", "spark"},
         UNCHANGED <<plan, dwellStartTimer, sparkPhase, queuedSparks, coil, actualDwell,
                     dwellAngle, sparkDwell, isReady, advance, dwell, rpmKnown>>,
         FromQueue \/ UNCHANGED <<queued, scheduling>>
  PROVE  PlannedInv'
<1> DEFINE x == dwellStartTimer.in
           y == scheduling.in
<1>1. IgnTypes /\ AtRest /\ CoilInv /\ SparkInv
  BY DEF PlannedInv
<1>2. /\ pc = "idle" /\ toothIn = 0 /\ pc' \in {"idle", "spark"} /\ toothIn' \in Interval
      /\ tooth' = (tooth + 1) % Teeth
      /\ UNCHANGED <<plan, dwellStartTimer, sparkPhase, queuedSparks, coil, actualDwell,
                     dwellAngle, sparkDwell, isReady, advance, dwell, rpmKnown>>
  BY DEF ToothPasses, Teeth
<1>3. /\ Cycle \in Nat \ {0} /\ ToothWidth \in Nat \ {0} /\ 2 * ToothWidth < Cycle
      /\ toothIn' \in Int /\ toothIn' >= ToothWidth
  BY <1>2, PlainIs
<1>4. x \in Int /\ y \in Int /\ x >= -1 /\ y >= -1 /\ Off = -1 /\ actualDwell \in Int
      /\ tooth \in 0 .. Teeth - 1 /\ Teeth \in Nat \ {0}
  BY <1>1, TeethFill DEF IgnTypes, SparkTimer, Off
<1>5. x = Off /\ rpmKnown
  BY <1>1, <1>2, <1>4 DEF CoilInv, AtRest
<1>6. tooth' \in 0 .. Teeth - 1
  BY <1>2, <1>4, DivMod
<1>7. ASSUME NEW c \in 0 .. Cycle - 1, y # Off, EndsBefore(y, c)
      PROVE  Ahead(c)' >= ToothWidth /\ Later(c)' = Later(c) - ToothWidth
  <2>1. Ahead(c)' = IF Ahead(c) < ToothWidth THEN Ahead(c) + (Cycle - ToothWidth)
                                             ELSE Ahead(c) - ToothWidth
    BY <1>2, <1>4, ToothAngles DEF Ahead
  <2>2. y >= 0 /\ y + 2 * ToothWidth <= 0 + Later(c)
    BY <1>2, <1>4, <1>7 DEF EndsBefore
  <2>3. Ahead(c) \in 0 .. Cycle - 1
    BY <1>1, AnglesHere
  <2>4. Later(c) = IF Ahead(c) < ToothWidth THEN Ahead(c) + Cycle ELSE Ahead(c)
    BY DEF Later
  <2>5. Later(c)' = IF Ahead(c)' < ToothWidth THEN Ahead(c)' + Cycle ELSE Ahead(c)'
    BY DEF Later
  <2> QED
    BY <1>3, <1>4, <2>1, <2>2, <2>3, <2>4, <2>5
<1>8. ASSUME NEW c \in 0 .. Cycle - 1, NEW t \in Int, EndsBefore(t, c), y # Off, EndsBefore(y, c)
      PROVE  EndsBefore(t, c)'
  <2>1. Later(c)' = Later(c) - ToothWidth /\ Later(c) \in Int
    BY <1>1, <1>7, <1>8, <1>3, AnglesHere
  <2>2. t + 2 * ToothWidth <= 0 + Later(c)
    BY <1>2, <1>4, <1>8 DEF EndsBefore
  <2> QED
    BY <1>3, <2>1, <2>2 DEF EndsBefore
<1>9. y # Off => ByProtection \/ PutOff
  BY <1>1, <1>2, <1>4 DEF SparkInv, ByAngle
<1>10. y # Off /\ isReady => Ahead(dwellAngle)' >= ToothWidth
  <2>1. SUFFICES ASSUME y # Off, isReady PROVE Ahead(dwellAngle)' >= ToothWidth
    OBVIOUS
  <2>2. dwellAngle \in ChargeAngles /\ dwellAngle \in 0 .. Cycle - 1
    BY <1>1, <2>1, AnglesHere DEF IgnTypes
  <2>3. EndsBefore(y, dwellAngle)
    BY <1>9, <2>1, <2>2 DEF ByProtection, PutOff
  <2>4. PICK c \in 0 .. Cycle - 1 : c = dwellAngle
    BY <2>2
  <2>5. Ahead(c)' >= ToothWidth
    BY <1>7, <2>1, <2>3, <2>4
  <2> QED
    BY <1>2, <2>4, <2>5 DEF Ahead
<1>11. coil => y # Off /\ isReady /\ actualDwell + y <= Protection
  <2>1. coil => y # Off /\ isReady
    BY <1>1, <1>2 DEF CoilInv
  <2> QED
    BY <1>9, <2>1 DEF ByProtection, PutOff
<1>12. AtRest' /\ CoilInv' /\ PlanInv'
  <2>1. y # Off => scheduling'.in # Off
    <3>1. CASE FromQueue
      <4>1. sparkPhase \in 0 .. Cycle - 1
        BY <1>1, <3>1, AnglesHere DEF IgnTypes, FromQueue
      <4>2. FromTooth(sparkPhase, tooth') \in 0 .. Cycle - 1
        BY <1>6, <4>1, ToothAngles
      <4>3. scheduling' = Timer(FromTooth(sparkPhase, tooth'), queuedSparks, FALSE)
        BY <3>1 DEF FromQueue, TakeFromQueue
      <4>4. scheduling'.in = FromTooth(sparkPhase, tooth')
        BY <4>3 DEF Timer
      <4> QED
        BY <1>3, <1>4, <4>2, <4>4
    <3>2. CASE UNCHANGED <<queued, scheduling>>
      BY <3>2
    <3> QED
      BY <3>1, <3>2
  <2> QED
    BY <1>2, <1>5, <1>10, <1>11, <2>1 DEF AtRest, CoilInv, PlanInv
<1>13. CASE FromQueue
  <2>1. sparkPhase \in Advance /\ sparkPhase \in 0 .. Cycle - 1 /\ queuedSparks = 0
    BY <1>1, <1>13, AnglesHere DEF IgnTypes, FromQueue
  <2>2. scheduling' = Timer(FromTooth(sparkPhase, tooth'), queuedSparks, FALSE) /\ queued' = FALSE
    BY <1>13 DEF FromQueue, TakeFromQueue
  <2>3. FromTooth(sparkPhase, tooth') \in 0 .. Cycle - 1
        /\ FromTooth(sparkPhase, tooth') < ToothWidth
    BY <1>6, <1>13, <2>1, ToothAngles DEF FromQueue
  <2>4. scheduling'.in = FromTooth(sparkPhase, tooth') /\ ~scheduling'.overdwell
        /\ scheduling' \in SparkTimer
    BY <1>3, <2>1, <2>2, <2>3 DEF Timer, SparkTimer
  <2>5. IgnTypes'
    <3>1. scheduling'.in >= Off
      BY <1>3, <1>4, <2>3, <2>4
    <3>2. toothIn' >= Off
      BY <1>3, <1>4
    <3>3. ~queued'
      BY <2>2
    <3> QED
      BY <1>1, <1>2, <1>3, <1>6, <2>4, <3>1, <3>2, <3>3 DEF IgnTypes
  <2>6. PICK a \in Advance : a = sparkPhase
    BY <2>1
  <2>7. Ahead(a)' < ToothWidth /\ scheduling'.in = Ahead(a)'
    BY <2>3, <2>4, <2>6 DEF Ahead
  <2>8. coil => actualDwell + scheduling'.in < Protection + ToothWidth
    BY <1>3, <1>4, <1>11, <2>3, <2>4, ProtectionIs
  <2>9. ByAngle'
    BY <1>2, <1>3, <1>5, <2>3, <2>4, <2>7, <2>8 DEF ByAngle
  <2> QED
    BY <1>12, <2>5, <2>9 DEF PlannedInv, SparkInv
<1>14. CASE UNCHANGED <<queued, scheduling>>
  <2>1. UNCHANGED <<queued, scheduling>>
    BY <1>14
  <2>2. IgnTypes'
    BY <1>1, <1>2, <1>3, <1>4, <1>6, <2>1 DEF IgnTypes
  <2>3. ASSUME y # Off, ByProtection PROVE ByProtection'
    <3>1. dwellAngle \in 0 .. Cycle - 1
      BY <1>1, <2>3, AnglesHere DEF ByProtection
    <3>2. PICK c \in 0 .. Cycle - 1 : c = dwellAngle
      BY <3>1
    <3>3. EndsBefore(y, c)
      BY <2>3, <3>2 DEF ByProtection
    <3>4. EndsBefore(y, c)'
      <4>1. PICK t \in Int : t = y
        BY <1>4
      <4>2. EndsBefore(t, c)'
        BY <1>8, <2>3, <3>3, <4>1
      <4> QED
        BY <2>1, <4>1, <4>2 DEF EndsBefore
    <3>5. EndsBefore(scheduling.in, dwellAngle)'
      BY <1>2, <3>2, <3>4 DEF EndsBefore, Later, Ahead
    <3> QED
      BY <1>2, <1>10, <2>1, <2>3, <3>5 DEF ByProtection
  <2>4. ASSUME y # Off, PutOff PROVE PutOff'
    <3>1. ASSUME NEW c \in ChargeAngles
          PROVE  /\ Ahead(c)' >= ToothWidth /\ EndsBefore(scheduling.in, c)'
                 /\ \A e \in Dwell : EndsBefore(y + e, c) => EndsBefore(scheduling.in + e, c)'
      <4>1. c \in 0 .. Cycle - 1 /\ EndsBefore(y, c)
        BY <1>1, <2>4, AnglesHere DEF PutOff
      <4>2. Ahead(c)' >= ToothWidth
        BY <1>7, <2>4, <4>1
      <4>3. ASSUME NEW e \in Int, EndsBefore(y + e, c) PROVE EndsBefore(scheduling.in + e, c)'
        <5>1. PICK t \in Int : t = y + e
          BY <1>4
        <5>2. EndsBefore(t, c)'
          BY <1>8, <2>4, <4>1, <4>3, <5>1
        <5> QED
          BY <2>1, <5>1, <5>2 DEF EndsBefore
      <4>4. \A e \in Dwell : e \in Int
        BY PlainIs
      <4>5. EndsBefore(scheduling.in, c)'
        <5>1. PICK t \in Int : t = y
          BY <1>4
        <5>2. EndsBefore(t, c)'
          BY <1>8, <2>4, <4>1, <5>1
        <5> QED
          BY <2>1, <5>1, <5>2 DEF EndsBefore
      <4> QED
        BY <4>2, <4>3, <4>4, <4>5
    <3>2. Enough' <=> Enough
      BY <1>2, <2>1 DEF Enough
    <3> QED
      BY <1>2, <2>1, <2>4, <3>1, <3>2 DEF PutOff
  <2> QED
    BY <1>9, <1>12, <2>1, <2>2, <2>3, <2>4 DEF PlannedInv, SparkInv
<1> QED
  BY <1>13, <1>14

\* A tooth that finds the coil and its timers at rest: it may change anything
\* about the schedule.
LEMMA ToothAtRest ==
  ASSUME PlainIgnition, IgnTypes, IgnTypes', AtRest', OnTooth, ~Pending
  PROVE  PlannedInv'
<1>1. /\ pc' = "spark" /\ toothIn' \in Interval /\ tooth' \in 0 .. Teeth - 1
      /\ UNCHANGED <<dwellStartTimer, sparkPhase, coil>>
      /\ FromQueue \/ UNCHANGED scheduling
  BY DEF OnTooth, ToothPasses, IgnTypes, FromQueue
<1>2. ~coil /\ dwellStartTimer.in = Off /\ scheduling.in = Off
  BY DEF Pending
<1>3. FromQueue => ByAngle'
  <2>1. SUFFICES ASSUME FromQueue PROVE ByAngle'
    OBVIOUS
  <2>2. sparkPhase \in Advance /\ sparkPhase \in 0 .. Cycle - 1
    BY <2>1, AnglesHere DEF IgnTypes, FromQueue
  <2>3. FromTooth(sparkPhase, tooth') \in 0 .. Cycle - 1
        /\ FromTooth(sparkPhase, tooth') < ToothWidth
    BY <1>1, <2>1, <2>2, ToothAngles DEF FromQueue
  <2>4. scheduling' = Timer(FromTooth(sparkPhase, tooth'), queuedSparks, FALSE)
    BY <2>1 DEF FromQueue, TakeFromQueue
  <2>5. scheduling'.in = FromTooth(sparkPhase, tooth') /\ ~scheduling'.overdwell
    BY <2>4 DEF Timer
  <2>6. PICK a \in Advance : a = sparkPhase
    BY <2>2
  <2>7. Ahead(a)' < ToothWidth /\ scheduling'.in = Ahead(a)'
    BY <2>3, <2>5, <2>6 DEF Ahead
  <2>8. scheduling'.in < toothIn'
    <3>1. /\ toothIn' \in Int /\ toothIn' >= ToothWidth /\ ToothWidth \in Nat \ {0}
          /\ Cycle \in Nat \ {0}
      BY <1>1, PlainIs
    <3> QED
      BY <2>3, <2>5, <3>1
  <2> QED
    BY <1>1, <1>2, <2>5, <2>7, <2>8 DEF ByAngle
<1> QED
  BY <1>1, <1>2, <1>3 DEF PlannedInv, CoilInv, PlanInv, SparkInv

\* Nothing to plan on this tooth.
LEMMA SkipToothKeeps ==
  ASSUME PlannedInv, SkipTooth
  PROVE  PlannedInv'
<1>1. /\ pc = "spark" /\ pc' = "idle"
      /\ UNCHANGED <<tooth, toothIn, plan, dwellStartTimer, scheduling, queued, sparkPhase,
                     queuedSparks, coil, actualDwell, dwellAngle, sparkDwell, isReady,
                     advance, dwell, rpmKnown>>
  BY DEF SkipTooth, timerVars, queueVars, eventVars, stateVars
<1>2. IgnTypes'
  BY <1>1 DEF PlannedInv, IgnTypes
<1>3. AtRest' /\ CoilInv' /\ PlanInv'
  BY <1>1 DEF PlannedInv, AtRest, CoilInv, PlanInv, Ahead
<1>4. ByAngle => ByAngle'
  BY <1>1 DEF ByAngle, Ahead
<1>5. ByProtection => ByProtection'
  BY <1>1 DEF ByProtection, Ahead, EndsBefore, Later
<1>6. PutOff => PutOff'
  BY <1>1 DEF PutOff, Ahead, EndsBefore, Later, Enough
<1> QED
  BY <1>1, <1>2, <1>3, <1>4, <1>5, <1>6 DEF PlannedInv, SparkInv

\* prepareIgnitionSchedule(): a spark that was put off before the schedule
\* was built may be measured by another dwell now.
LEMMA BuildScheduleKeeps ==
  ASSUME PlainIgnition, PlannedInv, BuildSchedule
  PROVE  PlannedInv'
<1>1. IgnTypes /\ AtRest /\ CoilInv /\ SparkInv
  BY DEF PlannedInv
<1>2. /\ pc = "spark" /\ rpmKnown /\ ~isReady /\ isReady'
      /\ dwellAngle' = wrapAngle(advance - dwell) /\ sparkDwell' = dwell
      /\ UNCHANGED <<tooth, toothIn, pc, plan, dwellStartTimer, scheduling, queued, sparkPhase,
                     queuedSparks, coil, actualDwell, advance, dwell, rpmKnown>>
  BY DEF BuildSchedule, Prepare, handlerVars, timerVars, queueVars, stateVars
<1>3. dwellAngle' \in ChargeAngles /\ sparkDwell' \in Dwell
  BY <1>1, <1>2 DEF IgnTypes, ChargeAngles
<1>4. IgnTypes'
  BY <1>1, <1>2, <1>3 DEF IgnTypes
<1>5. ~coil /\ dwellStartTimer.in = Off
  BY <1>1, <1>2 DEF CoilInv
<1>6. AtRest' /\ CoilInv' /\ PlanInv'
  BY <1>2, <1>5 DEF AtRest, CoilInv, PlanInv
<1>7. ByAngle => ByAngle'
  BY <1>2 DEF ByAngle, Ahead
<1>8. ~ByProtection
  BY <1>2 DEF ByProtection
<1>9. PutOff => PutOff'
  <2>1. SUFFICES ASSUME PutOff PROVE PutOff'
    OBVIOUS
  <2>2. \A c \in ChargeAngles, e \in Dwell : EndsBefore(scheduling.in + e, c)
    BY <1>2, <2>1 DEF PutOff
  <2>3. \A c \in ChargeAngles, e \in Dwell : EndsBefore(scheduling.in + e, c)'
    BY <1>2, <2>2 DEF EndsBefore, Later, Ahead
  <2>4. \A c \in ChargeAngles : /\ Ahead(c)' >= ToothWidth
                                /\ EndsBefore(scheduling.in, c)'
    BY <1>2, <2>1 DEF PutOff, EndsBefore, Later, Ahead
  <2> QED
    BY <1>2, <1>5, <2>1, <2>3, <2>4 DEF PutOff
<1> QED
  BY <1>2, <1>4, <1>6, <1>7, <1>8, <1>9 DEF PlannedInv, SparkInv

\* A spark of this tooth comes behind the start of charge of this tooth.
LEMMA SparkBehindCharge ==
  ASSUME PlainIgnition, IgnTypes, NEW a \in Advance, NEW c \in ChargeAngles,
         Ahead(a) < ToothWidth, Ahead(c) < ToothWidth
  PROVE  Ahead(c) < Ahead(a)
<1>1. tooth \in 0 .. Teeth - 1
  BY DEF IgnTypes
<1>2. PICK w \in 1 .. Cycle - 1 :
        /\ \A e, f \in Dwell : 2 * ToothWidth + w + e + f <= Cycle
        /\ Ahead(c) = IF w <= Ahead(a) THEN Ahead(a) - w ELSE Ahead(a) - w + Cycle
  BY <1>1, ChargeToSpark DEF Ahead
<1>3. /\ Cycle \in Nat \ {0} /\ ToothWidth \in Nat \ {0}
      /\ Ahead(a) \in 0 .. Cycle - 1 /\ Ahead(c) \in 0 .. Cycle - 1
  BY AnglesHere, PlainIs
<1>4. PICK d \in Dwell : TRUE
  BY SparkAssumption, Zenon
<1>5. d \in 1 .. LongAgo /\ LongAgo \in Nat \ {0}
  BY PlainIs
<1>6. 2 * ToothWidth + w + d + d <= Cycle
  BY <1>2, <1>4
<1> QED
  BY <1>2, <1>3, <1>5, <1>6

\* scheduleSparkEvent(), the start of charge: the coil is at rest, and a spark
\* that this tooth has taken from the queue comes later.
LEMMA PlanChargeKeeps ==
  ASSUME PlainIgnition, PlannedInv, NEW limitedSpark \in BOOLEAN, PlanCharge(limitedSpark)
  PROVE  PlannedInv'
<1> DEFINE y == scheduling.in
           in == FromTooth(dwellAngle, tooth)
<1>1. IgnTypes /\ AtRest /\ CoilInv /\ SparkInv
  BY DEF PlannedInv
<1>2. /\ pc = "spark" /\ pc' = "plan" /\ rpmKnown /\ isReady /\ InTooth(dwellAngle, tooth)
      /\ plan' = [limited |-> limitedSpark, sparkAngle |-> advance, chargeIn |-> in, dwellMs |-> dwell]
      /\ dwellStartTimer' = IF limitedSpark THEN dwellStartTimer
                            ELSE InsertTask(dwellStartTimer, Timer(in, ExtraSparks, FALSE))
      /\ UNCHANGED <<tooth, toothIn, scheduling, queued, sparkPhase, queuedSparks, coil,
                     actualDwell, dwellAngle, sparkDwell, isReady, advance, dwell, rpmKnown>>
  BY DEF PlanCharge, queueVars, eventVars, stateVars
<1>3. /\ Cycle \in Nat \ {0} /\ ToothWidth \in Nat \ {0} /\ ExtraSparks = 0
      /\ toothIn \in Int /\ toothIn >= ToothWidth /\ Off = -1
  BY <1>1, <1>2, PlainIs DEF IgnTypes, Off
<1>4. /\ dwellAngle \in ChargeAngles /\ in = Ahead(dwellAngle)
      /\ in \in 0 .. Cycle - 1 /\ in < ToothWidth
  BY <1>1, <1>2, AnglesHere DEF IgnTypes, Ahead
<1>5. ~coil /\ dwellStartTimer.in = Off /\ y \in Int /\ y >= Off
  BY <1>1, <1>2, <1>3, <1>4 DEF CoilInv, IgnTypes, SparkTimer
<1>6. y # Off => ByAngle
  <2>1. ~ByProtection
    BY <1>2, <1>3, <1>4 DEF ByProtection
  <2>2. ~PutOff
    BY <1>2, <1>3, <1>4 DEF PutOff
  <2> QED
    BY <1>1, <2>1, <2>2 DEF SparkInv
<1>7. y # Off => in < y /\ y < ToothWidth
  <2>1. SUFFICES ASSUME y # Off PROVE in < y /\ y < ToothWidth
    OBVIOUS
  <2>2. PICK a \in Advance : Ahead(a) < ToothWidth /\ y = Ahead(a)
    BY <1>2, <1>6, <2>1 DEF ByAngle
  <2>3. Ahead(dwellAngle) < Ahead(a)
    <3>1. PICK c \in ChargeAngles : c = dwellAngle
      BY <1>4
    <3>2. Ahead(c) = Ahead(dwellAngle)
      BY <3>1 DEF Ahead
    <3>3. Ahead(c) < Ahead(a)
      BY <1>1, <1>4, <2>2, <3>2, SparkBehindCharge
    <3> QED
      BY <3>2, <3>3
  <2> QED
    BY <1>4, <2>2, <2>3
<1>8. /\ dwellStartTimer' \in SparkTimer
      /\ dwellStartTimer'.in \in {Off, in}
      /\ limitedSpark => dwellStartTimer'.in = Off
  <2>1. CASE limitedSpark
    BY <1>1, <1>2, <1>5, <2>1 DEF IgnTypes
  <2>2. CASE ~limitedSpark
    <3>1. dwellStartTimer' = Timer(in, 0, FALSE)
      BY <1>2, <1>3, <1>5, <2>2 DEF InsertTask
    <3>2. in \in Int
      BY <1>4
    <3> HIDE DEF in
    <3>3. dwellStartTimer' \in SparkTimer /\ dwellStartTimer'.in = in
      BY <3>1, <3>2 DEF Timer, SparkTimer
    <3> QED
      BY <2>2, <3>3
  <2> QED
    BY <2>1, <2>2
<1>9. /\ plan'.limited = limitedSpark /\ plan'.sparkAngle = advance
      /\ plan'.chargeIn = in /\ plan'.dwellMs = dwell
  BY <1>2
<1> HIDE DEF in
<1>10. /\ dwellStartTimer'.in >= Off
       /\ dwellStartTimer'.in # Off => dwellStartTimer'.in < toothIn
  BY <1>3, <1>4, <1>8
<1>11. /\ pc = "spark" /\ pc' = "plan" /\ rpmKnown /\ isReady
       /\ UNCHANGED <<tooth, toothIn, scheduling, queued, sparkPhase, queuedSparks, coil,
                      actualDwell, dwellAngle, sparkDwell, isReady, advance, dwell, rpmKnown>>
  BY <1>2
<1>12. IgnTypes'
  BY <1>1, <1>8, <1>10, <1>11 DEF IgnTypes
<1>13. Ahead(dwellAngle)' = in
  BY <1>2, <1>4 DEF Ahead
<1>14. AtRest' /\ CoilInv' /\ PlanInv'
  <2>1. AtRest'
    BY <1>2 DEF AtRest
  <2>2. CoilInv'
    BY <1>5, <1>10, <1>11 DEF CoilInv
  <2>3. PlanInv'
    BY <1>1, <1>2, <1>4, <1>5, <1>7, <1>8, <1>9, <1>13 DEF PlanInv, IgnTypes
  <2> QED
    BY <2>1, <2>2, <2>3
<1>15. y # Off => ByAngle'
  <2>1. SUFFICES ASSUME y # Off PROVE ByAngle'
    OBVIOUS
  <2>2. dwellStartTimer'.in # Off => y - dwellStartTimer'.in < ToothWidth
    BY <1>3, <1>4, <1>5, <1>7, <1>8, <2>1
  <2>3. PICK a \in Advance : Ahead(a) < ToothWidth /\ y = Ahead(a)
    BY <1>2, <1>6, <2>1 DEF ByAngle
  <2>4. Ahead(a)' = Ahead(a)
    BY <1>2 DEF Ahead
  <2> QED
    BY <1>2, <1>5, <1>6, <2>1, <2>2, <2>3, <2>4 DEF ByAngle
<1> QED
  BY <1>2, <1>12, <1>14, <1>15 DEF PlannedInv, SparkInv

\* scheduleOrQueue() within the tooth: the spark comes behind the charge.
LEMMA PlanSparkNowKeeps ==
  ASSUME PlainIgnition, PlannedInv, PlanSparkNow
  PROVE  PlannedInv'
<1> DEFINE x == dwellStartTimer.in
           y == scheduling.in
           at == FromTooth(plan.sparkAngle, tooth)
<1>1. IgnTypes /\ AtRest /\ CoilInv /\ PlanInv /\ SparkInv
  BY DEF PlannedInv
<1>2. /\ pc = "plan" /\ pc' = "idle" /\ InTooth(plan.sparkAngle, tooth)
      /\ scheduling' = InsertTask(scheduling,
           Timer(at, IF plan.limited THEN 0 ELSE ExtraSparks, FALSE))
      /\ sparkPhase' = plan.sparkAngle
      /\ UNCHANGED <<tooth, toothIn, dwellStartTimer, queued, queuedSparks, coil, actualDwell,
                     dwellAngle, sparkDwell, isReady, advance, dwell, rpmKnown>>
  BY DEF PlanSparkNow, eventVars, stateVars
<1>3. /\ Cycle \in Nat \ {0} /\ ToothWidth \in Nat \ {0} /\ ExtraSparks = 0
      /\ toothIn \in Int /\ toothIn >= ToothWidth /\ Off = -1
  BY <1>1, <1>2, PlainIs DEF IgnTypes, Off
<1>4. /\ isReady /\ dwellAngle \in ChargeAngles /\ plan.sparkAngle \in Advance
      /\ Ahead(dwellAngle) < ToothWidth /\ plan.chargeIn = Ahead(dwellAngle)
      /\ Ahead(dwellAngle) \in 0 .. Cycle - 1
      /\ x \in {Off, plan.chargeIn} /\ (y # Off => plan.chargeIn < y)
      /\ coil => plan.chargeIn = 0 /\ actualDwell = 0
  BY <1>1, <1>2, AnglesHere DEF IgnTypes, PlanInv
<1>5. /\ at \in 0 .. Cycle - 1 /\ at < ToothWidth /\ at = Ahead(plan.sparkAngle)
  BY <1>1, <1>2, <1>4, AnglesHere DEF Ahead
<1>6. Ahead(dwellAngle) < at
  <2>1. PICK c \in ChargeAngles, a \in Advance : c = dwellAngle /\ a = plan.sparkAngle
    BY <1>4
  <2>2. Ahead(c) = Ahead(dwellAngle) /\ Ahead(a) = at
    BY <1>5, <2>1 DEF Ahead
  <2> HIDE DEF at
  <2> QED
    BY <1>1, <1>4, <1>5, <2>2, SparkBehindCharge
<1>7. x \in Int /\ y \in Int /\ actualDwell \in Int /\ rpmKnown
  BY <1>1, <1>2 DEF IgnTypes, SparkTimer, AtRest
<1>8. CASE y = Off
  <2>1. scheduling' = Timer(at, 0, FALSE)
    BY <1>2, <1>3, <1>8 DEF InsertTask
  <2> HIDE DEF at
  <2>2. scheduling' \in SparkTimer /\ scheduling'.in = at /\ ~scheduling'.overdwell
    BY <1>3, <1>5, <2>1 DEF Timer, SparkTimer
  <2>3. scheduling'.in >= Off /\ scheduling'.in # Off /\ scheduling'.in < toothIn
    BY <1>3, <1>5, <2>2
  <2>4. x # Off => x < scheduling'.in /\ scheduling'.in - x < ToothWidth
    BY <1>3, <1>4, <1>5, <1>6, <1>7, <2>2
  <2>5. IgnTypes'
    <3>1. pc' \in {"idle", "spark", "plan"} /\ pc' = "idle" /\ sparkPhase' \in Advance
      BY <1>2, <1>4
    <3> QED
      BY <1>1, <1>2, <2>2, <2>3, <3>1 DEF IgnTypes
  <2>6. AtRest' /\ CoilInv' /\ PlanInv'
    BY <1>1, <1>2, <1>4, <1>7, <2>3, <2>4 DEF AtRest, CoilInv, PlanInv
  <2>7. ByAngle'
    <3>1. PICK a \in Advance : a = plan.sparkAngle
      BY <1>4
    <3>2. Ahead(a)' < ToothWidth
      BY <1>2, <1>5, <3>1 DEF Ahead
    <3>3. coil => actualDwell + scheduling'.in < Protection + ToothWidth
      BY <1>3, <1>4, <1>5, <1>7, <2>2, ProtectionIs
    <3> QED
      BY <1>2, <2>2, <2>3, <2>4, <3>2, <3>3 DEF ByAngle
  <2> QED
    BY <2>5, <2>6, <2>7 DEF PlannedInv, SparkInv
<1>9. CASE y # Off
  <2>1. scheduling' = scheduling
    BY <1>2, <1>9 DEF InsertTask
  <2>2. ByAngle
    BY <1>1, <1>2, <1>9 DEF SparkInv, ByProtection, PutOff
  <2>3. IgnTypes'
    <3>1. pc' \in {"idle", "spark", "plan"} /\ pc' = "idle" /\ sparkPhase' \in Advance
      BY <1>2, <1>4
    <3> QED
      BY <1>1, <1>2, <2>1, <3>1 DEF IgnTypes
  <2>4. x # Off => x < y
    BY <1>3, <1>4, <1>7, <1>9
  <2>5. AtRest' /\ CoilInv' /\ PlanInv'
    BY <1>1, <1>2, <1>4, <1>7, <1>9, <2>1, <2>4 DEF AtRest, CoilInv, PlanInv
  <2>6. ByAngle'
    BY <1>2, <2>1, <2>2 DEF ByAngle, Ahead
  <2> QED
    BY <2>3, <2>5, <2>6 DEF PlannedInv, SparkInv
<1> QED
  BY <1>8, <1>9

\* scheduleOrQueue() for a later tooth: the protection runs out before this
\* tooth comes again.
LEMMA QueueSparkKeeps ==
  ASSUME PlainIgnition, PlannedInv, QueueSpark
  PROVE  PlannedInv'
<1> DEFINE x == dwellStartTimer.in
           y == scheduling.in
           over == (3 * plan.dwellMs) \div 2
<1>1. IgnTypes /\ AtRest /\ CoilInv /\ PlanInv /\ SparkInv
  BY DEF PlannedInv
<1>2. /\ pc = "plan" /\ pc' = "idle" /\ queued' = TRUE
      /\ scheduling' = IF plan.limited THEN scheduling ELSE OverdwellTimer
      /\ sparkPhase' = plan.sparkAngle
      /\ queuedSparks' = IF plan.limited THEN 0 ELSE ExtraSparks
      /\ UNCHANGED <<tooth, toothIn, dwellStartTimer, coil, actualDwell,
                     dwellAngle, sparkDwell, isReady, advance, dwell, rpmKnown>>
  BY DEF QueueSpark, eventVars, stateVars
<1>3. /\ Cycle \in Nat \ {0} /\ ToothWidth \in Nat \ {0} /\ ExtraSparks = 0
      /\ toothIn \in Int /\ toothIn >= ToothWidth /\ Off = -1
  BY <1>1, <1>2, PlainIs DEF IgnTypes, Off
<1>4. /\ isReady /\ dwellAngle \in ChargeAngles /\ plan.sparkAngle \in Advance
      /\ Ahead(dwellAngle) < ToothWidth /\ plan.chargeIn = Ahead(dwellAngle)
      /\ Ahead(dwellAngle) \in 0 .. Cycle - 1
      /\ x \in {Off, plan.chargeIn} /\ (y # Off => plan.chargeIn < y)
      /\ coil => plan.chargeIn = 0 /\ actualDwell = 0
      /\ plan.limited => x = Off /\ ~coil
      /\ plan.dwellMs \in Dwell
  BY <1>1, <1>2, AnglesHere DEF IgnTypes, PlanInv
<1>5. x \in Int /\ y \in Int /\ actualDwell \in Int /\ rpmKnown
  BY <1>1, <1>2 DEF IgnTypes, SparkTimer, AtRest
<1>6. /\ plan.dwellMs \in Nat /\ plan.dwellMs >= 1 /\ 2 * plan.dwellMs + 2 * ToothWidth < Cycle
      /\ Protection \in Nat /\ over \in Nat /\ over <= Protection
      /\ over > 0 /\ over <= 2 * plan.dwellMs
  <2>1. plan.dwellMs \in 1 .. LongAgo /\ LongAgo \in Nat /\ 2 * plan.dwellMs + 2 * ToothWidth < Cycle
    BY <1>4, PlainIs
  <2>2. Protection \in Nat /\ over \in Nat /\ over <= Protection
    BY <1>4, ProtectionIs
  <2>3. plan.dwellMs \in Nat /\ plan.dwellMs >= 1
    BY <2>1
  <2>4. over > 0 /\ over <= 2 * plan.dwellMs
    BY <2>3
  <2> QED
    BY <2>1, <2>2, <2>3, <2>4
<1>7. CASE y = Off /\ ~plan.limited
  <2>1. scheduling' = Timer(plan.chargeIn + over, 0, TRUE)
    BY <1>2, <1>3, <1>7 DEF InsertTask, OverdwellTimer
  <2> HIDE DEF over
  <2>2. scheduling' \in SparkTimer /\ scheduling'.in = plan.chargeIn + over /\ scheduling'.overdwell
    <3>1. plan.chargeIn + over \in Int
      BY <1>4, <1>6
    <3> QED
      BY <2>1, <3>1 DEF Timer, SparkTimer
  <2>3. scheduling'.in >= Off /\ scheduling'.in # Off
    BY <1>3, <1>4, <1>6, <2>2
  <2>4. x # Off => x < scheduling'.in /\ scheduling'.in - x <= Protection
    BY <1>3, <1>4, <1>5, <1>6, <2>2
  <2>5. IgnTypes'
    <3>1. /\ pc' \in {"idle", "spark", "plan"} /\ pc' = "idle" /\ sparkPhase' \in Advance
          /\ queuedSparks' = 0
      BY <1>2, <1>3, <1>4
    <3> QED
      BY <1>1, <1>2, <2>2, <2>3, <3>1 DEF IgnTypes
  <2>6. AtRest' /\ CoilInv' /\ PlanInv'
    BY <1>1, <1>2, <1>4, <1>5, <2>3, <2>4 DEF AtRest, CoilInv, PlanInv
  <2>7. ByProtection'
    <3>1. Ahead(dwellAngle)' = plan.chargeIn
      BY <1>2, <1>4 DEF Ahead
    <3>2. Later(dwellAngle)' = plan.chargeIn + Cycle
      BY <1>4, <3>1 DEF Later
    <3>3. scheduling'.in + 2 * ToothWidth <= toothIn + (plan.chargeIn + Cycle)
      BY <1>3, <1>4, <1>6, <2>2
    <3>4. EndsBefore(scheduling.in, dwellAngle)'
      BY <1>2, <3>2, <3>3 DEF EndsBefore
    <3>5. coil => actualDwell + scheduling'.in <= Protection
      BY <1>4, <1>5, <1>6, <2>2
    <3> QED
      BY <1>2, <1>4, <2>2, <2>4, <3>4, <3>5 DEF ByProtection
  <2> QED
    BY <2>5, <2>6, <2>7 DEF PlannedInv, SparkInv
<1>8. CASE y # Off \/ plan.limited
  <2>1. scheduling' = scheduling
    BY <1>2, <1>8 DEF InsertTask, OverdwellTimer
  <2>2. y # Off => ByAngle
    BY <1>1, <1>2 DEF SparkInv, ByProtection, PutOff
  <2>3. IgnTypes'
    <3>1. /\ pc' \in {"idle", "spark", "plan"} /\ pc' = "idle" /\ sparkPhase' \in Advance
          /\ queuedSparks' = 0
      BY <1>2, <1>3, <1>4
    <3> QED
      BY <1>1, <1>2, <2>1, <3>1 DEF IgnTypes
  <2>4. x # Off => y # Off /\ x < y
    BY <1>3, <1>4, <1>5, <1>8
  <2>5. coil => y # Off
    BY <1>4, <1>8
  <2>6. AtRest' /\ CoilInv' /\ PlanInv'
    BY <1>1, <1>2, <1>4, <1>5, <2>1, <2>4, <2>5 DEF AtRest, CoilInv, PlanInv
  <2>7. y # Off => ByAngle'
    BY <1>2, <2>1, <2>2 DEF ByAngle, Ahead
  <2> QED
    BY <2>1, <2>3, <2>6, <2>7 DEF PlannedInv, SparkInv
<1> QED
  BY <1>7, <1>8

-------------------------------------------------------------------------------
\* turnSparkPinHigh(): the coil was at rest and its spark is still to come.
LEMMA TurnSparkPinHighKeeps ==
  ASSUME PlainIgnition, PlannedInv, TurnSparkPinHigh
  PROVE  PlannedInv'
<1> DEFINE x == dwellStartTimer.in
           y == scheduling.in
<1>1. IgnTypes /\ AtRest /\ CoilInv /\ PlanInv /\ SparkInv
  BY DEF PlannedInv
<1>2. /\ x = 0 /\ coil' = TRUE /\ actualDwell' = 0 /\ dwellStartTimer' = NoTimer
      /\ UNCHANGED <<tooth, toothIn, pc, plan, scheduling, queued, sparkPhase, queuedSparks,
                     dwellAngle, sparkDwell, isReady, advance, dwell, rpmKnown>>
  BY DEF TurnSparkPinHigh, handlerVars, queueVars, eventVars, stateVars
<1>3. Off = -1 /\ y \in Int /\ LongAgo \in Nat /\ ToothWidth \in Nat \ {0} /\ Protection \in Nat
  BY <1>1, PlainIs, ProtectionIs DEF IgnTypes, SparkTimer, Off
<1>4. dwellStartTimer'.in = Off /\ dwellStartTimer' \in SparkTimer
  BY <1>2, <1>3 DEF NoTimer, SparkTimer
<1>5. x # Off /\ rpmKnown /\ pc # "spark" /\ isReady
  BY <1>1, <1>2, <1>3 DEF CoilInv, AtRest
<1>6. IgnTypes'
  <2>1. actualDwell' \in 0 .. LongAgo /\ dwellStartTimer'.in >= Off
    BY <1>2, <1>3, <1>4
  <2> QED
    BY <1>1, <1>2, <1>4, <2>1 DEF IgnTypes
<1>7. AtRest'
  BY <1>2, <1>5 DEF AtRest
<1>8. CoilInv'
  <2>1. y # Off \/ pc = "plan"
    BY <1>1, <1>5 DEF CoilInv, IgnTypes
  <2> QED
    BY <1>2, <1>4, <1>5, <2>1 DEF CoilInv
<1>9. PlanInv'
  <2>1. SUFFICES ASSUME pc = "plan" PROVE PlanInv'
    BY <1>2 DEF PlanInv
  <2>2. x = plan.chargeIn /\ ~plan.limited
    BY <1>1, <1>5, <2>1 DEF PlanInv
  <2>3. Ahead(dwellAngle)' = Ahead(dwellAngle)
    BY <1>2 DEF Ahead
  <2> QED
    BY <1>1, <1>2, <1>4, <2>1, <2>2, <2>3 DEF PlanInv
<1>10. SparkInv'
  <2>1. SUFFICES ASSUME y # Off PROVE ByAngle' \/ ByProtection'
    BY <1>2 DEF SparkInv
  <2>2. CASE ByAngle
    <3>1. actualDwell' + scheduling'.in < Protection + ToothWidth
      BY <1>2, <1>3, <1>5, <2>2 DEF ByAngle
    <3> QED
      BY <1>2, <1>4, <2>2, <3>1 DEF ByAngle, Ahead
  <2>3. CASE ByProtection
    <3>1. actualDwell' + scheduling'.in <= Protection
      BY <1>2, <1>3, <1>5, <2>3 DEF ByProtection
    <3>2. EndsBefore(scheduling.in, dwellAngle)' /\ Ahead(dwellAngle)' = Ahead(dwellAngle)
      BY <1>2, <2>3 DEF ByProtection, EndsBefore, Later, Ahead
    <3> QED
      BY <1>2, <1>4, <2>3, <3>1, <3>2 DEF ByProtection
  <2> QED
    BY <1>1, <1>5, <2>1, <2>2, <2>3 DEF SparkInv, PutOff
<1> QED
  BY <1>6, <1>7, <1>8, <1>9, <1>10 DEF PlannedInv

\* When the spark's timer runs out no charge is pending and the tooth handler
\* is not between the two halves of scheduleSparkEvent().
LEMMA SparkDue ==
  ASSUME PlainIgnition, PlannedInv, scheduling.in = 0
  PROVE  /\ pc # "plan" /\ dwellStartTimer.in = Off /\ rpmKnown
         /\ ByAngle \/ ByProtection \/ PutOff
<1>1. IgnTypes /\ AtRest /\ CoilInv /\ PlanInv /\ SparkInv
  BY DEF PlannedInv
<1>2. Off = -1 /\ dwellStartTimer.in \in Int /\ dwellStartTimer.in >= Off
      /\ pc \in {"idle", "spark", "plan"}
  BY <1>1 DEF IgnTypes, SparkTimer, Off
<1>3. pc # "plan"
  <2>1. SUFFICES ASSUME pc = "plan" PROVE FALSE
    OBVIOUS
  <2>2. plan.chargeIn = Ahead(dwellAngle) /\ plan.chargeIn < 0 /\ isReady
    BY <1>1, <1>2, <2>1 DEF PlanInv
  <2>3. Ahead(dwellAngle) \in 0 .. Cycle - 1 /\ Cycle \in Nat
    BY <1>1, <2>2, AnglesHere, PlainIs
  <2> QED
    BY <2>2, <2>3
<1>4. dwellStartTimer.in = Off
  BY <1>1, <1>2, <1>3 DEF CoilInv
<1> QED
  BY <1>1, <1>2, <1>3, <1>4 DEF AtRest, SparkInv

\* How long fireSparkAndPrepareNextSchedule() puts a spark off.
LEMMA ExtraIs ==
  ASSUME PlainIgnition, PlannedInv, scheduling.in = 0, Underdwell, NEW extra \in 1 .. LongAgo,
         5 * (actualDwell + extra - 1) < 4 * sparkDwell
  PROVE  sparkDwell \in Dwell /\ extra <= sparkDwell /\ actualDwell + extra <= Protection
         /\ sparkDwell \in Int
<1>1. actualDwell \in Nat /\ LongAgo \in Nat /\ sparkDwell \in Dwell \cup {0} /\ extra \in Int /\ extra >= 1
  <2>1. LongAgo \in Nat
    BY PlainIs
  <2> QED
    BY <2>1 DEF PlannedInv, IgnTypes
<1>2. 5 * actualDwell < 4 * sparkDwell
  BY DEF Underdwell
<1>3. sparkDwell \in Dwell
  BY <1>1, <1>2
<1>4. sparkDwell \in Nat /\ sparkDwell <= Protection /\ Protection \in Nat
  <2>1. sparkDwell \in 1 .. LongAgo
    BY <1>3, PlainIs
  <2>2. sparkDwell <= Protection /\ Protection \in Nat
    BY <1>3, ProtectionIs
  <2> QED
    BY <1>1, <2>1, <2>2
<1>5. actualDwell + extra <= sparkDwell
  BY <1>1, <1>4
<1> QED
  BY <1>1, <1>3, <1>4, <1>5

\* Too little dwell so far: even with a second delay the timer runs out before
\* the tooth of any start of charge.
LEMMA FireLaterKeeps ==
  ASSUME PlainIgnition, PlannedInv, FireLater
  PROVE  PlannedInv'
<1>1. IgnTypes /\ AtRest /\ CoilInv /\ PlanInv /\ SparkInv
  BY DEF PlannedInv
<1>2. PICK extra \in 1 .. LongAgo :
        /\ 5 * (actualDwell + extra) >= 4 * sparkDwell
        /\ 5 * (actualDwell + extra - 1) < 4 * sparkDwell
        /\ scheduling' = Timer(extra, 0, FALSE)
  BY DEF FireLater
<1>3. /\ scheduling.in = 0 /\ Underdwell
      /\ UNCHANGED <<tooth, toothIn, pc, plan, dwellStartTimer, queued, sparkPhase, queuedSparks,
                     coil, actualDwell, dwellAngle, sparkDwell, isReady, advance, dwell, rpmKnown>>
  BY DEF FireLater, handlerVars, queueVars, eventVars, stateVars
<1>4. /\ pc # "plan" /\ dwellStartTimer.in = Off /\ rpmKnown
      /\ ByAngle \/ PutOff
  BY <1>3, SparkDue DEF Underdwell, ByProtection
<1>5. /\ sparkDwell \in Dwell /\ extra <= sparkDwell /\ actualDwell + extra <= Protection
      /\ sparkDwell \in Int
  BY <1>2, <1>3, ExtraIs
<1>6. /\ Off = -1 /\ extra \in Int /\ extra >= 1 /\ actualDwell \in Int
      /\ Cycle \in Nat \ {0} /\ ToothWidth \in Nat \ {0} /\ toothIn \in Int /\ toothIn >= Off
      /\ tooth \in 0 .. Teeth - 1
  BY <1>1, PlainIs DEF IgnTypes, Off
<1>7. /\ scheduling' \in SparkTimer /\ scheduling'.in = extra /\ ~scheduling'.overdwell
      /\ scheduling'.in >= Off /\ scheduling'.in # Off
  <2>1. scheduling' \in SparkTimer /\ scheduling'.in = extra /\ ~scheduling'.overdwell
    BY <1>2, <1>6 DEF Timer, SparkTimer
  <2> QED
    BY <1>6, <2>1
<1>8. IgnTypes'
  BY <1>1, <1>3, <1>7 DEF IgnTypes
<1>9. AtRest' /\ CoilInv' /\ PlanInv'
  <2>1. Ahead(dwellAngle)' = Ahead(dwellAngle)
    BY <1>3 DEF Ahead
  <2> QED
    BY <1>1, <1>3, <1>4, <1>7, <2>1 DEF AtRest, CoilInv, PlanInv
<1>10. Enough'
  <2>1. actualDwell' + scheduling'.in = actualDwell + extra /\ sparkDwell' = sparkDwell
    BY <1>3, <1>7
  <2> QED
    BY <1>2, <2>1 DEF Enough
<1>11. \A c \in ChargeAngles : Ahead(c)' = Ahead(c) /\ Later(c)' = Later(c)
  BY <1>3 DEF Ahead, Later
<1>12. CASE ByAngle
  <2>1. ASSUME NEW c \in ChargeAngles
        PROVE  /\ pc = "spark" => Ahead(c) >= ToothWidth
               /\ EndsBefore(extra, c)
               /\ \A e \in Dwell : EndsBefore(extra + e, c)
    <3>1. PICK a \in Advance : /\ Ahead(a) < ToothWidth
                               /\ pc # "idle" => scheduling.in = Ahead(a)
      BY <1>12 DEF ByAngle
    <3>2. PICK w \in 1 .. Cycle - 1 :
            /\ \A e, f \in Dwell : 2 * ToothWidth + w + e + f <= Cycle
            /\ Ahead(c) = IF w <= Ahead(a) THEN Ahead(a) - w ELSE Ahead(a) - w + Cycle
      BY <1>6, ChargeToSpark DEF Ahead
    <3>3. Ahead(a) \in 0 .. Cycle - 1 /\ Ahead(c) \in 0 .. Cycle - 1
      BY <1>1, AnglesHere
    <3>4. \A e \in Dwell : /\ e \in Int /\ e >= 1
                           /\ 2 * ToothWidth + w + e + extra <= Cycle
      <4>1. ASSUME NEW e \in Dwell
            PROVE  e \in Int /\ e >= 1 /\ 2 * ToothWidth + w + e + extra <= Cycle
        <5>1. 2 * ToothWidth + w + e + sparkDwell <= Cycle
          BY <1>5, <3>2
        <5>2. e \in Int /\ e >= 1
          <6>1. e \in 1 .. LongAgo /\ LongAgo \in Nat
            BY PlainIs
          <6> QED
            BY <6>1
        <5> QED
          BY <1>5, <1>6, <5>1, <5>2
      <4> QED
        BY <4>1
    <3>5. 2 * ToothWidth + w + 1 <= Cycle
      BY <1>5, <1>6, <3>2, <3>4
    <3>6. Later(c) = Ahead(a) - w + Cycle
      BY <1>6, <3>1, <3>2, <3>3, <3>5 DEF Later
    <3>7. toothIn # Off => toothIn >= 1
      BY <1>3, <1>6, <1>12 DEF ByAngle
    <3>8. pc = "spark" => Ahead(c) >= ToothWidth
      BY <1>3, <1>6, <3>1, <3>2, <3>5
    <3>9. \A e \in Dwell : EndsBefore(extra + e, c)
      BY <1>6, <3>2, <3>3, <3>4, <3>6, <3>7 DEF EndsBefore
    <3>10. EndsBefore(extra, c)
      <4>1. EndsBefore(extra + sparkDwell, c) /\ sparkDwell >= 1
        BY <1>5, <3>4, <3>9
      <4> QED
        BY <1>5, <1>6, <3>2, <3>3, <3>6, <4>1 DEF EndsBefore
    <3> QED
      BY <3>8, <3>9, <3>10
  <2>2. PutOff'
    <3>1. \A c \in ChargeAngles :
            /\ pc' = "spark" => Ahead(c)' >= ToothWidth
            /\ EndsBefore(scheduling.in, c)'
            /\ \A e \in Dwell : EndsBefore(scheduling.in + e, c)'
      BY <1>3, <1>7, <1>11, <2>1 DEF EndsBefore
    <3> QED
      BY <1>3, <1>4, <1>5, <1>7, <1>10, <3>1 DEF PutOff
  <2> QED
    BY <1>7, <1>8, <1>9, <2>2 DEF PlannedInv, SparkInv
<1>13. CASE PutOff
  <2>1. ~Enough /\ isReady
    <3>1. actualDwell + scheduling.in = actualDwell
      BY <1>3, <1>6
    <3>2. ~Enough
      BY <1>3, <1>5, <1>6, <3>1 DEF Enough, Underdwell
    <3> QED
      BY <1>13, <3>2 DEF PutOff
  <2>2. ASSUME NEW c \in ChargeAngles
        PROVE  /\ pc = "spark" => Ahead(c) >= ToothWidth
               /\ EndsBefore(extra, c)
    <3>1. EndsBefore(0 + sparkDwell, c) /\ (pc = "spark" => Ahead(c) >= ToothWidth)
      BY <1>3, <1>5, <1>13, <2>1 DEF PutOff
    <3>2. Later(c) \in Int
      <4>1. c \in 0 .. Cycle - 1
        BY <1>1, AnglesHere
      <4>2. Later(c) \in ToothWidth .. Cycle + ToothWidth - 1
        BY <1>1, <4>1, AnglesHere
      <4> QED
        BY <1>6, <4>2
    <3>3. EndsBefore(extra, c)
      BY <1>5, <1>6, <3>1, <3>2 DEF EndsBefore
    <3> QED
      BY <3>1, <3>3
  <2>3. PutOff'
    <3>1. \A c \in ChargeAngles :
            /\ pc' = "spark" => Ahead(c)' >= ToothWidth
            /\ EndsBefore(scheduling.in, c)'
      BY <1>3, <1>7, <1>11, <2>2 DEF EndsBefore
    <3> QED
      BY <1>3, <1>4, <1>5, <1>7, <1>10, <2>1, <3>1 DEF PutOff
  <2> QED
    BY <1>7, <1>8, <1>9, <2>3 DEF PlannedInv, SparkInv
<1> QED
  BY <1>4, <1>12, <1>13

\* The spark: nothing is pending after it.
LEMMA FireSparkKeeps ==
  ASSUME PlainIgnition, PlannedInv, FireSpark
  PROVE  PlannedInv'
<1>1. IgnTypes /\ AtRest /\ CoilInv /\ PlanInv /\ SparkInv
  BY DEF PlannedInv
<1>2. /\ scheduling.in = 0 /\ coil' = FALSE
      /\ UNCHANGED <<tooth, toothIn, pc, plan, queued, sparkPhase, queuedSparks, actualDwell,
                     isReady, advance, dwell, rpmKnown>>
  BY DEF FireSpark, handlerVars, queueVars, stateVars
<1>3. pc # "plan" /\ dwellStartTimer.in = Off /\ rpmKnown
  BY <1>2, SparkDue
<1>4. scheduling.sparks = 0
  BY <1>1 DEF IgnTypes, SparkTimer
<1>5. /\ scheduling' = NoTimer /\ dwellStartTimer' = dwellStartTimer
      /\ dwellAngle' = wrapAngle(advance - dwell) /\ sparkDwell' = dwell
  <2>1. ~(scheduling.sparks > 0)
    BY <1>4
  <2> QED
    BY <1>3, <2>1 DEF FireSpark, Prepare
<1>6. scheduling' \in SparkTimer /\ scheduling'.in = Off /\ scheduling'.in >= Off
  BY <1>5 DEF NoTimer, SparkTimer, Off
<1>7. dwellAngle' \in ChargeAngles /\ sparkDwell' \in Dwell
  BY <1>1, <1>5 DEF IgnTypes, ChargeAngles
<1>8. IgnTypes'
  BY <1>1, <1>2, <1>5, <1>6, <1>7 DEF IgnTypes
<1>9. AtRest' /\ CoilInv' /\ PlanInv' /\ SparkInv'
  BY <1>2, <1>3, <1>5, <1>6 DEF AtRest, CoilInv, PlanInv, SparkInv
<1> QED
  BY <1>8, <1>9 DEF PlannedInv

\* A tick moves all timers alike.
LEMMA TickKeeps ==
  ASSUME PlainIgnition, PlannedInv, Tick
  PROVE  PlannedInv'
<1> DEFINE x == dwellStartTimer.in
           y == scheduling.in
<1>1. IgnTypes /\ AtRest /\ CoilInv /\ PlanInv /\ SparkInv
  BY DEF PlannedInv
<1>2. /\ pc = "idle" /\ toothIn # 0 /\ x # 0 /\ y # 0 /\ toothIn' = Down(toothIn)
      /\ dwellStartTimer' = [dwellStartTimer EXCEPT !.in = Down(@)]
      /\ scheduling' = [scheduling EXCEPT !.in = Down(@)]
      /\ actualDwell' = IF actualDwell < LongAgo THEN actualDwell + 1 ELSE LongAgo
      /\ UNCHANGED <<tooth, pc, plan, queued, sparkPhase, queuedSparks, coil,
                     dwellAngle, sparkDwell, isReady, advance, dwell, rpmKnown>>
  BY DEF Tick, Due, queueVars, eventVars, stateVars
<1>3. /\ Off = -1 /\ x \in Int /\ y \in Int /\ x >= -1 /\ y >= -1
      /\ toothIn \in Int /\ toothIn >= -1 /\ LongAgo \in Nat \ {0}
      /\ actualDwell \in Int /\ 0 <= actualDwell /\ actualDwell <= LongAgo
      /\ ToothWidth \in Nat \ {0} /\ Protection \in Nat
      /\ sparkDwell \in Int /\ sparkDwell <= LongAgo
  <2>1. LongAgo \in Nat \ {0} /\ ToothWidth \in Nat \ {0} /\ Protection \in Nat
        /\ \A d \in Dwell : d \in 1 .. LongAgo
    BY PlainIs, ProtectionIs
  <2>2. sparkDwell \in Dwell \cup {0} /\ actualDwell \in 0 .. LongAgo
    BY <1>1 DEF IgnTypes
  <2>3. sparkDwell \in Int /\ sparkDwell <= LongAgo
    BY <2>1, <2>2
  <2>4. actualDwell \in Int /\ 0 <= actualDwell /\ actualDwell <= LongAgo
    BY <2>1, <2>2
  <2> QED
    BY <1>1, <2>1, <2>3, <2>4 DEF IgnTypes, SparkTimer, Off
<1>4. /\ dwellStartTimer' \in SparkTimer /\ dwellStartTimer'.in = Down(x)
  <2>1. dwellStartTimer \in SparkTimer /\ Down(x) \in Int
    BY <1>1, <1>3 DEF IgnTypes, Down
  <2>2. dwellStartTimer' = [dwellStartTimer EXCEPT !.in = Down(x)]
    BY <1>2
  <2> QED
    BY <2>1, <2>2 DEF SparkTimer
<1>5. /\ scheduling' \in SparkTimer /\ scheduling'.in = Down(y)
      /\ scheduling'.overdwell = scheduling.overdwell
  <2>1. scheduling \in SparkTimer /\ Down(y) \in Int
    BY <1>1, <1>3 DEF IgnTypes, Down
  <2>2. scheduling' = [scheduling EXCEPT !.in = Down(y)]
    BY <1>2
  <2> QED
    BY <2>1, <2>2 DEF SparkTimer
<1>6. /\ x = Off => dwellStartTimer'.in = Off
      /\ x # Off => x >= 1 /\ dwellStartTimer'.in = x - 1 /\ dwellStartTimer'.in # Off
      /\ dwellStartTimer'.in >= Off
      /\ y = Off => scheduling'.in = Off
      /\ y # Off => y >= 1 /\ scheduling'.in = y - 1 /\ scheduling'.in # Off
      /\ scheduling'.in >= Off
      /\ toothIn = Off => toothIn' = Off
      /\ toothIn # Off => toothIn >= 1 /\ toothIn' = toothIn - 1 /\ toothIn' # Off
      /\ toothIn' \in Int /\ toothIn' >= Off
      /\ actualDwell' \in 0 .. LongAgo
      /\ actualDwell' <= actualDwell + 1
      /\ actualDwell' = actualDwell + 1 \/ actualDwell' = LongAgo
  BY <1>2, <1>3, <1>4, <1>5 DEF Down
<1>7. IgnTypes'
  BY <1>1, <1>2, <1>4, <1>5, <1>6 DEF IgnTypes
<1>8. AtRest'
  BY <1>1, <1>2, <1>6 DEF AtRest
<1>9. CoilInv'
  <2>1. coil => isReady /\ y # Off
    BY <1>1, <1>2 DEF CoilInv
  <2>2. x # Off => /\ isReady /\ ~coil /\ y # Off /\ x < y
                   /\ toothIn # Off => x < toothIn
    BY <1>1, <1>2 DEF CoilInv
  <2>3. x # Off => /\ dwellStartTimer'.in < scheduling'.in
                   /\ toothIn' # Off => dwellStartTimer'.in < toothIn'
    BY <1>3, <1>6, <2>2
  <2> QED
    BY <1>2, <1>6, <2>1, <2>2, <2>3 DEF CoilInv
<1>10. PlanInv'
  BY <1>2 DEF PlanInv
<1>11. ASSUME NEW c \in 0 .. Cycle - 1, NEW t \in Int, EndsBefore(t, c)
       PROVE  EndsBefore(t - 1, c)'
  <2>1. Later(c) \in Int
    <3>1. Later(c) \in ToothWidth .. Cycle + ToothWidth - 1
      BY <1>1, AnglesHere
    <3>2. Cycle \in Nat
      BY PlainIs
    <3> QED
      BY <1>3, <3>1, <3>2
  <2>2. Later(c)' = Later(c)
    BY <1>2 DEF Later, Ahead
  <2> QED
    BY <1>3, <1>6, <1>11, <2>1, <2>2 DEF EndsBefore
<1>12. y # Off /\ ByAngle => ByAngle'
  <2>1. SUFFICES ASSUME y # Off, ByAngle PROVE ByAngle'
    OBVIOUS
  <2>2. \E a \in Advance : Ahead(a)' < ToothWidth
    BY <1>2, <2>1 DEF ByAngle, Ahead
  <2>3. /\ toothIn' # Off => scheduling'.in < toothIn'
        /\ coil => actualDwell' + scheduling'.in < Protection + ToothWidth
        /\ dwellStartTimer'.in # Off => scheduling'.in - dwellStartTimer'.in < ToothWidth
    <3>1. toothIn' # Off => scheduling'.in < toothIn'
      BY <1>3, <1>6, <2>1 DEF ByAngle
    <3>2. coil => actualDwell' + scheduling'.in < Protection + ToothWidth
      BY <1>3, <1>6, <2>1 DEF ByAngle
    <3>3. dwellStartTimer'.in # Off => scheduling'.in - dwellStartTimer'.in < ToothWidth
      BY <1>3, <1>6, <2>1 DEF ByAngle
    <3> QED
      BY <3>1, <3>2, <3>3
  <2> QED
    BY <1>2, <1>5, <2>1, <2>2, <2>3 DEF ByAngle
<1>13. y # Off /\ ByProtection => ByProtection'
  <2>1. SUFFICES ASSUME y # Off, ByProtection PROVE ByProtection'
    OBVIOUS
  <2>2. EndsBefore(scheduling.in, dwellAngle)'
    <3>1. dwellAngle \in 0 .. Cycle - 1
      BY <1>1, <2>1, AnglesHere DEF ByProtection
    <3>2. PICK c \in 0 .. Cycle - 1 : c = dwellAngle
      BY <3>1
    <3>3. PICK t \in Int : t = y
      BY <1>3
    <3>4. EndsBefore(t, c)
      BY <2>1, <3>2, <3>3 DEF ByProtection
    <3>5. EndsBefore(t - 1, c)'
      BY <1>11, <3>4
    <3>6. scheduling'.in = t - 1 /\ dwellAngle' = c
      BY <1>2, <1>6, <2>1, <3>2, <3>3
    <3> QED
      BY <3>5, <3>6 DEF EndsBefore, Later, Ahead
  <2>3. coil => actualDwell' + scheduling'.in <= Protection
    BY <1>3, <1>6, <2>1 DEF ByProtection
  <2>4. dwellStartTimer'.in # Off => scheduling'.in - dwellStartTimer'.in <= Protection
    BY <1>3, <1>6, <2>1 DEF ByProtection
  <2> QED
    BY <1>2, <1>5, <2>1, <2>2, <2>3, <2>4 DEF ByProtection
<1>14. y # Off /\ PutOff => PutOff'
  <2>1. SUFFICES ASSUME y # Off, PutOff PROVE PutOff'
    OBVIOUS
  <2>2. Enough => Enough'
    <3>1. scheduling'.in = y - 1 /\ y >= 1 /\ sparkDwell' = sparkDwell
      BY <1>2, <1>6, <2>1
    <3>2. CASE actualDwell' = actualDwell + 1
      BY <1>3, <3>1, <3>2 DEF Enough
    <3>3. CASE actualDwell' = LongAgo
      BY <1>3, <3>1, <3>3 DEF Enough
    <3> QED
      BY <1>6, <3>2, <3>3
  <2>3. \A c \in ChargeAngles : EndsBefore(scheduling.in, c)'
    <3>1. ASSUME NEW c \in ChargeAngles PROVE EndsBefore(scheduling.in, c)'
      <4>1. c \in 0 .. Cycle - 1
        BY <1>1, AnglesHere
      <4>2. PICK t \in Int : t = y
        BY <1>3
      <4>3. EndsBefore(t, c)
        BY <2>1, <4>2 DEF PutOff
      <4>4. EndsBefore(t - 1, c)'
        BY <1>11, <4>1, <4>3
      <4>5. scheduling'.in = t - 1
        BY <1>6, <2>1, <4>2
      <4> QED
        BY <4>4, <4>5 DEF EndsBefore
    <3> QED
      BY <3>1
  <2>4. ~(Enough /\ isReady) =>
          \A c \in ChargeAngles, e \in Dwell : EndsBefore(scheduling.in + e, c)'
    <3>1. ASSUME ~(Enough /\ isReady), NEW c \in ChargeAngles, NEW e \in Dwell
          PROVE  EndsBefore(scheduling.in + e, c)'
      <4>1. c \in 0 .. Cycle - 1 /\ e \in Int
        <5>1. c \in 0 .. Cycle - 1 /\ e \in 1 .. LongAgo
          BY PlainIs
        <5> QED
          BY <1>3, <5>1
      <4>2. PICK t \in Int : t = y + e
        BY <1>3, <4>1
      <4>3. EndsBefore(t, c)
        BY <2>1, <3>1, <4>2 DEF PutOff
      <4>4. EndsBefore(t - 1, c)'
        BY <1>11, <4>1, <4>3
      <4>5. scheduling'.in + e = t - 1
        BY <1>3, <1>6, <2>1, <4>1, <4>2
      <4> QED
        BY <4>4, <4>5 DEF EndsBefore
    <3> QED
      BY <3>1
  <2>5. coil => actualDwell' + scheduling'.in <= Protection
    BY <1>3, <1>6, <2>1 DEF PutOff
  <2> QED
    BY <1>2, <1>5, <1>6, <2>1, <2>2, <2>3, <2>4, <2>5 DEF PutOff
<1>15. SparkInv'
  BY <1>1, <1>6, <1>12, <1>13, <1>14 DEF SparkInv
<1> QED
  BY <1>7, <1>8, <1>9, <1>10, <1>15 DEF PlannedInv

\* Without teeth nothing bounds the timers any more.
LEMMA TriggerLostKeeps ==
  ASSUME PlannedInv, TriggerLost
  PROVE  PlannedInv'
<1>1. /\ pc = "idle" /\ toothIn > 0 /\ toothIn' = Off
      /\ UNCHANGED <<tooth, pc, plan, dwellStartTimer, scheduling, queued, sparkPhase,
                     queuedSparks, coil, actualDwell, dwellAngle, sparkDwell, isReady,
                     advance, dwell, rpmKnown>>
  BY DEF TriggerLost, timerVars, queueVars, eventVars, stateVars
<1>2. IgnTypes'
  <2>1. toothIn' \in Int /\ toothIn' >= Off
    BY <1>1 DEF Off
  <2> QED
    BY <1>1, <2>1 DEF PlannedInv, IgnTypes
<1>3. AtRest' /\ CoilInv' /\ PlanInv'
  BY <1>1 DEF PlannedInv, AtRest, CoilInv, PlanInv, Ahead
<1>4. ByAngle => ByAngle'
  BY <1>1 DEF ByAngle, Ahead
<1>5. ByProtection => ByProtection'
  BY <1>1 DEF ByProtection, EndsBefore, Ahead
<1>6. PutOff => PutOff'
  BY <1>1 DEF PutOff, EndsBefore, Enough, Ahead
<1> QED
  BY <1>1, <1>2, <1>3, <1>4, <1>5, <1>6 DEF PlannedInv, SparkInv

\* The watchdog finds no timer left; a restart finds the coil at rest.
LEMMA StopAndStartKeep ==
  ASSUME PlannedInv, EngineStopped \/ EngineStarts
  PROVE  PlannedInv'
<1>1. CASE EngineStopped
  <2>1. /\ pc = "idle" /\ toothIn = Off /\ dwellStartTimer.in = Off /\ scheduling.in = Off
        /\ rpmKnown' = FALSE /\ isReady' = FALSE /\ coil' = FALSE
        /\ UNCHANGED <<tooth, toothIn, pc, plan, dwellStartTimer, scheduling, queued, sparkPhase,
                       queuedSparks, actualDwell, dwellAngle, sparkDwell, advance, dwell>>
    BY <1>1 DEF EngineStopped, handlerVars, timerVars, queueVars
  <2>2. IgnTypes'
    BY <2>1 DEF PlannedInv, IgnTypes
  <2>3. AtRest' /\ CoilInv' /\ PlanInv' /\ SparkInv'
    BY <2>1 DEF AtRest, CoilInv, PlanInv, SparkInv
  <2> QED
    BY <2>2, <2>3 DEF PlannedInv
<1>2. CASE EngineStarts
  <2>1. /\ pc = "idle" /\ ~rpmKnown /\ rpmKnown' = TRUE /\ toothIn' = 0
        /\ advance' \in Advance /\ dwell' \in Dwell
        /\ UNCHANGED <<tooth, pc, plan, dwellStartTimer, scheduling, queued, sparkPhase,
                       queuedSparks, coil, actualDwell, dwellAngle, sparkDwell, isReady>>
    BY <1>2 DEF EngineStarts, timerVars, queueVars, eventVars
  <2>2. dwellStartTimer.in = Off /\ scheduling.in = Off /\ ~coil
    BY <2>1 DEF PlannedInv, AtRest
  <2>3. toothIn' \in Int /\ toothIn' >= Off
    BY <2>1 DEF Off
  <2>4. IgnTypes'
    BY <2>1, <2>3 DEF PlannedInv, IgnTypes
  <2>5. AtRest' /\ CoilInv' /\ PlanInv' /\ SparkInv'
    BY <2>1, <2>2 DEF AtRest, CoilInv, PlanInv, SparkInv
  <2> QED
    BY <2>4, <2>5 DEF PlannedInv
<1> QED
  BY <1>1, <1>2

-------------------------------------------------------------------------------
\* Nothing is pending on the first tooth.
LEMMA IgnInit ==
  ASSUME PlainIgnition, Init
  PROVE  PlannedInv
<1>1. /\ tooth = 0 /\ toothIn \in Interval /\ pc = "idle"
      /\ dwellStartTimer = NoTimer /\ scheduling = NoTimer
      /\ queued = FALSE /\ queuedSparks = 0 /\ coil = FALSE /\ actualDwell = LongAgo
      /\ sparkDwell = 0 /\ isReady = FALSE /\ advance \in Advance /\ dwell \in Dwell
      /\ rpmKnown = TRUE
  BY DEF Init
<1>2. NoTimer \in SparkTimer /\ NoTimer.in = Off /\ Off = -1
  BY DEF NoTimer, SparkTimer, Off
<1>3. Teeth \in Nat \ {0} /\ LongAgo \in Nat \ {0} /\ toothIn \in Int /\ toothIn >= -1
  <2>1. toothIn \in Int /\ toothIn >= ToothWidth /\ ToothWidth \in Nat
    BY <1>1, PlainIs
  <2> QED
    BY <2>1, TeethFill, PlainIs
<1>4. tooth \in 0 .. Teeth - 1 /\ actualDwell \in 0 .. LongAgo
  BY <1>1, <1>3
<1>5. IgnTypes
  BY <1>1, <1>2, <1>3, <1>4 DEF IgnTypes
<1>6. AtRest /\ CoilInv /\ PlanInv /\ SparkInv
  BY <1>1, <1>2 DEF AtRest, CoilInv, PlanInv, SparkInv
<1> QED
  BY <1>5, <1>6 DEF PlannedInv

\* The types need nothing of the rest: they hold through rebuilt schedules too.
LEMMA TypesKeep ==
  ASSUME PlainIgnition, IgnTypes, PlanTypes, AtRest, Next
  PROVE  IgnTypes' /\ PlanTypes' /\ AtRest'
<1>1. /\ Cycle \in Nat \ {0} /\ ToothWidth \in Nat \ {0} /\ LongAgo \in Nat \ {0}
      /\ ExtraSparks = 0 /\ Off = -1 /\ NoTimer \in SparkTimer /\ NoTimer.in = Off
      /\ \A i \in Interval : i \in Int /\ i >= Off
      /\ Teeth \in Nat \ {0}
  <2>1. /\ Cycle \in Nat \ {0} /\ ToothWidth \in Nat \ {0} /\ LongAgo \in Nat \ {0}
        /\ ExtraSparks = 0 /\ \A i \in Interval : i \in Int /\ i >= ToothWidth
    BY PlainIs
  <2> QED
    BY <2>1, TeethFill DEF NoTimer, SparkTimer, Off
<1>2. \A d \in Dwell : d \in 1 .. LongAgo
  BY PlainIs
<1>3. ASSUME NEW t \in Int, NEW over \in BOOLEAN
      PROVE  Timer(t, 0, over) \in SparkTimer /\ Timer(t, 0, over).in = t
  BY DEF Timer, SparkTimer
<1>4. ASSUME NEW a \in 0 .. Cycle - 1
      PROVE  FromTooth(a, tooth) \in 0 .. Cycle - 1
  BY ToothAngles DEF IgnTypes
<1>5. CASE OnTooth \/ ToothMissed
  <2>1. /\ pc = "idle" /\ toothIn = 0 /\ pc' \in {"idle", "spark"} /\ toothIn' \in Interval
        /\ tooth' = (tooth + 1) % Teeth
        /\ FromQueue \/ UNCHANGED <<queued, scheduling>>
        /\ (isReady' => isReady) /\ advance' \in Advance /\ dwell' \in Dwell
        /\ UNCHANGED <<plan, dwellStartTimer, sparkPhase, queuedSparks, coil, actualDwell,
                       dwellAngle, sparkDwell, rpmKnown>>
    <3>1. CASE OnTooth
      BY <3>1 DEF OnTooth, ToothPasses, TriggerConfigChanged, Teeth, FromQueue, eventVars, stateVars,
           IgnTypes
    <3>2. CASE ToothMissed
      BY <3>2 DEF ToothMissed, ToothPasses, Teeth, timerVars, queueVars, eventVars, stateVars, IgnTypes
    <3> QED
      BY <1>5, <3>1, <3>2
  <2>2. tooth' \in 0 .. Teeth - 1 /\ toothIn' \in Int /\ toothIn' >= Off
    <3>1. tooth \in 0 .. Teeth - 1
      BY DEF IgnTypes
    <3>2. tooth' \in 0 .. Teeth - 1
      BY <1>1, <2>1, <3>1, DivMod
    <3> QED
      BY <1>1, <2>1, <3>2
  <2>3. /\ scheduling' \in SparkTimer /\ scheduling'.in >= Off
        /\ queued' => sparkPhase' \in Advance
    <3>1. CASE FromQueue
      <4>1. sparkPhase \in 0 .. Cycle - 1 /\ queuedSparks = 0
        BY <3>1, AnglesHere DEF IgnTypes, FromQueue
      <4>2. FromTooth(sparkPhase, tooth') \in 0 .. Cycle - 1
        BY <2>2, <4>1, ToothAngles
      <4>3. PICK t \in Int : t = FromTooth(sparkPhase, tooth') /\ t >= 0
        BY <1>1, <4>2
      <4>4. scheduling' = Timer(t, 0, FALSE)
        BY <3>1, <4>1, <4>3 DEF FromQueue, TakeFromQueue
      <4>5. Timer(t, 0, FALSE) \in SparkTimer /\ Timer(t, 0, FALSE).in = t
        BY <1>3
      <4>6. scheduling'.in >= Off
        <5>1. t >= Off
          BY <1>1, <4>3
        <5>2. scheduling'.in = t
          BY <4>4, <4>5
        <5> QED
          BY <5>1, <5>2
      <4>7. ~queued'
        BY <3>1 DEF FromQueue
      <4> QED
        BY <4>4, <4>5, <4>6, <4>7
    <3>2. CASE UNCHANGED <<queued, scheduling>>
      BY <2>1, <3>2 DEF IgnTypes
    <3> QED
      BY <2>1, <3>1, <3>2
  <2>4. rpmKnown
    BY <1>1, <2>1 DEF AtRest
  <2> QED
    BY <2>1, <2>2, <2>3, <2>4 DEF IgnTypes, PlanTypes, AtRest
<1>6. CASE SkipTooth
  BY <1>6 DEF SkipTooth, timerVars, queueVars, eventVars, stateVars, IgnTypes, PlanTypes, AtRest
<1>7. CASE BuildSchedule
  <2>1. /\ rpmKnown /\ dwellAngle' = wrapAngle(advance - dwell) /\ sparkDwell' = dwell
        /\ UNCHANGED <<tooth, toothIn, pc, plan, dwellStartTimer, scheduling, queued, sparkPhase,
                       queuedSparks, coil, actualDwell, advance, dwell, rpmKnown>>
    BY <1>7 DEF BuildSchedule, Prepare, handlerVars, timerVars, queueVars, stateVars
  <2>2. dwellAngle' \in ChargeAngles /\ sparkDwell' \in Dwell
    BY <2>1 DEF IgnTypes, ChargeAngles
  <2> QED
    BY <2>1, <2>2 DEF IgnTypes, PlanTypes, AtRest
<1>8. ASSUME NEW limited \in BOOLEAN, PlanCharge(limited)
      PROVE  IgnTypes' /\ PlanTypes' /\ AtRest'
  <2> DEFINE in == FromTooth(dwellAngle, tooth)
  <2>1. /\ pc = "spark" /\ pc' = "plan" /\ rpmKnown /\ isReady
        /\ plan' = [limited |-> limited, sparkAngle |-> advance, chargeIn |-> in, dwellMs |-> dwell]
        /\ dwellStartTimer' = dwellStartTimer \/ dwellStartTimer' = Timer(in, 0, FALSE)
        /\ UNCHANGED <<tooth, toothIn, scheduling, queued, sparkPhase, queuedSparks, coil,
                       actualDwell, dwellAngle, sparkDwell, isReady, advance, dwell, rpmKnown>>
    BY <1>1, <1>8 DEF PlanCharge, InsertTask, queueVars, eventVars, stateVars
  <2>2. in \in 0 .. Cycle - 1
    BY <1>4, <2>1, AnglesHere
  <2>3. plan'.sparkAngle = advance /\ plan'.chargeIn = in /\ plan'.dwellMs = dwell
    BY <2>1
  <2> HIDE DEF in
  <2>4. dwellStartTimer' \in SparkTimer /\ dwellStartTimer'.in >= Off
    <3>1. in \in Int /\ in >= Off
      BY <1>1, <2>2
    <3>2. Timer(in, 0, FALSE) \in SparkTimer /\ Timer(in, 0, FALSE).in >= Off
      BY <1>3, <3>1
    <3> QED
      BY <2>1, <3>2 DEF IgnTypes
  <2>5. PlanTypes'
    <3>1. advance \in Advance /\ dwell \in Dwell
      BY DEF IgnTypes
    <3> QED
      BY <2>2, <2>3, <3>1 DEF PlanTypes
  <2>6. IgnTypes'
    <3>1. pc' \in {"idle", "spark", "plan"} /\ toothIn \in Interval
      BY <2>1 DEF IgnTypes
    <3> QED
      BY <2>1, <2>4, <3>1 DEF IgnTypes
  <2> QED
    BY <2>1, <2>5, <2>6 DEF AtRest
<1>9. CASE PlanSparkNow \/ QueueSpark
  <2>1. /\ pc = "plan" /\ pc' = "idle" /\ sparkPhase' = plan.sparkAngle
        /\ queuedSparks' = 0
        /\ UNCHANGED <<tooth, toothIn, dwellStartTimer, coil, actualDwell, dwellAngle,
                       sparkDwell, isReady, advance, dwell, rpmKnown>>
    BY <1>1, <1>9 DEF PlanSparkNow, QueueSpark, eventVars, stateVars, IgnTypes
  <2>2. /\ plan.sparkAngle \in Advance /\ plan.sparkAngle \in 0 .. Cycle - 1
        /\ plan.chargeIn \in Nat /\ plan.dwellMs \in Nat
    <3>1. /\ plan.sparkAngle \in Advance /\ plan.chargeIn \in 0 .. Cycle - 1
          /\ plan.dwellMs \in 1 .. LongAgo
      BY <1>2, <2>1 DEF PlanTypes
    <3>2. plan.sparkAngle \in 0 .. Cycle - 1
      BY <3>1, AnglesHere
    <3> QED
      BY <1>1, <3>1, <3>2
  <2>3. scheduling' = scheduling \/ \E t \in Nat, over \in BOOLEAN : scheduling' = Timer(t, 0, over)
    <3>1. CASE PlanSparkNow
      <4>1. FromTooth(plan.sparkAngle, tooth) \in Nat
        <5>1. FromTooth(plan.sparkAngle, tooth) \in 0 .. Cycle - 1
          BY <1>4, <2>2
        <5> QED
          BY <1>1, <5>1
      <4> QED
        BY <1>1, <3>1, <4>1 DEF PlanSparkNow, InsertTask
    <3>2. CASE QueueSpark
      <4>1. plan.chargeIn + (3 * plan.dwellMs) \div 2 \in Nat
        BY <2>2
      <4> QED
        BY <1>1, <3>2, <4>1 DEF QueueSpark, OverdwellTimer, InsertTask
    <3> QED
      BY <1>9, <3>1, <3>2
  <2>4. scheduling' \in SparkTimer /\ scheduling'.in >= Off
    <3>1. CASE scheduling' = scheduling
      BY <3>1 DEF IgnTypes
    <3>2. ASSUME NEW t \in Nat, NEW over \in BOOLEAN, scheduling' = Timer(t, 0, over)
          PROVE  scheduling' \in SparkTimer /\ scheduling'.in >= Off
      <4>1. t \in Int /\ t >= Off
        BY <1>1
      <4> QED
        BY <1>3, <3>2, <4>1
    <3> QED
      BY <2>3, <3>1, <3>2
  <2>5. rpmKnown
    BY <2>1 DEF AtRest
  <2> QED
    BY <2>1, <2>2, <2>4, <2>5 DEF IgnTypes, PlanTypes, AtRest
<1>10. CASE TurnSparkPinHigh
  <2>1. /\ dwellStartTimer.in = 0 /\ actualDwell' = 0 /\ dwellStartTimer' = NoTimer
        /\ UNCHANGED <<tooth, toothIn, pc, plan, scheduling, queued, sparkPhase, queuedSparks,
                       dwellAngle, sparkDwell, isReady, advance, dwell, rpmKnown>>
    BY <1>10 DEF TurnSparkPinHigh, handlerVars, queueVars, eventVars, stateVars
  <2>2. actualDwell' \in 0 .. LongAgo /\ dwellStartTimer'.in >= Off /\ rpmKnown
    BY <1>1, <2>1 DEF AtRest
  <2> QED
    BY <1>1, <2>1, <2>2 DEF IgnTypes, PlanTypes, AtRest
<1>11. CASE FireLater
  <2>1. PICK extra \in 1 .. LongAgo : scheduling' = Timer(extra, 0, FALSE)
    BY <1>11 DEF FireLater
  <2>2. /\ scheduling.in = 0
        /\ UNCHANGED <<tooth, toothIn, pc, plan, dwellStartTimer, queued, sparkPhase, queuedSparks,
                       coil, actualDwell, dwellAngle, sparkDwell, isReady, advance, dwell, rpmKnown>>
    BY <1>11 DEF FireLater, handlerVars, queueVars, eventVars, stateVars
  <2>3. scheduling' \in SparkTimer /\ scheduling'.in >= Off /\ rpmKnown
    <3>1. extra \in Int /\ extra >= Off
      BY <1>1
    <3>2. Timer(extra, 0, FALSE) \in SparkTimer /\ Timer(extra, 0, FALSE).in = extra
      BY <1>3, <3>1
    <3>3. rpmKnown
      BY <1>1, <2>2 DEF AtRest
    <3> QED
      BY <2>1, <3>1, <3>2, <3>3
  <2> QED
    BY <2>2, <2>3 DEF IgnTypes, PlanTypes, AtRest
<1>12. CASE FireSpark
  <2>1. /\ scheduling.in = 0 /\ coil' = FALSE
        /\ UNCHANGED <<tooth, toothIn, pc, plan, queued, sparkPhase, queuedSparks, actualDwell,
                       isReady, advance, dwell, rpmKnown>>
    BY <1>12 DEF FireSpark, handlerVars, queueVars, stateVars
  <2>2. rpmKnown
    BY <1>1, <2>1 DEF AtRest
  <2>3. /\ scheduling' = NoTimer /\ dwellStartTimer' = dwellStartTimer
        /\ dwellAngle' = wrapAngle(advance - dwell) /\ sparkDwell' = dwell
    <3>1. ~(scheduling.sparks > 0)
      BY DEF IgnTypes, SparkTimer
    <3> QED
      BY <1>12, <2>2, <3>1 DEF FireSpark, Prepare
  <2>4. dwellAngle' \in ChargeAngles /\ sparkDwell' \in Dwell /\ scheduling'.in >= Off
    BY <1>1, <2>3 DEF IgnTypes, ChargeAngles
  <2> QED
    BY <1>1, <2>1, <2>2, <2>3, <2>4 DEF IgnTypes, PlanTypes, AtRest
<1>13. CASE Tick
  <2>1. /\ pc = "idle" /\ toothIn # 0 /\ dwellStartTimer.in # 0 /\ scheduling.in # 0
        /\ toothIn' = Down(toothIn)
        /\ dwellStartTimer' = [dwellStartTimer EXCEPT !.in = Down(@)]
        /\ scheduling' = [scheduling EXCEPT !.in = Down(@)]
        /\ actualDwell' = IF actualDwell < LongAgo THEN actualDwell + 1 ELSE LongAgo
        /\ UNCHANGED <<tooth, pc, plan, queued, sparkPhase, queuedSparks, coil,
                       dwellAngle, sparkDwell, isReady, advance, dwell, rpmKnown>>
    BY <1>13 DEF Tick, Due, queueVars, eventVars, stateVars
  <2>2. ASSUME NEW t \in Int, t >= Off, t # 0
        PROVE  Down(t) \in Int /\ Down(t) >= Off /\ (t = Off => Down(t) = Off)
    BY <1>1, <2>2 DEF Down
  <2>3. ASSUME NEW r \in SparkTimer, r.in >= Off, r.in # 0
        PROVE  LET n == [r EXCEPT !.in = Down(@)]
               IN  n \in SparkTimer /\ n.in >= Off /\ (r.in = Off => n.in = Off)
    <3>1. r.in \in Int
      BY DEF SparkTimer
    <3>2. Down(r.in) \in Int /\ Down(r.in) >= Off /\ (r.in = Off => Down(r.in) = Off)
      BY <2>2, <2>3, <3>1
    <3> QED
      BY <3>2 DEF SparkTimer
  <2>4. toothIn' \in Int /\ toothIn' >= Off /\ (toothIn = Off => toothIn' = Off)
    BY <2>1, <2>2 DEF IgnTypes
  <2>5. /\ dwellStartTimer' \in SparkTimer /\ dwellStartTimer'.in >= Off
        /\ dwellStartTimer.in = Off => dwellStartTimer'.in = Off
    BY <2>1, <2>3 DEF IgnTypes
  <2>6. /\ scheduling' \in SparkTimer /\ scheduling'.in >= Off
        /\ scheduling.in = Off => scheduling'.in = Off
    BY <2>1, <2>3 DEF IgnTypes
  <2>7. actualDwell' \in 0 .. LongAgo
    BY <1>1, <2>1 DEF IgnTypes
  <2> QED
    BY <2>1, <2>4, <2>5, <2>6, <2>7 DEF IgnTypes, PlanTypes, AtRest
<1>14. CASE TriggerLost \/ EngineStopped
  <2>1. /\ pc = "idle" /\ pc' = "idle" /\ toothIn' = Off
        /\ EngineStopped => dwellStartTimer.in = Off /\ scheduling.in = Off /\ ~coil' /\ ~isReady'
        /\ TriggerLost => UNCHANGED <<coil, isReady, rpmKnown>> /\ toothIn # Off
        /\ isReady' => isReady
        /\ UNCHANGED <<tooth, plan, dwellStartTimer, scheduling, queued, sparkPhase, queuedSparks,
                       actualDwell, dwellAngle, sparkDwell, advance, dwell>>
    BY <1>1, <1>14 DEF TriggerLost, EngineStopped, handlerVars, timerVars, queueVars, eventVars, stateVars
  <2>2. toothIn' \in Int /\ toothIn' >= Off
    BY <1>1, <2>1
  <2> QED
    BY <1>14, <2>1, <2>2 DEF IgnTypes, PlanTypes, AtRest
<1>15. CASE EngineStarts
  <2>1. /\ pc = "idle" /\ rpmKnown' = TRUE /\ toothIn' = 0
        /\ advance' \in Advance /\ dwell' \in Dwell
        /\ UNCHANGED <<tooth, pc, plan, dwellStartTimer, scheduling, queued, sparkPhase,
                       queuedSparks, coil, actualDwell, dwellAngle, sparkDwell, isReady>>
    BY <1>15 DEF EngineStarts, timerVars, queueVars, eventVars
  <2>2. toothIn' \in Int /\ toothIn' >= Off
    BY <1>1, <2>1
  <2> QED
    BY <2>1, <2>2 DEF IgnTypes, PlanTypes, AtRest
<1>16. CASE ChargeTrailingSpark \/ FireTrailingSpark \/ NewTiming
  <2>1. /\ UNCHANGED <<tooth, toothIn, pc, plan, dwellStartTimer, scheduling, queued, sparkPhase,
                       queuedSparks, coil, actualDwell, dwellAngle, sparkDwell, isReady, rpmKnown>>
        /\ advance' \in Advance /\ dwell' \in Dwell
    BY <1>16 DEF ChargeTrailingSpark, FireTrailingSpark, NewTiming, handlerVars, timerVars, queueVars,
         eventVars, stateVars, IgnTypes
  <2> QED
    BY <2>1 DEF IgnTypes, PlanTypes, AtRest
<1> QED
  BY <1>5, <1>6, <1>7, <1>8, <1>9, <1>10, <1>11, <1>12, <1>13, <1>14, <1>15, <1>16 DEF Next

\* While no schedule has been rebuilt under a charge the whole invariant holds,
\* one case for each action.
LEMMA PlannedStep ==
  ASSUME PlainIgnition, PlannedInv, Next, ~OnTooth
  PROVE  PlannedInv'
<1>1. CASE ToothMissed
  <2>1. /\ ToothPasses /\ pc' \in {"idle", "spark"} /\ UNCHANGED <<queued, scheduling>>
        /\ UNCHANGED <<plan, dwellStartTimer, sparkPhase, queuedSparks, coil, actualDwell,
                       dwellAngle, sparkDwell, isReady, advance, dwell, rpmKnown>>
    BY <1>1 DEF ToothMissed, ToothPasses, timerVars, queueVars, eventVars, stateVars
  <2> QED
    BY <2>1, ToothKeeps
<1>2. CASE SkipTooth
  BY <1>2, SkipToothKeeps
<1>3. CASE BuildSchedule
  BY <1>3, BuildScheduleKeeps
<1>4. CASE \E limited \in BOOLEAN : PlanCharge(limited)
  BY <1>4, PlanChargeKeeps
<1>5. CASE PlanSparkNow
  BY <1>5, PlanSparkNowKeeps
<1>6. CASE QueueSpark
  BY <1>6, QueueSparkKeeps
<1>7. CASE TurnSparkPinHigh
  BY <1>7, TurnSparkPinHighKeeps
<1>8. CASE FireLater
  BY <1>8, FireLaterKeeps
<1>9. CASE FireSpark
  BY <1>9, FireSparkKeeps
<1>10. CASE Tick
  BY <1>10, TickKeeps
<1>11. CASE TriggerLost
  BY <1>11, TriggerLostKeeps
<1>12. CASE EngineStopped \/ EngineStarts
  BY <1>12, StopAndStartKeep
<1>13. CASE ChargeTrailingSpark \/ FireTrailingSpark \/ NewTiming
  <2>1. advance \in Advance /\ dwell \in Dwell
    BY DEF PlannedInv, IgnTypes
  <2>2. /\ UNCHANGED <<tooth, toothIn, pc, plan, dwellStartTimer, scheduling, queued, sparkPhase,
                       queuedSparks, coil, actualDwell, dwellAngle, sparkDwell, isReady, rpmKnown>>
        /\ advance' \in Advance /\ dwell' \in Dwell
    BY <1>13, <2>1 DEF ChargeTrailingSpark, FireTrailingSpark, NewTiming, handlerVars,
         timerVars, queueVars, eventVars, stateVars
  <2> QED
    BY <2>2, IgnFrame
<1> QED
  BY <1>1, <1>2, <1>3, <1>4, <1>5, <1>6, <1>7, <1>8, <1>9, <1>10, <1>11, <1>12, <1>13 DEF Next

\* A tooth begins it again when it finds all at rest, and with a charge or a
\* spark pending keeps it only if the schedule stays.
LEMMA IgnStep ==
  ASSUME PlainIgnition, IgnInv, [Next]_vars
  PROVE  IgnInv'
<1>1. CASE UNCHANGED vars
  <2>1. /\ UNCHANGED <<tooth, toothIn, pc, plan, dwellStartTimer, scheduling, queued, sparkPhase,
                       queuedSparks, coil, actualDwell, dwellAngle, sparkDwell, isReady, rpmKnown,
                       advance, dwell, rebuilt>>
    BY <1>1 DEF vars, handlerVars, timerVars, queueVars, eventVars, stateVars
  <2>2. advance' \in Advance /\ dwell' \in Dwell
    BY <2>1 DEF IgnInv, IgnTypes
  <2>3. PlannedInv => PlannedInv'
    BY <2>1, <2>2, IgnFrame
  <2> QED
    BY <2>1, <2>3 DEF IgnInv, IgnTypes, PlanTypes, AtRest
<1>2. CASE Next
  <2>1. IgnTypes' /\ PlanTypes' /\ AtRest'
    BY <1>2, TypesKeep DEF IgnInv
  <2>2. CASE OnTooth /\ ~Pending
    BY <2>1, <2>2, ToothAtRest DEF IgnInv
  <2>3. CASE OnTooth /\ Pending
    <3>1. SUFFICES ASSUME ~rebuilt' PROVE PlannedInv'
      BY <2>1 DEF IgnInv
    <3>2. ~rebuilt /\ UNCHANGED <<dwellAngle, sparkDwell, isReady, advance, dwell, rpmKnown>>
      BY <2>3, <3>1 DEF OnTooth, TriggerConfigChanged, eventVars, stateVars
    <3>3. /\ ToothPasses /\ pc' \in {"idle", "spark"}
          /\ FromQueue \/ UNCHANGED <<queued, scheduling>>
          /\ UNCHANGED <<plan, dwellStartTimer, sparkPhase, queuedSparks, coil, actualDwell>>
      BY <2>3 DEF OnTooth, FromQueue
    <3> QED
      BY <3>2, <3>3, ToothKeeps DEF IgnInv
  <2>4. CASE ~OnTooth
    <3>1. rebuilt' = rebuilt
      BY <1>2, <2>4 DEF Next, ToothMissed, SkipTooth, BuildSchedule, PlanCharge, PlanSparkNow,
         QueueSpark, TurnSparkPinHigh, FireLater, FireSpark, ChargeTrailingSpark, FireTrailingSpark,
         Tick, NewTiming, TriggerLost, EngineStopped, EngineStarts
    <3>2. PlannedInv => PlannedInv'
      BY <1>2, <2>4, PlannedStep
    <3> QED
      BY <2>1, <3>1, <3>2 DEF IgnInv
  <2> QED
    BY <2>2, <2>3, <2>4
<1> QED
  BY <1>1, <1>2

(***************************************************************************)
(* The invariant holds from the first tooth on, through missed teeth, any  *)
(* losses of the trigger, stops, restarts and rebuilt schedules.           *)
(***************************************************************************)
THEOREM IgnitionInvariant ==
  ASSUME PlainIgnition
  PROVE  Spec => []IgnInv
<1>1. Init => IgnInv
  BY IgnInit DEF IgnInv, PlannedInv, PlanTypes, Init
<1>2. IgnInv /\ [Next]_vars => IgnInv'
  BY IgnStep
<1> QED
  BY <1>1, <1>2, PTL DEF Spec

(***************************************************************************)
(* ChargingCoilWillFire: a charging coil always has its spark pending in   *)
(* the time scheduler, whether by angle, by the overdwell protection or    *)
(* put off, or scheduleSparkEvent() is just about to plan it; unless the   *)
(* schedule was rebuilt while something of the last one was pending.       *)
(***************************************************************************)
THEOREM ChargedCoilFires ==
  ASSUME PlainIgnition
  PROVE  Spec => []ChargingCoilWillFire
<1>1. IgnInv => ChargingCoilWillFire
  BY DEF IgnInv, PlannedInv, CoilInv, ChargingCoilWillFire
<1> QED
  BY <1>1, IgnitionInvariant, PTL

(***************************************************************************)
(* DwellBounded: whatever the order of teeth and timers, no coil is        *)
(* charged longer than 1.5 times the longest dwell and one tooth, with the *)
(* same exception.                                                         *)
(***************************************************************************)
THEOREM DwellIsBounded ==
  ASSUME PlainIgnition
  PROVE  Spec => []DwellBounded
<1>1. Protection <= MaxOf({Protection, MultiDwell})
      /\ MaxOf({Protection, MultiDwell}) \in Nat
  <2>1. Protection \in Nat /\ MultiDwell \in Nat
    BY ProtectionIs, SparkAssumption
  <2>2. PICK m \in Nat : Protection <= m /\ MultiDwell <= m
    <3>1. Protection + MultiDwell \in Nat /\ Protection <= Protection + MultiDwell
          /\ MultiDwell <= Protection + MultiDwell
      BY <2>1
    <3> QED
      BY <3>1
  <2>3. {Protection, MultiDwell} \in SUBSET (0 .. m) /\ {Protection, MultiDwell} # {}
    BY <2>1, <2>2
  <2>4. /\ MaxOf({Protection, MultiDwell}) \in {Protection, MultiDwell}
        /\ \A i \in {Protection, MultiDwell} : i <= MaxOf({Protection, MultiDwell})
    BY <2>3, MaxOfIs
  <2> QED
    BY <2>1, <2>4
<1>2. IgnInv => DwellBounded
  <2>1. SUFFICES ASSUME IgnInv, PlannedInv, coil
                 PROVE  actualDwell <= MaxOf({Protection, MultiDwell}) + ToothWidth
    BY DEF DwellBounded, Protection, IgnInv
  <2>2. actualDwell \in Nat /\ ToothWidth \in Nat /\ Protection \in Nat
        /\ scheduling.in \in Int /\ scheduling.in >= -1
    <3>1. LongAgo \in Nat /\ ToothWidth \in Nat /\ Protection \in Nat
      BY PlainIs, ProtectionIs
    <3> QED
      BY <2>1, <3>1 DEF IgnInv, IgnTypes, SparkTimer, Off
  <2>3. actualDwell <= Protection + ToothWidth
    <3>1. CASE scheduling.in # Off
      <4>1. scheduling.in >= 0
        BY <2>2, <3>1 DEF Off
      <4>2. actualDwell + scheduling.in < Protection + ToothWidth
            \/ actualDwell + scheduling.in <= Protection
        BY <2>1, <3>1 DEF PlannedInv, SparkInv, ByAngle, ByProtection, PutOff
      <4> QED
        BY <2>2, <4>1, <4>2
    <3>2. CASE scheduling.in = Off
      <4>1. actualDwell = 0
        BY <2>1, <3>2 DEF PlannedInv, CoilInv, PlanInv
      <4> QED
        BY <2>2, <4>1
    <3> QED
      BY <3>1, <3>2
  <2> QED
    BY <1>1, <2>2, <2>3
<1> QED
  BY <1>2, IgnitionInvariant, PTL

(***************************************************************************)
(* NoWeakSpark: fireSparkAndPrepareNextSchedule() lets a spark through     *)
(* only with 80% of the dwell or after the overdwell, and no charge starts *)
(* on a coil that is still charged.  The first holds through rebuilt       *)
(* schedules too, the second does not.                                     *)
(***************************************************************************)
THEOREM NoSparkIsWeak ==
  ASSUME PlainIgnition
  PROVE  Spec => NoWeakSpark
<1> DEFINE Strong == /\ coil /\ ~coil' => \/ 5 * actualDwell >= 4 * sparkDwell
                                          \/ scheduling.overdwell
                                          \/ ~rpmKnown'
                     /\ coil /\ ~rebuilt /\ actualDwell' = 0 => actualDwell = 0
<1>1. IgnInv /\ [Next]_vars => [Strong]_vars
  <2>1. SUFFICES ASSUME IgnInv, Next PROVE Strong
    OBVIOUS
  <2>2. actualDwell \in 0 .. LongAgo /\ LongAgo \in Nat \ {0} /\ sparkDwell \in Int
    <3>1. LongAgo \in Nat \ {0} /\ \A d \in Dwell : d \in 1 .. LongAgo
      BY PlainIs
    <3>2. actualDwell \in 0 .. LongAgo /\ sparkDwell \in Dwell \cup {0}
      BY <2>1 DEF IgnInv, IgnTypes
    <3> QED
      BY <3>1, <3>2
  <2>3. CASE FireSpark
    <3>1. actualDwell' = actualDwell
      BY <2>3 DEF FireSpark
    <3>2. scheduling.overdwell \/ ~(5 * actualDwell < 4 * sparkDwell)
      BY <2>3 DEF FireSpark, Underdwell
    <3>3. scheduling.overdwell \/ 5 * actualDwell >= 4 * sparkDwell
      BY <2>2, <3>2
    <3> QED
      BY <3>1, <3>3
  <2>4. CASE EngineStopped
    BY <2>4 DEF EngineStopped
  <2>5. CASE TurnSparkPinHigh
    <3>1. dwellStartTimer.in # Off /\ coil' = TRUE
      BY <2>5 DEF TurnSparkPinHigh, Off
    <3>2. ~coil \/ rebuilt
      BY <2>1, <3>1 DEF IgnInv, PlannedInv, CoilInv
    <3> QED
      BY <3>1, <3>2
  <2>6. CASE Tick
    <3>1. coil' = coil /\ actualDwell' # 0
      BY <2>2, <2>6 DEF Tick
    <3> QED
      BY <3>1
  <2>7. CASE ~(FireSpark \/ EngineStopped \/ TurnSparkPinHigh \/ Tick)
    <3>1. coil' = coil /\ actualDwell' = actualDwell
      BY <2>1, <2>7 DEF Next, OnTooth, ToothMissed, SkipTooth, BuildSchedule, PlanCharge, PlanSparkNow,
           QueueSpark, FireLater, ChargeTrailingSpark, FireTrailingSpark, NewTiming,
           TriggerLost, EngineStarts
    <3> QED
      BY <3>1
  <2> QED
    BY <2>3, <2>4, <2>5, <2>6, <2>7
<1>2. Spec => [][Strong]_vars
  BY <1>1, IgnitionInvariant, PTL DEF Spec
<1> QED
  BY <1>2 DEF NoWeakSpark

===============================================================================
