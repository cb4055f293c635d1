------------------------- MODULE TriggerDecoder_proofs -------------------------
(***************************************************************************)
(* Theorems about TriggerDecoder, for every wheel whose gap ratios single  *)
(* out one tooth and for any number of faults: the tooth index stays       *)
(* within the wheel, and one undisturbed turn after the last fault a       *)
(* decoder that compares gaps has the right tooth or claims none.          *)
(*                                                                         *)
(* The gaps compared at a tooth are the wheel's own from the tooth number  *)
(* gapTrackingLength + 2 after a fault on.  From there on the decoder      *)
(* takes tooth 0, and no other, for the synchronisation point.  Either     *)
(* tooth 0 has come since (MarkSeen), then the index was set right; or the *)
(* decoder has counted every tooth since then, and when only the last      *)
(* tooth is left the count, which is less than getSize, is right as well.  *)
(***************************************************************************)
EXTENDS TriggerDecoder, TLAPS

DecoderType ==
  [synchronized : BOOLEAN, current_index : Nat, eventCount : Nat,
   toothDurations : [1 .. 3 -> Nat], isFirstEvent : BOOLEAN, syncCounter : Nat,
   hasSynchronizedPhase : BOOLEAN, phaseAdjustment : Nat]

\* The decoder between two edges; in the middle of one the index may have
\* reached the size of the wheel.
InBounds(d) ==
  /\ d \in DecoderType
  /\ d.current_index <= getSize
  /\ d.eventCount <= getSize + 1
  /\ d.syncCounter < Divider
  /\ d.phaseAdjustment < Divider

WithinWheel(d) == d.synchronized => d.current_index < getSize

WheelTypes ==
  /\ wheel \in Wheels
  /\ tooth \in 0 .. getSize - 1
  /\ turn \in 0 .. Divider - 1
  /\ clean \in 0 .. CleanTurn
  /\ passed \in Nat /\ elapsed \in Nat /\ stopped \in BOOLEAN
  /\ passed < wheel.gaps[tooth + 1]

\* What is left of a disturbance after so many teeth.
GapsAreClean ==
  /\ clean > 0 => passed = 0 /\ elapsed = 0 /\ ~stopped /\ ~decoder.isFirstEvent
  /\ clean > 1 => decoder.toothDurations[2] = GapBefore(wheel, tooth)
  /\ clean > 2 => decoder.toothDurations[3] = GapBefore(wheel, Before(wheel, tooth))

\* Tooth 0 has come since the compared gaps are clean.
MarkSeen(k, c) == k + gapTrackingLength + 2 <= c

IndexFollows(d, k, c) ==
  d.synchronized /\ c > gapTrackingLength =>
    IF MarkSeen(k, c) THEN d.current_index = k
    ELSE d.current_index + gapTrackingLength + 1 >= c

DecoderInv ==
  /\ WheelTypes
  /\ InBounds(decoder) /\ WithinWheel(decoder)
  /\ GapsAreClean
  /\ ComparesGaps => IndexFollows(decoder, tooth, clean)

-------------------------------------------------------------------------------
(***************************************************************************)
(* The wheel.                                                              *)
(***************************************************************************)
\* The remainder lies within the divisor.
LEMMA ModRange ==
  ASSUME NEW i \in Int, NEW n \in Nat \ {0}
  PROVE  i % n \in 0 .. n - 1
BY SMT

\* What DecoderAssumption says of the wheel at hand.
LEMMA WheelFacts ==
  ASSUME wheel \in Wheels
  PROVE  /\ wheel.gaps \in Seq(Nat \ {0}) /\ getSize \in Nat /\ getSize >= 2
         /\ Divider \in Nat \ {0, 1}
         /\ gapTrackingLength \in 1 .. 2
         /\ wheel.miataNB \in BOOLEAN
         /\ wheel.miataNB => gapTrackingLength = 2
         /\ wheel.maySlow \subseteq BOOLEAN
         /\ wheel.longGap \in Nat
         /\ \A k \in 1 .. getSize : wheel.gaps[k] \in Nat \ {0} /\ wheel.gaps[k] <= wheel.longGap
         /\ \A k \in 0 .. getSize - 1 : GapsMatch(wheel, GapsAt(wheel, k)) <=> k = 0
         /\ Remainder \in 0 .. Divider - 1
<1>1. /\ wheel.gaps \in Seq(Nat \ {0}) /\ Len(wheel.gaps) >= 2
      /\ wheel.divider \in Nat \ {0, 1}
      /\ Len(wheel.from) \in 1 .. 2
      /\ wheel.miataNB \in BOOLEAN /\ wheel.maySlow \subseteq BOOLEAN
      /\ Remainder \in 0 .. wheel.divider - 1
      /\ wheel.miataNB => Len(wheel.from) = 2
      /\ {wheel.longGap, wheel.maxFaults} \subseteq Nat
      /\ \A k \in 1 .. Len(wheel.gaps) : wheel.gaps[k] <= wheel.longGap
      /\ \A k \in 0 .. Len(wheel.gaps) - 1 : GapsMatch(wheel, GapsAt(wheel, k)) <=> k = 0
  BY DecoderAssumption, Zenon
<1>2. wheel.longGap \in Nat
  BY <1>1, Zenon
<1>3. Len(wheel.gaps) \in Nat
  BY <1>1
<1>4. \A k \in 1 .. Len(wheel.gaps) : wheel.gaps[k] \in Nat \ {0}
  BY <1>1
<1> QED
  BY <1>1, <1>2, <1>3, <1>4, Zenon DEF getSize, Divider, gapTrackingLength

\* The gap behind tooth k ends at the tooth that comes next.
LEMMA NextGap ==
  ASSUME wheel \in Wheels, NEW k \in 0 .. getSize - 1
  PROVE  /\ (k + 1) % getSize = IF k = getSize - 1 THEN 0 ELSE k + 1
         /\ (k + 1) % getSize \in 0 .. getSize - 1
         /\ Before(wheel, (k + 1) % getSize) = k
         /\ GapBefore(wheel, (k + 1) % getSize) = wheel.gaps[k + 1]
         /\ wheel.gaps[k + 1] \in Nat \ {0} /\ wheel.gaps[k + 1] <= wheel.longGap
<1>1. getSize \in Nat /\ getSize >= 2
  BY WheelFacts
<1>2. k = getSize - 1 => (k + 1) % getSize = 0
  <2>1. \A n \in Nat \ {0} : n % n = 0
    BY SMT
  <2> QED
    BY <1>1, <2>1
<1>3. k # getSize - 1 => (k + 1) % getSize = k + 1
  <2>1. \A n \in Nat \ {0}, i \in Nat : i < n => i % n = i
    BY SMT
  <2> QED
    BY <1>1, <2>1
<1>4. k + 1 \in 1 .. getSize /\ k \in Int /\ k + 1 # 0 /\ (k + 1) - 1 = k
  BY <1>1
<1>5. wheel.gaps[k + 1] \in Nat \ {0} /\ wheel.gaps[k + 1] <= wheel.longGap
  BY <1>4, WheelFacts
<1>6. CASE k = getSize - 1
  <2>1. (k + 1) % getSize = 0 /\ k + 1 = getSize /\ 0 \in 0 .. getSize - 1
    BY <1>1, <1>2, <1>6
  <2> QED
    BY <1>5, <1>6, <2>1 DEF Before, GapBefore, getSize
<1>7. CASE k # getSize - 1
  <2>1. (k + 1) % getSize = k + 1 /\ k + 1 \in 0 .. getSize - 1
    BY <1>1, <1>3, <1>7
  <2> QED
    BY <1>4, <1>5, <1>7, <2>1 DEF Before, GapBefore
<1> QED
  BY <1>6, <1>7

\* Of the three gaps only gapTrackingLength + 1 are compared.
LEMMA SameVerdict ==
  ASSUME wheel \in Wheels, NEW x \in [1 .. 3 -> Nat], NEW y \in [1 .. 3 -> Nat],
         x[1] = y[1], x[2] = y[2], gapTrackingLength = 2 => x[3] = y[3]
  PROVE  GapsMatch(wheel, x) <=> GapsMatch(wheel, y)
<1>1. gapTrackingLength \in 1 .. 2 /\ wheel.miataNB \in BOOLEAN
      /\ (wheel.miataNB => gapTrackingLength = 2)
  BY WheelFacts
<1>2. CASE wheel.miataNB
  <2>1. x[1] = y[1] /\ x[2] = y[2] /\ x[3] = y[3]
    BY <1>1, <1>2
  <2>2. \A i \in 1 .. 2 : MaybeGap(wheel, x, i) <=> MaybeGap(wheel, y, i)
    BY <2>1 DEF MaybeGap
  <2> QED
    BY <1>2, <2>1, <2>2 DEF GapsMatch, MiataGap
<1>3. CASE ~wheel.miataNB
  <2>1. \A i \in 1 .. gapTrackingLength : x[i] = y[i] /\ x[i + 1] = y[i + 1]
    BY <1>1
  <2>2. \A i \in 1 .. gapTrackingLength : GapOk(wheel, x, i) <=> GapOk(wheel, y, i)
    BY <2>1 DEF GapOk
  <2> QED
    BY <1>3, <2>2 DEF GapsMatch, gapTrackingLength
<1> QED
  BY <1>2, <1>3

-------------------------------------------------------------------------------
(***************************************************************************)
(* One decoded edge.                                                       *)
(***************************************************************************)
Clamped(ticks) == IF ticks > wheel.longGap THEN wheel.longGap ELSE ticks

\* The state that counts the edge is the decoder's own, or all reset.
LEMMA TimeoutFacts ==
  ASSUME wheel \in Wheels, NEW d, InBounds(d), WithinWheel(d), NEW silent \in BOOLEAN
  PROVE  InBounds(CheckTimeout(d, silent)) /\ WithinWheel(CheckTimeout(d, silent))
<1>1. getSize \in Nat /\ getSize >= 2 /\ Divider \in Nat \ {0, 1}
  BY WheelFacts
<1>2. <<0, 0, 0>> \in [1 .. 3 -> Nat]
  OBVIOUS
<1>3. resetState \in DecoderType
  BY <1>2 DEF resetState, DecoderType
<1>4. InBounds(resetState) /\ WithinWheel(resetState)
  BY <1>1, <1>3 DEF InBounds, WithinWheel, resetState
<1> QED
  BY <1>4 DEF CheckTimeout

\* Counting an edge changes the event count and the first gap only.
LEMMA CountEdgeFacts ==
  ASSUME wheel \in Wheels, NEW d, InBounds(d), NEW ticks \in Nat
  PROVE  LET e == CountEdge(d, ticks)
         IN  /\ InBounds(e)
             /\ e.synchronized = d.synchronized
             /\ e.current_index = d.current_index
             /\ ~e.isFirstEvent
             /\ e.toothDurations[1] = IF d.isFirstEvent THEN 0 ELSE Clamped(ticks)
             /\ e.toothDurations[2] = d.toothDurations[2]
             /\ e.toothDurations[3] = d.toothDurations[3]
<1>1. getSize \in Nat /\ wheel.longGap \in Nat
  BY WheelFacts
<1>2. d \in DecoderType /\ d.eventCount <= getSize + 1
  BY DEF InBounds
<1> DEFINE e == CountEdge(d, ticks)
           gap == IF d.isFirstEvent THEN 0 ELSE Clamped(ticks)
<1>3. gap \in Nat
  BY <1>1 DEF Clamped
<1>4. e = [d EXCEPT !.eventCount = IF d.eventCount <= getSize THEN d.eventCount + 1 ELSE d.eventCount,
                    !.toothDurations = [d.toothDurations EXCEPT ![1] = gap],
                    !.isFirstEvent = FALSE]
  BY <1>2 DEF CountEdge, Clamped, DecoderType
<1> HIDE DEF e, gap
<1>5. /\ e.synchronized = d.synchronized /\ e.current_index = d.current_index
      /\ e.isFirstEvent = FALSE
      /\ e.toothDurations = [d.toothDurations EXCEPT ![1] = gap]
      /\ e.eventCount = IF d.eventCount <= getSize THEN d.eventCount + 1 ELSE d.eventCount
      /\ e.syncCounter = d.syncCounter /\ e.phaseAdjustment = d.phaseAdjustment
  BY <1>2, <1>4 DEF DecoderType
<1>6. d.toothDurations \in [1 .. 3 -> Nat] /\ d.eventCount \in Nat
  BY <1>2 DEF DecoderType
<1>7. [d.toothDurations EXCEPT ![1] = gap] \in [1 .. 3 -> Nat]
  BY <1>3, <1>6
<1> DEFINE count == IF d.eventCount <= getSize THEN d.eventCount + 1 ELSE d.eventCount
           durations == [d.toothDurations EXCEPT ![1] = gap]
<1>8. count \in Nat /\ count <= getSize + 1
  BY <1>1, <1>2, <1>6
<1>9. durations \in [1 .. 3 -> Nat]
  BY <1>7
<1>10. e = [d EXCEPT !.eventCount = count, !.toothDurations = durations, !.isFirstEvent = FALSE]
  BY <1>4
<1>11. e.eventCount = count
  BY <1>5
<1> HIDE DEF count, durations
<1>12. e \in DecoderType
  BY <1>2, <1>8, <1>9, <1>10 DEF DecoderType
<1>13. InBounds(e)
  BY <1>1, <1>5, <1>8, <1>12, <1>11 DEF InBounds
<1>14. /\ e.toothDurations[1] = gap
       /\ e.toothDurations[2] = d.toothDurations[2]
       /\ e.toothDurations[3] = d.toothDurations[3]
  BY <1>5, <1>6
<1>15. gap = IF d.isFirstEvent THEN 0 ELSE Clamped(ticks)
  BY DEF gap
<1>16. e = CountEdge(d, ticks)
  BY DEF e
<1> QED
  BY <1>5, <1>13, <1>14, <1>15, <1>16

\* A synchronisation point keeps the bounds, sets the index to 0 and leaves
\* the gaps alone.
LEMMA SyncPointFacts ==
  ASSUME wheel \in Wheels, NEW d, InBounds(d), NEW was \in BOOLEAN
  PROVE  LET r == AtSyncPoint(d, was)
         IN  /\ InBounds(r)
             /\ r.current_index = 0
             /\ r.isFirstEvent = d.isFirstEvent
             /\ r.toothDurations = d.toothDurations
<1>1. getSize \in Nat /\ Divider \in Nat \ {0}
  BY WheelFacts
<1>2. d \in DecoderType /\ d.syncCounter < Divider /\ d.phaseAdjustment < Divider
  BY DEF InBounds
<1> DEFINE c == IF was /\ validateEventCounters(d)
                THEN resetHasFullSync([d EXCEPT !.synchronized = FALSE])
                ELSE [d EXCEPT !.synchronized = TRUE]
           r == onShaftSynchronization(c, was)
<1>3. /\ c \in DecoderType /\ c.syncCounter = d.syncCounter
      /\ c.phaseAdjustment < Divider
      /\ c.isFirstEvent = d.isFirstEvent /\ c.toothDurations = d.toothDurations
  <2>1. CASE was /\ validateEventCounters(d)
    <3> DEFINE b == [d EXCEPT !.synchronized = FALSE]
    <3>1. c = [b EXCEPT !.hasSynchronizedPhase = FALSE, !.phaseAdjustment = 0]
      BY <2>1 DEF resetHasFullSync
    <3>2. /\ b \in DecoderType /\ b.syncCounter = d.syncCounter
          /\ b.isFirstEvent = d.isFirstEvent /\ b.toothDurations = d.toothDurations
      BY <1>2 DEF DecoderType
    <3> HIDE DEF b, c
    <3>3. /\ c \in DecoderType /\ c.syncCounter = b.syncCounter /\ c.phaseAdjustment = 0
          /\ c.isFirstEvent = b.isFirstEvent /\ c.toothDurations = b.toothDurations
      BY <3>1, <3>2 DEF DecoderType
    <3> QED
      BY <1>1, <3>2, <3>3
  <2>2. CASE ~(was /\ validateEventCounters(d))
    <3>1. c = [d EXCEPT !.synchronized = TRUE]
      BY <2>2
    <3> HIDE DEF c
    <3> QED
      BY <1>1, <1>2, <3>1 DEF DecoderType
  <2> QED
    BY <2>1, <2>2
<1> HIDE DEF c
<1> DEFINE n == IF was THEN (c.syncCounter + 1) % Divider ELSE 0
<1>4. n \in Nat /\ n < Divider
  <2>1. c.syncCounter + 1 \in Int
    BY <1>3 DEF DecoderType
  <2>2. (c.syncCounter + 1) % Divider \in 0 .. Divider - 1
    BY <1>1, <2>1, ModRange, Zenon
  <2>3. CASE was
    <3>1. n = (c.syncCounter + 1) % Divider
      BY <2>3
    <3> HIDE DEF n
    <3> QED
      BY <1>1, <2>2, <3>1
  <2>4. CASE ~was
    BY <1>1, <2>4
  <2> QED
    BY <2>3, <2>4
<1>5. r = [c EXCEPT !.eventCount = 0, !.current_index = 0, !.syncCounter = n]
  BY DEF onShaftSynchronization
<1> HIDE DEF n, r
<1>6. /\ r \in DecoderType /\ r.current_index = 0 /\ r.eventCount = 0 /\ r.syncCounter = n
      /\ r.phaseAdjustment = c.phaseAdjustment
      /\ r.isFirstEvent = c.isFirstEvent /\ r.toothDurations = c.toothDurations
  BY <1>3, <1>4, <1>5 DEF DecoderType
<1>7. InBounds(r)
  BY <1>1, <1>3, <1>4, <1>6 DEF InBounds
<1>8. AtSyncPoint(d, was) = r
  BY DEF AtSyncPoint, r, c
<1> QED
  BY <1>3, <1>6, <1>7, <1>8

\* Advancing: at a synchronisation point the index is 0, elsewhere a
\* synchronised decoder was synchronised before and counts.
LEMMA AdvanceFacts ==
  ASSUME wheel \in Wheels, NEW d, InBounds(d), WithinWheel(d), NEW slow \in BOOLEAN
  PROVE  LET r == Advance(d, slow)
         IN  /\ InBounds(r)
             /\ r.isFirstEvent = d.isFirstEvent
             /\ r.toothDurations = d.toothDurations
             /\ isSyncPoint(d, slow) => r.current_index = 0
             /\ ~isSyncPoint(d, slow) /\ r.synchronized =>
                  d.synchronized /\ r.current_index = d.current_index + 1
<1>1. getSize \in Nat
  BY WheelFacts
<1> DEFINE g == GiveUp(d, slow)
<1>2. d \in DecoderType /\ d.synchronized \in BOOLEAN /\ d.current_index \in Nat
  BY DEF InBounds, DecoderType
<1>3. /\ InBounds(g)
      /\ g.isFirstEvent = d.isFirstEvent /\ g.toothDurations = d.toothDurations
      /\ g.current_index = d.current_index
      /\ g.synchronized => d.synchronized
  <2>1. g = d \/ g = [d EXCEPT !.synchronized = FALSE]
    BY DEF GiveUp
  <2> HIDE DEF g
  <2>2. CASE g = [d EXCEPT !.synchronized = FALSE]
    <3>1. /\ g \in DecoderType /\ g.synchronized = FALSE
          /\ g.current_index = d.current_index /\ g.eventCount = d.eventCount
          /\ g.syncCounter = d.syncCounter /\ g.phaseAdjustment = d.phaseAdjustment
          /\ g.isFirstEvent = d.isFirstEvent /\ g.toothDurations = d.toothDurations
      BY <1>2, <2>2 DEF DecoderType
    <3> QED
      BY <3>1 DEF InBounds
  <2> QED
    BY <2>1, <2>2
<1>4. Advance(d, slow) = IF isSyncPoint(d, slow) THEN AtSyncPoint(g, d.synchronized)
                         ELSE IF g.synchronized THEN nextTriggerEvent(g) ELSE g
  BY DEF Advance
<1> HIDE DEF g
<1>5. CASE isSyncPoint(d, slow)
  BY <1>2, <1>3, <1>4, <1>5, SyncPointFacts
<1>6. CASE ~isSyncPoint(d, slow) /\ g.synchronized
  <2>1. Advance(d, slow) = [g EXCEPT !.current_index = g.current_index + 1]
    <3>1. nextTriggerEvent(g) = [g EXCEPT !.current_index = g.current_index + 1]
      BY DEF nextTriggerEvent
    <3> QED
      BY <1>4, <1>6, <3>1, Zenon
  <2> DEFINE r == Advance(d, slow)
  <2>2. r = [g EXCEPT !.current_index = g.current_index + 1]
    BY <2>1
  <2> HIDE DEF r
  <2>3. g \in DecoderType /\ g.current_index \in Nat
    BY <1>3 DEF InBounds, DecoderType
  <2>4. /\ r \in DecoderType /\ r.current_index = g.current_index + 1
        /\ r.eventCount = g.eventCount /\ r.syncCounter = g.syncCounter
        /\ r.phaseAdjustment = g.phaseAdjustment
        /\ r.isFirstEvent = g.isFirstEvent /\ r.toothDurations = g.toothDurations
    BY <2>2, <2>3 DEF DecoderType
  <2>5. g.current_index + 1 <= getSize
    BY <1>1, <1>2, <1>3, <1>6 DEF WithinWheel
  <2>6. InBounds(r)
    BY <1>3, <2>4, <2>5 DEF InBounds
  <2>7. /\ r.isFirstEvent = d.isFirstEvent /\ r.toothDurations = d.toothDurations
        /\ d.synchronized /\ r.current_index = d.current_index + 1
    BY <1>3, <1>6, <2>4
  <2> QED
    BY <1>6, <2>6, <2>7 DEF r
<1>7. CASE ~isSyncPoint(d, slow) /\ ~g.synchronized
  <2>1. Advance(d, slow) = g
    BY <1>4, <1>7
  <2> QED
    BY <1>3, <1>7, <2>1
<1> QED
  BY <1>5, <1>6, <1>7

\* After a whole edge: bounds, the two kept gaps, and where the index is.
LEMMA DecodeFacts ==
  ASSUME wheel \in Wheels, NEW d, InBounds(d), WithinWheel(d),
         NEW silent \in BOOLEAN, NEW ticks \in Nat, NEW slow \in BOOLEAN
  PROVE  LET r == decodeTriggerEvent(d, silent, ticks, slow)
             t == CheckTimeout(d, silent)
             e == CountEdge(t, ticks)
         IN  /\ InBounds(r) /\ WithinWheel(r)
             /\ ~r.isFirstEvent
             /\ r.toothDurations[2] = e.toothDurations[1]
             /\ r.toothDurations[3] = e.toothDurations[2]
             /\ isSyncPoint(e, slow) => r.current_index = 0
             /\ ~isSyncPoint(e, slow) /\ r.synchronized =>
                  t.synchronized /\ r.current_index = t.current_index + 1
<1> DEFINE t == CheckTimeout(d, silent)
           e == CountEdge(t, ticks)
           a == Advance(e, slow)
           s == ShiftDurations(a)
           r == CheckIndex(s)
<1>1. InBounds(t) /\ WithinWheel(t)
  BY TimeoutFacts
<1> HIDE DEF t
<1>2. /\ InBounds(e) /\ ~e.isFirstEvent
      /\ e.synchronized = t.synchronized /\ e.current_index = t.current_index
  BY <1>1, CountEdgeFacts, Zenon
<1> HIDE DEF e
<1>3. WithinWheel(e)
  BY <1>1, <1>2 DEF WithinWheel
<1>4. /\ InBounds(a) /\ a.isFirstEvent = e.isFirstEvent
      /\ a.toothDurations = e.toothDurations
      /\ isSyncPoint(e, slow) => a.current_index = 0
      /\ ~isSyncPoint(e, slow) /\ a.synchronized =>
           e.synchronized /\ a.current_index = e.current_index + 1
  BY <1>2, <1>3, AdvanceFacts, Zenon
<1> HIDE DEF a
<1>5. a \in DecoderType /\ a.toothDurations \in [1 .. 3 -> Nat]
  BY <1>4 DEF InBounds, DecoderType
<1> DEFINE shifted == <<0, a.toothDurations[1], a.toothDurations[2]>>
<1>6. /\ shifted \in [1 .. 3 -> Nat]
      /\ shifted[2] = a.toothDurations[1] /\ shifted[3] = a.toothDurations[2]
  BY <1>5
<1>7. s = [a EXCEPT !.toothDurations = shifted]
  BY DEF ShiftDurations
<1> HIDE DEF shifted, s
<1>8. /\ s \in DecoderType /\ s.toothDurations = shifted
      /\ s.synchronized = a.synchronized /\ s.current_index = a.current_index
      /\ s.isFirstEvent = a.isFirstEvent /\ s.eventCount = a.eventCount
      /\ s.syncCounter = a.syncCounter /\ s.phaseAdjustment = a.phaseAdjustment
  BY <1>5, <1>6, <1>7 DEF DecoderType
<1>9. InBounds(s)
  BY <1>4, <1>8 DEF InBounds
<1>10. /\ InBounds(r) /\ WithinWheel(r)
       /\ r.isFirstEvent = s.isFirstEvent /\ r.toothDurations = s.toothDurations
       /\ r.current_index = s.current_index
       /\ r.synchronized => s.synchronized
  <2>1. getSize \in Nat /\ Divider \in Nat \ {0, 1} /\ s.current_index \in Nat
        /\ s.current_index <= getSize
    BY <1>8, <1>9, WheelFacts DEF DecoderType, InBounds
  <2>2. CASE s.synchronized /\ s.current_index >= getSize
    <3> DEFINE b == [s EXCEPT !.synchronized = FALSE]
    <3>1. r = [b EXCEPT !.hasSynchronizedPhase = FALSE, !.phaseAdjustment = 0]
      BY <2>2 DEF CheckIndex, resetHasFullSync
    <3>2. /\ b \in DecoderType /\ b.synchronized = FALSE
          /\ b.current_index = s.current_index /\ b.eventCount = s.eventCount
          /\ b.syncCounter = s.syncCounter
          /\ b.isFirstEvent = s.isFirstEvent /\ b.toothDurations = s.toothDurations
      BY <1>8 DEF DecoderType
    <3> HIDE DEF b, r
    <3>3. /\ r \in DecoderType /\ r.synchronized = FALSE
          /\ r.current_index = b.current_index /\ r.eventCount = b.eventCount
          /\ r.syncCounter = b.syncCounter /\ r.phaseAdjustment = 0
          /\ r.isFirstEvent = b.isFirstEvent /\ r.toothDurations = b.toothDurations
      BY <3>1, <3>2 DEF DecoderType
    <3>4. InBounds(r)
      BY <1>9, <2>1, <3>2, <3>3 DEF InBounds
    <3> QED
      BY <3>2, <3>3, <3>4 DEF WithinWheel
  <2>3. CASE ~(s.synchronized /\ s.current_index >= getSize)
    <3>1. r = s
      BY <2>3 DEF CheckIndex
    <3> HIDE DEF r
    <3>2. WithinWheel(s)
      BY <2>1, <2>3 DEF WithinWheel
    <3> QED
      BY <1>9, <3>1, <3>2
  <2> QED
    BY <2>2, <2>3
<1> HIDE DEF r
<1>11. decodeTriggerEvent(d, silent, ticks, slow) = r
  BY DEF decodeTriggerEvent, r, s, a, e, t
<1>12. /\ r.toothDurations[2] = e.toothDurations[1]
       /\ r.toothDurations[3] = e.toothDurations[2]
       /\ ~r.isFirstEvent
  BY <1>2, <1>4, <1>6, <1>8, <1>10
<1>13. isSyncPoint(e, slow) => r.current_index = 0
  BY <1>4, <1>8, <1>10
<1>14. ~isSyncPoint(e, slow) /\ r.synchronized =>
         t.synchronized /\ r.current_index = t.current_index + 1
  BY <1>2, <1>4, <1>8, <1>10
<1>15. t = CheckTimeout(d, silent) /\ e = CountEdge(t, ticks)
  BY DEF t, e
<1> QED
  BY <1>10, <1>11, <1>12, <1>13, <1>14, <1>15

-------------------------------------------------------------------------------
(***************************************************************************)
(* The invariant.                                                          *)
(***************************************************************************)
LEMMA InitInv == Init => DecoderInv
<1> SUFFICES ASSUME Init PROVE DecoderInv
  OBVIOUS
<1>1. wheel \in Wheels
  BY DEF Init
<1>2. /\ getSize \in Nat /\ getSize >= 2 /\ Divider \in Nat \ {0, 1}
      /\ gapTrackingLength \in 1 .. 2
      /\ \A k \in 1 .. getSize : wheel.gaps[k] \in Nat \ {0}
  BY <1>1, WheelFacts
<1>3. /\ tooth \in 0 .. getSize - 1 /\ turn \in 0 .. Divider - 1
      /\ passed = 0 /\ elapsed = 0 /\ stopped = TRUE /\ clean = 0
      /\ decoder = resetState
  BY DEF Init
<1>4. WheelTypes
  <2>1. tooth + 1 \in 1 .. getSize
    BY <1>2, <1>3
  <2>2. wheel.gaps[tooth + 1] \in Nat \ {0}
    BY <1>2, <2>1
  <2>3. 0 \in 0 .. CleanTurn
    BY <1>2 DEF CleanTurn
  <2> QED
    BY <1>1, <1>3, <2>2, <2>3 DEF WheelTypes
<1>5. InBounds(decoder) /\ WithinWheel(decoder)
  <2>1. resetState \in DecoderType
    BY DEF resetState, DecoderType
  <2> QED
    BY <1>2, <1>3, <2>1 DEF InBounds, WithinWheel, resetState
<1>6. ~decoder.synchronized
  BY <1>3 DEF resetState
<1>7. GapsAreClean
  BY <1>3 DEF GapsAreClean
<1>8. IndexFollows(decoder, tooth, clean)
  BY <1>6 DEF IndexFollows
<1> QED
  BY <1>4, <1>5, <1>7, <1>8 DEF DecoderInv

\* The wheel stays the same, and with it all that depends on it only.
LEMMA SameWheel ==
  ASSUME wheel' = wheel
  PROVE  /\ getSize' = getSize /\ Divider' = Divider /\ CleanTurn' = CleanTurn
         /\ gapTrackingLength' = gapTrackingLength /\ ComparesGaps' = ComparesGaps
BY DEF getSize, Divider, CleanTurn, gapTrackingLength, ComparesGaps

\* The two gaps kept after an edge, and what becomes of the index.
EdgeEffect(ticks, slow) ==
  LET t == CheckTimeout(decoder, stopped)
      e == CountEdge(t, ticks)
  IN  /\ decoder'.toothDurations[2] = e.toothDurations[1]
      /\ decoder'.toothDurations[3] = e.toothDurations[2]
      /\ isSyncPoint(e, slow) => decoder'.current_index = 0
      /\ ~isSyncPoint(e, slow) /\ decoder'.synchronized =>
           t.synchronized /\ decoder'.current_index = t.current_index + 1

\* What every decoded edge preserves, and what it does.
LEMMA EdgeBounds ==
  ASSUME wheel \in Wheels, InBounds(decoder), WithinWheel(decoder),
         stopped \in BOOLEAN, NEW ticks \in Nat, Decode(ticks)
  PROVE  /\ wheel' = wheel /\ elapsed' = 0 /\ stopped' = FALSE
         /\ InBounds(decoder)' /\ WithinWheel(decoder)'
         /\ ~decoder'.isFirstEvent
         /\ \E slow \in wheel.maySlow : EdgeEffect(ticks, slow)
<1>1. /\ wheel' = wheel /\ elapsed' = 0 /\ stopped' = FALSE
      /\ \E slow \in wheel.maySlow : decoder' = decodeTriggerEvent(decoder, stopped, ticks, slow)
  BY DEF Decode
<1>2. PICK slow \in wheel.maySlow : decoder' = decodeTriggerEvent(decoder, stopped, ticks, slow)
  BY <1>1
<1>3. slow \in BOOLEAN
  BY WheelFacts
<1>4. InBounds(decoder') /\ WithinWheel(decoder') /\ ~decoder'.isFirstEvent
  BY <1>2, <1>3, DecodeFacts, Zenon
<1>5. getSize' = getSize /\ Divider' = Divider
  BY <1>1, SameWheel
<1>6. InBounds(decoder)' /\ WithinWheel(decoder)'
  BY <1>4, <1>5 DEF InBounds, WithinWheel
<1>7. EdgeEffect(ticks, slow)
  <2> DEFINE q == decodeTriggerEvent(decoder, stopped, ticks, slow)
             t == CheckTimeout(decoder, stopped)
             e == CountEdge(t, ticks)
  <2>1. q.toothDurations[2] = e.toothDurations[1]
    BY <1>3, DecodeFacts, SMT
  <2>2. q.toothDurations[3] = e.toothDurations[2]
    BY <1>3, DecodeFacts, SMT
  <2>3. isSyncPoint(e, slow) => q.current_index = 0
    BY <1>3, DecodeFacts, SMT
  <2>4. ~isSyncPoint(e, slow) /\ q.synchronized =>
           t.synchronized /\ q.current_index = t.current_index + 1
    BY <1>3, DecodeFacts, SMT
  <2>5. q = decoder'
    BY <1>2
  <2> HIDE DEF q, t, e
  <2>6. /\ decoder'.toothDurations[2] = e.toothDurations[1]
        /\ decoder'.toothDurations[3] = e.toothDurations[2]
        /\ isSyncPoint(e, slow) => decoder'.current_index = 0
        /\ ~isSyncPoint(e, slow) /\ decoder'.synchronized =>
             t.synchronized /\ decoder'.current_index = t.current_index + 1
    BY <2>1, <2>2, <2>3, <2>4, <2>5
  <2> QED
    BY <2>6 DEF EdgeEffect, t, e
<1> QED
  BY <1>1, <1>4, <1>6, <1>7

\* A tooth: the gap it ends is measured, and from the tooth number
\* gapTrackingLength + 2 on only tooth 0 is a synchronisation point.
LEMMA ToothInv == DecoderInv /\ Tooth => DecoderInv'
<1> SUFFICES ASSUME DecoderInv, Tooth PROVE DecoderInv'
  OBVIOUS
<1> DEFINE N == getSize
           L == gapTrackingLength
           next == (tooth + 1) % getSize
           count == IF clean < CleanTurn THEN clean + 1 ELSE clean
           ticks == elapsed + ToNextTooth
<1>1. WheelTypes /\ InBounds(decoder) /\ WithinWheel(decoder) /\ GapsAreClean
      /\ (ComparesGaps => IndexFollows(decoder, tooth, clean))
  BY DEF DecoderInv
<1>2. /\ wheel \in Wheels /\ tooth \in 0 .. N - 1 /\ turn \in 0 .. Divider - 1
      /\ clean \in 0 .. CleanTurn
      /\ passed \in Nat /\ elapsed \in Nat /\ stopped \in BOOLEAN
      /\ passed < wheel.gaps[tooth + 1]
  BY <1>1 DEF WheelTypes
<1>3. /\ N \in Nat /\ N >= 2 /\ L \in 1 .. 2 /\ Divider \in Nat \ {0, 1}
      /\ CleanTurn = N + L
  BY <1>2, WheelFacts DEF CleanTurn
<1>4. /\ next = IF tooth = N - 1 THEN 0 ELSE tooth + 1
      /\ next \in 0 .. N - 1
      /\ Before(wheel, next) = tooth
      /\ GapBefore(wheel, next) = wheel.gaps[tooth + 1]
      /\ wheel.gaps[tooth + 1] \in Nat \ {0} /\ wheel.gaps[tooth + 1] <= wheel.longGap
  BY <1>2, NextGap, Zenon
<1>5. ticks \in Nat
  BY <1>2, <1>4 DEF ToNextTooth
<1>6. /\ tooth' = next /\ passed' = 0 /\ clean' = count
      /\ turn' = IF tooth = N - 1 THEN (turn + 1) % Divider ELSE turn
      /\ Decode(ticks)
  BY DEF Tooth, Pass
<1>7. /\ wheel' = wheel /\ elapsed' = 0 /\ stopped' = FALSE
      /\ InBounds(decoder)' /\ WithinWheel(decoder)'
      /\ ~decoder'.isFirstEvent
      /\ \E slow \in wheel.maySlow : EdgeEffect(ticks, slow)
  BY <1>1, <1>2, <1>5, <1>6, EdgeBounds
<1>8. /\ getSize' = N /\ Divider' = Divider /\ CleanTurn' = CleanTurn
      /\ gapTrackingLength' = L /\ ComparesGaps' = ComparesGaps
  BY <1>7, SameWheel
<1> HIDE DEF N, L, next, count, ticks
<1>9. count \in 1 .. CleanTurn
  BY <1>2, <1>3 DEF count
<1>10. WheelTypes'
  <2>1. turn' \in 0 .. Divider - 1
    <3>1. (turn + 1) % Divider \in 0 .. Divider - 1
      <4>1. turn + 1 \in Int /\ Divider \in Nat \ {0}
        BY <1>2, <1>3
      <4> QED
        BY <4>1, ModRange, Zenon
    <3> QED
      BY <1>2, <1>6, <3>1
  <2>2. wheel.gaps[next + 1] \in Nat \ {0}
    <3>1. next + 1 \in 1 .. getSize
      BY <1>3, <1>4 DEF N
    <3> QED
      BY <1>2, <3>1, WheelFacts
  <2>3. passed' < wheel'.gaps[tooth' + 1]
    BY <1>6, <1>7, <2>2
  <2> QED
    <3>1. wheel' \in Wheels /\ tooth' \in 0 .. getSize' - 1 /\ turn' \in 0 .. Divider' - 1
      BY <1>2, <1>4, <1>6, <1>7, <1>8, <2>1
    <3>2. clean' \in 0 .. CleanTurn'
      BY <1>3, <1>6, <1>8, <1>9
    <3>3. passed' \in Nat /\ elapsed' \in Nat /\ stopped' \in BOOLEAN
      BY <1>6, <1>7
    <3> QED
      BY <2>3, <3>1, <3>2, <3>3, Zenon DEF WheelTypes
<1>11. PICK slow \in wheel.maySlow : EdgeEffect(ticks, slow)
  BY <1>7
<1>12. slow \in BOOLEAN
  BY <1>2, WheelFacts
<1> DEFINE t == CheckTimeout(decoder, stopped)
           e == CountEdge(t, ticks)
<1>13. /\ decoder'.toothDurations[2] = e.toothDurations[1]
       /\ decoder'.toothDurations[3] = e.toothDurations[2]
       /\ isSyncPoint(e, slow) => decoder'.current_index = 0
       /\ ~isSyncPoint(e, slow) /\ decoder'.synchronized =>
            t.synchronized /\ decoder'.current_index = t.current_index + 1
  BY <1>11 DEF EdgeEffect
<1>14. InBounds(t)
  BY <1>1, <1>2, TimeoutFacts, Zenon
<1>15. /\ InBounds(e)
       /\ e.toothDurations[1] = IF t.isFirstEvent THEN 0 ELSE Clamped(ticks)
       /\ e.toothDurations[2] = t.toothDurations[2]
       /\ e.toothDurations[3] = t.toothDurations[3]
  BY <1>2, <1>5, <1>14, CountEdgeFacts, Zenon
<1>16. ASSUME clean > 0
       PROVE  t = decoder /\ e.toothDurations[1] = GapBefore(wheel, next)
  <2>1. passed = 0 /\ elapsed = 0 /\ ~stopped /\ ~decoder.isFirstEvent
    BY <1>1, <1>16 DEF GapsAreClean
  <2>2. t = decoder
    BY <2>1 DEF CheckTimeout
  <2>3. ticks = wheel.gaps[tooth + 1]
    BY <1>4, <2>1 DEF ticks, ToNextTooth
  <2>4. Clamped(ticks) = wheel.gaps[tooth + 1]
    BY <1>2, <1>4, <2>3, WheelFacts DEF Clamped
  <2> QED
    BY <1>4, <1>15, <2>1, <2>2, <2>4
<1> HIDE DEF t, e
<1>17. count > 1 => clean > 0
  BY <1>2 DEF count
<1>18. count > 2 => clean > 1
  BY <1>2, <1>3 DEF count
<1>19. GapsAreClean'
  <2>1. count > 1 => decoder'.toothDurations[2] = GapBefore(wheel, next)
    BY <1>13, <1>16, <1>17
  <2>2. count > 2 => decoder'.toothDurations[3] = GapBefore(wheel, Before(wheel, next))
    <3>1. clean > 1 => decoder.toothDurations[2] = GapBefore(wheel, tooth) /\ clean > 0
      BY <1>1, <1>2 DEF GapsAreClean
    <3> QED
      BY <1>4, <1>13, <1>15, <1>16, <1>18, <3>1
  <2> QED
    BY <1>6, <1>7, <2>1, <2>2 DEF GapsAreClean
<1>20. ASSUME ComparesGaps PROVE IndexFollows(decoder, tooth, clean)'
  <2>1. slow = FALSE
    BY <1>12, <1>20 DEF ComparesGaps
  <2>2. isSyncPoint(e, slow) <=> GapsMatch(wheel, e.toothDurations)
    BY <2>1 DEF isSyncPoint, CountsTeeth
  <2> SUFFICES ASSUME decoder'.synchronized, count > L
               PROVE  IF next + L + 2 <= count THEN decoder'.current_index = next
                      ELSE decoder'.current_index + L + 1 >= count
    BY <1>6, <1>7, <1>8 DEF IndexFollows, MarkSeen
  <2>3. decoder'.current_index \in Nat /\ decoder'.current_index < N
    BY <1>7, <1>8 DEF InBounds, WithinWheel, DecoderType
  <2>4. CASE count = L + 1
    <3>1. ~(next + L + 2 <= count)
      BY <1>3, <1>4, <2>4
    <3>2. decoder'.current_index + L + 1 >= count
      BY <1>3, <2>3, <2>4
    <3> QED
      BY <3>1, <3>2
  <2>5. CASE count > L + 1
    <3>1. clean > L /\ clean > 0 /\ (L = 2 => clean > 2)
      BY <1>2, <1>3, <2>5 DEF count
    <3>2. decoder \in DecoderType /\ e \in DecoderType
      BY <1>1, <1>15 DEF InBounds
    <3>3. decoder.toothDurations[2] = GapBefore(wheel, tooth)
      <4>1. clean > 1
        BY <1>2, <1>3, <3>1
      <4> QED
        BY <1>1, <4>1 DEF GapsAreClean
    <3>4. L = 2 => decoder.toothDurations[3] = GapBefore(wheel, Before(wheel, tooth))
      BY <1>1, <3>1 DEF GapsAreClean
    <3>5. t = decoder /\ e.toothDurations[1] = GapBefore(wheel, next)
      BY <1>16, <3>1
    <3>6. GapsMatch(wheel, e.toothDurations) <=> next = 0
      <4> DEFINE y == GapsAt(wheel, next)
      <4>1. y = <<GapBefore(wheel, next), GapBefore(wheel, tooth), GapBefore(wheel, Before(wheel, tooth))>>
        BY <1>4 DEF GapsAt
      <4>2. Before(wheel, tooth) \in 0 .. N - 1
        BY <1>2, <1>3 DEF Before, N, getSize
      <4>3. \A k \in 0 .. N - 1 : GapBefore(wheel, k) \in Nat
        <5>1. \A k \in 0 .. N - 1 : (IF k = 0 THEN N ELSE k) \in 1 .. getSize
          BY <1>3 DEF N
        <5>2. \A k \in 1 .. getSize : wheel.gaps[k] \in Nat
          BY <1>2, WheelFacts
        <5> QED
          BY <5>1, <5>2 DEF GapBefore, N, getSize
      <4>4. /\ y \in [1 .. 3 -> Nat]
            /\ y[1] = GapBefore(wheel, next) /\ y[2] = GapBefore(wheel, tooth)
            /\ y[3] = GapBefore(wheel, Before(wheel, tooth))
        <5>1. GapBefore(wheel, next) \in Nat /\ GapBefore(wheel, tooth) \in Nat
              /\ GapBefore(wheel, Before(wheel, tooth)) \in Nat
          BY <1>2, <1>4, <4>2, <4>3
        <5> QED
          BY <4>1, <5>1
      <4> HIDE DEF y
      <4>5. e.toothDurations \in [1 .. 3 -> Nat]
        BY <3>2 DEF DecoderType
      <4>6. /\ e.toothDurations[1] = y[1] /\ e.toothDurations[2] = y[2]
            /\ gapTrackingLength = 2 => e.toothDurations[3] = y[3]
        BY <1>15, <3>3, <3>4, <3>5, <4>4 DEF L
      <4>7. GapsMatch(wheel, e.toothDurations) <=> GapsMatch(wheel, y)
        BY <1>2, <4>4, <4>5, <4>6, SameVerdict
      <4>8. GapsMatch(wheel, GapsAt(wheel, next)) <=> next = 0
        BY <1>2, <1>4, WheelFacts DEF N
      <4> QED
        BY <4>7, <4>8 DEF y
    <3>7. CASE next = 0
      <4>1. decoder'.current_index = 0
        BY <1>13, <2>2, <3>6, <3>7
      <4>2. next + L + 2 <= count
        BY <1>3, <1>9, <2>5, <3>7
      <4> QED
        BY <3>7, <4>1, <4>2
    <3>8. CASE next # 0
      <4>1. decoder.synchronized /\ decoder'.current_index = decoder.current_index + 1
        BY <1>13, <2>2, <3>5, <3>6, <3>8
      <4>2. next = tooth + 1 /\ decoder.current_index \in Nat
        BY <1>4, <3>2, <3>8 DEF DecoderType
      <4>3. IF tooth + L + 2 <= clean THEN decoder.current_index = tooth
            ELSE decoder.current_index + L + 1 >= clean
        BY <1>1, <1>20, <3>1, <4>1 DEF IndexFollows, MarkSeen, L
      <4>4. CASE clean < CleanTurn
        <5>1. count = clean + 1
          BY <4>4 DEF count
        <5> QED
          BY <1>2, <1>3, <4>1, <4>2, <4>3, <5>1
      <4>5. CASE clean = CleanTurn
        <5>1. count = N + L /\ clean = N + L
          BY <1>3, <4>5 DEF count
        <5>2. tooth + 1 <= N - 1
          BY <1>3, <1>4, <4>2
        <5>3. tooth + L + 2 <= clean
          BY <1>2, <1>3, <5>1, <5>2
        <5>4. decoder'.current_index = next
          BY <4>1, <4>2, <4>3, <5>3
        <5>5. ~(next + L + 2 <= count) => decoder'.current_index + L + 1 >= count
          BY <1>2, <1>3, <4>2, <5>1, <5>4
        <5> QED
          BY <5>4, <5>5
      <4> QED
        BY <1>2, <1>3, <4>4, <4>5
    <3> QED
      BY <3>7, <3>8
  <2> QED
    BY <1>3, <1>9, <2>4, <2>5
<1> QED
  BY <1>7, <1>8, <1>10, <1>19, <1>20 DEF DecoderInv

\* A tooth the sensor misses, and an edge that is none, begin the count of
\* clean teeth anew.
LEMMA MissedToothInv == DecoderInv /\ MissedTooth => DecoderInv'
<1> SUFFICES ASSUME DecoderInv, MissedTooth PROVE DecoderInv'
  OBVIOUS
<1>1. /\ wheel \in Wheels /\ tooth \in 0 .. getSize - 1 /\ turn \in 0 .. Divider - 1
      /\ passed \in Nat /\ elapsed \in Nat /\ stopped \in BOOLEAN
      /\ passed < wheel.gaps[tooth + 1]
      /\ InBounds(decoder) /\ WithinWheel(decoder)
  BY DEF DecoderInv, WheelTypes
<1>2. /\ getSize \in Nat /\ getSize >= 2 /\ gapTrackingLength \in 1 .. 2
      /\ Divider \in Nat \ {0, 1}
      /\ \A k \in 1 .. getSize : wheel.gaps[k] \in Nat \ {0}
  BY <1>1, WheelFacts
<1>3. /\ (tooth + 1) % getSize \in 0 .. getSize - 1 /\ wheel.gaps[tooth + 1] \in Nat \ {0}
  BY <1>1, NextGap, Zenon
<1>4. /\ tooth' = (tooth + 1) % getSize /\ passed' = 0 /\ clean' = 0
      /\ turn' = IF tooth = getSize - 1 THEN (turn + 1) % Divider ELSE turn
      /\ elapsed' = IF elapsed > wheel.longGap THEN elapsed ELSE elapsed + ToNextTooth
      /\ wheel' = wheel /\ stopped' = stopped /\ decoder' = decoder
  BY DEF MissedTooth, Pass, Fault
<1>5. /\ getSize' = getSize /\ Divider' = Divider /\ CleanTurn' = CleanTurn
      /\ gapTrackingLength' = gapTrackingLength
  BY <1>4, SameWheel
<1>6. WheelTypes'
  <2>1. (turn + 1) % Divider \in 0 .. Divider - 1
    <3>1. turn + 1 \in Int /\ Divider \in Nat \ {0}
      BY <1>1, <1>2
    <3> QED
      BY <3>1, ModRange, Zenon
  <2>2. turn' \in 0 .. Divider' - 1 /\ tooth' \in 0 .. getSize' - 1
    BY <1>1, <1>3, <1>4, <1>5, <2>1
  <2>3. elapsed' \in Nat
    BY <1>1, <1>3, <1>4 DEF ToNextTooth
  <2>4. passed' < wheel'.gaps[tooth' + 1]
    <3>1. tooth' + 1 \in 1 .. getSize
      BY <1>2, <1>3, <1>4
    <3>2. wheel.gaps[tooth' + 1] \in Nat \ {0}
      BY <1>2, <3>1
    <3> QED
      BY <1>4, <3>2
  <2>5. clean' \in 0 .. CleanTurn'
    BY <1>2, <1>4, <1>5 DEF CleanTurn
  <2> QED
    BY <1>1, <1>4, <2>2, <2>3, <2>4, <2>5 DEF WheelTypes
<1>7. InBounds(decoder)' /\ WithinWheel(decoder)'
  BY <1>1, <1>4, <1>5 DEF InBounds, WithinWheel
<1>8. GapsAreClean'
  BY <1>4 DEF GapsAreClean
<1>9. IndexFollows(decoder, tooth, clean)'
  BY <1>2, <1>4, <1>5 DEF IndexFollows
<1> QED
  BY <1>6, <1>7, <1>8, <1>9 DEF DecoderInv

LEMMA NoiseEdgeInv ==
  ASSUME NEW t \in 1 .. wheel.longGap
  PROVE  DecoderInv /\ NoiseEdge(t) => DecoderInv'
<1> SUFFICES ASSUME DecoderInv, NoiseEdge(t) PROVE DecoderInv'
  OBVIOUS
<1>1. /\ wheel \in Wheels /\ tooth \in 0 .. getSize - 1 /\ turn \in 0 .. Divider - 1
      /\ passed \in Nat /\ elapsed \in Nat /\ stopped \in BOOLEAN
      /\ InBounds(decoder) /\ WithinWheel(decoder)
  BY DEF DecoderInv, WheelTypes
<1>2. /\ getSize \in Nat /\ gapTrackingLength \in 1 .. 2 /\ wheel.longGap \in Nat
  BY <1>1, WheelFacts
<1>3. wheel.gaps[tooth + 1] \in Nat \ {0}
  BY <1>1, NextGap, Zenon
<1>4. /\ t < ToNextTooth /\ passed' = passed + t /\ Decode(elapsed + t)
      /\ clean' = 0 /\ tooth' = tooth /\ turn' = turn
  BY DEF NoiseEdge, Fault
<1>5. elapsed + t \in Nat /\ t \in Nat
  BY <1>1, <1>2
<1>6. /\ wheel' = wheel /\ elapsed' = 0 /\ stopped' = FALSE
      /\ InBounds(decoder)' /\ WithinWheel(decoder)'
  BY <1>1, <1>4, <1>5, EdgeBounds
<1>7. /\ getSize' = getSize /\ Divider' = Divider /\ CleanTurn' = CleanTurn
      /\ gapTrackingLength' = gapTrackingLength
  BY <1>6, SameWheel
<1>8. WheelTypes'
  <2>1. passed' \in Nat /\ passed' < wheel'.gaps[tooth' + 1]
    BY <1>1, <1>3, <1>4, <1>5, <1>6 DEF ToNextTooth
  <2>2. clean' \in 0 .. CleanTurn'
    BY <1>2, <1>4, <1>7 DEF CleanTurn
  <2> QED
    BY <1>1, <1>4, <1>6, <1>7, <2>1, <2>2 DEF WheelTypes
<1>9. GapsAreClean'
  BY <1>4 DEF GapsAreClean
<1>10. IndexFollows(decoder, tooth, clean)'
  BY <1>2, <1>4, <1>7 DEF IndexFollows
<1> QED
  BY <1>6, <1>8, <1>9, <1>10 DEF DecoderInv

\* So does a stop, after which the wheel may stand anywhere.
LEMMA StopAndStartInv == DecoderInv /\ StopAndStart => DecoderInv'
<1> SUFFICES ASSUME DecoderInv, StopAndStart PROVE DecoderInv'
  OBVIOUS
<1>1. wheel \in Wheels /\ InBounds(decoder) /\ WithinWheel(decoder)
  BY DEF DecoderInv, WheelTypes
<1>2. /\ getSize \in Nat /\ getSize >= 2 /\ gapTrackingLength \in 1 .. 2
  BY <1>1, WheelFacts
<1>3. /\ tooth' \in 0 .. getSize - 1 /\ turn' \in 0 .. Divider - 1
      /\ passed' = 0 /\ elapsed' = 0 /\ stopped' = TRUE /\ clean' = 0
      /\ wheel' = wheel /\ decoder' = decoder
  BY DEF StopAndStart
<1>4. /\ getSize' = getSize /\ Divider' = Divider /\ CleanTurn' = CleanTurn
      /\ gapTrackingLength' = gapTrackingLength
  BY <1>3, SameWheel
<1>5. WheelTypes'
  <2>1. passed' < wheel'.gaps[tooth' + 1]
    <3>1. \A k \in 0 .. getSize - 1 : wheel.gaps[k + 1] \in Nat \ {0}
      BY <1>1, NextGap, Zenon
    <3>2. wheel.gaps[tooth' + 1] \in Nat \ {0}
      BY <1>3, <3>1, Zenon
    <3> QED
      BY <1>3, <3>2
  <2>2. clean' \in 0 .. CleanTurn'
    BY <1>2, <1>3, <1>4 DEF CleanTurn
  <2> QED
    BY <1>1, <1>3, <1>4, <2>1, <2>2 DEF WheelTypes
<1>6. InBounds(decoder)' /\ WithinWheel(decoder)'
  BY <1>1, <1>3, <1>4 DEF InBounds, WithinWheel
<1>7. GapsAreClean' /\ IndexFollows(decoder, tooth, clean)'
  BY <1>2, <1>3, <1>4 DEF GapsAreClean, IndexFollows
<1> QED
  BY <1>5, <1>6, <1>7 DEF DecoderInv

\* The cam edge sets the engine phase and nothing of the tooth.
LEMMA CamEdgeInv == DecoderInv /\ CamEdge => DecoderInv'
<1> SUFFICES ASSUME DecoderInv, CamEdge PROVE DecoderInv'
  OBVIOUS
<1>1. wheel \in Wheels /\ InBounds(decoder) /\ WithinWheel(decoder)
  BY DEF DecoderInv, WheelTypes
<1>2. Divider \in Nat \ {0} /\ Remainder \in Int
  BY <1>1, WheelFacts
<1>3. /\ wheel' = wheel /\ tooth' = tooth /\ turn' = turn /\ passed' = passed
      /\ elapsed' = elapsed /\ stopped' = stopped /\ clean' = clean
      /\ decoder' = IF decoder.synchronized
                    THEN [decoder EXCEPT !.hasSynchronizedPhase = TRUE,
                                         !.phaseAdjustment = PhaseShift(decoder)]
                    ELSE decoder
  BY DEF CamEdge
<1>4. /\ getSize' = getSize /\ Divider' = Divider /\ CleanTurn' = CleanTurn
      /\ gapTrackingLength' = gapTrackingLength /\ ComparesGaps' = ComparesGaps
  BY <1>3, SameWheel
<1>5. decoder \in DecoderType
  BY <1>1 DEF InBounds
<1>6. PhaseShift(decoder) \in Nat /\ PhaseShift(decoder) < Divider
  <2>1. Remainder - decoder.syncCounter \in Int
    BY <1>2, <1>5 DEF DecoderType
  <2>2. PhaseShift(decoder) \in 0 .. Divider - 1
    BY <1>2, <2>1, ModRange, Zenon DEF PhaseShift
  <2> QED
    BY <1>2, <2>2
<1>7. /\ decoder' \in DecoderType
      /\ decoder'.synchronized = decoder.synchronized
      /\ decoder'.current_index = decoder.current_index
      /\ decoder'.eventCount = decoder.eventCount
      /\ decoder'.toothDurations = decoder.toothDurations
      /\ decoder'.isFirstEvent = decoder.isFirstEvent
      /\ decoder'.syncCounter = decoder.syncCounter
      /\ decoder'.phaseAdjustment \in {decoder.phaseAdjustment, PhaseShift(decoder)}
  <2>1. CASE decoder.synchronized
    <3>1. decoder' = [decoder EXCEPT !.hasSynchronizedPhase = TRUE,
                                     !.phaseAdjustment = PhaseShift(decoder)]
      BY <1>3, <2>1
    <3> DEFINE shift == PhaseShift(decoder)
               r == [decoder EXCEPT !.hasSynchronizedPhase = TRUE, !.phaseAdjustment = shift]
    <3>2. shift \in Nat
      BY <1>6
    <3> HIDE DEF shift
    <3>3. /\ r \in DecoderType
          /\ r.synchronized = decoder.synchronized
          /\ r.current_index = decoder.current_index
          /\ r.eventCount = decoder.eventCount
          /\ r.toothDurations = decoder.toothDurations
          /\ r.isFirstEvent = decoder.isFirstEvent
          /\ r.syncCounter = decoder.syncCounter
          /\ r.phaseAdjustment = shift
      BY <1>5, <3>2 DEF DecoderType
    <3>4. decoder' = r
      BY <3>1 DEF shift
    <3> HIDE DEF r
    <3>5. shift \in {decoder.phaseAdjustment, PhaseShift(decoder)}
      BY DEF shift
    <3> QED
      BY <3>3, <3>4, <3>5, Zenon
  <2>2. CASE ~decoder.synchronized
    BY <1>3, <1>5, <2>2
  <2> QED
    BY <2>1, <2>2
<1>8. InBounds(decoder)' /\ WithinWheel(decoder)'
  BY <1>1, <1>4, <1>6, <1>7 DEF InBounds, WithinWheel
<1>9. WheelTypes'
  BY <1>3, <1>4 DEF DecoderInv, WheelTypes
<1>10. GapsAreClean'
  BY <1>3, <1>7 DEF DecoderInv, GapsAreClean
<1>11. ComparesGaps => IndexFollows(decoder, tooth, clean)'
  BY <1>3, <1>4, <1>7 DEF DecoderInv, IndexFollows, MarkSeen
<1> QED
  BY <1>4, <1>8, <1>9, <1>10, <1>11 DEF DecoderInv

LEMMA NextInv == DecoderInv /\ [Next]_vars => DecoderInv'
<1> SUFFICES ASSUME DecoderInv, [Next]_vars PROVE DecoderInv'
  OBVIOUS
<1>1. CASE Tooth
  BY <1>1, ToothInv
<1>2. CASE MissedTooth
  BY <1>2, MissedToothInv
<1>3. CASE \E t \in 1 .. wheel.longGap : NoiseEdge(t)
  BY <1>3, NoiseEdgeInv
<1>4. CASE StopAndStart
  BY <1>4, StopAndStartInv
<1>5. CASE CamEdge
  BY <1>5, CamEdgeInv
<1>6. CASE UNCHANGED vars
  BY <1>6 DEF vars, wheelVars, DecoderInv, WheelTypes, InBounds, WithinWheel, GapsAreClean,
     IndexFollows, MarkSeen, ComparesGaps, getSize, Divider, CleanTurn, gapTrackingLength
<1> QED
  BY <1>1, <1>2, <1>3, <1>4, <1>5, <1>6 DEF Next

(***************************************************************************)
(* The decoder's invariant, whatever teeth are missed or added.            *)
(***************************************************************************)
THEOREM DecoderInvariant == Spec => []DecoderInv
<1> QED
  BY InitInv, NextInv, PTL DEF Spec

(***************************************************************************)
(* The tooth index stays within the wheel while the decoder claims to be   *)
(* synchronised, and the counters within their ranges: on any wheel, with  *)
(* any number of missed and added edges, above and below 1000 rpm.         *)
(***************************************************************************)
THEOREM IndexWithinWheel == Spec => []TypeOK
<1>1. DecoderInv => TypeOK
  <2> SUFFICES ASSUME DecoderInv PROVE TypeOK
    OBVIOUS
  <2>1. getSize \in Nat /\ Divider \in Nat \ {0, 1}
    BY WheelFacts DEF DecoderInv, WheelTypes
  <2>2. decoder \in DecoderType
    BY DEF DecoderInv, InBounds
  <2>3. /\ decoder.current_index \in Nat /\ decoder.eventCount \in Nat
        /\ decoder.syncCounter \in Nat /\ decoder.phaseAdjustment \in Nat
    BY <2>2 DEF DecoderType
  <2> QED
    BY <2>1, <2>3 DEF DecoderInv, InBounds, WithinWheel, WheelTypes, TypeOK
<1> QED
  BY <1>1, DecoderInvariant, PTL

(***************************************************************************)
(* One undisturbed turn after any sequence of missed teeth, noise edges    *)
(* and stops, a decoder that compares gaps and says it is synchronised has *)
(* the right tooth, on every wheel whose ratios single out one tooth:      *)
(* decodeTriggerEvent() needs no bound on the number of faults.            *)
(***************************************************************************)
THEOREM ToothIsRight == Spec => []IndexIsRight
<1>1. DecoderInv => IndexIsRight
  <2> SUFFICES ASSUME DecoderInv, ComparesGaps, Undisturbed, decoder.synchronized
               PROVE  decoder.current_index = tooth
    BY DEF IndexIsRight
  <2>1. /\ getSize \in Nat /\ gapTrackingLength \in 1 .. 2
        /\ tooth \in 0 .. getSize - 1
    BY WheelFacts DEF DecoderInv, WheelTypes
  <2>2. clean = getSize + gapTrackingLength
    BY DEF Undisturbed, CleanTurn
  <2>3. decoder.current_index \in Nat /\ decoder.current_index < getSize
    BY DEF DecoderInv, InBounds, WithinWheel, DecoderType
  <2>4. IF MarkSeen(tooth, clean) THEN decoder.current_index = tooth
        ELSE decoder.current_index + gapTrackingLength + 1 >= clean
    <3>1. clean > gapTrackingLength
      BY <2>1, <2>2
    <3> QED
      BY <3>1 DEF DecoderInv, IndexFollows
  <2> QED
    BY <2>1, <2>2, <2>3, <2>4 DEF MarkSeen
<1> QED
  BY <1>1, DecoderInvariant, PTL

===============================================================================
