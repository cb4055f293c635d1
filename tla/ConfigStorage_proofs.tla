------------------------ MODULE ConfigStorage_proofs ------------------------
(***************************************************************************)
(* Proof that the tune survives (TuneSurvives of ConfigStorage), for every *)
(* set of chips and of values and for any number of commands, power losses *)
(* and failures of the flash.                                              *)
(*                                                                         *)
(* The argument.  A record boots as Ok only when its CRC is the CRC of its *)
(* halves, so it is enough that every CRC in RAM and in flash is the CRC   *)
(* of a tune that was burned (CrcBurned); whatever mixture of halves a     *)
(* disturbed write leaves then fails its CRC or is a burned tune.  The set *)
(* of burned tunes shrinks only at the end of a write that nothing         *)
(* disturbed and that wrote every copy, and that all copies then hold its  *)
(* tune is CleanWrite: it rests on the priorities of the contexts, by      *)
(* which an undisturbed write is alone with the flash (CleanAlone).        *)
(***************************************************************************)
EXTENDS ConfigStorage, TLAPS

Cells == AllHalves \cup {Erased, Garbage}
CrcCells == Tunes \cup {Erased, Garbage}
OlderTune == <<Older, Older>>
NewHalves == Halves \cup {Default}   \* what this firmware may hold in RAM
Parts == {"front", "back", "crc"}

RecordType ==
  [version : {"older", "current", Erased, Garbage}, front : Cells, back : Cells,
   crc : CrcCells]

TypeInv ==
  /\ chip \in [dual : BOOLEAN, second : BOOLEAN]
  /\ ram \in [front : NewHalves, back : NewHalves, crc : CrcCells]
  /\ flash \in [Copies -> RecordType]
  /\ pc \in [Contexts -> {Idle, Finish} \cup (Copies \X (Parts \cup {"erase"}))]
  /\ bad \subseteq Copies /\ dirty \subseteq Contexts
  /\ snap \in [Contexts -> Tunes \cup {None}]

\* The halves of an older firmware's tune are never in a record of this one,
\* nor in one that may still become one.
NoOlder(r) == r.version \in {"current", Erased} => r.front # Older /\ r.back # Older
NoOlderHalves == \A k \in Copies : NoOlder(flash[k])

\* Every CRC is that of a burned tune, or cannot match.
CrcBurned ==
  /\ ram.crc \in burned \cup {OlderTune, Erased, Garbage}
  /\ \A k \in Copies : flash[k].crc \in burned \cup {OlderTune, Erased, Garbage}

\* p runs only when q does not write.
Outranks(q, p) ==
  \/ q = "loop" /\ p \in {"console", "thread"}
  \/ q = "console" /\ p = "thread"

Clean(p) == Active(p) /\ p \notin dirty

\* Whoever else is in the middle of a write was interrupted by p.
CleanAlone ==
  \A p, q \in Contexts : Clean(p) /\ Active(q) /\ q # p => q \in dirty /\ Outranks(p, q)

\* What a copy r holds when an undisturbed write of t has come to `part`.
Written(r, t, part) ==
  /\ part = "front" => r = BlankCopy
  /\ part = "back" => r = [version |-> "current", front |-> t[1], back |-> Erased, crc |-> Erased]
  /\ part = "crc" => r = [version |-> "current", front |-> t[1], back |-> t[2], crc |-> Erased]

\* A write that nothing disturbed has the tune it took the CRC of in RAM, and
\* in every copy that it has written.
CleanWrite ==
  \A p \in Contexts : Clean(p) =>
    /\ snap[p] = TuneOf(ram) /\ ram.crc = snap[p]
    /\ \A k \in Copies :
         /\ pc[p][1] = k => Written(flash[k], snap[p], pc[p][2])
         /\ (pc[p] = Finish \/ k < pc[p][1]) /\ k \notin bad => flash[k] = CopyOf("current", snap[p])

\* A copy that no failure, no disturbance and no power loss has put in doubt
\* and that nobody writes is good.
SoundIsOk == \A k \in Copies : Sound(k) => CopyState(flash[k]) = "Ok"

StorageInv == TypeInv /\ NoOlderHalves /\ CrcBurned /\ CleanAlone /\ CleanWrite /\ SoundIsOk

-----------------------------------------------------------------------------
(* Copies, contexts and records.                                           *)

LEMMA CopiesShape ==
  /\ Copies \in {{1}, {1, 2}} /\ 1 \in Copies /\ 0 \notin Copies
  /\ \A k \in Copies : k \in {1, 2}
  BY DEF Copies

LEMMA ContextShape ==
  ASSUME TypeInv, NEW p \in Contexts
  PROVE  \/ pc[p] = Idle /\ pc[p][1] = 0 /\ ~Active(p)
         \/ pc[p] = Finish /\ pc[p][1] = 0 /\ Active(p)
         \/ /\ pc[p][1] \in Copies /\ pc[p][2] \in Parts \cup {"erase"}
            /\ pc[p] = <<pc[p][1], pc[p][2]>> /\ Active(p) /\ pc[p] # Finish
<1>1. CASE pc[p] \in {Idle, Finish}
  BY <1>1 DEF Idle, Finish, Active
<1>2. CASE pc[p] \in Copies \X (Parts \cup {"erase"})
  <2>1. /\ pc[p][1] \in Copies /\ pc[p][2] \in Parts \cup {"erase"}
        /\ pc[p] = <<pc[p][1], pc[p][2]>>
    BY <1>2
  <2>2. pc[p][1] # 0
    BY <2>1, CopiesShape
  <2>3. pc[p] # Idle /\ pc[p] # Finish
    BY <2>1, <2>2 DEF Idle, Finish
  <2> QED BY <2>1, <2>3 DEF Active
<1> QED BY <1>1, <1>2 DEF TypeInv

\* The values of cells and of CRCs are apart.
LEMMA CellsApart ==
  /\ \A a, b \in Cells : <<a, b>> \notin {Erased, Garbage}
  /\ Erased # Garbage /\ Older \notin NewHalves /\ NewHalves \subseteq AllHalves
  /\ Erased \notin AllHalves /\ Garbage \notin AllHalves /\ Older \in AllHalves
  /\ Default \in NewHalves /\ {Erased, Garbage} \cap {"older", "current"} = {}
<1> DEFINE H == Halves \cup {Default, Older}
           C == H \cup {Erased, Garbage}
<1>1. /\ Default \notin Halves /\ Older \notin Halves \cup {Default} /\ Erased # Garbage
      /\ {Erased, Garbage} \cap (H \cup (C \X C) \cup {"older", "current"}) = {}
  BY StorageAssumption
<1>2. AllHalves = H /\ Cells = C
  BY DEF AllHalves, Cells
<1>3. \A a, b \in Cells : <<a, b>> \notin {Erased, Garbage}
  BY <1>1, <1>2
<1>4. Older \notin NewHalves /\ NewHalves \subseteq AllHalves /\ Older \in AllHalves
      /\ Default \in NewHalves
  BY <1>1, <1>2 DEF NewHalves
<1>5. Erased \notin AllHalves /\ Garbage \notin AllHalves
      /\ {Erased, Garbage} \cap {"older", "current"} = {}
  BY <1>1, <1>2
<1> QED BY <1>1, <1>3, <1>4, <1>5

\* A record that boots as Ok is a burned tune.
LEMMA OkIsBurned ==
  ASSUME NEW r \in RecordType, NoOlder(r), NEW B,
         r.crc \in B \cup {OlderTune, Erased, Garbage}, CopyState(r) = "Ok"
  PROVE  /\ r.crc = TuneOf(r) /\ r.crc \in B
         /\ r.front \in NewHalves /\ r.back \in NewHalves
<1>1. /\ r.crc = TuneOf(r) /\ r.version = "current"
  BY DEF CopyState
<1>2. r.front \in Cells /\ r.back \in Cells /\ r.crc \in CrcCells
  BY DEF RecordType
<1>3. r.crc = <<r.front, r.back>> /\ r.crc \notin {Erased, Garbage}
  BY <1>1, <1>2, CellsApart DEF TuneOf
<1>4. r.front # Older /\ r.back # Older
  BY <1>1 DEF NoOlder
<1>5. <<r.front, r.back>> \in AllHalves \X AllHalves
  BY <1>2, <1>3 DEF CrcCells, Tunes
<1>6. r.crc # OlderTune
  BY <1>3, <1>4 DEF OlderTune
<1>7. r.front \in NewHalves /\ r.back \in NewHalves
  BY <1>4, <1>5 DEF AllHalves, NewHalves
<1> QED BY <1>1, <1>3, <1>6, <1>7

\* What boot leaves in RAM.
LEMMA BootRamGood ==
  ASSUME NEW f \in [Copies -> RecordType], \A k \in Copies : NoOlder(f[k]), NEW B,
         \A k \in Copies : f[k].crc \in B \cup {OlderTune, Erased, Garbage}
  PROVE  /\ BootRam(f) \in [front : NewHalves, back : NewHalves, crc : CrcCells]
         /\ BootRam(f).crc \in B \cup {OlderTune, Erased, Garbage}
<1> DEFINE c == ChosenCopy(f)
<1>1. \E k \in Copies : c = f[k]
  BY DEF ChosenCopy, Copies
<1>2. c \in RecordType /\ NoOlder(c) /\ c.crc \in B \cup {OlderTune, Erased, Garbage}
  BY <1>1
<1>3. c.crc \in CrcCells
  BY <1>2 DEF RecordType
<1> HIDE DEF c
<1>4. CASE CopyState(c) = "Ok"
  <2>1. BootRam(f) = [front |-> c.front, back |-> c.back, crc |-> c.crc]
    BY <1>4 DEF BootRam, BootState, TuneOf, c
  <2>2. c.front \in NewHalves /\ c.back \in NewHalves
    BY <1>2, <1>4, OkIsBurned
  <2> QED BY <2>1, <2>2, <1>2, <1>3
<1>5. CASE CopyState(c) # "Ok"
  <2>1. BootRam(f) = [front |-> Default, back |-> Default, crc |-> c.crc]
    BY <1>5 DEF BootRam, BootState, DefaultTune, c
  <2> QED BY <2>1, <1>2, <1>3, CellsApart
<1> QED BY <1>4, <1>5

\* The only context that can run beside an undisturbed write is its own.
LEMMA OnlyCleanRuns ==
  ASSUME CleanAlone, NEW p \in Contexts, NEW q \in Contexts, CanRun(p), Active(p), Clean(q)
  PROVE  q = p
<1> SUFFICES ASSUME q # p PROVE FALSE
  OBVIOUS
<1>1. Outranks(q, p) /\ Active(q)
  BY DEF CleanAlone, Clean
<1>2. CASE p = "console" /\ q = "loop"
  BY <1>1, <1>2 DEF CanRun
<1>3. CASE p = "thread" /\ q \in {"loop", "console"}
  BY <1>1, <1>3 DEF CanRun
<1> QED BY <1>1, <1>2, <1>3 DEF Outranks

-----------------------------------------------------------------------------
(* Steps that leave the flash and the writes alone.                        *)

LEMMA RamStep ==
  ASSUME StorageInv, UNCHANGED <<chip, flash, pc, bad, burned, snap>>,
         \/ ram' = ram /\ dirty' = dirty
         \/ /\ ram' \in [front : NewHalves, back : NewHalves, crc : CrcCells]
            /\ ram'.crc \in burned \cup {OlderTune, Erased, Garbage}
            /\ dirty' = dirty \cup {q \in Contexts : Active(q)}
  PROVE  StorageInv'
<1> USE DEF StorageInv
<1>1. Copies' = Copies /\ \A p \in Contexts : Active(p)' <=> Active(p)
  BY DEF Copies, Active
<1>2. TypeInv'
  BY <1>1 DEF TypeInv
<1>3. NoOlderHalves' /\ CrcBurned'
  BY <1>1 DEF NoOlderHalves, NoOlder, CrcBurned
<1>4. SoundIsOk'
  BY <1>1 DEF SoundIsOk, Sound, UnderPen
<1>5. CASE ram' = ram /\ dirty' = dirty
  BY <1>1, <1>2, <1>3, <1>4, <1>5 DEF CleanAlone, CleanWrite, Clean, Written
<1>6. CASE dirty' = dirty \cup {q \in Contexts : Active(q)}
  <2>1. \A p \in Contexts : ~Clean(p)'
    BY <1>1, <1>6 DEF Clean
  <2> QED BY <1>2, <1>3, <1>4, <2>1 DEF CleanAlone, CleanWrite
<1> QED BY <1>5, <1>6

\* A context takes the CRC and begins to write: whoever else is in the middle
\* of a write is disturbed.
LEMMA BeginStep ==
  ASSUME StorageInv, chip' = chip, NEW p \in Contexts, CanRun(p), ~Active(p),
         NEW r \in [front : NewHalves, back : NewHalves, crc : CrcCells],
         BeginWrite(p, r)
  PROVE  StorageInv'
<1> USE DEF StorageInv
<1> DEFINE t == TuneOf(r)
<1>1. Copies' = Copies /\ flash' = flash /\ bad' = bad
  BY DEF Copies, BeginWrite
<1>2. t = <<r.front, r.back>> /\ t \in Tunes
  BY CellsApart DEF TuneOf, Tunes
<1>3. /\ ram' = [r EXCEPT !.crc = t] /\ snap' = [snap EXCEPT ![p] = t]
      /\ burned' = burned \cup {t} /\ pc' = [pc EXCEPT ![p] = <<1, "erase">>]
      /\ dirty' = (dirty \cup {q \in Contexts : Active(q)}) \ {p}
  BY DEF BeginWrite
<1> HIDE DEF t
<1>4. /\ ram'.front = r.front /\ ram'.back = r.back /\ ram'.crc = t
      /\ ram' \in [front : NewHalves, back : NewHalves, crc : CrcCells]
  BY <1>2, <1>3 DEF CrcCells
<1>5. TuneOf(ram') = t
  BY <1>2, <1>4 DEF TuneOf
<1>6. /\ pc' \in [Contexts -> {Idle, Finish} \cup (Copies \X (Parts \cup {"erase"}))]
      /\ pc'[p] = <<1, "erase">> /\ \A q \in Contexts : q # p => pc'[q] = pc[q]
  BY <1>3, CopiesShape DEF TypeInv
<1>7. TypeInv'
  <2>1. snap' \in [Contexts -> Tunes \cup {None}] /\ dirty' \subseteq Contexts
    BY <1>2, <1>3 DEF TypeInv
  <2> QED BY <1>1, <1>4, <1>6, <2>1 DEF TypeInv
<1>8. NoOlderHalves' /\ CrcBurned'
  BY <1>1, <1>3, <1>4 DEF NoOlderHalves, NoOlder, CrcBurned
<1>9. \A q \in Contexts : Clean(q)' => q = p
  BY <1>3, <1>6 DEF Clean, Active
<1>10. CleanAlone'
  <2> SUFFICES ASSUME NEW q \in Contexts, Active(q)', q # p PROVE q \in dirty' /\ Outranks(p, q)
    BY <1>9 DEF CleanAlone
  <2>1. Active(q)
    BY <1>6 DEF Active
  <2>2. q \in dirty'
    BY <2>1, <1>3
  <2>3. Outranks(p, q)
    BY <2>1 DEF CanRun, Outranks, Contexts
  <2> QED BY <2>2, <2>3
<1>11. CleanWrite'
  <2>1. snap'[p] = t /\ pc'[p][1] = 1 /\ pc'[p][2] = "erase" /\ pc'[p] # Finish
    BY <1>3, <1>6 DEF TypeInv, Finish
  <2>2. \A k \in Copies : ~(k < 1)
    BY CopiesShape
  <2> QED BY <1>1, <1>4, <1>5, <1>9, <2>1, <2>2 DEF CleanWrite, Written
<1>12. SoundIsOk'
  <2>1. pc[p][1] = 0
    BY ContextShape
  <2> SUFFICES ASSUME NEW k \in Copies, Sound(k)' PROVE CopyState(flash[k]) = "Ok"
    BY <1>1 DEF SoundIsOk
  <2>2. k # 0
    BY CopiesShape
  <2>3. Sound(k)
    BY <2>1, <2>2, <1>1, <1>6 DEF Sound, UnderPen
  <2> QED BY <2>3 DEF SoundIsOk
<1> QED BY <1>7, <1>8, <1>10, <1>11, <1>12

-----------------------------------------------------------------------------
(* Steps of a write.                                                       *)

\* Where the write of a copy goes on.
LEMMA AfterCopyShape ==
  ASSUME NEW k \in Copies
  PROVE  /\ AfterCopy(k) \in {Idle, Finish} \cup (Copies \X (Parts \cup {"erase"}))
         /\ AfterCopy(k) # Idle /\ AfterCopy(k)[1] # k
         /\ AfterCopy(k)[1] \in Copies => AfterCopy(k)[2] = "erase"
         /\ \A j \in Copies : (AfterCopy(k) = Finish \/ j < AfterCopy(k)[1]) => j = k \/ j < k
<1>1. CASE k + 1 \in Copies
  <2>1. k = 1 /\ AfterCopy(k) = <<2, "erase">> /\ 2 \in Copies
    BY <1>1, CopiesShape DEF AfterCopy
  <2> QED BY <2>1, CopiesShape DEF Idle, Finish
<1>2. CASE k + 1 \notin Copies
  <2>1. AfterCopy(k) = Finish
    BY <1>2 DEF AfterCopy
  <2>2. \A j \in Copies : j = k \/ j < k
    BY <1>2, CopiesShape
  <2> QED BY <2>1, <2>2, CopiesShape DEF Idle, Finish
<1> QED BY <1>1, <1>2

\* What a step of context p in the middle of copy k leaves alone: everything
\* but its own place and its own copy.
LEMMA PenStep ==
  ASSUME StorageInv, NEW p \in Contexts, CanRun(p), NEW k \in Copies, pc[p][1] = k,
         UNCHANGED <<chip, ram, snap, dirty, burned>>,
         NEW r \in RecordType, NoOlder(r), r.crc \in burned \cup {OlderTune, Erased, Garbage},
         flash' = [flash EXCEPT ![k] = r],
         NEW next \in ({Idle, Finish} \cup (Copies \X (Parts \cup {"erase"}))) \ {Idle},
         pc' = [pc EXCEPT ![p] = next],
         bad' \subseteq Copies, \A j \in Copies : j # k => (j \in bad' <=> j \in bad),
         next[1] # k => k \in bad' \/ (CopyState(r) = "Ok" /\ ~(k \in bad')),
         Clean(p) => /\ next[1] = k => Written(r, snap[p], next[2])
                     /\ next[1] \in Copies /\ next[1] # k => next[2] = "erase"
                     /\ \A j \in Copies : (next = Finish \/ j < next[1]) => j = k \/ j < k
                     /\ (next = Finish \/ k < next[1]) => k \in bad' \/ r = CopyOf("current", snap[p])
  PROVE  StorageInv'
<1> USE DEF StorageInv
<1>1. Copies' = Copies
  BY DEF Copies
<1>2. /\ pc'[p] = next /\ \A q \in Contexts : q # p => pc'[q] = pc[q]
      /\ flash' \in [Copies -> RecordType] /\ flash'[k] = r
      /\ \A j \in Copies : j # k => flash'[j] = flash[j]
  BY DEF TypeInv
<1>3. Active(p) /\ Active(p)' /\ pc[p] # Finish
  <2>1. Active(p) /\ pc[p] # Finish
    BY ContextShape, CopiesShape
  <2>2. Active(p)'
    BY <1>2 DEF Active
  <2> QED BY <2>1, <2>2
<1>4. \A q \in Contexts : Active(q)' <=> Active(q)
  BY <1>2, <1>3 DEF Active
<1>5. TypeInv'
  BY <1>1, <1>2 DEF TypeInv
<1>6. NoOlderHalves'
  BY <1>1, <1>2 DEF NoOlderHalves
<1>7. CrcBurned'
  BY <1>1, <1>2 DEF CrcBurned
<1>8. CleanAlone'
  BY <1>4 DEF CleanAlone, Clean
<1>9. \A q \in Contexts : Clean(q)' => q = p /\ Clean(p)
  BY <1>3, <1>4, OnlyCleanRuns DEF Clean
<1>10. CleanWrite'
  <2> SUFFICES ASSUME Clean(p)
               PROVE  /\ snap'[p] = TuneOf(ram') /\ ram'.crc = snap'[p]
                      /\ \A j \in Copies :
                           /\ pc'[p][1] = j => Written(flash'[j], snap[p], next[2])
                           /\ (pc'[p] = Finish \/ j < pc'[p][1]) /\ j \notin bad'
                                => flash'[j] = CopyOf("current", snap'[p])
    BY <1>1, <1>2, <1>9 DEF CleanWrite
  <2>1. snap'[p] = TuneOf(ram') /\ ram'.crc = snap'[p]
    BY DEF CleanWrite
  <2> SUFFICES ASSUME NEW j \in Copies
               PROVE  /\ next[1] = j => Written(flash'[j], snap[p], next[2])
                      /\ (next = Finish \/ j < next[1]) /\ j \notin bad'
                           => flash'[j] = CopyOf("current", snap[p])
    BY <1>2, <2>1
  <2>2. CASE j = k
    BY <2>2, <1>2
  <2>3. CASE j # k
    <3>1. next[1] = j => Written(flash'[j], snap[p], next[2])
      BY <2>3 DEF Written
    <3>2. ASSUME next = Finish \/ j < next[1], j \notin bad'
          PROVE  flash'[j] = CopyOf("current", snap[p])
      <4>1. j < k /\ j \notin bad
        BY <2>3, <3>2
      <4> QED BY <4>1, <2>3, <1>2 DEF CleanWrite
    <3> QED BY <3>1, <3>2
  <2> QED BY <2>2, <2>3
<1>11. SoundIsOk'
  <2> SUFFICES ASSUME NEW j \in Copies, Sound(j)' PROVE CopyState(flash'[j]) = "Ok"
    BY <1>1 DEF SoundIsOk, CopyState, TuneOf
  <2>1. j \notin bad' /\ \A q \in Contexts : pc'[q][1] # j
    BY DEF Sound, UnderPen
  <2>2. CASE j = k
    BY <2>1, <2>2, <1>2
  <2>3. CASE j # k
    <3>1. \A q \in Contexts : pc[q][1] # j
      BY <2>1, <2>3, <1>2
    <3>2. Sound(j)
      BY <2>1, <2>3, <3>1 DEF Sound, UnderPen
    <3> QED BY <3>2, <2>3, <1>2 DEF SoundIsOk
  <2> QED BY <2>2, <2>3
<1> QED BY <1>5, <1>6, <1>7, <1>8, <1>10, <1>11

LEMMA EraseStep ==
  ASSUME StorageInv, NEW p \in Contexts, EraseCopy(p)
  PROVE  StorageInv'
<1> DEFINE k == pc[p][1]
<1>1. /\ CanRun(p) /\ Active(p) /\ pc[p][2] = "erase"
      /\ flash' = [flash EXCEPT ![k] = BlankCopy] /\ pc' = [pc EXCEPT ![p] = <<k, "front">>]
      /\ UNCHANGED <<chip, ram, snap, dirty, burned, bad>>
  BY DEF EraseCopy, bounds, history
<1>2. k \in Copies
  <2>1. pc[p] # Finish
    BY <1>1 DEF Finish
  <2> QED BY <1>1, <2>1, ContextShape DEF StorageInv
<1>3. BlankCopy \in RecordType /\ BlankCopy.crc = Erased /\ NoOlder(BlankCopy)
  BY CellsApart DEF BlankCopy, RecordType, Cells, CrcCells, NoOlder
<1> DEFINE next == <<k, "front">>
<1>4. /\ next \in ({Idle, Finish} \cup (Copies \X (Parts \cup {"erase"}))) \ {Idle}
      /\ next[1] = k /\ next[2] = "front" /\ next # Finish
  BY <1>2, CopiesShape DEF Parts, Idle, Finish
<1>6. Written(BlankCopy, snap[p], next[2])
  BY <1>4 DEF Written
<1>7. \A j \in Copies : (next = Finish \/ j < next[1]) => j = k \/ j < k
  BY <1>4
<1>8. ~(k < k)
  BY <1>2, CopiesShape
<1>9. bad' \subseteq Copies
  BY <1>1 DEF StorageInv, TypeInv
<1> HIDE DEF k, next
<1> QED BY <1>1, <1>2, <1>3, <1>4, <1>6, <1>7, <1>8, <1>9, PenStep DEF k, next

LEMMA GiveUpStep ==
  ASSUME StorageInv, NEW p \in Contexts, GiveUpCopy(p)
  PROVE  StorageInv'
<1> DEFINE k == pc[p][1]
<1>1. /\ CanRun(p) /\ k # 0 /\ flash' = flash /\ pc' = [pc EXCEPT ![p] = AfterCopy(k)]
      /\ UNCHANGED <<chip, ram, snap, dirty, burned>> /\ bad' = bad \cup {k}
  BY DEF GiveUpCopy
<1>2. k \in Copies
  BY <1>1, ContextShape DEF StorageInv
<1>3. /\ flash[k] \in RecordType /\ NoOlder(flash[k])
      /\ flash[k].crc \in burned \cup {OlderTune, Erased, Garbage}
      /\ flash' = [flash EXCEPT ![k] = flash[k]]
  BY <1>1, <1>2 DEF StorageInv, TypeInv, NoOlderHalves, CrcBurned
<1>4. /\ bad' \subseteq Copies /\ k \in bad'
      /\ \A j \in Copies : j # k => (j \in bad' <=> j \in bad)
  BY <1>1, <1>2 DEF StorageInv, TypeInv
<1> DEFINE next == AfterCopy(k)
<1>5. /\ next \in ({Idle, Finish} \cup (Copies \X (Parts \cup {"erase"}))) \ {Idle}
      /\ next[1] # k
      /\ next[1] \in Copies => next[2] = "erase"
      /\ \A j \in Copies : (next = Finish \/ j < next[1]) => j = k \/ j < k
  BY <1>2, AfterCopyShape
<1> HIDE DEF k, next
<1> QED BY <1>1, <1>2, <1>3, <1>4, <1>5, PenStep DEF k, next

\* Programming a cell.
LEMMA ProgramShape ==
  ASSUME NEW old, NEW new
  PROVE  Program(old, new) \in {new, Garbage} /\ (old = Erased => Program(old, new) = new)
  BY DEF Program

LEMMA ProgramField ==
  ASSUME NEW c \in RecordType, NEW x, NEW part
  PROVE  /\ part = "front" => /\ c[part] = c.front
                              /\ [c EXCEPT ![part] = x] =
                                   [version |-> c.version, front |-> x, back |-> c.back, crc |-> c.crc]
         /\ part = "back" => /\ c[part] = c.back
                             /\ [c EXCEPT ![part] = x] =
                                  [version |-> c.version, front |-> c.front, back |-> x, crc |-> c.crc]
         /\ part = "crc" => /\ c[part] = c.crc
                            /\ [c EXCEPT ![part] = x] =
                                 [version |-> c.version, front |-> c.front, back |-> c.back, crc |-> x]
<1>1. /\ [c EXCEPT !.front = x] =
           [version |-> c.version, front |-> x, back |-> c.back, crc |-> c.crc]
      /\ [c EXCEPT !.back = x] =
           [version |-> c.version, front |-> c.front, back |-> x, crc |-> c.crc]
      /\ [c EXCEPT !.crc = x] =
           [version |-> c.version, front |-> c.front, back |-> c.back, crc |-> x]
  BY DEF RecordType
<1>2. /\ c["front"] = c.front /\ c["back"] = c.back /\ c["crc"] = c.crc
      /\ [c EXCEPT !["front"] = x] = [c EXCEPT !.front = x]
      /\ [c EXCEPT !["back"] = x] = [c EXCEPT !.back = x]
      /\ [c EXCEPT !["crc"] = x] = [c EXCEPT !.crc = x]
  OBVIOUS
<1>3. CASE part = "front"
  <2>1. c[part] = c["front"] /\ [c EXCEPT ![part] = x] = [c EXCEPT !["front"] = x]
    BY <1>3, Zenon
  <2> QED BY <1>3, <2>1, <1>1, <1>2
<1>4. CASE part = "back"
  <2>1. c[part] = c["back"] /\ [c EXCEPT ![part] = x] = [c EXCEPT !["back"] = x]
    BY <1>4, Zenon
  <2> QED BY <1>4, <2>1, <1>1, <1>2
<1>5. CASE part = "crc"
  <2>1. c[part] = c["crc"] /\ [c EXCEPT ![part] = x] = [c EXCEPT !["crc"] = x]
    BY <1>5, Zenon
  <2> QED BY <1>5, <2>1, <1>1, <1>2
<1> QED BY <1>3, <1>4, <1>5

\* One part of the record, in the middle of a copy or at its end.
LEMMA ProgramStep ==
  ASSUME StorageInv, NEW p \in Contexts, ProgramPart(p)
  PROVE  StorageInv'
<1>0. PICK k, part, c, written :
        /\ pc[p][1] = k /\ pc[p][2] = part /\ flash[k] = c
        /\ written = [c EXCEPT ![part] = Program(c[part], ram[part])]
  OBVIOUS
<1>1. /\ CanRun(p) /\ part \in Parts
      /\ UNCHANGED <<chip, ram, snap, dirty, burned>>
      /\ bad' = IF part # "crc" THEN bad
                ELSE IF p \in dirty THEN bad \cup {k} ELSE bad \ {k}
  BY <1>0 DEF ProgramPart, Parts, bounds
<1>2. k \in Copies
  <2>1. pc[p] # Finish /\ pc[p] # Idle
    BY <1>0, <1>1 DEF Finish, Idle, Parts
  <2> QED BY <1>0, <2>1, ContextShape DEF StorageInv
<1>3. /\ c \in RecordType /\ NoOlder(c) /\ c.crc \in burned \cup {OlderTune, Erased, Garbage}
      /\ c = [version |-> c.version, front |-> c.front, back |-> c.back, crc |-> c.crc]
  BY <1>0, <1>2 DEF StorageInv, TypeInv, NoOlderHalves, CrcBurned, RecordType
<1>4. /\ ram.front \in NewHalves /\ ram.back \in NewHalves /\ ram.crc \in CrcCells
      /\ ram.crc \in burned \cup {OlderTune, Erased, Garbage}
  BY DEF StorageInv, TypeInv, CrcBurned
<1>5. /\ c.version \in {"older", "current", Erased, Garbage}
      /\ c.front \in Cells /\ c.back \in Cells /\ c.crc \in CrcCells
  BY <1>3 DEF RecordType
<1>6. Clean(p) => /\ snap[p] = TuneOf(ram) /\ ram.crc = snap[p] /\ Written(c, snap[p], part)
                  /\ snap[p] = <<ram.front, ram.back>>
  BY <1>0, <1>2 DEF StorageInv, CleanWrite, TuneOf
<1>7. /\ \A j \in Copies : j # k => (j \in bad' <=> j \in bad)
      /\ bad' \subseteq Copies
  BY <1>1, <1>2 DEF StorageInv, TypeInv
<1>8. ~(k < k) /\ k # 0
  BY <1>2, CopiesShape
<1>9. /\ part = "front" => written = [version |-> c.version, front |-> Program(c.front, ram.front),
                                      back |-> c.back, crc |-> c.crc]
      /\ part = "back" => written = [version |-> c.version, front |-> c.front,
                                     back |-> Program(c.back, ram.back), crc |-> c.crc]
      /\ part = "crc" => written = [version |-> c.version, front |-> c.front,
                                    back |-> c.back, crc |-> Program(c.crc, ram.crc)]
  <2>1. /\ part = "front" => ram[part] = ram.front
        /\ part = "back" => ram[part] = ram.back
        /\ part = "crc" => ram[part] = ram.crc
    BY <1>4
  <2> QED BY <1>0, <2>1, <1>3, ProgramField
<1>10. CASE part = "front"
  <2> DEFINE r == [version |-> Program(c.version, "current"), front |-> Program(c.front, ram.front),
                   back |-> c.back, crc |-> c.crc]
             next == <<k, "back">>
  <2>1. flash' = [flash EXCEPT ![k] = r] /\ pc' = [pc EXCEPT ![p] = next]
    <3>1. /\ flash' = [flash EXCEPT ![k] = [written EXCEPT !.version = Program(c.version, "current")]]
          /\ pc' = [pc EXCEPT ![p] = next]
      BY <1>10, <1>0 DEF ProgramPart
    <3>2. written = [version |-> c.version, front |-> Program(c.front, ram.front),
                     back |-> c.back, crc |-> c.crc]
      BY <1>9, <1>10
    <3>3. [written EXCEPT !.version = Program(c.version, "current")] = r
      BY <3>2
    <3> QED BY <3>1, <3>3
  <2>2. r \in RecordType /\ r.crc = c.crc
    BY <1>4, <1>5, ProgramShape, CellsApart DEF RecordType, Cells
  <2>3. NoOlder(r)
    <3>1. r.version = "current" => c.version \in {"current", Erased}
      BY CellsApart DEF Program
    <3>2. r.version # Erased
      BY CellsApart DEF Program
    <3>3. r.front # Older
      BY <1>4, ProgramShape, CellsApart
    <3> QED BY <3>1, <3>2, <3>3, <1>3 DEF NoOlder
  <2>4. Clean(p) => Written(r, snap[p], "back")
    BY <1>6, <1>10, ProgramShape DEF Written, BlankCopy
  <2>5. /\ next \in ({Idle, Finish} \cup (Copies \X (Parts \cup {"erase"}))) \ {Idle}
        /\ next[1] = k /\ next[2] = "back" /\ next # Finish
    BY <1>2, <1>8 DEF Parts, Idle, Finish
  <2>6. \A j \in Copies : (next = Finish \/ j < next[1]) => j = k \/ j < k
    BY <2>5
  <2> HIDE DEF r, next
  <2>7. /\ r.crc \in burned \cup {OlderTune, Erased, Garbage}
        /\ ~(next[1] # k) /\ ~(next = Finish \/ k < next[1])
        /\ Clean(p) => Written(r, snap[p], next[2])
    BY <1>3, <1>8, <2>2, <2>4, <2>5
  <2> QED BY <1>0, <1>1, <1>2, <1>7, <2>1, <2>2, <2>3, <2>5, <2>6, <2>7, PenStep
<1>11. CASE part = "back"
  <2> DEFINE r == [version |-> c.version, front |-> c.front,
                   back |-> Program(c.back, ram.back), crc |-> c.crc]
             next == <<k, "crc">>
  <2>1. flash' = [flash EXCEPT ![k] = r] /\ pc' = [pc EXCEPT ![p] = next]
    <3>1. flash' = [flash EXCEPT ![k] = written] /\ pc' = [pc EXCEPT ![p] = next]
      BY <1>11, <1>0 DEF ProgramPart
    <3> QED BY <3>1, <1>11, <1>9
  <2>2. r \in RecordType /\ r.crc = c.crc
    BY <1>4, <1>5, ProgramShape, CellsApart DEF RecordType, Cells
  <2>3. NoOlder(r)
    <3>1. r.back # Older
      BY <1>4, ProgramShape, CellsApart
    <3> QED BY <3>1, <1>3 DEF NoOlder
  <2>4. Clean(p) => Written(r, snap[p], "crc")
    BY <1>6, <1>11, ProgramShape DEF Written
  <2>5. /\ next \in ({Idle, Finish} \cup (Copies \X (Parts \cup {"erase"}))) \ {Idle}
        /\ next[1] = k /\ next[2] = "crc" /\ next # Finish
    BY <1>2, <1>8 DEF Parts, Idle, Finish
  <2>6. \A j \in Copies : (next = Finish \/ j < next[1]) => j = k \/ j < k
    BY <2>5
  <2> HIDE DEF r, next
  <2>7. /\ r.crc \in burned \cup {OlderTune, Erased, Garbage}
        /\ ~(next[1] # k) /\ ~(next = Finish \/ k < next[1])
        /\ Clean(p) => Written(r, snap[p], next[2])
    BY <1>3, <1>8, <2>2, <2>4, <2>5
  <2> QED BY <1>0, <1>1, <1>2, <1>7, <2>1, <2>2, <2>3, <2>5, <2>6, <2>7, PenStep
<1>12. CASE part = "crc"
  <2> DEFINE r == [version |-> c.version, front |-> c.front,
                   back |-> c.back, crc |-> Program(c.crc, ram.crc)]
             next == AfterCopy(k)
  <2>1. flash' = [flash EXCEPT ![k] = r] /\ pc' = [pc EXCEPT ![p] = next]
    <3>1. flash' = [flash EXCEPT ![k] = written] /\ pc' = [pc EXCEPT ![p] = next]
      BY <1>12, <1>0 DEF ProgramPart
    <3> QED BY <3>1, <1>12, <1>9
  <2>2. r \in RecordType /\ r.crc \in burned \cup {OlderTune, Erased, Garbage}
    BY <1>4, <1>5, ProgramShape DEF RecordType, CrcCells
  <2>3. NoOlder(r)
    BY <1>3 DEF NoOlder
  <2>4. Clean(p) => r = CopyOf("current", snap[p]) /\ CopyState(r) = "Ok"
    <3> SUFFICES ASSUME Clean(p) PROVE r = CopyOf("current", snap[p]) /\ CopyState(r) = "Ok"
      OBVIOUS
    <3>1. c = [version |-> "current", front |-> snap[p][1], back |-> snap[p][2], crc |-> Erased]
      BY <1>6, <1>12 DEF Written
    <3>2. r = [version |-> "current", front |-> snap[p][1], back |-> snap[p][2], crc |-> snap[p]]
      BY <1>6, <3>1, ProgramShape
    <3>3. TuneOf(r) = snap[p] /\ r.crc = snap[p] /\ r.version = "current"
      BY <3>2, <1>6 DEF TuneOf
    <3> QED BY <3>2, <3>3 DEF CopyOf, CopyState
  <2>5. /\ next \in ({Idle, Finish} \cup (Copies \X (Parts \cup {"erase"}))) \ {Idle}
        /\ next[1] # k
        /\ next[1] \in Copies => next[2] = "erase"
        /\ \A j \in Copies : (next = Finish \/ j < next[1]) => j = k \/ j < k
    BY <1>2, AfterCopyShape
  <2>6. (p \in dirty => k \in bad') /\ (p \notin dirty => k \notin bad' /\ Clean(p))
    <3>1. Active(p)
      BY <1>0, <1>2, <1>8, ContextShape DEF StorageInv
    <3> QED BY <3>1, <1>1, <1>12 DEF Clean
  <2> HIDE DEF r, next
  <2> QED BY <1>0, <1>1, <1>2, <1>3, <1>7, <1>8, <2>1, <2>2, <2>3, <2>4, <2>5, <2>6, PenStep
<1> QED BY <1>1, <1>10, <1>11, <1>12 DEF Parts

\* The end of a write.  When nothing disturbed it and every copy was written,
\* its tune is the only one that the flash may hold.
LEMMA FinishStep ==
  ASSUME StorageInv, NEW p \in Contexts, FinishWrite(p)
  PROVE  StorageInv'
<1> USE DEF StorageInv
<1>1. /\ CanRun(p) /\ pc[p] = Finish /\ pc' = [pc EXCEPT ![p] = Idle]
      /\ UNCHANGED <<chip, ram, flash, bad>>
      /\ burned' = IF bad = {} /\ p \notin dirty /\ \A q \in Contexts \ {p} : ~Active(q)
                   THEN {snap[p]} ELSE burned
      /\ dirty' = dirty \ {p} /\ snap' = [snap EXCEPT ![p] = None]
  BY DEF FinishWrite, bounds
<1>2. Copies' = Copies
  BY <1>1 DEF Copies
<1>3. /\ pc'[p] = Idle /\ \A q \in Contexts : q # p => pc'[q] = pc[q] /\ snap'[q] = snap[q]
      /\ pc' \in [Contexts -> {Idle, Finish} \cup (Copies \X (Parts \cup {"erase"}))]
      /\ snap' \in [Contexts -> Tunes \cup {None}]
  BY <1>1 DEF TypeInv
<1>4. TypeInv'
  BY <1>1, <1>2, <1>3 DEF TypeInv
<1>5. NoOlderHalves'
  BY <1>1, <1>2 DEF NoOlderHalves
<1>6. Active(p) /\ ~Active(p)' /\ \A q \in Contexts : q # p => (Active(q)' <=> Active(q))
  BY <1>1, <1>3 DEF Active, Idle, Finish
<1>7. CrcBurned'
  <2>1. CASE burned' = burned
    BY <2>1, <1>1, <1>2 DEF CrcBurned
  <2>2. CASE bad = {} /\ p \notin dirty /\ burned' = {snap[p]}
    <3>1. Clean(p)
      BY <2>2, <1>6 DEF Clean
    <3>2. ram.crc = snap[p] /\ \A k \in Copies : flash[k] = CopyOf("current", snap[p])
      BY <3>1, <2>2, <1>1 DEF CleanWrite
    <3>3. \A k \in Copies : flash[k].crc = snap[p]
      BY <3>2 DEF CopyOf
    <3> QED BY <3>2, <3>3, <2>2, <1>1, <1>2 DEF CrcBurned
  <2> QED BY <2>1, <2>2, <1>1
<1>8. \A q \in Contexts : Clean(q)' => q # p /\ Clean(q)
  BY <1>1, <1>6 DEF Clean
<1>9. \A q \in Contexts : ~Clean(q)'
  BY <1>1, <1>6, <1>8, OnlyCleanRuns
<1>10. CleanAlone' /\ CleanWrite'
  BY <1>9 DEF CleanAlone, CleanWrite
<1>11. SoundIsOk'
  <2>1. \A k \in Copies : k # 0
    BY CopiesShape
  <2>2. \A k \in Copies : Sound(k)' => Sound(k)
    BY <2>1, <1>1, <1>3 DEF Sound, UnderPen, Finish
  <2> QED BY <2>2, <1>1, <1>2 DEF SoundIsOk
<1> QED BY <1>4, <1>5, <1>7, <1>10, <1>11

\* Power is lost at any point of any write.
LEMMA PowerLossStep ==
  ASSUME StorageInv, PowerLoss
  PROVE  StorageInv'
<1> USE DEF StorageInv
<1>1. PICK torn \in SUBSET {k \in Copies : \E p \in Contexts : pc[p] = <<k, "erase">>} :
        LET f == [k \in Copies |-> IF k \in torn THEN GarbageCopy ELSE flash[k]] IN
        flash' = f /\ ram' = BootRam(f)
  BY DEF PowerLoss
<1> DEFINE f == [k \in Copies |-> IF k \in torn THEN GarbageCopy ELSE flash[k]]
<1>2. flash' = f /\ ram' = BootRam(f)
  BY <1>1
<1>3. /\ chip' = chip /\ burned' = burned /\ pc' = [p \in Contexts |-> Idle]
      /\ dirty' = {} /\ snap' = [p \in Contexts |-> None]
      /\ bad' = bad \cup {k \in Copies : UnderPen(k)}
  BY DEF PowerLoss
<1>4. Copies' = Copies
  BY <1>3 DEF Copies
<1>5. GarbageCopy \in RecordType /\ GarbageCopy.crc = Garbage /\ NoOlder(GarbageCopy)
  BY CellsApart DEF GarbageCopy, RecordType, Cells, CrcCells, NoOlder
<1>6. /\ f \in [Copies -> RecordType]
      /\ \A k \in Copies : NoOlder(f[k]) /\ f[k].crc \in burned \cup {OlderTune, Erased, Garbage}
  BY <1>5 DEF TypeInv, NoOlderHalves, CrcBurned
<1>7. /\ ram' \in [front : NewHalves, back : NewHalves, crc : CrcCells]
      /\ ram'.crc \in burned \cup {OlderTune, Erased, Garbage}
  <2> HIDE DEF f
  <2> QED BY <1>2, <1>6, BootRamGood
<1>8. TypeInv' /\ NoOlderHalves' /\ CrcBurned'
  <2> HIDE DEF f
  <2> QED BY <1>2, <1>3, <1>4, <1>6, <1>7 DEF TypeInv, NoOlderHalves, CrcBurned
<1>9. \A p \in Contexts : ~Active(p)'
  BY <1>3 DEF Active
<1>10. CleanAlone' /\ CleanWrite'
  BY <1>9 DEF CleanAlone, CleanWrite, Clean
<1>11. SoundIsOk'
  <2> SUFFICES ASSUME NEW k \in Copies, Sound(k)' PROVE CopyState(flash'[k]) = "Ok"
    BY <1>4 DEF SoundIsOk, CopyState, TuneOf
  <2>1. k \notin bad /\ ~UnderPen(k)
    BY <1>3 DEF Sound
  <2>2. k \notin torn
    <3> SUFFICES ASSUME NEW p \in Contexts, pc[p] = <<k, "erase">> PROVE FALSE
      OBVIOUS
    <3>1. pc[p][1] = k
      OBVIOUS
    <3> QED BY <3>1, <2>1 DEF UnderPen
  <2>3. flash'[k] = flash[k]
    BY <2>2, <1>2
  <2> QED BY <2>1, <2>3 DEF SoundIsOk, Sound
<1> QED BY <1>8, <1>10, <1>11

-----------------------------------------------------------------------------
(* The inductive invariant.                                                *)

RamType == [front : NewHalves, back : NewHalves, crc : CrcCells]

LEMMA WriteNowStep ==
  ASSUME StorageInv, chip' = chip, NEW p \in Contexts, CanRun(p), ~Active(p),
         NEW r \in RamType, r.crc = ram.crc, WriteNow(p, r)
  PROVE  StorageInv'
<1>1. CASE noFlash
  <2>1. /\ UNCHANGED <<flash, pc, bad, burned, snap>> /\ ram' = r
        /\ dirty' = IF r = ram THEN dirty ELSE dirty \cup {q \in Contexts : Active(q)}
    BY <1>1 DEF WriteNow, SkipWrite
  <2>2. r.crc \in burned \cup {OlderTune, Erased, Garbage}
    BY DEF StorageInv, CrcBurned
  <2>3. CASE r = ram
    BY <2>1, <2>3, RamStep
  <2>4. CASE r # ram
    BY <2>1, <2>2, <2>4, RamStep DEF RamType
  <2> QED BY <2>3, <2>4
<1>2. CASE ~noFlash
  BY <1>2, BeginStep DEF WriteNow, RamType
<1> QED BY <1>1, <1>2

LEMMA InitInv == Init => StorageInv
<1> SUFFICES ASSUME Init PROVE StorageInv
  OBVIOUS
<1>1. PICK c \in {BlankCopy, CopyOf("older", <<Older, Older>>), CopyOf("current", DefaultTune)} :
       /\ flash = [k \in Copies |-> c]
       /\ bad = IF CopyState(c) = "Ok" THEN {} ELSE Copies
       /\ burned = IF CopyState(c) = "Ok" THEN {TuneOf(c)} ELSE {}
  BY DEF Init
<1>2. /\ chip \in [dual : BOOLEAN, second : BOOLEAN]
      /\ ram = BootRam(flash) /\ pc = [p \in Contexts |-> Idle]
      /\ snap = [p \in Contexts |-> None] /\ dirty = {}
  BY StorageAssumption DEF Init
<1>3. /\ c \in RecordType /\ NoOlder(c)
      /\ c.crc \in burned \cup {OlderTune, Erased, Garbage}
  <2>1. CASE c = BlankCopy
    BY <2>1, CellsApart DEF BlankCopy, RecordType, Cells, CrcCells, NoOlder
  <2>2. CASE c = CopyOf("older", <<Older, Older>>)
    <3>1. c = [version |-> "older", front |-> Older, back |-> Older, crc |-> OlderTune]
      BY <2>2 DEF CopyOf, OlderTune
    <3>2. OlderTune \in Tunes
      BY CellsApart DEF OlderTune, Tunes
    <3> QED BY <3>1, <3>2, CellsApart DEF RecordType, Cells, CrcCells, NoOlder
  <2>3. CASE c = CopyOf("current", DefaultTune)
    <3>1. c = [version |-> "current", front |-> Default, back |-> Default, crc |-> DefaultTune]
      BY <2>3 DEF CopyOf, DefaultTune
    <3>2. DefaultTune \in Tunes /\ Default # Older
      BY CellsApart DEF DefaultTune, Tunes
    <3>3. CopyState(c) = "Ok" /\ TuneOf(c) = DefaultTune
      BY <3>1 DEF CopyState, TuneOf, DefaultTune
    <3> QED BY <1>1, <3>1, <3>2, <3>3, CellsApart DEF RecordType, Cells, CrcCells, NoOlder
  <2> QED BY <2>1, <2>2, <2>3
<1>4. /\ flash \in [Copies -> RecordType]
      /\ \A k \in Copies : /\ flash[k] = c /\ NoOlder(flash[k])
                           /\ flash[k].crc \in burned \cup {OlderTune, Erased, Garbage}
  BY <1>1, <1>3
<1>5. ram \in RamType /\ ram.crc \in burned \cup {OlderTune, Erased, Garbage}
  BY <1>2, <1>4, BootRamGood DEF RamType
<1>6. bad \subseteq Copies
  BY <1>1
<1>7. TypeInv /\ NoOlderHalves /\ CrcBurned
  BY <1>2, <1>4, <1>5, <1>6 DEF TypeInv, NoOlderHalves, CrcBurned, RamType
<1>8. CleanAlone /\ CleanWrite
  BY <1>2 DEF CleanAlone, CleanWrite, Clean, Active
<1>9. SoundIsOk
  BY <1>1, <1>4 DEF SoundIsOk, Sound
<1> QED BY <1>7, <1>8, <1>9 DEF StorageInv

\* Commands of the console thread.
LEMMA CommandStep ==
  ASSUME StorageInv,
         \/ EditTune \/ Burn \/ WriteConfig \/ ReadConfig
         \/ ResetConfig \/ RewriteConfig \/ SetEngineType \/ BurnWithoutFlash
  PROVE  StorageInv'
<1>1. CanRun("console") /\ ~Active("console") /\ chip' = chip /\ "console" \in Contexts
  BY DEF Command, EditTune, Burn, WriteConfig, ReadConfig, ResetConfig, RewriteConfig,
     SetEngineType, BurnWithoutFlash, Contexts
<1>2. ram \in RamType /\ ram.crc \in burned \cup {OlderTune, Erased, Garbage}
  BY DEF StorageInv, TypeInv, CrcBurned, RamType
<1>3. \A u, v \in NewHalves : /\ [ram EXCEPT !.front = u, !.back = v] \in RamType
                              /\ [ram EXCEPT !.front = u, !.back = v].crc = ram.crc
  <2> SUFFICES ASSUME NEW u \in NewHalves, NEW v \in NewHalves
               PROVE  /\ [ram EXCEPT !.front = u, !.back = v] \in RamType
                      /\ [ram EXCEPT !.front = u, !.back = v].crc = ram.crc
    OBVIOUS
  <2> QED BY <1>2 DEF RamType
<1>4. Default \in NewHalves /\ Halves \subseteq NewHalves
  BY DEF NewHalves
<1>5. ASSUME NEW r \in RamType, r.crc \in burned \cup {OlderTune, Erased, Garbage}, RamChanges(r),
             UNCHANGED <<flash, pc, bad, burned, snap>>
      PROVE  StorageInv'
  BY <1>1, <1>5, RamStep DEF RamChanges, RamType
<1>6. CASE EditTune
  <2>1. PICK half \in {"front", "back"}, v \in Halves : RamChanges([ram EXCEPT ![half] = v])
    BY <1>6 DEF EditTune
  <2>2. /\ [ram EXCEPT !.front = v] \in RamType /\ [ram EXCEPT !.front = v].crc = ram.crc
        /\ [ram EXCEPT !.back = v] \in RamType /\ [ram EXCEPT !.back = v].crc = ram.crc
    BY <1>2, <1>4 DEF RamType
  <2>3. RamChanges([ram EXCEPT !.front = v]) \/ RamChanges([ram EXCEPT !.back = v])
    <3>1. /\ [ram EXCEPT !["front"] = v] = [ram EXCEPT !.front = v]
          /\ [ram EXCEPT !["back"] = v] = [ram EXCEPT !.back = v]
      OBVIOUS
    <3>2. \/ RamChanges([ram EXCEPT !["front"] = v])
          \/ RamChanges([ram EXCEPT !["back"] = v])
      BY <2>1, Zenon
    <3> QED BY <3>1, <3>2
  <2>4. UNCHANGED <<flash, pc, bad, burned, snap>>
    BY <1>6 DEF EditTune
  <2> QED BY <1>2, <1>5, <2>2, <2>3, <2>4
<1>7. CASE ReadConfig
  <2>1. BootRam(flash) \in RamType /\ BootRam(flash).crc \in burned \cup {OlderTune, Erased, Garbage}
    BY BootRamGood DEF StorageInv, TypeInv, NoOlderHalves, CrcBurned, RamType
  <2> QED BY <1>5, <1>7, <2>1 DEF ReadConfig
<1>8. CASE ResetConfig
  <2>1. [ram EXCEPT !.front = Default, !.back = Default] \in RamType
        /\ [ram EXCEPT !.front = Default, !.back = Default].crc = ram.crc
    BY <1>3, <1>4
  <2> QED BY <1>2, <1>5, <1>8, <2>1 DEF ResetConfig
<1>9. CASE WriteConfig
  BY <1>1, <1>2, <1>9, WriteNowStep DEF WriteConfig
<1>10. CASE RewriteConfig
  <2>1. [ram EXCEPT !.front = Default, !.back = Default] \in RamType
        /\ [ram EXCEPT !.front = Default, !.back = Default].crc = ram.crc
    BY <1>3, <1>4
  <2> QED BY <1>1, <1>10, <2>1, WriteNowStep DEF RewriteConfig
<1>11. CASE SetEngineType
  <2>1. PICK v \in Halves : WriteNow("console", [ram EXCEPT !.front = v, !.back = v])
    BY <1>11 DEF SetEngineType
  <2>2. [ram EXCEPT !.front = v, !.back = v] \in RamType
        /\ [ram EXCEPT !.front = v, !.back = v].crc = ram.crc
    BY <1>3, <1>4
  <2> QED BY <1>1, <2>1, <2>2, WriteNowStep
<1>12. CASE Burn \/ BurnWithoutFlash
  <2>1. UNCHANGED <<ram, flash, pc, bad, burned, snap, dirty>>
    BY <1>12 DEF Burn, BurnWithoutFlash, history
  <2> QED BY <1>1, <2>1, RamStep
<1> QED BY <1>6, <1>7, <1>8, <1>9, <1>10, <1>11, <1>12

LEMMA StepInv == StorageInv /\ [Next]_vars => StorageInv'
<1> SUFFICES ASSUME StorageInv, [Next]_vars PROVE StorageInv'
  OBVIOUS
<1>1. ram \in RamType
  BY DEF StorageInv, TypeInv, RamType
<1>2. ASSUME NEW p \in Contexts, Step(p) \/ FlashFault(p) PROVE StorageInv'
  BY <1>2, EraseStep, ProgramStep, GiveUpStep, FinishStep DEF Step, FlashFault, ProgramRefused
<1>3. CASE FlashWriteThread
  <2>1. /\ CanRun("thread") /\ ~Active("thread") /\ WriteNow("thread", ram) /\ chip' = chip
        /\ "thread" \in Contexts
    BY <1>3 DEF FlashWriteThread, bounds, Contexts
  <2> QED BY <1>1, <2>1, WriteNowStep
<1>4. CASE SlowCallback
  <2>1. CanRun("loop") /\ ~Active("loop") /\ chip' = chip /\ "loop" \in Contexts
    BY <1>4 DEF SlowCallback, bounds, Contexts
  <2>2. WriteNow("loop", ram) \/ UNCHANGED <<ram, flash, pc, bad, burned, snap, dirty>>
    BY <1>4 DEF SlowCallback, history
  <2> QED BY <1>1, <2>1, <2>2, WriteNowStep, RamStep
<1>5. CASE EngineStartsOrStops \/ UNCHANGED vars
  <2>1. UNCHANGED <<chip, ram, flash, pc, bad, burned, snap, dirty>>
    BY <1>5 DEF EngineStartsOrStops, vars, bounds, history
  <2> QED BY <2>1, RamStep
<1> QED BY <1>2, <1>3, <1>4, <1>5, CommandStep, PowerLossStep DEF Next

\* The inductive invariant holds in every state of every execution.
THEOREM StorageInvariant == Spec => []StorageInv
  BY InitInv, StepInv, PTL DEF Spec

\* Whatever point of a write power fails at and whatever the other contexts
\* did meanwhile, boot finds a tune as long as one copy is sound, and only a
\* tune that was burned as a whole (writeToFlashNow, readFromFlash).
THEOREM TheTuneSurvives == Spec => []TuneSurvives
<1>1. StorageInv => TuneSurvives
  <2> SUFFICES ASSUME StorageInv PROVE TuneSurvives
    OBVIOUS
  <2>1. ASSUME NEW k \in Copies, Sound(k) PROVE BootState(flash) = "Ok"
    <3>1. CopyState(flash[k]) = "Ok"
      BY <2>1 DEF StorageInv, SoundIsOk
    <3>2. k = 1 \/ (k = 2 /\ chip.second)
      BY DEF Copies
    <3> QED BY <3>1, <3>2 DEF BootState, ChosenCopy
  <2>2. ASSUME BootState(flash) = "Ok" PROVE TuneOf(ChosenCopy(flash)) \in burned
    <3>1. PICK k \in Copies : ChosenCopy(flash) = flash[k]
      BY DEF ChosenCopy, Copies
    <3>2. /\ flash[k] \in RecordType /\ NoOlder(flash[k])
          /\ flash[k].crc \in burned \cup {OlderTune, Erased, Garbage}
      BY DEF StorageInv, TypeInv, NoOlderHalves, CrcBurned
    <3>3. flash[k].crc = TuneOf(flash[k]) /\ flash[k].crc \in burned
      BY <2>2, <3>1, <3>2, OkIsBurned DEF BootState
    <3> QED BY <3>1, <3>3
  <2> QED BY <2>1, <2>2 DEF TuneSurvives
<1> QED BY <1>1, StorageInvariant, PTL
=============================================================================
