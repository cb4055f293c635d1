--------------------------- MODULE ConfigStorage ---------------------------
(***************************************************************************)
(* The tune of the engine and its two copies in internal flash: edits and  *)
(* burns from the tuning tool, the three contexts that write flash, power  *)
(* loss at any point of a write, and the read at boot (flash_main.cpp,     *)
(* tunerstudio.cpp, doPeriodicSlowCallback).                               *)
(*                                                                         *)
(* A tune is a pair of halves, so that an edit changes one part of it and  *)
(* a write to flash can be caught between the two.  Its CRC is the pair    *)
(* itself: two tunes with one CRC are left out.  The record that is        *)
(* written is version and size, the halves, and the CRC, in the order of   *)
(* persistent_config_container_s.                                          *)
(*                                                                         *)
(* Contexts, by priority: the main loop, which writes a pending burn while *)
(* the engine stands (the single bank chips); the console thread, whose    *)
(* commands write at once; the flash writer thread of the dual bank chips, *)
(* below everything else.  A context runs when none above it is in the     *)
(* middle of a write.                                                      *)
(***************************************************************************)
EXTENDS Naturals, FiniteSets

CONSTANTS
  Chips,          \* the chips: determineDevice and flash size as [dual, second]
  Halves,         \* the values an edit may give to one half of the tune
  Default, Older, \* the half of a default tune, and of an older firmware's
  Erased, Garbage,  \* flash cells that hold no value of a record
  None,           \* no tune
  MaxCommands,    \* bound: commands of the console thread in one behaviour
  MaxBoots,       \* bound: power losses in one behaviour
  MaxFaults       \* bound: erase or program operations that fail

ASSUME StorageAssumption ==
  /\ Chips \subseteq [dual : BOOLEAN, second : BOOLEAN]
  /\ Default \notin Halves /\ Older \notin Halves \cup {Default}
  /\ LET H == Halves \cup {Default, Older}
         Cells == H \cup {Erased, Garbage}
     IN
       /\ Erased # Garbage
       /\ {Erased, Garbage} \cap (H \cup (Cells \X Cells) \cup {"older", "current"}) = {}
       /\ None \notin H \X H
  /\ {MaxCommands, MaxBoots, MaxFaults} \subseteq Nat

VARIABLES
  chip,        \* dual: allowFlashWhileRunning(); second: a second copy fits
  ram,         \* persistentState: the two halves and the CRC field
  flash,       \* flash[k]: the cells of copy k
  unlocked,    \* the flash controller accepts programming: FLASH_CR_LOCK
  pc,          \* pc[p]: where context p is in writeToFlashNow
  need,        \* needToWriteConfiguration
  semaphore,   \* flashWriteSemaphore is signalled
  locked,      \* setEngineType holds the system lock
  running,     \* the engine turns, and not by directSelfStimulation
  inhibited,   \* Sensor::inhibitTimeouts
  presetPending, \* rebootForPresetPending
  noFlash,     \* burnWithoutFlash
  commands, boots, faults,  \* counters of the bounds
  \* History, read by no action:
  snap,        \* snap[p]: the tune whose CRC context p took
  dirty,       \* contexts whose tune was changed under their write
  bad,         \* copies that the last attempt to write left in doubt
  burned,      \* the tunes that the flash may hold
  wanted       \* the tune of the last burn, None once it changed in RAM

history == <<snap, dirty, bad, burned, wanted>>
bounds == <<chip, commands, boots, faults>>
env == <<running, inhibited, presetPending, noFlash>>
vars == <<chip, ram, flash, unlocked, pc, need, semaphore, locked, running, inhibited,
          presetPending, noFlash, commands, boots, faults, snap, dirty, bad,
          burned, wanted>>

Contexts == {"loop", "console", "thread"}
Copies == IF chip.second THEN {1, 2} ELSE {1}
AllHalves == Halves \cup {Default, Older}
Tunes == AllHalves \X AllHalves
DefaultTune == <<Default, Default>>

Idle == <<0, "idle">>
Finish == <<0, "finish">>

Active(p) == pc[p] # Idle
\* The copy that context p has begun to erase or is programming.
UnderPen(k) == \E p \in Contexts : pc[p][1] = k

(* ---- The flash cells ---- *)

BlankCopy == [version |-> Erased, front |-> Erased, back |-> Erased, crc |-> Erased]
GarbageCopy == [version |-> Garbage, front |-> Garbage, back |-> Garbage, crc |-> Garbage]
CopyOf(version, t) == [version |-> version, front |-> t[1], back |-> t[2], crc |-> t]
TuneOf(r) == <<r.front, r.back>>

\* Programming a cell that is not erased can only clear more of its bits.
Program(old, new) == IF old \in {Erased, new} THEN new ELSE Garbage

(* ---- Boot: readOneConfigurationCopy, readConfiguration, readFromFlash ---- *)

CopyState(c) ==
  IF TuneOf(c) # c.crc
  THEN IF c.crc = Erased THEN "BlankChip" ELSE "CrcFailed"
  ELSE IF c.version # "current" THEN "IncompatibleVersion" ELSE "Ok"

\* The copy that is read last, and so the one left in persistentState.
ChosenCopy(f) ==
  IF CopyState(f[1]) = "Ok" \/ ~chip.second THEN f[1] ELSE f[2]

BootState(f) == CopyState(ChosenCopy(f))

\* persistentState after readFromFlash: anything but Ok is overwritten with
\* defaults, the CRC field excepted.
BootRam(f) ==
  LET c == ChosenCopy(f)
      t == IF BootState(f) = "Ok" THEN TuneOf(c) ELSE DefaultTune
  IN  [front |-> t[1], back |-> t[2], crc |-> c.crc]

(* ---- Scheduling of the contexts ---- *)

CanRun(p) ==
  CASE p = "loop" -> ~locked
    [] p = "console" -> ~Active("loop")
    [] p = "thread" -> ~Active("loop") /\ ~Active("console")

\* A command of the console thread: it handles one at a time.
Command ==
  /\ CanRun("console") /\ ~Active("console")
  /\ commands < MaxCommands
  /\ commands' = commands + 1
  /\ UNCHANGED <<chip, boots, faults>>

(* ---- writeToFlashNow ---- *)

\* Context p enters writeToFlashNow with the tune in r: take the CRC.
BeginWrite(p, r) ==
  /\ ram' = [r EXCEPT !.crc = TuneOf(r)]
  /\ pc' = [pc EXCEPT ![p] = <<1, "erase">>]
  /\ snap' = [snap EXCEPT ![p] = TuneOf(r)]
  /\ dirty' = (dirty \cup {q \in Contexts : Active(q)}) \ {p}
  /\ burned' = burned \cup {TuneOf(r)}
  /\ wanted' = IF TuneOf(r) = TuneOf(ram) THEN wanted ELSE None
  /\ UNCHANGED <<flash, unlocked, need, bad>>

\* burnWithoutFlash: the request is dropped.
SkipWrite(r) ==
  /\ ram' = r
  /\ need' = FALSE
  /\ wanted' = None
  /\ dirty' = IF r = ram THEN dirty ELSE dirty \cup {q \in Contexts : Active(q)}
  /\ UNCHANGED <<flash, unlocked, pc, snap, bad, burned>>

WriteNow(p, r) ==
  IF noFlash THEN SkipWrite(r) ELSE BeginWrite(p, r)

\* Where eraseAndFlashCopy of copy k returns to.
AfterCopy(k) == IF k + 1 \in Copies THEN <<k + 1, "erase">> ELSE Finish

\* A mutant of EraseCopy: both copies in one go.
EraseBothCopies(p) ==
  LET k == pc[p][1] IN
  /\ CanRun(p) /\ Active(p) /\ pc[p][2] = "erase"
  /\ flash' = [c \in Copies |-> IF k = 1 \/ c = k THEN BlankCopy ELSE flash[c]]
  /\ unlocked' = FALSE
  /\ pc' = [pc EXCEPT ![p] = <<k, "front">>]
  /\ UNCHANGED <<ram, need, semaphore, locked, env, bounds, history>>

EraseCopy(p) ==
  LET k == pc[p][1] IN
  /\ CanRun(p) /\ Active(p) /\ pc[p][2] = "erase"
  /\ flash' = [flash EXCEPT ![k] = BlankCopy]
  /\ unlocked' = FALSE
  /\ pc' = [pc EXCEPT ![p] = <<k, "front">>]
  /\ UNCHANGED <<ram, need, semaphore, locked, env, bounds, history>>

\* intFlashWrite of the next part of the record, in address order.  The
\* controller is unlocked before the first part and locked after the last.
ProgramPart(p) ==
  LET k == pc[p][1]
      part == pc[p][2]
      c == flash[k]
      programmed == [c EXCEPT ![part] = Program(c[part], ram[part])]
  IN
  /\ CanRun(p) /\ part \in {"front", "back", "crc"}
  /\ part = "front" \/ unlocked
  /\ unlocked' = (part # "crc")
  /\ flash' = [flash EXCEPT ![k] =
       IF part = "front"
       THEN [programmed EXCEPT !.version = Program(c.version, "current")]
       ELSE programmed]
  /\ pc' = [pc EXCEPT ![p] =
       CASE part = "front" -> <<k, "back">>
         [] part = "back" -> <<k, "crc">>
         [] part = "crc" -> AfterCopy(k)]
  /\ bad' = IF part # "crc" THEN bad
            ELSE IF p \in dirty THEN bad \cup {k} ELSE bad \ {k}
  /\ UNCHANGED <<ram, need, semaphore, locked, env, bounds,
                 snap, dirty, burned, wanted>>

\* An erase or a program operation reports an error: eraseAndFlashCopy
\* returns and the other copy is still written.
GiveUpCopy(p) ==
  LET k == pc[p][1] IN
  /\ CanRun(p) /\ k # 0
  /\ pc' = [pc EXCEPT ![p] = AfterCopy(k)]
  /\ unlocked' = FALSE
  /\ bad' = bad \cup {k}
  /\ UNCHANGED <<ram, flash, need, semaphore, locked, env, chip, commands,
                 boots, snap, dirty, burned, wanted>>

\* Another context has locked the controller in the middle of p's write.
ProgramRefused(p) ==
  /\ pc[p][2] \in {"back", "crc"} /\ ~unlocked
  /\ GiveUpCopy(p)
  /\ UNCHANGED faults

FlashFault(p) ==
  /\ faults < MaxFaults
  /\ faults' = faults + 1
  /\ GiveUpCopy(p)

FinishWrite(p) ==
  /\ CanRun(p) /\ pc[p] = Finish
  /\ pc' = [pc EXCEPT ![p] = Idle]
  /\ need' = FALSE
  /\ locked' = (locked /\ p # "console")
  /\ burned' = IF bad = {} /\ p \notin dirty /\ \A q \in Contexts \ {p} : ~Active(q)
               THEN {snap[p]} ELSE burned
  /\ dirty' = dirty \ {p}
  /\ snap' = [snap EXCEPT ![p] = None]
  /\ UNCHANGED <<ram, flash, unlocked, semaphore, env, bounds, bad, wanted>>

(* ---- The flash writer thread and the main loop ---- *)

FlashWriteThread ==
  /\ chip.dual /\ semaphore
  /\ CanRun("thread") /\ ~Active("thread")
  /\ semaphore' = FALSE
  /\ WriteNow("thread", ram)
  /\ UNCHANGED <<locked, env, bounds>>

\* writeToFlashIfPending, from doPeriodicSlowCallback when the engine stands or
\* is stimulated by the firmware itself.
SlowCallback ==
  /\ ~running
  /\ CanRun("loop") /\ ~Active("loop")
  /\ IF chip.dual \/ ~need
     THEN /\ inhibited' = FALSE
          /\ UNCHANGED <<ram, flash, unlocked, pc, need, history>>
     ELSE /\ inhibited' = TRUE
          /\ WriteNow("loop", ram)
  /\ UNCHANGED <<semaphore, locked, running, presetPending, noFlash, bounds>>

(* ---- Commands of the console thread ---- *)

\* What a change of the tune in RAM does to the history: the contexts in the
\* middle of a write now write something else than they took the CRC of, and
\* the tune of an earlier burn is no longer what the tool shows.
RamChanges(r) ==
  /\ ram' = r
  /\ dirty' = dirty \cup {q \in Contexts : Active(q)}
  /\ wanted' = None

\* handleWriteChunkCommand, handleWriteValueCommand.
EditTune ==
  /\ Command
  /\ ~presetPending
  /\ \E half \in {"front", "back"}, v \in Halves :
       RamChanges([ram EXCEPT ![half] = v])
  /\ UNCHANGED <<flash, unlocked, pc, need, semaphore, locked, env,
                 snap, bad, burned>>

\* A mutant of Burn: a burn is taken for granted while another is pending.
BurnOnce ==
  /\ Command
  /\ ~presetPending
  /\ need' = TRUE
  /\ semaphore' = (semaphore \/ (chip.dual /\ ~need))
  /\ wanted' = TuneOf(ram)
  /\ UNCHANGED <<ram, flash, unlocked, pc, locked, env, snap, dirty, bad, burned>>

\* handleBurnCommand, requestBurn, setNeedToWriteConfiguration.
Burn ==
  /\ Command
  /\ ~presetPending
  /\ need' = TRUE
  /\ semaphore' = (semaphore \/ chip.dual)
  /\ wanted' = TuneOf(ram)
  /\ UNCHANGED <<ram, flash, unlocked, pc, locked, env, snap, dirty, bad, burned>>

\* CMD_WRITECONFIG and COMMAND_X14_WRITE_CONFIG.
WriteConfig ==
  /\ Command
  /\ WriteNow("console", ram)
  /\ UNCHANGED <<semaphore, locked, env>>

\* "readconfig": readFromFlash while the firmware runs.
ReadConfig ==
  /\ Command
  /\ RamChanges(BootRam(flash))
  /\ UNCHANGED <<flash, unlocked, pc, need, semaphore, locked, env,
                 snap, bad, burned>>

\* "resetconfig" and "rewriteconfig".
ResetConfig ==
  /\ Command
  /\ RamChanges([ram EXCEPT !.front = Default, !.back = Default])
  /\ UNCHANGED <<flash, unlocked, pc, need, semaphore, locked, env,
                 snap, bad, burned>>

RewriteConfig ==
  /\ Command
  /\ WriteNow("console", [ram EXCEPT !.front = Default, !.back = Default])
  /\ UNCHANGED <<semaphore, locked, env>>

\* TS_SET_ENGINE_TYPE: fatalErrorForPresetApply, then setEngineType, which
\* writes inside a critical section.  The preset is a tune of its own.
SetEngineType ==
  /\ Command
  /\ presetPending' = TRUE
  /\ locked' = ~noFlash
  /\ \E v \in Halves : WriteNow("console", [ram EXCEPT !.front = v, !.back = v])
  /\ UNCHANGED <<semaphore, running, inhibited, noFlash>>

\* COMMAND_X14_BURN_WITHOUT_FLASH.
BurnWithoutFlash ==
  /\ Command
  /\ noFlash' = TRUE
  /\ UNCHANGED <<ram, flash, unlocked, pc, need, semaphore, locked, running, inhibited,
                 presetPending, history>>

(* ---- The engine and the supply ---- *)

\* Also: directSelfStimulation is switched, which is a standing engine here.
EngineStartsOrStops ==
  /\ ~Active("loop") /\ ~locked
  /\ running' = ~running
  /\ UNCHANGED <<ram, flash, unlocked, pc, need, semaphore, locked, inhibited,
                 presetPending, noFlash, bounds, history>>

\* Power is lost at any point and comes back: RAM is what boot reads.  An
\* erase that is cut off leaves anything in its sector.
PowerLoss ==
  /\ boots < MaxBoots
  /\ boots' = boots + 1
  /\ \E torn \in SUBSET {k \in Copies : \E p \in Contexts : pc[p] = <<k, "erase">>} :
       LET f == [k \in Copies |-> IF k \in torn THEN GarbageCopy ELSE flash[k]] IN
       /\ flash' = f
       /\ ram' = BootRam(f)
  /\ pc' = [p \in Contexts |-> Idle]
  /\ unlocked' = FALSE
  /\ need' = FALSE /\ semaphore' = FALSE /\ locked' = FALSE
  /\ running' = FALSE /\ inhibited' = FALSE
  /\ presetPending' = FALSE /\ noFlash' = FALSE
  /\ dirty' = {} /\ wanted' = None /\ snap' = [p \in Contexts |-> None]
  /\ bad' = bad \cup {k \in Copies : UnderPen(k)}
  /\ UNCHANGED <<chip, commands, faults, burned>>

Step(p) == EraseCopy(p) \/ ProgramPart(p) \/ ProgramRefused(p) \/ FinishWrite(p)

\* A chip that has never been programmed, one whose copies an older firmware
\* wrote, and one with a tune in both copies.
Init ==
  /\ chip \in Chips
  /\ \E c \in {BlankCopy, CopyOf("older", <<Older, Older>>), CopyOf("current", DefaultTune)} :
       /\ flash = [k \in Copies |-> c]
       /\ bad = IF CopyState(c) = "Ok" THEN {} ELSE Copies
       /\ burned = IF CopyState(c) = "Ok" THEN {TuneOf(c)} ELSE {}
  /\ ram = BootRam(flash)
  /\ pc = [p \in Contexts |-> Idle]
  /\ unlocked = FALSE
  /\ need = FALSE /\ semaphore = FALSE /\ locked = FALSE
  /\ running = FALSE /\ inhibited = FALSE
  /\ presetPending = FALSE /\ noFlash = FALSE
  /\ commands = 0 /\ boots = 0 /\ faults = 0
  /\ snap = [p \in Contexts |-> None]
  /\ dirty = {} /\ wanted = None

Next ==
  \/ \E p \in Contexts : Step(p) \/ FlashFault(p)
  \/ FlashWriteThread \/ SlowCallback
  \/ EditTune \/ Burn \/ WriteConfig \/ ReadConfig
  \/ ResetConfig \/ RewriteConfig \/ SetEngineType \/ BurnWithoutFlash
  \/ EngineStartsOrStops
  \/ PowerLoss

\* Threads that are ready run in the end, and the slow callback is called
\* again and again while the engine stands.  The tool is not obliged to do
\* anything.
Fairness ==
  /\ \A p \in Contexts : WF_vars(Step(p))
  /\ WF_vars(FlashWriteThread)
  /\ WF_vars(SlowCallback)

Spec == Init /\ [][Next]_vars /\ Fairness

(* ---- Properties ---- *)

\* The fields have their types, and only the contexts that a chip has write.
TypeOK ==
  /\ ram \in [front : AllHalves, back : AllHalves,
              crc : Tunes \cup {Erased, Garbage}]
  /\ \A k \in Copies :
       /\ flash[k].version \in {"older", "current", Erased, Garbage}
       /\ {flash[k].front, flash[k].back} \subseteq AllHalves \cup {Erased, Garbage}
       /\ flash[k].crc \in Tunes \cup {Erased, Garbage}
  /\ \A p \in Contexts :
       pc[p] \in {Idle, Finish} \cup (Copies \X {"erase", "front", "back", "crc"})
  /\ pc[IF chip.dual THEN "loop" ELSE "thread"] = Idle
  /\ locked => Active("console")
  /\ bad \subseteq Copies /\ dirty \subseteq Contexts

\* A copy nobody has failed to write, nobody has been cut off writing, nobody
\* has written while the tune was edited (its CRC is of another tune), and
\* nobody is writing.
Sound(k) == k \notin bad /\ ~UnderPen(k)

\* Whatever point of a write the power fails at, and whatever the other
\* contexts did meanwhile, the next boot finds a tune as long as one copy is
\* sound, and never a mixture of two tunes: what boots as Ok is a tune that
\* was burned as a whole since the last complete write.
TuneSurvives ==
  /\ (\E k \in Copies : Sound(k)) => BootState(flash) = "Ok"
  /\ BootState(flash) = "Ok" => TuneOf(ChosenCopy(flash)) \in burned

Boots(t) == BootState(flash) = "Ok" /\ TuneOf(ChosenCopy(flash)) = t

\* A burn is not lost, also when it is requested while another write is
\* under way or while the engine runs: once the engine stands, and unless
\* the flash fails, the next boot comes to find the tune of the last burn.
BurnReachesFlash ==
  <>[](~running) =>
    (wanted # None ~> Boots(wanted) \/ wanted = None \/ faults > 0)
=============================================================================
