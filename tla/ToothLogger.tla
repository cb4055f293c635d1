---------------------------- MODULE ToothLogger ----------------------------
(***************************************************************************)
(* The composite logger (tooth_logger.cpp) in the one big buffer that it   *)
(* shares with the trigger scope and the performance trace                 *)
(* (big_buffer.cpp).  The trigger interrupt fills one part of the buffer   *)
(* after the other; a client, the tuning tool's channel or the SD card     *)
(* thread, fetches the filled ones, sends them and gives them back.  Two   *)
(* mailboxes hold the parts that nobody works on.                          *)
(***************************************************************************)
EXTENDS Naturals, Sequences, FiniteSets

CONSTANTS
  N,            \* bufferCount
  Deployments,  \* sets of clients that may be at work: "sd" and channels
  MaxStarts     \* bound: how often recording starts anew

\* The users of the big buffer: BigBufferUser.
Users == {"ToothLogger", "TriggerScope", "PerfTrace"}

ASSUME LoggerAssumption ==
  /\ N \in Nat /\ N >= 2   \* static_assert(bufferCount >= 2)
  /\ MaxStarts \in Nat
  /\ \A d \in Deployments : d \cap Users = {}

VARIABLES
  clients,   \* the clients of this device
  enabled,   \* ToothLoggerEnabled
  free,      \* freeBuffers
  filled,    \* filledBuffers
  current,   \* currentBuffer, 0 for nullptr
  ready,     \* outputChannels.toothLogReady
  user,      \* s_currentUser
  handle,    \* m_bufferPtr of every BigBufferHandle: is it set?
  pc,        \* where each client is
  held,      \* the part each client sends, 0 for none
  failed,    \* a mailbox refused a part that is given back
  starts     \* recordings begun

logger == <<enabled, free, filled, current, ready>>
buffer == <<user, handle>>
bounds == <<clients, starts>>
vars == <<logger, buffer, pc, held, failed, bounds>>

Parts == 1 .. N
Tools == clients \ {"sd"}

(* ---- big_buffer.cpp ---- *)

\* A mutant of Acquire: the assignment keeps what the handle held.
AcquireKeeps(h, u) ==
  /\ handle' = [handle EXCEPT ![h] = handle[h] \/ user = "None"]
  /\ user' = IF handle[h] THEN "None" ELSE IF user = "None" THEN u ELSE user

\* handle[h] = getBigBuffer(u): the assignment swaps, and the destructor of
\* the temporary releases what the handle held before.
Acquire(h, u) ==
  /\ handle' = [handle EXCEPT ![h] = user = "None"]
  /\ user' = IF handle[h] THEN "None" ELSE IF user = "None" THEN u ELSE user

\* handle[h] = {}, or its destructor.
Release(h) ==
  /\ handle' = [handle EXCEPT ![h] = FALSE]
  /\ user' = IF handle[h] THEN "None" ELSE user

(* ---- tooth_logger.cpp ---- *)

\* All parts are posted in turn to the free mailbox until it is full.
Refilled == free \o SubSeq([i \in Parts |-> i], 1, N - Len(free))

\* A mutant of EnableToothLogger: the filled parts are not emptied out.
EnableKeepsFilled(c) ==
  /\ IF c = "sd" THEN pc[c] = "off" ELSE pc[c] = "idle"
  /\ starts < MaxStarts
  /\ Acquire("ToothLogger", "ToothLogger")
  /\ IF user # "None" THEN UNCHANGED <<logger, starts>>
     ELSE /\ current' = 0
          /\ free' = Refilled
          /\ enabled' = TRUE
          /\ ready' = FALSE
          /\ starts' = starts + 1
          /\ UNCHANGED filled
  /\ pc' = [pc EXCEPT ![c] = "idle"]
  /\ UNCHANGED <<held, failed, clients>>

EnableToothLogger(c) ==
  /\ IF c = "sd" THEN pc[c] = "off" ELSE pc[c] = "idle"
  /\ starts < MaxStarts
  /\ Acquire("ToothLogger", "ToothLogger")
  /\ IF user # "None" THEN UNCHANGED <<logger, starts>>
     ELSE /\ current' = 0
          /\ filled' = <<>>
          /\ free' = Refilled
          /\ enabled' = TRUE
          /\ ready' = FALSE
          /\ starts' = starts + 1
  /\ pc' = [pc EXCEPT ![c] = "idle"]
  /\ UNCHANGED <<held, failed, clients>>

DisableToothLogger(c) ==
  /\ c \in Tools /\ pc[c] = "idle"
  /\ Release("ToothLogger")
  /\ enabled' = FALSE
  /\ ready' = FALSE
  /\ UNCHANGED <<free, filled, current, pc, held, failed, bounds>>

\* GetToothLoggerBufferImpl(): the SD thread waits for a part, a channel
\* goes on without one.
Fetch(c) ==
  /\ pc[c] = "idle"
  /\ filled # <<>>
  /\ held' = [held EXCEPT ![c] = Head(filled)]
  /\ filled' = Tail(filled)
  /\ pc' = [pc EXCEPT ![c] = "sending"]
  /\ UNCHANGED <<enabled, free, current, ready, buffer, failed, bounds>>

FetchTimesOut(c) ==
  /\ c \in Tools /\ pc[c] = "idle"
  /\ filled = <<>>
  /\ pc' = [pc EXCEPT ![c] = "missed"]
  /\ UNCHANGED <<logger, buffer, held, failed, bounds>>

\* After the lock of the mailbox is given up: a tooth may have come between.
ClearReady(c) ==
  /\ pc[c] \in {"missed", "late"}
  /\ ready' = FALSE
  /\ pc' = [pc EXCEPT ![c] = "idle"]
  /\ UNCHANGED <<enabled, free, filled, current, buffer, held, failed, bounds>>

\* A mutant of GivenBack: the part in use goes to the free mailbox.
GivenBackCurrent(c) == IF current # 0 THEN current ELSE held[c]

\* The part a client gives back: the one it fetched.
GivenBack(c) == held[c]

ReturnToothLoggerBuffer(c) ==
  /\ pc[c] = "sending"
  /\ IF Len(free) < N
     THEN /\ free' = Append(free, GivenBack(c))
          /\ ready' = (ready /\ filled # <<>>)
          /\ failed' = failed
     ELSE /\ failed' = TRUE
          /\ UNCHANGED <<free, ready>>
  /\ held' = [held EXCEPT ![c] = 0]
  /\ pc' = [pc EXCEPT ![c] = "idle"]
  /\ UNCHANGED <<enabled, filled, current, buffer, bounds>>

\* findBuffer(): the part in use, else a free one, 0 when there is none.
FindBuffer ==
  IF current # 0 THEN current ELSE IF free # <<>> THEN Head(free) ELSE 0

\* The free mailbox after findBuffer().
TakenFrom(part) == IF part = current THEN free ELSE Tail(free)

\* SetNextCompositeEntry() in an interrupt: one more entry.
LogEntry ==
  /\ enabled
  /\ FindBuffer # 0
  /\ current' = FindBuffer
  /\ free' = TakenFrom(FindBuffer)
  /\ UNCHANGED <<enabled, filled, ready, buffer, pc, held, failed, bounds>>

\* A mutant of FillPart: only the first filled part sets the flag.
FillPartOnce ==
  /\ enabled
  /\ FindBuffer # 0
  /\ \A c \in clients : pc[c] # "late"
  /\ pc' = [c \in clients |-> IF pc[c] = "missed" THEN "late" ELSE pc[c]]
  /\ filled' = IF Len(filled) < N THEN Append(filled, FindBuffer) ELSE filled
  /\ free' = TakenFrom(FindBuffer)
  /\ current' = 0
  /\ ready' = (ready \/ filled = <<>>)
  /\ UNCHANGED <<enabled, buffer, held, failed, bounds>>

\* SetNextCompositeEntry() when the entry is the part's last or the part is
\* 5 s old: it is handed over and the flag set.  To fill a part takes longer
\* than a client needs from its failed fetch to clear the flag: one part,
\* never two, comes between.
FillPart ==
  /\ enabled
  /\ FindBuffer # 0
  /\ \A c \in clients : pc[c] # "late"
  /\ pc' = [c \in clients |-> IF pc[c] = "missed" THEN "late" ELSE pc[c]]
  /\ filled' = IF Len(filled) < N THEN Append(filled, FindBuffer) ELSE filled
  /\ free' = TakenFrom(FindBuffer)
  /\ current' = 0
  /\ ready' = TRUE
  /\ UNCHANGED <<enabled, buffer, held, failed, bounds>>

(* ---- The other users of the big buffer ---- *)

TriggerScopeEnable(c) ==
  /\ c \in Tools /\ pc[c] = "idle"
  /\ Acquire("TriggerScope", "TriggerScope")
  /\ UNCHANGED <<logger, pc, held, failed, bounds>>

\* triggerScopeDisable(), by command or by startSampling() in an interrupt
\* when the ADC is busy.
TriggerScopeDisable ==
  /\ handle["TriggerScope"]
  /\ Release("TriggerScope")
  /\ UNCHANGED <<logger, pc, held, failed, bounds>>

PerfTraceEnable(c) ==
  /\ c \in Tools /\ pc[c] = "idle"
  /\ Acquire("PerfTrace", "PerfTrace")
  /\ UNCHANGED <<logger, pc, held, failed, bounds>>

\* perfTraceGetBuffer() moves the handle to the command, which sends the
\* trace; then the moved handle is destroyed.
PerfTraceGet(c) ==
  /\ c \in Tools /\ pc[c] = "idle"
  /\ handle' = [handle EXCEPT !["PerfTrace"] = FALSE, ![c] = handle["PerfTrace"]]
  /\ pc' = [pc EXCEPT ![c] = "trace"]
  /\ UNCHANGED <<logger, user, held, failed, bounds>>

PerfTraceSent(c) ==
  /\ pc[c] = "trace"
  /\ Release(c)
  /\ pc' = [pc EXCEPT ![c] = "idle"]
  /\ UNCHANGED <<logger, held, failed, bounds>>

(* ---- Specification ---- *)

Init ==
  /\ clients \in Deployments
  /\ enabled = FALSE /\ free = <<>> /\ filled = <<>> /\ current = 0 /\ ready = FALSE
  /\ user = "None" /\ handle = [h \in Users \cup Tools |-> FALSE]
  /\ pc = [c \in clients |-> IF c = "sd" THEN "off" ELSE "idle"]
  /\ held = [c \in clients |-> 0]
  /\ failed = FALSE /\ starts = 0

Command(c) ==
  \/ EnableToothLogger(c) \/ DisableToothLogger(c) \/ Fetch(c) \/ FetchTimesOut(c)
  \/ TriggerScopeEnable(c) \/ PerfTraceEnable(c) \/ PerfTraceGet(c)

\* What a client that has begun a command does next.
Continue(c) == ClearReady(c) \/ ReturnToothLoggerBuffer(c) \/ PerfTraceSent(c)

Next ==
  \/ LogEntry \/ FillPart \/ TriggerScopeDisable
  \/ \E c \in clients : Command(c) \/ Continue(c)

\* Commands come to their end; nothing makes the tool ask or the engine turn.
Spec == Init /\ [][Next]_vars /\ WF_vars(\E c \in clients : Continue(c))

(* ---- Properties ---- *)

InUse == Cardinality({c \in clients : held[c] # 0}) + (IF current = 0 THEN 0 ELSE 1)

TypeOK ==
  /\ free \in Seq(Parts) /\ filled \in Seq(Parts) /\ current \in 0 .. N
  /\ held \in [clients -> 0 .. N]
  /\ user \in Users \cup {"None"}
  /\ pc \in [clients -> {"off", "idle", "missed", "late", "sending", "trace"}]

\* However often recording is switched off and on, with parts filled, in use
\* or being sent, as many parts are on their way as there are: a part that
\* is given back always fits the free mailbox (the assertion in
\* ReturnToothLoggerBuffer), and a filled one is never dropped.
PartsConserved ==
  /\ ~failed
  /\ Len(free) + Len(filled) + InUse <= N
  /\ enabled => Len(free) + Len(filled) + InUse = N

\* In the first recording every part is in one place: the interrupt never
\* writes the part that a client is sending, or one that waits to be sent.
PartsApart ==
  starts <= 1 =>
    LET placed == free \o filled IN
    /\ \A i, j \in 1 .. Len(placed) : placed[i] = placed[j] => i = j
    /\ \A i \in 1 .. Len(placed) :
         placed[i] # current /\ \A c \in clients : placed[i] # held[c]
    /\ \A c \in clients : held[c] # 0 => held[c] # current

\* The big buffer has an owner exactly when one handle is set, the owner's
\* or the one of the command that sends its trace: no sequence of commands
\* gives the memory to two users or leaves it owned by nobody's handle.
OneOwner ==
  LET set == {h \in DOMAIN handle : handle[h]} IN
  /\ user = "None" => set = {}
  /\ user # "None" =>
       \E h \in set : set = {h} /\ (h = user \/ (h \in Tools /\ user = "PerfTrace"))

\* While the engine turns and fills parts, the flag that makes the tool fetch
\* comes back for every filled part, although a fetch that found nothing may
\* clear it after the part arrived: there is always a second part to fill.
ReadyComesBack ==
  WF_vars(FillPart) =>
    (enabled /\ filled # <<>> ~> ready \/ filled = <<>> \/ ~enabled)
=============================================================================
