------------------------- MODULE ToothLogger_proofs -------------------------
(***************************************************************************)
(* Proofs about ToothLogger, for any number of parts and starts:           *)
(*   OneOwner and PartsApart for every set of clients,                     *)
(*   PartsConserved for a device with one client.  (With two it fails: one *)
(*   starts a new recording while the other sends a part, and all parts    *)
(*   are posted again.)                                                    *)
(***************************************************************************)
EXTENDS ToothLogger, SequenceTheorems, FiniteSetTheorems, TLAPS

Places == {"off", "idle", "missed", "late", "sending", "trace"}

TypeInv ==
  /\ clients \in Deployments
  /\ enabled \in BOOLEAN
  /\ free \in Seq(Parts) /\ filled \in Seq(Parts) /\ current \in 0 .. N
  /\ user \in Users \cup {"None"}
  /\ handle \in [Users \cup Tools -> BOOLEAN]
  /\ pc \in [clients -> Places]
  /\ held \in [clients -> 0 .. N]
  /\ starts \in Nat

\* The owner's handle is set, or the one of the command that sends its trace.
\* A command holds the trace only while it sends it, and only a tool does.
OwnerInv ==
  /\ \A h \in Users : handle[h] => user = h
  /\ \A c \in Tools : handle[c] => user = "PerfTrace" /\ pc[c] = "trace" /\ ~handle["PerfTrace"]
  /\ \A c, d \in Tools : handle[c] /\ handle[d] => c = d
  /\ user # "None" => \E h \in Users \cup Tools : handle[h]
  /\ \A c \in clients : pc[c] = "trace" => c \in Tools

\* Before the first recording nothing is anywhere; in it every part is in
\* one place only.
Empty == free = <<>> /\ filled = <<>> /\ current = 0 /\ \A c \in clients : held[c] = 0

Apart ==
  /\ \A i, j \in 1 .. Len(free) : free[i] = free[j] => i = j
  /\ \A i, j \in 1 .. Len(filled) : filled[i] = filled[j] => i = j
  /\ \A i \in 1 .. Len(free), j \in 1 .. Len(filled) : free[i] # filled[j]
  /\ \A i \in 1 .. Len(free) : free[i] # current /\ \A c \in clients : free[i] # held[c]
  /\ \A i \in 1 .. Len(filled) : filled[i] # current /\ \A c \in clients : filled[i] # held[c]
  /\ \A c \in clients : held[c] # 0 => held[c] # current
  /\ \A c, d \in clients : held[c] # 0 /\ held[c] = held[d] => c = d

ApartInv == (starts = 0 => Empty) /\ (starts = 1 => Apart)

\* A client holds a part exactly while it sends it, so that the only client
\* of a device holds none when it starts a recording.
SendingHolds == \A c \in clients : held[c] # 0 <=> pc[c] = "sending"

One(b) == IF b THEN 1 ELSE 0

\* PartsConserved without a cardinality, for client c.
Conserved(c) ==
  LET sum == Len(free) + Len(filled) + One(held[c] # 0) + One(current # 0) IN
  sum <= N /\ (enabled => sum = N)

SingleClient == \A d \in Deployments : \E c : d = {c}

ConservedInv ==
  /\ ~failed
  /\ \A c \in clients : Conserved(c)

-----------------------------------------------------------------------------
(* Types, and the owner of the big buffer.                                 *)

LEMMA UsersNoTools == TypeInv => \A h \in Users : h \notin Tools
  BY LoggerAssumption DEF TypeInv, Tools

\* The free mailbox is filled up with parts.
LEMMA RefilledType ==
  ASSUME TypeInv, Len(free) <= N
  PROVE  /\ Refilled \in Seq(Parts)
         /\ Len(Refilled) = N
         /\ free = <<>> => \A i \in 1 .. N : Refilled[i] = i
<1> DEFINE all == [i \in Parts |-> i]
           some == SubSeq(all, 1, N - Len(free))
<1>1. N \in Nat /\ Len(free) \in Nat /\ free \in Seq(Parts)
  BY LoggerAssumption DEF TypeInv
<1>2. all \in Seq(Parts) /\ Len(all) = N
  BY <1>1 DEF Parts
<1>3. some \in Seq(Parts) /\ Len(some) = N - Len(free)
      /\ \A i \in 1 .. (N - Len(free)) : some[i] = i
  <2> HIDE DEF all
  <2>1. some \in Seq(Parts) /\ Len(some) = N - Len(free)
        /\ \A i \in 1 .. (N - Len(free)) : some[i] = all[i]
    BY <1>1, <1>2
  <2>2. \A i \in 1 .. (N - Len(free)) : all[i] = i
    BY <1>1 DEF all, Parts
  <2> QED BY <2>1, <2>2
<1>4. Refilled = free \o some
  BY DEF Refilled
<1> HIDE DEF some
<1> QED BY <1>1, <1>3, <1>4

\* The free mailbox is never over its size, and what is put into it is a part.
MailboxInv == Len(free) <= N /\ SendingHolds

\* An action that sets a user's handle, takes it away or leaves all alone.
LEMMA AcquireOwner ==
  ASSUME TypeInv, OwnerInv, NEW h \in Users, Acquire(h, h), clients' = clients,
         \A c \in clients : pc'[c] = "trace" <=> pc[c] = "trace"
  PROVE  OwnerInv' /\ user' \in Users \cup {"None"} /\ handle' \in [Users \cup Tools -> BOOLEAN]
<1>1. \A g \in Users : g \notin Tools
  BY UsersNoTools
<1>2. Tools' = Tools /\ Tools \subseteq clients
  BY DEF Tools
<1>3. user' \in Users \cup {"None"} /\ handle' \in [Users \cup Tools -> BOOLEAN]
  BY DEF Acquire, TypeInv
<1>4. \A g \in Users \cup Tools : handle'[g] = IF g = h THEN user = "None" ELSE handle[g]
  BY DEF Acquire, TypeInv
<1>5. h # "None"
  BY DEF Users
<1>6. CASE handle[h]
  <2>1. user = h /\ user' = "None" /\ \A c \in Tools : ~handle[c]
    BY <1>6, <1>1, <1>5 DEF Acquire, OwnerInv, TypeInv, Users
  <2>2. \A g \in Users \cup Tools : ~handle'[g]
    BY <2>1, <1>4, <1>5 DEF OwnerInv, TypeInv
  <2> QED BY <2>1, <2>2, <1>2, <1>3 DEF OwnerInv, TypeInv, Users
<1>7. CASE ~handle[h] /\ user = "None"
  <2>1. user' = h /\ \A g \in Users \cup Tools : ~handle[g]
    BY <1>7 DEF Acquire, OwnerInv, Users
  <2> QED BY <2>1, <1>1, <1>2, <1>3, <1>4, <1>7 DEF OwnerInv
<1>8. CASE ~handle[h] /\ user # "None"
  <2>1. user' = user /\ \A g \in Users \cup Tools : handle'[g] <=> handle[g]
    BY <1>8, <1>4 DEF Acquire
  <2> QED BY <2>1, <1>2, <1>3 DEF OwnerInv, Users
<1> QED BY <1>6, <1>7, <1>8

LEMMA ReleaseOwner ==
  ASSUME TypeInv, OwnerInv, NEW h \in Users, Release(h), clients' = clients,
         \A c \in clients : pc'[c] = "trace" <=> pc[c] = "trace"
  PROVE  OwnerInv' /\ user' \in Users \cup {"None"} /\ handle' \in [Users \cup Tools -> BOOLEAN]
<1>1. \A g \in Users : g \notin Tools
  BY UsersNoTools
<1>2. Tools' = Tools /\ Tools \subseteq clients
  BY DEF Tools
<1>3. user' \in Users \cup {"None"} /\ handle' \in [Users \cup Tools -> BOOLEAN]
  BY DEF Release, TypeInv
<1>4. \A g \in Users \cup Tools : handle'[g] = IF g = h THEN FALSE ELSE handle[g]
  BY DEF Release, TypeInv
<1>6. CASE handle[h]
  <2>1. user = h /\ user' = "None" /\ \A c \in Tools : ~handle[c]
    BY <1>6, <1>1 DEF Release, OwnerInv, TypeInv, Users
  <2>2. \A g \in Users \cup Tools : ~handle'[g]
    BY <2>1, <1>4 DEF OwnerInv, TypeInv
  <2> QED BY <2>1, <2>2, <1>2, <1>3 DEF OwnerInv, TypeInv, Users
<1>7. CASE ~handle[h]
  <2>1. user' = user /\ \A g \in Users \cup Tools : handle'[g] <=> handle[g]
    BY <1>7, <1>4 DEF Release
  <2> QED BY <2>1, <1>2, <1>3 DEF OwnerInv, Users
<1> QED BY <1>6, <1>7

\* An action that leaves the big buffer alone.
LEMMA SameOwner ==
  ASSUME TypeInv, OwnerInv, UNCHANGED <<buffer, clients>>,
         \A c \in clients : pc'[c] = "trace" <=> pc[c] = "trace"
  PROVE  OwnerInv'
<1>1. Tools' = Tools /\ Tools \subseteq clients /\ user' = user /\ handle' = handle
  BY DEF Tools, buffer
<1> QED BY <1>1 DEF OwnerInv

OwnersInv == TypeInv /\ MailboxInv /\ OwnerInv

LEMMA InitOwners == Init => OwnersInv
<1> SUFFICES ASSUME Init PROVE OwnersInv
  OBVIOUS
<1>1. N \in Nat
  BY LoggerAssumption
<1>2. free \in Seq(Parts) /\ filled \in Seq(Parts) /\ current \in 0 .. N /\ Len(free) = 0
  BY <1>1 DEF Init
<1>3. pc \in [clients -> Places] /\ held \in [clients -> 0 .. N]
  BY <1>1 DEF Init, Places
<1>4. handle \in [Users \cup Tools -> BOOLEAN] /\ \A h \in Users \cup Tools : ~handle[h]
  BY DEF Init
<1>5. /\ clients \in Deployments /\ enabled \in BOOLEAN /\ user \in Users \cup {"None"}
      /\ starts \in Nat
  BY DEF Init
<1>6. SendingHolds
  BY DEF Init, SendingHolds
<1>7. TypeInv /\ MailboxInv
  BY <1>1, <1>2, <1>3, <1>4, <1>5, <1>6 DEF TypeInv, MailboxInv
<1>8. OwnerInv
  BY <1>4 DEF Init, OwnerInv
<1> QED BY <1>7, <1>8 DEF OwnersInv

\* A client has a part from its fetch to its return.
LEMMA ClientSends ==
  ASSUME OwnersInv, NEW c \in clients, Command(c) \/ Continue(c), clients' = clients
  PROVE  SendingHolds'
<1> USE DEF OwnersInv, MailboxInv, SendingHolds
<1>0. pc \in [clients -> Places] /\ held \in [clients -> 0 .. N] /\ filled \in Seq(Parts)
  BY DEF TypeInv
<1>1. CASE Fetch(c)
  <2>1. Head(filled) \in Parts
    BY <1>0, <1>1 DEF Fetch
  <2>2. Head(filled) # 0
    BY <2>1, LoggerAssumption DEF Parts
  <2> QED BY <1>0, <1>1, <2>2 DEF Fetch
<1>2. CASE ReturnToothLoggerBuffer(c)
  BY <1>0, <1>2 DEF ReturnToothLoggerBuffer
<1>3. CASE EnableToothLogger(c) \/ FetchTimesOut(c) \/ ClearReady(c) \/ PerfTraceGet(c)
           \/ PerfTraceSent(c)
  BY <1>0, <1>3 DEF EnableToothLogger, FetchTimesOut, ClearReady, PerfTraceGet, PerfTraceSent
<1>4. CASE DisableToothLogger(c) \/ TriggerScopeEnable(c) \/ PerfTraceEnable(c)
  BY <1>4 DEF DisableToothLogger, TriggerScopeEnable, PerfTraceEnable
<1> QED BY <1>1, <1>2, <1>3, <1>4 DEF Command, Continue

\* The steps of one client.
LEMMA ClientOwners ==
  ASSUME OwnersInv, NEW c \in clients, Command(c) \/ Continue(c)
  PROVE  OwnersInv'
<1> USE DEF OwnersInv, MailboxInv
<1>0. /\ clients' = clients /\ Tools' = Tools /\ Tools \subseteq clients
      /\ N \in Nat /\ Len(free) \in Nat /\ Len(filled) \in Nat
  <2>1. clients' = clients
    BY DEF Command, Continue, EnableToothLogger, DisableToothLogger, Fetch,
       FetchTimesOut, TriggerScopeEnable, PerfTraceEnable, PerfTraceGet, ClearReady,
       ReturnToothLoggerBuffer, PerfTraceSent, bounds
  <2> QED BY <2>1, LoggerAssumption DEF Tools, TypeInv
<1>9. SendingHolds'
  BY <1>0, ClientSends
<1>1. CASE EnableToothLogger(c)
  <2>1. pc' = [pc EXCEPT ![c] = "idle"] /\ pc[c] \in {"off", "idle"} /\ held' = held
    BY <1>1 DEF EnableToothLogger
  <2>2. pc' \in [clients -> Places] /\ \A d \in clients : pc'[d] = "trace" <=> pc[d] = "trace"
    BY <2>1 DEF TypeInv, Places
  <2>3. OwnerInv' /\ user' \in Users \cup {"None"} /\ handle' \in [Users \cup Tools -> BOOLEAN]
    <3>1. Acquire("ToothLogger", "ToothLogger") /\ "ToothLogger" \in Users
      BY <1>1 DEF EnableToothLogger, Users
    <3> QED BY <3>1, <2>2, <1>0, AcquireOwner
  <2>4. CASE user # "None"
    BY <2>1, <2>2, <2>3, <2>4, <1>0, <1>1, <1>9 DEF EnableToothLogger, logger, TypeInv
  <2>5. CASE user = "None"
    <3>1. /\ enabled' = TRUE /\ free' = Refilled /\ filled' = <<>> /\ current' = 0
          /\ starts' = starts + 1
      BY <2>5, <1>1 DEF EnableToothLogger
    <3>2. free' \in Seq(Parts) /\ Len(free') = N
      BY <3>1, RefilledType
    <3>3. filled' \in Seq(Parts)
      BY <3>1
    <3> QED BY <2>1, <2>2, <2>3, <3>1, <3>2, <3>3, <1>0, <1>9 DEF TypeInv
  <2> QED BY <2>4, <2>5
<1>2. CASE DisableToothLogger(c)
  <2>1. Release("ToothLogger") /\ "ToothLogger" \in Users /\ pc' = pc
    BY <1>2 DEF DisableToothLogger, Users
  <2>2. OwnerInv' /\ user' \in Users \cup {"None"} /\ handle' \in [Users \cup Tools -> BOOLEAN]
    BY <2>1, <1>0, ReleaseOwner
  <2> QED BY <2>2, <1>0, <1>2, <1>9 DEF DisableToothLogger, TypeInv, bounds
<1>3. CASE Fetch(c)
  <2>1. Head(filled) \in Parts /\ Tail(filled) \in Seq(Parts)
    BY <1>3 DEF Fetch, TypeInv
  <2>2. pc' \in [clients -> Places] /\ \A d \in clients : pc'[d] = "trace" <=> pc[d] = "trace"
    BY <1>3 DEF Fetch, TypeInv, Places
  <2>3. held' \in [clients -> 0 .. N]
    BY <1>0, <1>3, <2>1 DEF Fetch, TypeInv, Parts
  <2>4. UNCHANGED <<buffer, enabled, free, current, starts>> /\ filled' = Tail(filled)
    BY <1>3 DEF Fetch, bounds
  <2>5. OwnerInv'
    BY <2>2, <2>4, <1>0, SameOwner
  <2> QED BY <2>1, <2>2, <2>3, <2>4, <2>5, <1>0, <1>9 DEF TypeInv, buffer
<1>4. CASE FetchTimesOut(c) \/ ClearReady(c)
  <2>2. pc' \in [clients -> Places] /\ \A d \in clients : pc'[d] = "trace" <=> pc[d] = "trace"
    BY <1>4 DEF FetchTimesOut, ClearReady, TypeInv, Places
  <2>4. UNCHANGED <<buffer, enabled, free, filled, current, held, starts>>
    BY <1>4 DEF FetchTimesOut, ClearReady, bounds, logger
  <2>5. OwnerInv'
    BY <2>2, <2>4, <1>0, SameOwner
  <2> QED BY <2>2, <2>4, <2>5, <1>0, <1>9 DEF TypeInv, buffer
<1>5. CASE ReturnToothLoggerBuffer(c)
  <2>2. pc' \in [clients -> Places] /\ \A d \in clients : pc'[d] = "trace" <=> pc[d] = "trace"
    BY <1>5 DEF ReturnToothLoggerBuffer, TypeInv, Places
  <2>3. held' \in [clients -> 0 .. N]
    BY <1>0, <1>5 DEF ReturnToothLoggerBuffer, TypeInv
  <2>4. UNCHANGED <<buffer, enabled, filled, current, starts>>
    BY <1>5 DEF ReturnToothLoggerBuffer, bounds
  <2>5. OwnerInv'
    BY <2>2, <2>4, <1>0, SameOwner
  <2>6. free' \in Seq(Parts) /\ Len(free') <= N
    <3>1. CASE Len(free) >= N
      BY <3>1, <1>0, <1>5 DEF ReturnToothLoggerBuffer, TypeInv
    <3>2. CASE Len(free) < N
      <4>1. free' = Append(free, held[c])
        BY <3>2, <1>5 DEF ReturnToothLoggerBuffer, GivenBack
      <4>2. held[c] \in Parts
        BY <1>0, <1>5 DEF ReturnToothLoggerBuffer, SendingHolds, TypeInv, Parts
      <4> QED BY <3>2, <4>1, <4>2, <1>0, <1>9 DEF TypeInv
    <3> QED BY <3>1, <3>2, <1>0
  <2> QED BY <2>2, <2>3, <2>4, <2>5, <2>6, <1>0, <1>9 DEF TypeInv, buffer
<1>6. CASE TriggerScopeEnable(c) \/ PerfTraceEnable(c)
  <2>1. \E h \in Users : Acquire(h, h)
    BY <1>6 DEF TriggerScopeEnable, PerfTraceEnable, Users
  <2>2. UNCHANGED <<enabled, free, filled, current, pc, held, starts>>
    BY <1>6 DEF TriggerScopeEnable, PerfTraceEnable, logger, bounds
  <2>3. OwnerInv' /\ user' \in Users \cup {"None"} /\ handle' \in [Users \cup Tools -> BOOLEAN]
    BY <2>1, <2>2, <1>0, AcquireOwner
  <2> QED BY <2>2, <2>3, <1>0, <1>9 DEF TypeInv
<1>7. CASE PerfTraceGet(c)
  <2>1. UNCHANGED <<enabled, free, filled, current, held, starts, user>>
    BY <1>7 DEF PerfTraceGet, logger, bounds
  <2>2. c \in Tools /\ pc[c] = "idle" /\ "PerfTrace" \in Users /\ "PerfTrace" \notin Tools
    BY <1>7, UsersNoTools DEF PerfTraceGet, Users
  <2>3. ~handle[c]
    BY <2>2 DEF OwnerInv
  <2>4. pc' \in [clients -> Places] /\ pc'[c] = "trace" /\ \A d \in clients : d # c => pc'[d] = pc[d]
    BY <1>7 DEF PerfTraceGet, TypeInv, Places
  <2>5. /\ handle' \in [Users \cup Tools -> BOOLEAN]
        /\ ~handle'["PerfTrace"] /\ handle'[c] = handle["PerfTrace"]
        /\ \A g \in Users \cup Tools : g \notin {c, "PerfTrace"} => handle'[g] = handle[g]
    BY <1>7, <2>2 DEF PerfTraceGet, TypeInv
  <2>6. handle["PerfTrace"] => user = "PerfTrace" /\ \A d \in Tools : ~handle[d]
    BY <2>2 DEF OwnerInv
  <2>7. OwnerInv'
    <3>1. CASE handle["PerfTrace"]
      BY <3>1, <1>0, <2>1, <2>2, <2>4, <2>5, <2>6, UsersNoTools DEF OwnerInv
    <3>2. CASE ~handle["PerfTrace"]
      <4>1. \A g \in Users \cup Tools : handle'[g] <=> handle[g]
        BY <3>2, <2>3, <2>5, <2>2 DEF TypeInv
      <4> QED BY <4>1, <1>0, <2>1, <2>2, <2>3, <2>4 DEF OwnerInv
    <3> QED BY <3>1, <3>2
  <2> QED BY <2>1, <2>4, <2>5, <2>7, <1>0, <1>9 DEF TypeInv
<1>8. CASE PerfTraceSent(c)
  <2>1. UNCHANGED <<enabled, free, filled, current, held, starts>>
    BY <1>8 DEF PerfTraceSent, logger, bounds
  <2>2. pc[c] = "trace" /\ c \in Tools /\ c \notin Users
    BY <1>8, UsersNoTools DEF PerfTraceSent, OwnerInv
  <2>4. pc' \in [clients -> Places] /\ pc'[c] = "idle" /\ \A d \in clients : d # c => pc'[d] = pc[d]
    BY <1>8 DEF PerfTraceSent, TypeInv, Places
  <2>5. /\ handle' \in [Users \cup Tools -> BOOLEAN] /\ ~handle'[c]
        /\ \A g \in Users \cup Tools : g # c => handle'[g] = handle[g]
        /\ user' = IF handle[c] THEN "None" ELSE user
    BY <1>8, <2>2 DEF PerfTraceSent, Release, TypeInv
  <2>7. OwnerInv'
    <3>1. CASE handle[c]
      <4>1. \A g \in Users \cup Tools : ~handle'[g]
        BY <3>1, <2>2, <2>5 DEF OwnerInv, Users
      <4> QED BY <3>1, <4>1, <1>0, <2>2, <2>4, <2>5 DEF OwnerInv, Users
    <3>2. CASE ~handle[c]
      <4>1. \A g \in Users \cup Tools : handle'[g] <=> handle[g]
        BY <3>2, <2>5, <2>2 DEF TypeInv
      <4>2. user' = user /\ "PerfTrace" \in Users
        BY <3>2, <2>5 DEF Users
      <4> QED BY <3>2, <4>1, <4>2, <1>0, <2>2, <2>4 DEF OwnerInv
    <3> QED BY <3>1, <3>2
  <2>8. user' \in Users \cup {"None"}
    BY <2>5 DEF TypeInv
  <2> QED BY <2>1, <2>4, <2>5, <2>7, <2>8, <1>0, <1>9 DEF TypeInv
<1> QED
  BY <1>1, <1>2, <1>3, <1>4, <1>5, <1>6, <1>7, <1>8 DEF Command, Continue

\* The steps of the interrupts.
LEMMA InterruptOwners ==
  ASSUME OwnersInv, LogEntry \/ FillPart \/ TriggerScopeDisable
  PROVE  OwnersInv'
<1> USE DEF OwnersInv
<1>0. /\ clients' = clients /\ Tools' = Tools
      /\ N \in Nat /\ Len(free) \in Nat /\ Len(filled) \in Nat
      /\ free \in Seq(Parts) /\ filled \in Seq(Parts) /\ current \in 0 .. N
  <2>1. clients' = clients
    BY DEF LogEntry, FillPart, TriggerScopeDisable, bounds
  <2> QED BY <2>1, LoggerAssumption DEF Tools, TypeInv
<1>1. ASSUME FindBuffer # 0
      PROVE  /\ FindBuffer \in Parts
             /\ TakenFrom(FindBuffer) \in Seq(Parts) /\ Len(TakenFrom(FindBuffer)) <= Len(free)
  <2>1. CASE current # 0
    BY <2>1, <1>0 DEF FindBuffer, TakenFrom, Parts
  <2>2. CASE current = 0 /\ free # <<>>
    <3>1. FindBuffer = Head(free) /\ Head(free) \in Parts /\ Head(free) # 0
      BY <2>2, <1>0 DEF FindBuffer, Parts
    <3>2. TakenFrom(FindBuffer) = Tail(free)
      BY <2>2, <3>1 DEF TakenFrom
    <3>3. Tail(free) \in Seq(Parts) /\ Len(Tail(free)) = Len(free) - 1
      BY <2>2, <1>0, HeadTailProperties
    <3> QED BY <3>1, <3>2, <3>3, <1>0
  <2>3. CASE current = 0 /\ free = <<>>
    BY <2>3, <1>1 DEF FindBuffer
  <2> QED BY <2>1, <2>2, <2>3
<1>2. CASE LogEntry
  <2>1. /\ UNCHANGED <<enabled, filled, buffer, pc, held, starts>>
        /\ free' = TakenFrom(FindBuffer) /\ current' = FindBuffer /\ FindBuffer # 0
    BY <1>2 DEF LogEntry, bounds
  <2>2. OwnerInv'
    BY <1>0, <2>1, SameOwner
  <2>3. current' \in 0 .. N /\ free' \in Seq(Parts) /\ Len(free') <= N
    BY <2>1, <1>1, <1>0 DEF Parts, MailboxInv
  <2>4. SendingHolds'
    BY <2>1, <1>0 DEF SendingHolds, MailboxInv
  <2> QED BY <1>0, <2>1, <2>2, <2>3, <2>4 DEF TypeInv, MailboxInv, buffer
<1>3. CASE FillPart
  <2>1. /\ UNCHANGED <<enabled, buffer, held, starts>>
        /\ free' = TakenFrom(FindBuffer) /\ current' = 0 /\ FindBuffer # 0
        /\ filled' = IF Len(filled) < N THEN Append(filled, FindBuffer) ELSE filled
        /\ pc' = [c \in clients |-> IF pc[c] = "missed" THEN "late" ELSE pc[c]]
    BY <1>3 DEF FillPart, bounds
  <2>2. /\ pc' \in [clients -> Places]
        /\ \A c \in clients : /\ pc'[c] = "trace" <=> pc[c] = "trace"
                              /\ pc'[c] = "sending" <=> pc[c] = "sending"
    BY <2>1 DEF TypeInv, Places
  <2>3. OwnerInv'
    BY <1>0, <2>1, <2>2, SameOwner
  <2>4. free' \in Seq(Parts) /\ Len(free') <= N
    BY <2>1, <1>1, <1>0 DEF MailboxInv
  <2>5. filled' \in Seq(Parts)
    BY <2>1, <1>1, <1>0
  <2>6. SendingHolds'
    BY <2>1, <2>2, <1>0 DEF SendingHolds, MailboxInv
  <2> QED BY <1>0, <2>1, <2>2, <2>3, <2>4, <2>5, <2>6 DEF TypeInv, MailboxInv, buffer
<1>4. CASE TriggerScopeDisable
  <2>1. UNCHANGED <<enabled, free, filled, current, pc, held, starts>>
    BY <1>4 DEF TriggerScopeDisable, logger, bounds
  <2>2. Release("TriggerScope") /\ "TriggerScope" \in Users
    BY <1>4 DEF TriggerScopeDisable, Users
  <2>3. OwnerInv' /\ user' \in Users \cup {"None"} /\ handle' \in [Users \cup Tools -> BOOLEAN]
    BY <2>1, <2>2, <1>0, ReleaseOwner
  <2> QED BY <1>0, <2>1, <2>3 DEF TypeInv, MailboxInv, SendingHolds
<1> QED BY <1>2, <1>3, <1>4

LEMMA StepOwners == OwnersInv /\ [Next]_vars => OwnersInv'
<1>1. ASSUME OwnersInv, UNCHANGED vars PROVE OwnersInv'
  <2>1. clients' = clients /\ Tools' = Tools
    BY <1>1 DEF vars, bounds, Tools
  <2> QED BY <1>1, <2>1 DEF vars, logger, buffer, bounds, OwnersInv, TypeInv, MailboxInv,
          SendingHolds, OwnerInv
<1> QED BY <1>1, ClientOwners, InterruptOwners DEF Next

LEMMA OwnersInvariant == Spec => []OwnersInv
  BY InitOwners, StepOwners, PTL DEF Spec

\* The big buffer has an owner exactly when one handle is set (big_buffer.cpp),
\* whatever commands any number of clients give.
THEOREM BufferHasOneOwner == Spec => []OneOwner
<1>1. OwnersInv => OneOwner
  <2> SUFFICES ASSUME OwnersInv PROVE OneOwner
    OBVIOUS
  <2> DEFINE set == {h \in DOMAIN handle : handle[h]}
  <2>1. DOMAIN handle = Users \cup Tools /\ \A h \in Users : h \notin Tools
    BY UsersNoTools DEF OwnersInv, TypeInv
  <2>2. "PerfTrace" \in Users /\ "None" \notin Users
    BY DEF Users
  <2>3. user = "None" => set = {}
    BY <2>1, <2>2 DEF OwnersInv, OwnerInv
  <2>4. ASSUME user # "None"
        PROVE  \E h \in set : set = {h} /\ (h = user \/ (h \in Tools /\ user = "PerfTrace"))
    <3>1. PICK h \in Users \cup Tools : handle[h]
      BY <2>4 DEF OwnersInv, OwnerInv
    <3>2. \A g \in Users \cup Tools : handle[g] => g = h
      BY <3>1, <2>1, <2>2 DEF OwnersInv, OwnerInv
    <3>3. h \in set /\ set = {h}
      BY <3>1, <3>2, <2>1
    <3>4. h = user \/ (h \in Tools /\ user = "PerfTrace")
      BY <3>1 DEF OwnersInv, OwnerInv
    <3> QED BY <3>3, <3>4
  <2> QED BY <2>3, <2>4 DEF OneOwner
<1> QED BY <1>1, OwnersInvariant, PTL

-----------------------------------------------------------------------------
(* Every part in one place.                                                *)

LEMMA InitApart == Init => ApartInv
  BY DEF Init, ApartInv, Empty

\* findBuffer() takes the part in use, or the first free one out of its
\* mailbox.
LEMMA FindBufferCases ==
  ASSUME OwnersInv, FindBuffer # 0
  PROVE  \/ /\ current # 0 /\ FindBuffer = current /\ TakenFrom(FindBuffer) = free
         \/ /\ current = 0 /\ free # <<>> /\ Len(free) > 0 /\ FindBuffer = free[1]
            /\ TakenFrom(FindBuffer) = Tail(free)
<1>1. free \in Seq(Parts) /\ N \in Nat
  BY LoggerAssumption DEF OwnersInv, TypeInv
<1>2. CASE current # 0
  BY <1>2 DEF FindBuffer, TakenFrom
<1>3. CASE current = 0 /\ free # <<>>
  <2>1. FindBuffer = Head(free) /\ Head(free) \in Parts /\ Head(free) = free[1] /\ Len(free) > 0
    BY <1>1, <1>3 DEF FindBuffer
  <2>2. Head(free) # current
    BY <1>1, <1>3, <2>1 DEF Parts
  <2> QED BY <1>3, <2>1, <2>2 DEF TakenFrom
<1>4. CASE current = 0 /\ free = <<>>
  BY <1>4 DEF FindBuffer
<1> QED BY <1>2, <1>3, <1>4

\* The first recording begins with all parts free.
LEMMA EnableApart ==
  ASSUME OwnersInv, ApartInv, NEW c \in clients, EnableToothLogger(c)
  PROVE  ApartInv'
<1>0. /\ clients' = clients /\ held' = held /\ starts \in Nat /\ N \in Nat
      /\ held \in [clients -> 0 .. N]
  BY LoggerAssumption DEF EnableToothLogger, OwnersInv, TypeInv
<1>1. CASE user # "None"
  BY <1>0, <1>1 DEF EnableToothLogger, logger, ApartInv, Empty, Apart
<1>2. CASE user = "None" /\ starts # 0
  <2>1. starts' > 1
    BY <1>0, <1>2 DEF EnableToothLogger
  <2> QED BY <2>1 DEF ApartInv
<1>3. CASE user = "None" /\ starts = 0
  <2>1. free' = Refilled /\ filled' = <<>> /\ current' = 0 /\ starts' = 1
    BY <1>3 DEF EnableToothLogger
  <2>2. free = <<>> /\ \A d \in clients : held'[d] = 0
    BY <1>0, <1>3 DEF ApartInv, Empty
  <2>3. Len(free') = N /\ \A i \in 1 .. N : free'[i] = i
    BY <2>1, <2>2, RefilledType DEF OwnersInv, MailboxInv
  <2>4. Apart'
    BY <1>0, <2>1, <2>2, <2>3 DEF Apart
  <2> QED BY <2>1, <2>4 DEF ApartInv
<1> QED BY <1>1, <1>2, <1>3

\* A part moves from the filled mailbox to a client ...
LEMMA FetchApart ==
  ASSUME OwnersInv, ApartInv, NEW c \in clients, Fetch(c)
  PROVE  ApartInv'
<1>0. /\ UNCHANGED <<clients, starts, free, current>>
      /\ filled \in Seq(Parts) /\ held \in [clients -> 0 .. N]
      /\ held' = [held EXCEPT ![c] = Head(filled)] /\ filled' = Tail(filled) /\ filled # <<>>
  BY DEF Fetch, bounds, OwnersInv, TypeInv
<1>1. /\ Len(filled') = Len(filled) - 1 /\ Len(filled) > 0 /\ Len(filled) \in Nat
      /\ \A i \in 1 .. Len(filled') : filled'[i] = filled[i + 1] /\ i + 1 \in 2 .. Len(filled)
      /\ Head(filled) = filled[1]
  BY <1>0, HeadTailProperties
<1>2. /\ \A d \in clients : held'[d] = IF d = c THEN filled[1] ELSE held[d]
  BY <1>0, <1>1
<1>3. starts # 0
  BY <1>0 DEF ApartInv, Empty
<1>4. ASSUME Apart PROVE Apart'
  <2> USE <1>0, <1>1, <1>2, <1>4 DEF Apart
  <2>1. 1 \in 1 .. Len(filled) /\ \A i \in 1 .. Len(filled') : i + 1 \in 1 .. Len(filled) /\ i + 1 # 1
    OBVIOUS
  <2>2. \A i, j \in 1 .. Len(filled)' : filled'[i] = filled'[j] => i = j
    BY <2>1
  <2>3. /\ \A i \in 1 .. Len(free)', j \in 1 .. Len(filled)' : free'[i] # filled'[j]
        /\ \A i \in 1 .. Len(free)' : free'[i] # current' /\ \A d \in clients' : free'[i] # held'[d]
    BY <2>1
  <2>4. /\ \A i \in 1 .. Len(filled)' : filled'[i] # current'
                                        /\ \A d \in clients' : filled'[i] # held'[d]
    BY <2>1
  <2>5. /\ \A d \in clients' : held'[d] # 0 => held'[d] # current'
        /\ \A d, e \in clients' : held'[d] # 0 /\ held'[d] = held'[e] => d = e
    BY <2>1
  <2> QED BY <2>2, <2>3, <2>4, <2>5
<1> QED BY <1>0, <1>3, <1>4 DEF ApartInv

\* ... and from the client back to the free mailbox.
LEMMA ReturnApart ==
  ASSUME OwnersInv, ApartInv, NEW c \in clients, ReturnToothLoggerBuffer(c)
  PROVE  ApartInv'
<1>0. /\ UNCHANGED <<clients, starts, filled, current>>
      /\ free \in Seq(Parts) /\ held \in [clients -> 0 .. N] /\ filled \in Seq(Parts)
      /\ held' = [held EXCEPT ![c] = 0] /\ N \in Nat
      /\ free' = free \/ free' = Append(free, held[c])
  BY LoggerAssumption DEF ReturnToothLoggerBuffer, GivenBack, bounds, OwnersInv, TypeInv
<1>1. held[c] # 0 /\ held[c] \in Parts
  BY <1>0 DEF ReturnToothLoggerBuffer, OwnersInv, MailboxInv, SendingHolds, Parts
<1>2. \A d \in clients : held'[d] = IF d = c THEN 0 ELSE held[d]
  BY <1>0
<1>3. starts # 0
  BY <1>1 DEF ApartInv, Empty
<1>4. ASSUME Apart PROVE Apart'
  <2> USE <1>0, <1>1, <1>2, <1>4 DEF Apart
  <2>0. /\ \A i \in 1 .. Len(free) : free[i] # 0
        /\ \A i \in 1 .. Len(filled) : filled[i] # 0
    BY DEF Parts
  <2>1. CASE free' = free
    BY <2>0, <2>1
  <2>2. CASE free' = Append(free, held[c])
    <3>1. /\ Len(free') = Len(free) + 1 /\ Len(free) \in Nat
          /\ \A i \in 1 .. Len(free') : /\ i \in 1 .. Len(free) \/ i = Len(free) + 1
                                        /\ free'[i] = IF i = Len(free) + 1 THEN held[c] ELSE free[i]
      BY <2>2
    <3>2. \A i, j \in 1 .. Len(free)' : free'[i] = free'[j] => i = j
      <4> HIDE <1>0, <1>2 DEF Apart
      <4>1. \A i \in 1 .. Len(free) : free[i] # held[c]
        BY DEF Apart
      <4>2. \A i, j \in 1 .. Len(free) : free[i] = free[j] => i = j
        BY DEF Apart
      <4> HIDE <1>4, <1>1
      <4> SUFFICES ASSUME NEW i \in 1 .. Len(free'), NEW j \in 1 .. Len(free'), free'[i] = free'[j]
                   PROVE  i = j
        OBVIOUS
      <4>3. CASE i = Len(free) + 1
        BY <4>3, <4>1, <3>1
      <4>4. CASE i \in 1 .. Len(free)
        BY <4>4, <4>1, <4>2, <3>1
      <4> QED BY <4>3, <4>4, <3>1
    <3>3. /\ \A i \in 1 .. Len(free)', j \in 1 .. Len(filled)' : free'[i] # filled'[j]
          /\ \A i \in 1 .. Len(free)' : free'[i] # current'
      <4>1. /\ \A j \in 1 .. Len(filled) : filled[j] # held[c]
            /\ \A i \in 1 .. Len(free), j \in 1 .. Len(filled) : free[i] # filled[j]
            /\ held[c] # current /\ \A i \in 1 .. Len(free) : free[i] # current
            /\ filled' = filled /\ current' = current
        OBVIOUS
      <4> HIDE <1>0, <1>1, <1>2, <1>4 DEF Apart
      <4> QED BY <3>1, <4>1
    <3>4. \A i \in 1 .. Len(free)' : \A d \in clients' : free'[i] # held'[d]
      BY <3>1, <2>0
    <3>5. \A i \in 1 .. Len(filled)' : filled'[i] # current'
                                       /\ \A d \in clients' : filled'[i] # held'[d]
      BY <2>0
    <3>6. /\ \A i, j \in 1 .. Len(filled)' : filled'[i] = filled'[j] => i = j
          /\ \A d \in clients' : held'[d] # 0 => held'[d] # current'
          /\ \A d, e \in clients' : held'[d] # 0 /\ held'[d] = held'[e] => d = e
      OBVIOUS
    <3> QED BY <3>2, <3>3, <3>4, <3>5, <3>6
  <2> QED BY <2>1, <2>2
<1> QED BY <1>0, <1>3, <1>4 DEF ApartInv

\* The interrupt takes a part into use, and hands it over when it is full.
LEMMA LogApart ==
  ASSUME OwnersInv, ApartInv, LogEntry \/ FillPart
  PROVE  ApartInv'
<1>0. /\ UNCHANGED <<clients, starts, held>>
      /\ free \in Seq(Parts) /\ held \in [clients -> 0 .. N] /\ filled \in Seq(Parts)
      /\ N \in Nat /\ current \in 0 .. N
      /\ free' = TakenFrom(FindBuffer) /\ FindBuffer # 0
  BY LoggerAssumption DEF LogEntry, FillPart, bounds, OwnersInv, TypeInv
<1>1. \/ /\ current' = FindBuffer /\ filled' = filled
      \/ /\ current' = 0 /\ (filled' = filled \/ filled' = Append(filled, FindBuffer))
  BY DEF LogEntry, FillPart
<1>2. starts # 0
  <2> SUFFICES ASSUME starts = 0 PROVE FALSE
    OBVIOUS
  <2> QED BY <1>0 DEF ApartInv, Empty, FindBuffer
<1>3. ASSUME Apart
      PROVE  /\ \A i, j \in 1 .. Len(free') : free'[i] = free'[j] => i = j
             /\ \A i \in 1 .. Len(free'), j \in 1 .. Len(filled) : free'[i] # filled[j]
             /\ \A i \in 1 .. Len(free') : free'[i] # FindBuffer
                                          /\ \A d \in clients : free'[i] # held[d]
             /\ \A i \in 1 .. Len(filled) : filled[i] # FindBuffer
             /\ \A d \in clients : held[d] # FindBuffer
  <2> USE <1>3 DEF Apart
  <2>1. CASE current # 0 /\ FindBuffer = current /\ free' = free
    BY <2>1
  <2>2. CASE free # <<>> /\ Len(free) > 0 /\ FindBuffer = free[1] /\ free' = Tail(free)
    <3>1. /\ Len(free') = Len(free) - 1 /\ Len(free) \in Nat /\ 1 \in 1 .. Len(free)
          /\ \A i \in 1 .. Len(free') : /\ free'[i] = free[i + 1]
                                        /\ i + 1 \in 1 .. Len(free) /\ i + 1 # 1
      BY <2>2, <1>0, HeadTailProperties
    <3> HIDE <1>3
    <3>2. \A i, j \in 1 .. Len(free') : free'[i] = free'[j] => i = j
      BY <3>1, <1>3
    <3>3. \A i \in 1 .. Len(free'), j \in 1 .. Len(filled) : free'[i] # filled[j]
      BY <3>1, <1>3
    <3>4. \A i \in 1 .. Len(free') : free'[i] # FindBuffer /\ \A d \in clients : free'[i] # held[d]
      BY <3>1, <2>2, <1>3
    <3>5. /\ \A i \in 1 .. Len(filled) : filled[i] # FindBuffer
          /\ \A d \in clients : held[d] # FindBuffer
      BY <3>1, <2>2, <1>3
    <3> QED BY <3>2, <3>3, <3>4, <3>5
  <2> QED BY <2>1, <2>2, <1>0, FindBufferCases
<1>4. ASSUME Apart PROVE Apart'
  <2>0. FindBuffer \in Parts /\ \A i \in 1 .. Len(filled) : filled[i] # 0
    <3>1. FindBuffer \in Parts
      BY <1>0, FindBufferCases DEF Parts
    <3> QED BY <3>1, <1>0 DEF Parts
  <2>1. \A i \in 1 .. Len(free') : free'[i] # 0
    <3>1. CASE free' = free
      BY <1>0, <3>1 DEF Parts
    <3>2. CASE free # <<>> /\ free' = Tail(free)
      <4>1. free' \in Seq(Parts)
        BY <1>0, <3>2, HeadTailProperties
      <4> QED BY <1>0, <4>1 DEF Parts
    <3> QED BY <1>0, <3>1, <3>2, FindBufferCases
  <2>2. CASE current' = FindBuffer /\ filled' = filled
    BY <2>2, <1>0, <1>3, <1>4 DEF Apart
  <2>3. CASE current' = 0 /\ filled' = filled
    BY <2>0, <2>1, <2>3, <1>0, <1>3, <1>4 DEF Apart
  <2>4. CASE current' = 0 /\ filled' = Append(filled, FindBuffer)
    <3>1. /\ Len(filled') = Len(filled) + 1 /\ Len(filled) \in Nat
          /\ \A i \in 1 .. Len(filled') :
               /\ i \in 1 .. Len(filled) \/ i = Len(filled) + 1
               /\ filled'[i] = IF i = Len(filled) + 1 THEN FindBuffer ELSE filled[i]
      BY <2>0, <2>4, <1>0
    <3>2. \A i, j \in 1 .. Len(filled)' : filled'[i] = filled'[j] => i = j
      BY <3>1, <1>3, <1>4 DEF Apart
    <3>3. \A i \in 1 .. Len(free)', j \in 1 .. Len(filled)' : free'[i] # filled'[j]
      BY <3>1, <1>3, <1>4
    <3>4. \A i \in 1 .. Len(free)' : free'[i] # current' /\ \A d \in clients' : free'[i] # held'[d]
      BY <2>1, <2>4, <1>0, <1>3, <1>4
    <3>5. \A i \in 1 .. Len(filled)' : filled'[i] # current'
                                       /\ \A d \in clients' : filled'[i] # held'[d]
      BY <3>1, <2>0, <2>4, <1>0, <1>3, <1>4 DEF Apart, Parts
    <3>6. /\ \A i, j \in 1 .. Len(free)' : free'[i] = free'[j] => i = j
          /\ \A d \in clients' : held'[d] # 0 => held'[d] # current'
          /\ \A d, e \in clients' : held'[d] # 0 /\ held'[d] = held'[e] => d = e
      BY <2>4, <1>0, <1>3, <1>4 DEF Apart
    <3> QED BY <3>2, <3>3, <3>4, <3>5, <3>6 DEF Apart
  <2> QED BY <2>2, <2>3, <2>4, <1>1
<1> QED BY <1>0, <1>2, <1>4 DEF ApartInv

LEMMA StepApart == OwnersInv /\ ApartInv /\ [Next]_vars => ApartInv'
<1> SUFFICES ASSUME OwnersInv, ApartInv, [Next]_vars PROVE ApartInv'
  OBVIOUS
<1>1. ASSUME UNCHANGED <<clients, starts, free, filled, current, held>> PROVE ApartInv'
  BY <1>1 DEF ApartInv, Empty, Apart
<1>2. CASE UNCHANGED vars
  BY <1>1, <1>2 DEF vars, logger, bounds
<1>3. CASE TriggerScopeDisable
  BY <1>1, <1>3 DEF TriggerScopeDisable, logger, bounds
<1>4. ASSUME NEW c \in clients, Command(c) \/ Continue(c) PROVE ApartInv'
  <2>1. CASE EnableToothLogger(c) \/ Fetch(c) \/ ReturnToothLoggerBuffer(c)
    BY <2>1, EnableApart, FetchApart, ReturnApart
  <2>2. CASE \/ DisableToothLogger(c) \/ FetchTimesOut(c) \/ TriggerScopeEnable(c)
             \/ PerfTraceEnable(c) \/ PerfTraceGet(c) \/ ClearReady(c) \/ PerfTraceSent(c)
    <3>1. UNCHANGED <<clients, starts, free, filled, current, held>>
      BY <2>2 DEF DisableToothLogger, FetchTimesOut, TriggerScopeEnable, PerfTraceEnable,
         PerfTraceGet, ClearReady, PerfTraceSent, logger, bounds
    <3> QED BY <3>1, <1>1
  <2> QED BY <1>4, <2>1, <2>2 DEF Command, Continue
<1> QED BY <1>2, <1>3, <1>4, LogApart DEF Next

\* In the first recording every part of the buffer is in one place, for any
\* number of clients: the interrupt never writes a part that is being sent
\* or waits to be (tooth_logger.cpp).
THEOREM PartsAreApart == Spec => []PartsApart
<1>1. OwnersInv /\ ApartInv => PartsApart
  <2> SUFFICES ASSUME OwnersInv, ApartInv, starts <= 1 PROVE
        LET placed == free \o filled IN
        /\ \A i, j \in 1 .. Len(placed) : placed[i] = placed[j] => i = j
        /\ \A i \in 1 .. Len(placed) :
             placed[i] # current /\ \A c \in clients : placed[i] # held[c]
        /\ \A c \in clients : held[c] # 0 => held[c] # current
    BY DEF PartsApart
  <2>0. free \in Seq(Parts) /\ filled \in Seq(Parts) /\ starts \in {0, 1}
    BY DEF OwnersInv, TypeInv
  <2>1. Apart
    <3>1. Empty => Apart
      BY DEF Empty, Apart
    <3> QED BY <2>0, <3>1 DEF ApartInv
  <2> DEFINE placed == free \o filled
  <2>2. /\ Len(placed) = Len(free) + Len(filled) /\ Len(free) \in Nat /\ Len(filled) \in Nat
        /\ \A i \in 1 .. Len(placed) :
             \/ i \in 1 .. Len(free) /\ placed[i] = free[i]
             \/ i - Len(free) \in 1 .. Len(filled) /\ placed[i] = filled[i - Len(free)]
    BY <2>0
  <2> HIDE DEF placed
  <2>3. \A i, j \in 1 .. Len(placed) : placed[i] = placed[j] => i = j
    <3> SUFFICES ASSUME NEW i \in 1 .. Len(placed), NEW j \in 1 .. Len(placed), placed[i] = placed[j]
                 PROVE  i = j
      OBVIOUS
    <3>1. CASE i \in 1 .. Len(free) /\ placed[i] = free[i]
      <4>1. CASE j \in 1 .. Len(free) /\ placed[j] = free[j]
        BY <3>1, <4>1, <2>1 DEF Apart
      <4>2. CASE j - Len(free) \in 1 .. Len(filled) /\ placed[j] = filled[j - Len(free)]
        BY <3>1, <4>2, <2>1 DEF Apart
      <4> QED BY <4>1, <4>2, <2>2
    <3>2. CASE i - Len(free) \in 1 .. Len(filled) /\ placed[i] = filled[i - Len(free)]
      <4>1. CASE j \in 1 .. Len(free) /\ placed[j] = free[j]
        BY <3>2, <4>1, <2>1, <2>2 DEF Apart
      <4>2. CASE j - Len(free) \in 1 .. Len(filled) /\ placed[j] = filled[j - Len(free)]
        <5>1. i - Len(free) = j - Len(free)
          BY <3>2, <4>2, <2>1 DEF Apart
        <5> QED BY <5>1, <2>2
      <4> QED BY <4>1, <4>2, <2>2
    <3> QED BY <3>1, <3>2, <2>2
  <2>4. \A i \in 1 .. Len(placed) :
          placed[i] # current /\ \A c \in clients : placed[i] # held[c]
    BY <2>1, <2>2 DEF Apart
  <2> QED BY <2>1, <2>3, <2>4 DEF placed, Apart
<1> QED BY <1>1, InitApart, StepApart, OwnersInvariant, PTL DEF Spec

-----------------------------------------------------------------------------
(* As many parts on their way as there are, for a device with one client.  *)

LEMMA InitConserved == Init => ConservedInv
<1> SUFFICES ASSUME Init PROVE ~failed /\ \A c \in clients : Conserved(c)
  BY DEF ConservedInv
<1>0. ~failed
  BY DEF Init
<1> SUFFICES ASSUME NEW c \in clients PROVE Conserved(c)
  BY <1>0
<1>1. /\ Len(free) = 0 /\ Len(filled) = 0 /\ held[c] = 0 /\ current = 0 /\ enabled = FALSE
      /\ N \in Nat
  BY LoggerAssumption DEF Init
<1> QED BY <1>1 DEF Conserved, One

\* Every step but those of findBuffer() and of the client's part leaves the
\* sum alone.
LEMMA ClientConserved ==
  ASSUME OwnersInv, ConservedInv, NEW c, clients = {c}, Command(c) \/ Continue(c)
  PROVE  ConservedInv'
<1>0. /\ free \in Seq(Parts) /\ filled \in Seq(Parts) /\ held \in [{c} -> 0 .. N]
      /\ Len(free) \in Nat /\ Len(filled) \in Nat /\ N \in Nat /\ current \in 0 .. N
      /\ Conserved(c) /\ ~failed
      /\ held[c] # 0 <=> pc[c] = "sending"
  BY LoggerAssumption
     DEF OwnersInv, TypeInv, ConservedInv, MailboxInv, SendingHolds
<1>1. clients' = {c}
  BY DEF Command, Continue, EnableToothLogger, DisableToothLogger, Fetch,
     FetchTimesOut, TriggerScopeEnable, PerfTraceEnable, PerfTraceGet, ClearReady,
     ReturnToothLoggerBuffer, PerfTraceSent, bounds
<1> SUFFICES ~failed' /\ Conserved(c)'
  BY <1>1 DEF ConservedInv
<1>2. CASE EnableToothLogger(c) /\ user = "None"
  <2>1. /\ free' = Refilled /\ filled' = <<>> /\ current' = 0 /\ held' = held /\ failed' = failed
        /\ pc[c] # "sending"
    BY <1>2 DEF EnableToothLogger
  <2>2. Len(free') = N /\ Len(filled') = 0 /\ held'[c] = 0
    BY <2>1, <1>0, RefilledType DEF OwnersInv, MailboxInv
  <2> QED BY <2>1, <2>2, <1>0 DEF Conserved, One
<1>3. CASE Fetch(c)
  <2>1. /\ UNCHANGED <<free, current, enabled, failed>> /\ pc[c] # "sending"
        /\ filled' = Tail(filled) /\ filled # <<>> /\ held' = [held EXCEPT ![c] = Head(filled)]
    BY <1>3 DEF Fetch
  <2>2. Len(filled') = Len(filled) - 1 /\ Head(filled) \in Parts
    BY <1>0, <2>1, HeadTailProperties
  <2>3. held[c] = 0 /\ held'[c] # 0
    BY <1>0, <2>1, <2>2 DEF Parts
  <2> QED BY <1>0, <2>1, <2>2, <2>3 DEF Conserved, One
<1>4. CASE ReturnToothLoggerBuffer(c)
  <2>1. held[c] # 0 /\ held[c] \in Parts /\ UNCHANGED <<enabled, filled, current>>
        /\ held' = [held EXCEPT ![c] = 0]
    BY <1>0, <1>4 DEF ReturnToothLoggerBuffer, Parts
  <2>2. Len(free) < N
    BY <1>0, <2>1 DEF Conserved, One
  <2>3. free' = Append(free, held[c]) /\ failed' = failed
    BY <1>4, <2>2 DEF ReturnToothLoggerBuffer, GivenBack
  <2>4. Len(free') = Len(free) + 1 /\ held'[c] = 0
    BY <1>0, <2>1, <2>3
  <2> QED BY <1>0, <2>1, <2>3, <2>4 DEF Conserved, One
<1>5. CASE DisableToothLogger(c)
  BY <1>0, <1>5 DEF DisableToothLogger, Conserved
<1>6. CASE \/ EnableToothLogger(c) /\ user # "None"
           \/ FetchTimesOut(c) \/ TriggerScopeEnable(c)
           \/ PerfTraceEnable(c) \/ PerfTraceGet(c) \/ ClearReady(c) \/ PerfTraceSent(c)
  <2>1. UNCHANGED <<enabled, free, filled, current, held, failed>>
    BY <1>6 DEF EnableToothLogger, FetchTimesOut, TriggerScopeEnable, PerfTraceEnable,
       PerfTraceGet, ClearReady, PerfTraceSent, logger
  <2> QED BY <1>0, <2>1 DEF Conserved
<1> QED BY <1>2, <1>3, <1>4, <1>5, <1>6 DEF Command, Continue

LEMMA InterruptConserved ==
  ASSUME OwnersInv, ConservedInv, LogEntry \/ FillPart
  PROVE  ConservedInv'
<1>0. /\ free \in Seq(Parts) /\ filled \in Seq(Parts)
      /\ Len(free) \in Nat /\ Len(filled) \in Nat /\ N \in Nat /\ current \in 0 .. N
      /\ enabled /\ ~failed
  BY LoggerAssumption DEF OwnersInv, TypeInv, ConservedInv, LogEntry, FillPart
<1>1. /\ UNCHANGED <<enabled, failed, clients, held>>
      /\ free' = TakenFrom(FindBuffer) /\ FindBuffer # 0
  BY DEF LogEntry, FillPart, bounds
<1> SUFFICES ASSUME NEW c \in clients PROVE Conserved(c)'
  BY <1>0, <1>1 DEF ConservedInv
<1>2. Conserved(c)
  BY DEF ConservedInv
<1>3. /\ Len(free') + 1 = Len(free) + One(current # 0)
      /\ Len(free) + One(current # 0) > 0 /\ Len(free') \in Nat /\ FindBuffer \in Parts
  <2>1. CASE current # 0 /\ FindBuffer = current /\ free' = free
    BY <2>1, <1>0 DEF One, Parts
  <2>2. CASE current = 0 /\ free # <<>> /\ FindBuffer = free[1] /\ free' = Tail(free)
    <3>1. Len(Tail(free)) = Len(free) - 1 /\ Len(free) > 0 /\ free[1] \in Parts
      BY <2>2, <1>0, HeadTailProperties
    <3> QED BY <2>2, <3>1, <1>0 DEF One
  <2> QED BY <2>1, <2>2, <1>1, FindBufferCases
<1>4. CASE LogEntry
  BY <1>0, <1>1, <1>2, <1>3, <1>4 DEF LogEntry, Conserved, One
<1>5. CASE FillPart
  <2>1. Len(filled) < N
    BY <1>0, <1>2, <1>3 DEF Conserved, One
  <2>2. filled' = Append(filled, FindBuffer) /\ current' = 0
    BY <1>5, <2>1 DEF FillPart
  <2>3. Len(filled') = Len(filled) + 1
    BY <2>2, <1>0, <1>3
  <2> QED BY <1>0, <1>1, <1>2, <1>3, <2>2, <2>3 DEF Conserved, One
<1> QED BY <1>4, <1>5

LEMMA StepConserved ==
  SingleClient /\ OwnersInv /\ ConservedInv /\ [Next]_vars => ConservedInv'
<1> SUFFICES ASSUME SingleClient, OwnersInv, ConservedInv, [Next]_vars PROVE ConservedInv'
  OBVIOUS
<1>1. PICK c : clients = {c}
  BY DEF SingleClient, OwnersInv, TypeInv
<1>2. CASE UNCHANGED vars \/ TriggerScopeDisable
  BY <1>2 DEF vars, TriggerScopeDisable, logger, bounds, ConservedInv, Conserved
<1>3. CASE \E d \in clients : Command(d) \/ Continue(d)
  BY <1>1, <1>3, ClientConserved
<1> QED BY <1>2, <1>3, InterruptConserved DEF Next

\* With one client the assertion in ReturnToothLoggerBuffer() holds and no
\* filled part is dropped, however often recording is switched off and on.
THEOREM PartsAreConserved ==
  ASSUME SingleClient
  PROVE  Spec => []PartsConserved
<1>1. OwnersInv /\ ConservedInv => PartsConserved
  <2> SUFFICES ASSUME OwnersInv, ConservedInv PROVE PartsConserved
    OBVIOUS
  <2>1. PICK c : clients = {c}
    BY DEF SingleClient, OwnersInv, TypeInv
  <2>2. Cardinality({d \in clients : held[d] # 0}) = One(held[c] # 0)
    <3>1. CASE held[c] # 0
      <4>1. {d \in clients : held[d] # 0} = {c}
        BY <2>1, <3>1
      <4> QED BY <4>1, <3>1, FS_Singleton DEF One
    <3>2. CASE held[c] = 0
      <4>1. {d \in clients : held[d] # 0} = {}
        BY <2>1, <3>2
      <4> QED BY <4>1, <3>2, FS_EmptySet DEF One
    <3> QED BY <3>1, <3>2
  <2>3. InUse = One(held[c] # 0) + One(current # 0)
    BY <2>2 DEF InUse, One
  <2>4. Len(free) \in Nat /\ Len(filled) \in Nat /\ Conserved(c) /\ ~failed
    BY <2>1 DEF OwnersInv, TypeInv, ConservedInv
  <2> QED BY <2>3, <2>4 DEF PartsConserved, Conserved, One
<1>2. OwnersInv /\ ConservedInv /\ [Next]_vars => ConservedInv'
  BY StepConserved
<1> QED BY <1>1, <1>2, InitConserved, OwnersInvariant, PTL DEF Spec
=============================================================================
