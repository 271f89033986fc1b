---------------------------- MODULE RecoveryProofs ----------------------------
(***************************************************************************)
(* What survives crashes, signals, losses of power, and cards that come    *)
(* and go: one shared memory for all processes, the messages that were     *)
(* logged, the values of one calibration, and reports of cards that were   *)
(* there; for any number of processes, threads, failures and calibrations, *)
(* and any set of cards.                                                   *)
(***************************************************************************)
EXTENDS Lifecycle, Logger, Rfid, BatteryBuzzer, SequenceTheorems, TLAPS

-----------------------------------------------------------------------------
(* Lifecycle: the units that start and stop Runtime. *)

Names == [block : Nat, sem : Nat]
Off == {"waiting", "inactive"}

LifecycleTypeOK ==
  /\ unit \in [Units -> Off \cup {"active", "stopping", "leaving"}]
  /\ runtime \in {"shm_start", "create", "up", "stop", "unlink", "unlink_sems"}
  /\ alive \subseteq Processes
  /\ name \in Names /\ created \in Nat
  /\ opened \in [Processes -> Names]

\* What a unit's state says of its processes: the child of executor does not
\* outlive the unit, nor the exit of executor.
UnitsInv ==
  /\ \A s \in Services : /\ unit[s] = "active" => s \in alive
                         /\ unit[s] \in Off => s \notin alive
  /\ unit["executor"] \in Off \cup {"leaving"} => Child \notin alive

\* While the names change, nothing runs; before shm_stop begins, everything that
\* runs has what they refer to.
NamesInv ==
  /\ runtime \in {"up", "stop"} => name.block # 0 /\ name.sem # 0 /\ \A p \in alive : opened[p] = name
  /\ runtime \notin {"up", "stop"} => \A s \in Services : unit[s] \in Off
  /\ runtime = "create" => name.sem # 0 /\ created # 0

\* The inductive invariant.
LifecycleInv == LifecycleTypeOK /\ UnitsInv /\ NamesInv

\* Nothing runs before shm_start.
LEMMA LifecycleStart == VInit => LifecycleInv
  BY DEF VInit, LifecycleInv, LifecycleTypeOK, UnitsInv, NamesInv, Names, Off, Nothing, Units,
         Services, Processes, Child

\* shm_start and shm_stop rename with nothing running.
LEMMA ShmKeepsInv ==
  ASSUME LifecycleInv, Shm \/ ShmStopFails
  PROVE  LifecycleInv'
<1> USE DEF LifecycleInv, LifecycleTypeOK, UnitsInv, NamesInv
<1>1. CASE CreateSems
  <2>1. name' = [name EXCEPT !.sem = IF name.sem = 0 THEN created + 1 ELSE name.sem]
    BY <1>1, Zenon DEF CreateSems
  <2>2. name' \in Names /\ name'.sem # 0
    BY <2>1 DEF Names
  <2> QED
    BY <1>1, <2>2 DEF CreateSems
<1>2. CASE CreateBlocks
  <2>1. name' = [name EXCEPT !.block = IF name.block = 0 THEN created ELSE name.block]
    BY <1>2, Zenon DEF CreateBlocks
  <2>2. name' \in Names /\ name'.block # 0 /\ name'.sem # 0
    BY <1>2, <2>1, Zenon DEF CreateBlocks, Names
  <2>3. alive = {}
    BY <1>2, Zenon DEF CreateBlocks, Off, Processes, Services, Child
  <2> QED
    BY <1>2, <2>2, <2>3, Zenon DEF CreateBlocks
<1>3. CASE StopInit
  BY <1>3, Zenon DEF StopInit, Restarted, Off, Units, Services
<1>4. CASE UnlinkBlocks
  BY <1>4, Zenon DEF UnlinkBlocks, Names
<1>5. CASE UnlinkSems
  BY <1>5, Zenon DEF UnlinkSems, Names, Restarted, Off, Units, Services
<1>6. CASE ShmStopFails
  BY <1>6, Zenon DEF ShmStopFails, Restarted, Off, Units, Services
<1> QED
  BY <1>1, <1>2, <1>3, <1>4, <1>5, <1>6, Zenon DEF Shm

\* A service that starts opens what the names refer to, and the child has what
\* executor has.
LEMMA StartKeepsInv ==
  ASSUME LifecycleInv,
         Fork \/ StartConverter \/ \E s \in Services : Start(s)
  PROVE  LifecycleInv'
<1> USE DEF LifecycleInv, LifecycleTypeOK, UnitsInv, NamesInv
<1> Services \subseteq Units /\ Services \subseteq Processes /\ Child \in Processes
    /\ Child \notin Services /\ "executor" \in Services /\ "converter" \notin Services
    /\ "converter" \in Units
  BY Zenon DEF Services, Units, Processes, Child
<1>1. CASE Fork
  BY <1>1, Zenon DEF Fork, Off
<1>2. CASE StartConverter
  BY <1>2, Zenon DEF StartConverter
<1>3. ASSUME NEW s \in Services, Start(s) PROVE LifecycleInv'
  BY <1>3 DEF Start, Off
<1> QED
  BY <1>1, <1>2, <1>3, Zenon

\* Processes that end take nothing from those that go on, and the child is gone
\* with the last process of executor's unit.
LEMMA EndKeepsInv ==
  ASSUME LifecycleInv,
         \/ ChildEnds
         \/ \E u \in Units : Crash(u)
         \/ \E s \in Services : Exit(s) \/ Sigkill(s)
  PROVE  LifecycleInv'
<1> USE DEF LifecycleInv, LifecycleTypeOK, UnitsInv, NamesInv, Ends
<1> Services \subseteq Units /\ Services \subseteq Processes /\ Child \in Processes
    /\ Child \notin Services /\ "executor" \in Services /\ "converter" \notin Services
    /\ Units = Services \cup {"converter"} /\ Nothing \in Names
  BY Zenon DEF Services, Units, Processes, Child, Nothing, Names
<1>1. CASE ChildEnds
  BY <1>1, Zenon DEF ChildEnds
<1>2. ASSUME NEW u \in Units, Crash(u) PROVE LifecycleInv'
  BY <1>2, Zenon DEF Crash, Off
<1>3. ASSUME NEW s \in Services, Exit(s) PROVE LifecycleInv'
  BY <1>3, Zenon DEF Exit, Off
<1>4. ASSUME NEW s \in Services, Sigkill(s) PROVE LifecycleInv'
  BY <1>4, SMTT(30) DEF Sigkill, Group, Off
<1> QED
  BY <1>1, <1>2, <1>3, <1>4, Zenon

\* Signals and semaphores change neither names nor processes.
LEMMA SignalsKeepInv ==
  ASSUME LifecycleInv,
         \/ SigintConverter
         \/ \E u \in Units : Cancel(u)
         \/ \E s \in Services : Sigint(s) \/ Handled(s)
         \/ \E p \in Processes : SemWait(p) \/ SemPost(p)
         \/ UNCHANGED vvars
  PROVE  LifecycleInv'
<1> USE DEF LifecycleInv, LifecycleTypeOK, UnitsInv, NamesInv
<1> Services \subseteq Units /\ "executor" \in Services /\ "converter" \notin Services
    /\ "converter" \in Units
  BY Zenon DEF Services, Units
<1>1. CASE SigintConverter
  BY <1>1, Zenon DEF SigintConverter, Off
<1>2. ASSUME NEW u \in Units, Cancel(u) PROVE LifecycleInv'
  BY <1>2, Zenon DEF Cancel, Off
<1>3. ASSUME NEW s \in Services, Sigint(s) PROVE LifecycleInv'
  BY <1>3, Zenon DEF Sigint, Off
<1>4. ASSUME NEW s \in Services, Handled(s) PROVE LifecycleInv'
  BY <1>4, Zenon DEF Handled, Off
<1>5. ASSUME NEW p \in Processes, SemWait(p) \/ SemPost(p) PROVE LifecycleInv'
  BY <1>5, Zenon DEF SemWait, SemPost
<1>6. CASE UNCHANGED vvars
  BY <1>6, Zenon DEF vvars
<1> QED
  BY <1>1, <1>2, <1>3, <1>4, <1>5, <1>6, Zenon

\* The units order starts, stops and renamings so that the invariant always holds.
THEOREM LifecycleInvariant == VSpec => []LifecycleInv
<1>1. LifecycleInv /\ [VNext]_vvars => LifecycleInv'
  BY ShmKeepsInv, StartKeepsInv, EndKeepsInv, SignalsKeepInv, Zenon DEF VNext
<1> QED
  BY <1>1, LifecycleStart, PTL DEF VSpec

\* Processes that run while Runtime is up share one block and one semaphore, after
\* any number of crashes.
THEOREM MemoryIsShared == VSpec => []OneMemory
<1>1. LifecycleInv => OneMemory
  BY Zenon DEF LifecycleInv, NamesInv, OneMemory
<1> QED
  BY <1>1, LifecycleInvariant, PTL

-----------------------------------------------------------------------------
(* Logger: the FIFO all processes log to. *)

Places == {"idle", "lock", "fifo", "write", "wrap", "unlock", "exit", "gone"}

LoggerTypeOK ==
  /\ pc \in [Writers -> Places]
  /\ fifo_up \in [Loggers -> BOOLEAN]
  /\ reading \in BOOLEAN
  /\ call \in [Writers -> SUBSET {"closed", "broken", "full"}]

\* What an uneventful call relies on: between the two tests of fifo_up Dawn reads
\* and fifo_up is set.  A writen that fails, and a call that ends without its
\* message in the FIFO, are not uneventful.
Relies(t) ==
  call[t] = {} =>
    /\ pc[t] = "write" => reading /\ fifo_up[Process(t)]
    /\ pc[t] # "wrap"
    /\ pc[t] = "unlock" => t \in kept

\* The inductive invariant.
LoggerInv == LoggerTypeOK /\ \A t \in Writers : Relies(t)

\* Nobody logs at first.
LEMMA LoggerStart == OInit => LoggerInv
  BY Zenon DEF OInit, LoggerInv, LoggerTypeOK, Places, Relies

\* log_printf and what it calls, up to the end of the process, in one thread: the
\* calls of others are not disturbed, a writen that fails for want of a reader
\* least of all, since they know that there is none.
LEMMA LogKeepsInv ==
  ASSUME LoggerInv, NEW t \in Writers, log_printf(t) \/ LogStep(t)
  PROVE  LoggerInv'
<1> USE LoggerConstants DEF LoggerInv, LoggerTypeOK, Places, Relies
<1>1. CASE log_printf(t)
  BY <1>1, Zenon DEF log_printf, Goto
<1>2. CASE Lock(t)
  BY <1>2, Zenon DEF Lock, Goto
<1>3. CASE open_fifo(t)
  <2>1. fifo_up' \in [Loggers -> BOOLEAN]
    BY <1>3, Zenon DEF open_fifo
  <2>2. \A p \in Loggers : fifo_up[p] => fifo_up'[p]
    BY <1>3, Zenon DEF open_fifo
  <2>3. /\ pc' = [pc EXCEPT ![t] = "write"] /\ UNCHANGED <<reading, kept>>
        /\ call' = [call EXCEPT ![t] = IF reading THEN {} ELSE {"closed"}]
    BY <1>3, Zenon DEF open_fifo, Goto
  <2>4. reading => fifo_up'[Process(t)]
    BY <1>3, Zenon DEF open_fifo
  <2>5. pc' \in [Writers -> Places] /\ call' \in [Writers -> SUBSET {"closed", "broken", "full"}]
    BY <2>3, Zenon
  <2>6. Relies(t)'
    BY <2>3, <2>4, Zenon
  <2>7. ASSUME NEW u \in Writers \ {t} PROVE Relies(u)'
    BY <2>2, <2>3, Zenon
  <2> HIDE DEF Relies, Places
  <2> QED
    BY <2>1, <2>3, <2>5, <2>6, <2>7, Zenon
<1>4. CASE Write(t)
  <2>1. fifo_up' \in [Loggers -> BOOLEAN]
    BY <1>4, Zenon DEF Write
  <2>2. reading => fifo_up' = fifo_up
    BY <1>4, Zenon DEF Write
  <2>3. /\ pc[t] = "write" /\ UNCHANGED reading
        /\ \A u \in Writers \ {t} : pc'[u] = pc[u] /\ call'[u] = call[u]
        /\ pc' \in [Writers -> Places] /\ kept \subseteq kept'
    BY <1>4, Zenon DEF Write, Goto
  <2>4. call' \in [Writers -> SUBSET {"closed", "broken", "full"}]
    BY <1>4, Zenon DEF Write
  <2>5. call'[t] = {} => pc'[t] = "unlock" /\ t \in kept'
    BY <1>4, Zenon DEF Write, Goto
  <2> QED
    BY <2>1, <2>2, <2>3, <2>4, <2>5
<1>5. CASE Wrap(t)
  BY <1>5, Zenon DEF Wrap, Goto
<1>6. CASE Unlock(t)
  BY <1>6, Zenon DEF Unlock, Goto
<1>7. CASE logger_exit(t)
  BY <1>7, Zenon DEF logger_exit
<1> QED
  BY <1>1, <1>2, <1>3, <1>4, <1>5, <1>6, <1>7, Zenon DEF LogStep

\* A handler of SIGINT starts a call of its own, a handler of SIGPIPE clears
\* fifo_up under the calls of its process, and the connection of Dawn comes and
\* goes: the calls it matters to are noted.
LEMMA OthersKeepLogs ==
  ASSUME LoggerInv,
         \/ \E t \in Writers : Interrupt(t)
         \/ \E p \in Loggers : sigpipe_handler(p)
         \/ start_tcp_conn \/ tcp_conn_cleanup \/ send_log_msg \/ UNCHANGED ovars
  PROVE  LoggerInv'
<1> USE LoggerConstants DEF LoggerInv, LoggerTypeOK, Places, Relies
<1>1. ASSUME NEW t \in Writers, Interrupt(t) PROVE LoggerInv'
  BY <1>1, Zenon DEF Interrupt
<1>2. ASSUME NEW p \in Loggers, sigpipe_handler(p) PROVE LoggerInv'
  BY <1>2, Zenon DEF sigpipe_handler, Noted
<1>3. CASE start_tcp_conn
  BY <1>3, Zenon DEF start_tcp_conn
<1>4. CASE tcp_conn_cleanup
  BY <1>4, Zenon DEF tcp_conn_cleanup, Noted
<1>5. CASE send_log_msg \/ UNCHANGED ovars
  BY <1>5, Zenon DEF send_log_msg, ovars
<1> QED
  BY <1>1, <1>2, <1>3, <1>4, <1>5, Zenon

\* Every reachable state has the invariant.
LEMMA LoggerInvariant == OSpec => []LoggerInv
<1>1. LoggerInv /\ [ONext]_ovars => LoggerInv'
  BY LogKeepsInv, OthersKeepLogs, Zenon DEF ONext
<1> QED
  BY <1>1, LoggerStart, PTL DEF OSpec

\* For any number of processes and threads, and whenever signals come: a message
\* that may go to the network is in the FIFO when log_printf unlocks the mutex,
\* unless the read end was closed at the first test of fifo_up or since, the FIFO
\* was full, or the SIGPIPE of a socket cleared fifo_up between the two tests.
THEOREM MessagesAreKept == OSpec => []LogsAreKept
<1>1. LoggerInv => LogsAreKept
  BY Zenon DEF LoggerInv, Relies, LogsAreKept
<1> QED
  BY <1>1, LoggerInvariant, PTL

-----------------------------------------------------------------------------
(* Rfid: the card that is reported. *)

Bits == Seq({0, 1})

\* What the reader has of a card's UID when it gets to a cascade level.
Before(c, l) ==
  IF l = 1 THEN <<>>
  ELSE IF l = 2 THEN Payload(c[1]) ELSE Payload(c[1]) \o Payload(c[2])

Reported(cards) == \E c \in cards : Id(Uid(c)) = id

RfidTypeOK ==
  /\ field \subseteq Cards /\ field \subseteq seen
  /\ picc \in [Cards -> Int]
  /\ at \in {"loop", "select"} /\ level \in 1 .. 3
  /\ tag_detect \in BOOLEAN /\ delay \in BOOLEAN

\* Every card that still takes part in the anticollision has this level, and the
\* bytes read so far are its own: a card that came later, or whose earlier bytes
\* were others, is idle.
SelectInv ==
  IF at = "loop" THEN level = 1 /\ uid = <<>>
  ELSE \A c \in Cards :
         /\ picc[c] \in {IDLE, level}
         /\ picc[c] = level => level <= Len(c) /\ uid = Before(c, level)

\* What is reported was read in the last loop, or, if that one read nothing or the
\* next has begun, in the loop before.  In the second loop that reads nothing the
\* report goes.
ReportInv ==
  tag_detect =>
    /\ at = "loop" /\ ~delay => Reported(seen)
    /\ at = "loop" /\ delay => Reported(before)
    /\ at = "select" /\ ~delay => Reported(before)

\* The inductive invariant.
RfidInv == RfidTypeOK /\ SelectInv /\ ReportInv

\* What cards send is bits.
LEMMA PayloadIsBits ==
  ASSUME NEW c \in Cards, NEW l \in 1 .. Len(c)
  PROVE  Payload(c[l]) \in Bits
<1>1. c[l] \in [1 .. LevelBits -> {0, 1}] /\ LevelBits \in Nat /\ BITS \in Nat
  BY RfidConstants DEF LevelBits
<1>2. c[l] \in Bits
  BY <1>1 DEF Bits
<1>3. \A i \in BITS + 1 .. LevelBits : c[l][i] \in {0, 1}
  BY <1>1
<1>4. SubSeq(c[l], BITS + 1, LevelBits) \in Bits
  BY <1>1, <1>3, SubSeqProperties DEF Bits
<1> QED
  BY <1>2, <1>4, Zenon DEF Payload

\* Level by level the payloads make the UID.
LEMMA UidByLevels ==
  ASSUME NEW c \in Cards, NEW l \in 1 .. 3, l <= Len(c)
  PROVE  /\ l < Len(c) => l + 1 \in 1 .. 3 /\ Before(c, l) \o Payload(c[l]) = Before(c, l + 1)
         /\ l = Len(c) => Before(c, l) \o Payload(c[l]) = Uid(c)
<1>1. Len(c) \in 1 .. 3
  BY RfidConstants, Zenon
<1>2. \A k \in 1 .. Len(c) : Payload(c[k]) \in Bits
  BY PayloadIsBits, Zenon
<1>3. /\ Before(c, 1) = <<>> /\ Before(c, 2) = Payload(c[1])
      /\ Before(c, 3) = Payload(c[1]) \o Payload(c[2])
  BY DEF Before
<1>4. /\ Part(c, 1) = Payload(c[1])
      /\ Part(c, 2) = IF Len(c) = 1 THEN <<>> ELSE Payload(c[2])
      /\ Part(c, 3) = IF Len(c) = 3 THEN Payload(c[3]) ELSE <<>>
  BY <1>1 DEF Part
<1>5. \A s \in Bits : s \o <<>> = s /\ <<>> \o s = s
  BY ConcatEmptySeq, Zenon DEF Bits
<1>6. \A s, t \in Bits : s \o t \in Bits
  BY ConcatProperties, Zenon DEF Bits
<1>7. CASE l = 1
  <2>1. Payload(c[1]) \in Bits
    BY <1>1, <1>2
  <2>2. Before(c, l) \o Payload(c[l]) = Payload(c[1])
    BY <1>3, <1>5, <1>7, <2>1, Zenon
  <2>3. ASSUME l = Len(c) PROVE Uid(c) = Payload(c[1])
    <3>1. Part(c, 2) = <<>> /\ Part(c, 3) = <<>>
      BY <1>4, <1>7, <2>3
    <3>2. Uid(c) = (Payload(c[1]) \o <<>>) \o <<>>
      BY <1>4, <3>1, Zenon DEF Uid
    <3> QED
      BY <1>5, <2>1, <3>2, Zenon
  <2>4. l + 1 = 2 /\ l + 1 \in 1 .. 3
    BY <1>7
  <2> QED
    BY <1>3, <2>2, <2>3, <2>4, Zenon
<1>8. CASE l = 2
  <2>1. Payload(c[1]) \o Payload(c[2]) \in Bits
    BY <1>1, <1>2, <1>6, <1>8
  <2>2. Before(c, l) \o Payload(c[l]) = Payload(c[1]) \o Payload(c[2])
    BY <1>3, <1>8, Zenon
  <2>3. ASSUME l = Len(c) PROVE Uid(c) = Payload(c[1]) \o Payload(c[2])
    <3>1. Part(c, 2) = Payload(c[2]) /\ Part(c, 3) = <<>>
      BY <1>4, <1>8, <2>3
    <3>2. Uid(c) = (Payload(c[1]) \o Payload(c[2])) \o <<>>
      BY <1>4, <3>1, Zenon DEF Uid
    <3> QED
      BY <1>5, <2>1, <3>2, Zenon
  <2>4. l + 1 = 3 /\ l + 1 \in 1 .. 3
    BY <1>8
  <2> QED
    BY <1>3, <2>2, <2>3, <2>4, Zenon
<1>9. CASE l = 3
  <2>1. Len(c) = 3 /\ ~(l < Len(c))
    <3>1. PICK n \in 1 .. 3 : n = Len(c)
      BY <1>1, Zenon
    <3>2. n = 3
      BY <1>9, <3>1
    <3> QED
      BY <1>9, <3>1, <3>2
  <2>2. Part(c, 2) = Payload(c[2]) /\ Part(c, 3) = Payload(c[3])
    BY <1>4, <2>1
  <2>3. Before(c, l) \o Payload(c[l]) = (Payload(c[1]) \o Payload(c[2])) \o Payload(c[3])
    BY <1>3, <1>9, Zenon
  <2>4. Uid(c) = (Payload(c[1]) \o Payload(c[2])) \o Payload(c[3])
    BY <1>4, <2>2, Zenon DEF Uid
  <2> QED
    BY <2>1, <2>3, <2>4, Zenon
<1> QED
  BY <1>7, <1>8, <1>9, SMTT(30)

\* Nothing is reported at boot.
LEMMA RfidStart == RInit => RfidInv
<1> SUFFICES ASSUME RInit PROVE RfidInv
  BY Zenon
<1>1. field \subseteq Cards
  BY Zenon DEF RInit, kSubset
<1>2. tag_detect \in BOOLEAN /\ delay \in BOOLEAN /\ ~tag_detect
  BY Zenon DEF RInit
<1> QED
  BY <1>1, <1>2 DEF RInit, RfidInv, RfidTypeOK, SelectInv, ReportInv, IDLE

\* Cards come and go.
LEMMA MovesKeepRfid ==
  ASSUME RfidInv, NEW c \in Cards, Enter(c) \/ Leave(c)
  PROVE  RfidInv'
<1> USE DEF RfidInv, RfidTypeOK
<1>1. CASE Enter(c)
  BY <1>1, Zenon DEF Enter, reader, report, SelectInv, ReportInv, Reported
<1>2. CASE Leave(c)
  <2>1. /\ picc' \in [Cards -> Int] /\ UNCHANGED <<at, level, uid, id, tag_detect, delay, seen, before>>
        /\ field' \subseteq field /\ \A d \in Cards : picc'[d] \in {picc[d], IDLE}
    BY <1>2 DEF Leave, reader, report, IDLE
  <2>2. SelectInv'
    BY <2>1, Zenon DEF SelectInv, IDLE
  <2>3. ReportInv'
    BY <2>1, Zenon DEF ReportInv, Reported
  <2> QED
    BY <2>1, <2>2, <2>3, Zenon
<1> QED
  BY <1>1, <1>2, Zenon

\* The end of a loop that reads no card, in which the report may stay for once.
LEMMA NoCardKeepsRfid ==
  ASSUME RfidInv, NoCard, field' \subseteq Cards, field' \subseteq seen', picc' \in [Cards -> Int],
         at = "loop" => before' = seen, at = "select" => before' = before
  PROVE  RfidInv'
<1> USE DEF RfidInv, RfidTypeOK
<1>1. tag_detect' \in BOOLEAN /\ delay' \in BOOLEAN /\ delay' /\ (tag_detect' <=> tag_detect /\ ~delay)
  BY Zenon DEF NoCard
<1>2. at' = "loop" /\ level' = 1 /\ uid' = <<>> /\ (~delay => id' = id)
  BY Zenon DEF NoCard, Return
<1>3. ReportInv'
  <2> SUFFICES ASSUME tag_detect' PROVE Reported(before)'
    BY <1>1, <1>2, Zenon DEF ReportInv
  <2>1. tag_detect /\ ~delay /\ id' = id
    BY <1>1, <1>2, Zenon
  <2> QED
    BY <2>1, Zenon DEF ReportInv, Reported
<1> QED
  BY <1>1, <1>2, <1>3 DEF SelectInv

\* The commands of the reader.
LEMMA ReadKeepsRfid ==
  ASSUME RfidInv, Read
  PROVE  RfidInv'
<1> USE DEF RfidInv, RfidTypeOK
<1>1. CASE RequestA
  <2>1. /\ field' = field /\ before' = seen /\ seen' = field /\ at = "loop"
        /\ picc' \in [Cards -> Int] /\ \A c \in Cards : picc'[c] \in {IDLE, 1}
    BY <1>1 DEF RequestA, IDLE
  <2>2. CASE NoCard
    BY <2>1, <2>2, NoCardKeepsRfid, Zenon
  <2>3. CASE at' = "select" /\ UNCHANGED <<level, known, buffer, uid, report>>
    <3>1. SelectInv'
      <4>1. ASSUME NEW c \in Cards, picc'[c] = level'
            PROVE  level' <= Len(c) /\ uid' = Before(c, level')
        <5>1. level' = 1 /\ uid' = <<>>
          BY <2>1, <2>3, Zenon DEF SelectInv
        <5>2. Len(c) \in 1 .. 3
          BY RfidConstants, Zenon
        <5>3. Before(c, 1) = <<>>
          BY Zenon DEF Before
        <5>4. level' <= Len(c)
          <6>1. PICK n \in 1 .. 3 : n = Len(c)
            BY <5>2, Zenon
          <6> QED
            BY <5>1, <6>1
        <5> QED
          BY <5>1, <5>3, <5>4, Zenon
      <4>2. level' = 1
        BY <2>1, <2>3, Zenon DEF SelectInv
      <4> QED
        BY <2>1, <2>3, <4>1, <4>2, Zenon DEF SelectInv
    <3>2. ReportInv'
      BY <2>1, <2>3, Zenon DEF ReportInv, Reported, report
    <3> QED
      BY <2>1, <2>3, <3>1, <3>2, Zenon DEF report
  <2> QED
    BY <1>1, <2>2, <2>3, Zenon DEF RequestA
<1>2. CASE Anticollision
  <2>1. at = "select" /\ UNCHANGED <<field, picc, seen, before>>
    BY <1>2, Zenon DEF Anticollision
  <2>2. CASE NoCard
    BY <2>1, <2>2, NoCardKeepsRfid, Zenon
  <2>3. CASE UNCHANGED <<at, level, uid, report>>
    BY <2>1, <2>3, Zenon DEF report, SelectInv, ReportInv, Reported
  <2> QED
    BY <1>2, <2>2, <2>3, Zenon DEF Anticollision
<1>3. CASE Select
  <2> DEFINE selected == {c \in field : picc[c] = level /\ c[level] = buffer}
             complete == \A c \in selected : Len(c) = level
  <2>1. /\ at = "select" /\ UNCHANGED <<field, seen, before>>
        /\ picc' = [c \in Cards |-> IF c \notin selected THEN IDLE
                                    ELSE IF complete THEN ACTIVE ELSE level + 1]
    BY <1>3, Zenon DEF Select
  <2>2. picc' \in [Cards -> Int]
    BY <2>1 DEF IDLE, ACTIVE
  <2>3. CASE NoCard
    BY <2>1, <2>2, <2>3, NoCardKeepsRfid, Zenon
  <2>4. ASSUME NEW c \in selected
        PROVE  /\ c \in Cards /\ c \in seen /\ c[level] = buffer
               /\ level <= Len(c) /\ uid = Before(c, level)
    BY <2>1, Zenon DEF SelectInv
  <2>5. CASE selected # {} /\ complete /\ CardRead(uid \o Payload(buffer))
    <3>1. PICK c \in selected : Len(c) = level
      BY <2>5, Zenon
    <3>2. uid \o Payload(buffer) = Uid(c)
      BY <2>4, <3>1, UidByLevels, Zenon
    <3>3. /\ id' = Id(Uid(c)) /\ ~delay' /\ at' = "loop" /\ level' = 1 /\ uid' = <<>>
      BY <2>5, <3>2, Zenon DEF CardRead, Return
    <3>4. tag_detect' \in BOOLEAN /\ delay' \in BOOLEAN
      BY <2>5, Zenon DEF CardRead
    <3>5. Reported(seen)'
      BY <2>1, <2>4, <3>1, <3>3, Zenon DEF Reported
    <3> QED
      BY <2>1, <2>2, <3>3, <3>4, <3>5 DEF SelectInv, ReportInv
  <2>6. CASE selected # {} /\ ~complete /\ UNCHANGED <<at, report>>
             /\ uid' = uid \o Payload(buffer) /\ level' = level + 1
    <3>1. ASSUME NEW c \in selected PROVE level < Len(c)
      <4>1. PICK d \in selected : Len(d) # level
        BY <2>6, Zenon
      <4>2. Len(d) \in 1 .. 3 /\ Len(c) \in 1 .. 3 /\ c \in Cards /\ d \in Cards
        BY <2>4, RfidConstants, Zenon
      <4>3. level \in 1 .. Len(c) /\ level \in 1 .. Len(d) /\ level < Len(d)
        BY <2>4, <4>1, <4>2
      <4>4. (SubSeq(buffer, 1, BITS) = CT) <=> (level < Len(c))
        BY <2>4, <4>2, <4>3, RfidConstants, Zenon
      <4>5. (SubSeq(buffer, 1, BITS) = CT) <=> (level < Len(d))
        BY <2>4, <4>2, <4>3, RfidConstants, Zenon
      <4> QED
        BY <4>3, <4>4, <4>5, Zenon
    <3>2. ASSUME NEW c \in selected
          PROVE  level' \in 1 .. 3 /\ level' <= Len(c) /\ uid' = Before(c, level')
      <4>1. Len(c) \in 1 .. 3
        BY <2>4, RfidConstants, Zenon
      <4> QED
        <5>1. level \in 1 .. 3 /\ level < Len(c) /\ level <= Len(c) /\ c \in Cards
          BY <2>4, <3>1, <4>1, Zenon
        <5>2. level + 1 \in 1 .. 3 /\ Before(c, level) \o Payload(c[level]) = Before(c, level + 1)
          BY <5>1, UidByLevels, Zenon
        <5>3. uid' = Before(c, level + 1)
          BY <2>4, <2>6, <5>2, Zenon
        <5> QED
          BY <2>6, <4>1, <5>1, <5>2, <5>3
    <3>3. level' \in 1 .. 3
      BY <2>6, <3>2, Zenon
    <3> HIDE DEF selected, complete
    <3>4. \A c \in Cards : /\ picc'[c] \in {IDLE, level'}
                           /\ picc'[c] = level' => c \in selected
      BY <2>1, <2>6, <3>3 DEF IDLE
    <3>5. SelectInv'
      BY <2>1, <2>6, <3>2, <3>4, Zenon DEF SelectInv
    <3> QED
      BY <2>1, <2>2, <2>6, <3>3, <3>5, Zenon DEF report, ReportInv, Reported
  <2> QED
    BY <1>3, <2>3, <2>5, <2>6, Zenon DEF Select
<1> QED
  BY <1>1, <1>2, <1>3, Zenon DEF Read

\* Every reachable state has the invariant.
LEMMA RfidInvariant == RSpec => []RfidInv
<1>1. RfidInv /\ UNCHANGED fvars => RfidInv'
  BY DEF fvars, RfidInv, RfidTypeOK, SelectInv, ReportInv, Reported
<1>2. RfidInv /\ [RNext]_fvars => RfidInv'
  BY <1>1, MovesKeepRfid, ReadKeepsRfid, Zenon DEF RNext
<1> QED
  BY <1>2, RfidStart, PTL DEF RSpec

\* For any cards and any coming and going: after every loop the id that is
\* reported is that of a card that was in the field in this loop or the one before.
THEOREM ReportedCardIsPresent == RSpec => []ReportsPresentCard
<1>1. RfidInv => ReportsPresentCard
  BY Zenon DEF RfidInv, RfidTypeOK, ReportInv, Reported, ReportsPresentCard
<1> QED
  BY <1>1, RfidInvariant, PTL

-----------------------------------------------------------------------------
(* BatteryBuzzer: the calibration in the EEPROM. *)

BuzzerTypeOK ==
  /\ doing \in {"off", "loop", "calibrate", "write", "clear", "sense"}
  /\ entry \in 1 .. 3 /\ part \in {"tag", "first_bytes", "last_bytes"}
  /\ calib \in [1 .. 3 -> Int] /\ count \in Nat /\ lost \in BOOLEAN
  /\ eeprom \in [1 .. 3 -> [tag : BOOLEAN, value : Int]]

Tagged == \A i \in 1 .. 3 : eeprom[i].tag

\* An EEPROM that update_triple_calibration takes all of from one calibration, or
\* nothing.
Whole ==
  \/ ~eeprom[1].tag
  \/ Tagged /\ \E n \in 0 .. count : \A i \in 1 .. 3 : eeprom[i].value = n

\* While write_triple_eeprom runs, the entries before the next one are written.
Written ==
  /\ \A i \in 1 .. 3 : i < entry => eeprom[i].tag /\ eeprom[i].value = count
  /\ part # "tag" => eeprom[entry].tag

\* What each place of device_actions relies on.
PlacesInv ==
  /\ doing = "loop" => calib = Updated(Nominal)
  /\ doing = "sense" => (calib = Nominal \/ Tagged) /\ Whole
  /\ doing = "write" => calib = [i \in 1 .. 3 |-> count] /\ Written
  /\ doing = "clear" => calib = Nominal /\ (entry # 1 \/ part # "tag" => ~eeprom[1].tag)

\* The inductive invariant.  An EEPROM that is not whole is one whose write was
\* cut off, or is still going on; clearing starts with the first tag, from which
\* moment on the rest does not count.
BuzzerInv ==
  /\ BuzzerTypeOK /\ PlacesInv
  /\ lost \/ doing = "write" \/ Whole

\* A new device has an empty EEPROM.
LEMMA BuzzerStart == BInit => BuzzerInv
<1> SUFFICES ASSUME BInit PROVE BuzzerInv
  BY Zenon
<1>1. eeprom \in [1 .. 3 -> [tag : BOOLEAN, value : Int]] /\ ~eeprom[1].tag
  BY DEF BInit, CLEARED
<1>2. lost \in BOOLEAN
  BY Zenon DEF BInit
<1> QED
  BY <1>1, <1>2 DEF BInit, BuzzerInv, BuzzerTypeOK, PlacesInv, Whole, Nominal, NOMINAL

\* Taking the EEPROM over gives integers, and taking it over again changes nothing.
LEMMA UpdatedTwice ==
  ASSUME BuzzerTypeOK
  PROVE  /\ Updated(Nominal) \in [1 .. 3 -> Int]
         /\ Updated(Updated(Nominal)) = Updated(Nominal)
         /\ Tagged => Updated(calib) = Updated(Nominal)
  BY DEF BuzzerTypeOK, Updated, Nominal, NOMINAL, Tagged

\* The button, a loss of power, device_enable and the loop itself: none writes to
\* the EEPROM.
LEMMA LoopKeepsBuzzer ==
  ASSUME BuzzerInv,
         \/ Press \/ Release \/ PowerLoss \/ Enable \/ LoopSense \/ BeginCalibration
         \/ Calibrate \/ BeginClear \/ UNCHANGED bvars
  PROVE  BuzzerInv'
<1> USE DEF BuzzerInv, BuzzerTypeOK, PlacesInv, Whole, Tagged
<1>1. CASE Press \/ Release \/ UNCHANGED bvars
  BY <1>1, SMTT(30) DEF Press, Release, bvars, Updated, Written
<1>2. CASE PowerLoss
  <2>1. lost' \in BOOLEAN
    BY <1>2, Zenon DEF PowerLoss
  <2>2. lost' \/ Whole
    BY <1>2, Zenon DEF PowerLoss
  <2> QED
    BY <1>2, <2>1, <2>2 DEF PowerLoss, Nominal, NOMINAL
<1>3. CASE Enable
  <2>1. calib' \in [1 .. 3 -> Int] /\ calib' = Updated(Nominal)'
    BY <1>3, UpdatedTwice, Zenon DEF Enable, Updated
  <2> QED
    BY <1>3, <2>1, Zenon DEF Enable
<1>4. CASE LoopSense
  <2>1. calib' = Updated(Nominal)
    BY <1>4, UpdatedTwice, Zenon DEF LoopSense, Sense
  <2>2. calib' \in [1 .. 3 -> Int] /\ calib' = Updated(Nominal)'
    BY <1>4, <2>1, UpdatedTwice, Zenon DEF LoopSense, Updated
  <2> QED
    BY <1>4, <2>2, Zenon DEF LoopSense
<1>5. CASE BeginCalibration
  BY <1>5, Zenon DEF BeginCalibration
<1>6. CASE Calibrate
  BY <1>6 DEF Calibrate, Written
<1>7. CASE BeginClear
  BY <1>7 DEF BeginClear, Nominal, NOMINAL
<1> QED
  BY <1>1, <1>2, <1>3, <1>4, <1>5, <1>6, <1>7, Zenon

\* What a store leaves in an entry.
LEMMA StoredEntry ==
  ASSUME BuzzerTypeOK, NEW v \in Int
  PROVE  /\ Stored(v) \in [tag : BOOLEAN, value : Int]
         /\ Stored(v).tag <=> IF part = "tag" THEN doing = "write" ELSE eeprom[entry].tag
         /\ part = "last_bytes" => Stored(v).value = v
<1>1. eeprom[entry].tag \in BOOLEAN /\ eeprom[entry].value \in Int
  BY Zenon DEF BuzzerTypeOK
<1>2. Stored(v).tag = IF part = "tag" THEN doing = "write" ELSE eeprom[entry].tag
  BY Zenon DEF Stored
<1>3. Stored(v).tag \in BOOLEAN
  BY <1>1, <1>2, Zenon
<1>4. Stored(v).value \in Int /\ (part = "last_bytes" => Stored(v).value = v)
  BY <1>1 DEF Stored, TORN
<1>5. Stored(v) = [tag |-> Stored(v).tag, value |-> Stored(v).value]
  BY Zenon DEF Stored
<1> QED
  BY <1>2, <1>3, <1>4, <1>5, Zenon

\* write_triple_eeprom: the last of its stores makes the EEPROM whole again.
LEMMA WriteKeepsBuzzer ==
  ASSUME BuzzerInv, WriteEeprom
  PROVE  BuzzerInv'
<1> USE DEF BuzzerInv, BuzzerTypeOK
<1>0. calib[entry] \in Int
  BY Zenon
<1>1. lost' \in BOOLEAN
  BY Zenon DEF WriteEeprom
<1>2. eeprom' \in [1 .. 3 -> [tag : BOOLEAN, value : Int]]
  BY <1>0, StoredEntry, Zenon DEF WriteEeprom
<1>3. /\ \A i \in 1 .. 3 : i # entry => eeprom'[i] = eeprom[i]
      /\ eeprom'[entry].tag
      /\ part = "last_bytes" => eeprom'[entry].value = count
  BY <1>0, StoredEntry DEF WriteEeprom, PlacesInv, Written
<1>4. /\ calib' = calib /\ count' = count /\ calib = [i \in 1 .. 3 |-> count] /\ Written
      /\ doing = "write" /\ doing' \in {"write", "sense"}
      /\ entry' \in 1 .. 3 /\ part' \in {"tag", "first_bytes", "last_bytes"}
  BY DEF WriteEeprom, PlacesInv, Advance
<1>5. CASE doing' = "write"
  <2>1. Written'
    BY <1>2, <1>3, <1>4, <1>5 DEF WriteEeprom, Written, Advance
  <2> QED
    BY <1>1, <1>2, <1>4, <1>5, <2>1, Zenon DEF PlacesInv
<1>6. CASE doing' = "sense"
  <2>1. entry = 3 /\ part = "last_bytes"
    BY <1>4, <1>6, Zenon DEF WriteEeprom, Advance
  <2>2. \A i \in 1 .. 3 : eeprom'[i].tag /\ eeprom'[i].value = count
    BY <1>3, <1>4, <2>1 DEF Written
  <2>3. Whole' /\ Tagged'
    BY <1>4, <2>2 DEF Whole, Tagged
  <2> QED
    BY <1>1, <1>2, <1>4, <1>6, <2>3, Zenon DEF PlacesInv
<1> QED
  BY <1>4, <1>5, <1>6, Zenon

\* clear_eeprom: its first store takes the first tag away, and no later one puts
\* it back.
LEMMA ClearKeepsBuzzer ==
  ASSUME BuzzerInv, ClearEeprom
  PROVE  BuzzerInv'
<1> USE DEF BuzzerInv, BuzzerTypeOK
<1>1. lost' \in BOOLEAN
  BY Zenon DEF ClearEeprom
<1>2. eeprom' \in [1 .. 3 -> [tag : BOOLEAN, value : Int]]
  BY StoredEntry DEF ClearEeprom, CLEARED
<1>3. ~eeprom'[1].tag
  BY StoredEntry DEF ClearEeprom, CLEARED, PlacesInv
<1>4. /\ calib' = calib /\ count' = count /\ calib = Nominal
      /\ doing' \in {"clear", "sense"}
      /\ entry' \in 1 .. 3 /\ part' \in {"tag", "first_bytes", "last_bytes"}
  BY DEF ClearEeprom, PlacesInv, Advance
<1> QED
  BY <1>1, <1>2, <1>3, <1>4, Zenon DEF PlacesInv, Whole, Nominal

\* Every reachable state has the invariant.
LEMMA BuzzerInvariant == BSpec => []BuzzerInv
<1>1. BuzzerInv /\ [BNext]_bvars => BuzzerInv'
  BY LoopKeepsBuzzer, WriteKeepsBuzzer, ClearKeepsBuzzer, Zenon DEF BNext
<1> QED
  BY <1>1, BuzzerStart, PTL DEF BSpec

\* For any number of calibrations and losses of power: between two loops the
\* calibration in use is what the EEPROM holds, and unless the power was lost
\* inside write_triple_eeprom, all three values come from one calibration, or
\* from none.
THEOREM CalibrationIsOne == BSpec => []OneCalibration
<1>1. BuzzerInv => OneCalibration
  <2> SUFFICES ASSUME BuzzerInv, doing = "loop"
               PROVE  /\ calib = Updated(Nominal)
                      /\ lost \/ \E n \in 0 .. count : calib = [i \in 1 .. 3 |-> n]
    BY Zenon DEF OneCalibration
  <2>1. calib = Updated(Nominal)
    BY Zenon DEF BuzzerInv, PlacesInv
  <2>2. CASE ~eeprom[1].tag
    <3>1. calib = [i \in 1 .. 3 |-> 0]
      BY <2>1, <2>2 DEF Updated, Nominal, NOMINAL
    <3> QED
      BY <2>1, <3>1 DEF BuzzerInv, BuzzerTypeOK
  <2>3. CASE Tagged /\ \E n \in 0 .. count : \A i \in 1 .. 3 : eeprom[i].value = n
    <3>1. PICK n \in 0 .. count : \A i \in 1 .. 3 : eeprom[i].value = n
      BY <2>3, Zenon
    <3>2. calib = [i \in 1 .. 3 |-> n]
      BY <2>1, <2>3, <3>1 DEF Updated, Nominal, Tagged
    <3> QED
      BY <2>1, <3>2, Zenon
  <2> QED
    BY <2>1, <2>2, <2>3, Zenon DEF BuzzerInv, Whole
<1> QED
  BY <1>1, BuzzerInvariant, PTL
=============================================================================
