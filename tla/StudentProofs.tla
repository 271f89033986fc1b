--------------------------- MODULE StudentProofs ----------------------------
(***************************************************************************)
(* What student code sees and does: that no reader sees half an input, that*)
(* an action which no two threads tried to run at once runs in one thread, *)
(* and that net_handler copies the table of custom log data as it stands,  *)
(* for any number of readers, datagrams, actions, threads and keys.        *)
(***************************************************************************)
EXTENDS Inputs, Actions, LogData, SequenceTheorems, TLAPS

-----------------------------------------------------------------------------
(* Inputs: the controller in shared memory. *)

InputsTypeOK ==
  /\ pad \in Says /\ datagrams \subseteq Says /\ input \in Says
  /\ buttons \in Says /\ joysticks \in Says
  /\ reader \in [Readers -> {"idle", "wait", "joysticks", "got"}]
  /\ got \in [Readers -> Says \X Says]

\* The inductive invariant: who is between its two halves holds the semaphore,
\* the block is whole unless the writer is, and a reader that is has the buttons
\* the block still holds.
InputsInv ==
  /\ InputsTypeOK
  /\ udp = "joysticks" => input_sem = UdpThread /\ buttons = input
  /\ udp # "joysticks" => buttons = joysticks
  /\ \A r \in Readers :
       /\ reader[r] = "joysticks" => input_sem = r /\ got[r][1] = buttons
       /\ reader[r] = "got" => got[r][1] = got[r][2]

\* The block and the copies of the readers start alike.
LEMMA InputsStart == IInit => InputsInv
  BY InputsConstants DEF IInit, InputsInv, InputsTypeOK, Says

\* A step of update_inputs preserves the invariant: its two stores are made under
\* the semaphore, with no reader between its own two halves.
LEMMA WriterKeepsInv ==
  ASSUME InputsInv, UdpStep
  PROVE  InputsInv'
<1>1. CASE SetField
  BY <1>1, Zenon DEF SetField, InputsInv, InputsTypeOK
<1>2. CASE WrongAxes
  BY <1>2, Zenon DEF WrongAxes, InputsInv, InputsTypeOK, shm, Says
<1>3. CASE input_write
  BY <1>3, Zenon DEF input_write, InputsInv, InputsTypeOK, shm
<1>4. CASE WriteButtons
  BY <1>4, InputsConstants, Zenon DEF WriteButtons, InputsInv, InputsTypeOK
<1>5. CASE WriteJoysticks
  BY <1>5, InputsConstants DEF WriteJoysticks, InputsInv, InputsTypeOK, Says
<1> QED
  BY <1>1, <1>2, <1>3, <1>4, <1>5, Zenon DEF UdpStep

\* A step of input_read preserves it.
LEMMA ReaderKeepsInv ==
  ASSUME InputsInv, NEW r \in Readers, input_read(r) \/ ReaderStep(r) \/ Use(r)
  PROVE  InputsInv'
<1>1. CASE input_read(r)
  BY <1>1, Zenon DEF input_read, Read, InputsInv, InputsTypeOK
<1>2. CASE ReadButtons(r)
  <2>1. Zero \in Says /\ udp # "joysticks"
    BY <1>2, InputsConstants, Zenon DEF ReadButtons, InputsInv, Says
  <2>2. got' \in [Readers -> Says \X Says] /\ got'[r][1] = buttons
    BY <1>2, <2>1, Zenon DEF ReadButtons, InputsInv, InputsTypeOK
  <2> QED
    BY <1>2, <2>1, <2>2, InputsConstants, Zenon DEF ReadButtons, Read, InputsInv, InputsTypeOK
<1>3. CASE ReadJoysticks(r)
  <2>1. input_sem = r /\ udp # "joysticks"
    BY <1>3, InputsConstants, Zenon DEF ReadJoysticks, Read, InputsInv
  <2>2. got[r] \in Says \X Says /\ got'[r] = [got[r] EXCEPT ![2] = joysticks]
    BY <1>3, Zenon DEF ReadJoysticks, InputsInv, InputsTypeOK
  <2>3. got' \in [Readers -> Says \X Says] /\ got'[r][1] = got[r][1] /\ got'[r][2] = joysticks
    BY <1>3, <2>2 DEF ReadJoysticks, InputsInv, InputsTypeOK
  <2> QED
    BY <1>3, <2>1, <2>3, InputsConstants, Zenon DEF ReadJoysticks, Read, InputsInv, InputsTypeOK
<1>4. CASE Use(r)
  <2>1. Zero \in Says
    BY InputsConstants, Zenon DEF Says
  <2> QED
    BY <1>4, <2>1, Zenon DEF Use, Read, InputsInv, InputsTypeOK
<1> QED
  BY <1>1, <1>2, <1>3, <1>4, Zenon DEF ReaderStep

\* The end of the child preserves it: no reader is left between its two halves,
\* and a semaphore that stays taken keeps the block as it is.
LEMMA EndKeepsInputsInv ==
  ASSUME InputsInv, EndReaders
  PROVE  InputsInv'
<1>1. Zero \in Says
  BY InputsConstants, Zenon DEF Says
<1>2. reader' \in [Readers -> {"idle", "wait", "joysticks", "got"}] /\ got' \in [Readers -> Says \X Says]
  BY <1>1, Zenon DEF EndReaders
<1>3. \A r \in Readers : reader'[r] = "idle"
  BY Zenon DEF EndReaders
<1> QED
  BY <1>2, <1>3, Zenon DEF EndReaders, InputsInv, InputsTypeOK

\* The steps of Dawn, the network and the TCP thread leave block, semaphore and
\* readers alone.
LEMMA OthersKeepInv ==
  ASSUME InputsInv,
         \/ \E v \in Says : Press(v)
         \/ Send \/ start_tcp_conn \/ CleanupDawn \/ CleanupInputs
         \/ \E d \in datagrams : Lose(d) \/ Recvfrom(d)
  PROVE  InputsInv'
<1>1. ASSUME NEW v \in Says, Press(v) PROVE InputsInv'
  BY <1>1, Zenon DEF Press, InputsInv, InputsTypeOK, shm
<1>2. CASE Send
  BY <1>2, Zenon DEF Send, InputsInv, InputsTypeOK, shm
<1>3. CASE start_tcp_conn
  BY <1>3, Zenon DEF start_tcp_conn, InputsInv, InputsTypeOK
<1>4. CASE CleanupDawn
  BY <1>4, Zenon DEF CleanupDawn, InputsInv, InputsTypeOK
<1>5. CASE CleanupInputs
  BY <1>5, Zenon DEF CleanupInputs, InputsInv, InputsTypeOK
<1>6. ASSUME NEW d \in datagrams, Lose(d) PROVE InputsInv'
  BY <1>6, Zenon DEF Lose, InputsInv, InputsTypeOK, shm
<1>7. ASSUME NEW d \in datagrams, Recvfrom(d) PROVE InputsInv'
  BY <1>7, Zenon DEF Recvfrom, InputsInv, InputsTypeOK, shm
<1> QED
  BY <1>1, <1>2, <1>3, <1>4, <1>5, <1>6, <1>7, Zenon

\* The locking of update_inputs and input_read keeps the invariant for ever.
THEOREM InputsInvariant == ISpec => []InputsInv
<1>1. InputsInv /\ [INext]_ivars => InputsInv'
  <2>1. ASSUME InputsInv, UNCHANGED ivars PROVE InputsInv'
    BY <2>1, Zenon DEF ivars, shm, InputsInv, InputsTypeOK
  <2> QED
    BY <2>1, WriterKeepsInv, ReaderKeepsInv, EndKeepsInputsInv, OthersKeepInv, Zenon DEF INext
<1> QED
  BY <1>1, InputsStart, PTL DEF ISpec

\* Student code gets the buttons and the joysticks of one datagram, however many
\* threads read, whatever Dawn sends meanwhile and wherever a child ends.
THEOREM NoTornInput == ISpec => []WholeInput
<1>1. InputsInv => WholeInput
  BY Zenon DEF InputsInv, WholeInput
<1> QED
  BY <1>1, InputsInvariant, PTL

-----------------------------------------------------------------------------
(* Actions: robot actions in threads of their own. *)

Calls == [at : {"code", "count", "create", "start"}, fn : ActionNames \cup {NoAction},
          new : Thread \cup {NoThread}]

ActionsTypeOK ==
  /\ running_actions \in [ActionNames -> Thread \cup {NoThread}]
  /\ thread \in [Thread -> {"none", "created", "alive", "over"}]
  /\ action \in [Thread -> ActionNames \cup {NoAction}]
  /\ calling \in [PyThreads -> Calls]
  /\ raced \subseteq ActionNames

InRun(c, f) == calling[c].at # "code" /\ calling[c].fn = f

\* The thread a caller is about to start is one it created for its action, and no
\* other caller starts it.
StartsInv ==
  /\ \A c \in PyThreads : calling[c].at = "start" =>
       /\ calling[c].new \in Thread
       /\ thread[calling[c].new] = "created" /\ action[calling[c].new] = calling[c].fn
  /\ \A c, d \in PyThreads :
       calling[c].at = "start" /\ calling[d].at = "start" /\ calling[c].new = calling[d].new => c = d
  /\ \A c \in PyThreads : calling[c].at # "code" => calling[c].fn \in ActionNames

\* Of an action that was never raced for, at most one caller is in run; before
\* that caller registers its thread no other thread of the action lives, and
\* the thread it registered is the one is_running looks at.
ActionInv(f) ==
  /\ \A c, d \in PyThreads : InRun(c, f) /\ InRun(d, f) => c = d
  /\ \A t \in Thread : thread[t] = "alive" /\ action[t] = f => running_actions[f] = t
  /\ \A c \in PyThreads : InRun(c, f) =>
       /\ \A t \in Thread : action[t] = f => thread[t] # "alive"
       /\ calling[c].at = "start" => running_actions[f] = calling[c].new

\* The inductive invariant.
ActionsInv ==
  /\ ActionsTypeOK /\ StartsInv
  /\ \A f \in ActionNames \ raced : ActionInv(f)

\* The student's code has started nothing.
LEMMA ActionsStart == KInit => ActionsInv
  BY DEF KInit, ActionsInv, ActionsTypeOK, StartsInv, ActionInv, InRun, InCode, Calls,
         PyThreads, NoThread

\* Robot.run passes its first test: no thread of the action is alive then, and a
\* second caller makes the action a raced one.
LEMMA RunKeepsInv ==
  ASSUME ActionsInv, NEW c \in PyThreads, NEW f \in ActionNames, run(c, f)
  PROVE  ActionsInv'
<1> DEFINE to == [at |-> "count", fn |-> f, new |-> NoThread]
<1>1. /\ calling[c].at = "code" /\ calling' = [calling EXCEPT ![c] = to]
      /\ raced' = IF \E d \in PyThreads \ {c} : calling[d].fn = f THEN raced \cup {f} ELSE raced
      /\ UNCHANGED <<running_actions, thread, action>>
      /\ ~is_running(f)
  BY Zenon DEF run, Goes, Checked
<1>2. to \in Calls /\ to.at = "count" /\ to.fn = f
  BY Zenon DEF Calls
<1>3. calling' \in [PyThreads -> Calls] /\ calling'[c] = to
      /\ \A d \in PyThreads \ {c} : calling'[d] = calling[d]
  BY <1>1, <1>2, Zenon DEF ActionsInv, ActionsTypeOK
<1> HIDE DEF to
<1>4. ActionsTypeOK' /\ raced \subseteq raced'
  BY <1>1, <1>3, Zenon DEF ActionsInv, ActionsTypeOK
<1>5. StartsInv'
  BY <1>1, <1>2, <1>3, Zenon DEF ActionsInv, StartsInv
<1>6. ASSUME NEW g \in ActionNames \ raced' PROVE ActionInv(g)'
  <2>1. ActionInv(g)
    BY <1>4, <1>6, Zenon DEF ActionsInv
  <2>2. CASE g # f
    BY <1>1, <1>2, <1>3, <2>1, <2>2, Zenon DEF ActionInv, InRun
  <2>3. CASE g = f
    <3>1. \A d \in PyThreads \ {c} : calling'[d].fn # f
      BY <1>1, <1>3, <1>6, <2>3, Zenon
    <3>2. \A t \in Thread : action[t] = f => thread[t] # "alive"
      BY <1>1, <2>1, <2>3 DEF ActionInv, is_running, Thread, NoThread
    <3> QED
      BY <1>1, <1>2, <1>3, <2>1, <2>3, <3>1, <3>2, Zenon DEF ActionInv, InRun
  <2> QED
    BY <2>2, <2>3, Zenon
<1> QED
  BY <1>4, <1>5, <1>6, Zenon DEF ActionsInv

\* Robot.run counts the threads, and goes on or returns.
LEMMA CountKeepsInv ==
  ASSUME ActionsInv, NEW c \in PyThreads, Count(c)
  PROVE  ActionsInv'
<1>1. PICK to \in {InCode, [calling[c] EXCEPT !.at = "create"]} :
        calling' = [calling EXCEPT ![c] = to]
  BY Zenon DEF Count, Goes
<1>2. calling[c].at = "count" /\ UNCHANGED <<running_actions, thread, action, raced>>
  BY Zenon DEF Count, Goes
<1>3. calling[c] \in Calls
  BY Zenon DEF ActionsInv, ActionsTypeOK
<1>4. to \in Calls /\ to.at \in {"code", "create"} /\ (to.at # "code" => to.fn = calling[c].fn)
  BY <1>1, <1>3 DEF Calls, InCode
<1>5. calling' \in [PyThreads -> Calls] /\ calling'[c] = to
      /\ \A d \in PyThreads \ {c} : calling'[d] = calling[d]
  BY <1>1, <1>4, Zenon DEF ActionsInv, ActionsTypeOK
<1>6. ActionsTypeOK'
  BY <1>2, <1>5, Zenon DEF ActionsInv, ActionsTypeOK
<1>7. StartsInv'
  BY <1>2, <1>4, <1>5 DEF ActionsInv, StartsInv
<1>8. ASSUME NEW g \in ActionNames \ raced' PROVE ActionInv(g)'
  BY <1>2, <1>4, <1>5, <1>8 DEF ActionsInv, ActionInv, InRun
<1> QED
  BY <1>6, <1>7, <1>8, Zenon DEF ActionsInv

\* Robot.run creates and registers its thread.
LEMMA RegisterKeepsInv ==
  ASSUME ActionsInv, NEW c \in PyThreads, Register(c)
  PROVE  ActionsInv'
<1>1. PICK t \in Thread :
        /\ thread[t] = "none"
        /\ Goes(c, "create", [calling[c] EXCEPT !.at = "start", !.new = t])
        /\ thread' = [thread EXCEPT ![t] = "created"]
        /\ action' = [action EXCEPT ![t] = calling[c].fn]
        /\ running_actions' = [running_actions EXCEPT ![calling[c].fn] = t]
        /\ UNCHANGED raced
  BY Zenon DEF Register
<1> DEFINE to == [calling[c] EXCEPT !.at = "start", !.new = t]
<1>2. calling[c] \in Calls /\ calling[c].at = "create" /\ calling[c].fn \in ActionNames
      /\ calling' = [calling EXCEPT ![c] = to]
  BY <1>1, Zenon DEF ActionsInv, ActionsTypeOK, StartsInv, Goes
<1>3. to \in Calls /\ to.at = "start" /\ to.fn = calling[c].fn /\ to.new = t
  BY <1>2, Zenon DEF Calls
<1> HIDE DEF to
<1>4. calling' \in [PyThreads -> Calls] /\ calling'[c] = to
      /\ \A d \in PyThreads \ {c} : calling'[d] = calling[d]
  BY <1>2, <1>3, Zenon DEF ActionsInv, ActionsTypeOK
<1>5. ActionsTypeOK'
  BY <1>1, <1>2, <1>4, Zenon DEF ActionsInv, ActionsTypeOK
<1>6. thread'[t] = "created" /\ action'[t] = calling[c].fn
      /\ \A u \in Thread \ {t} : thread'[u] = thread[u] /\ action'[u] = action[u]
  BY <1>1, Zenon DEF ActionsInv, ActionsTypeOK
<1>7. StartsInv'
  BY <1>1, <1>2, <1>3, <1>4, <1>6 DEF ActionsInv, StartsInv
<1>8. ASSUME NEW g \in ActionNames \ raced' PROVE ActionInv(g)'
  <2>1. ActionInv(g)
    BY <1>1, <1>8, Zenon DEF ActionsInv
  <2>2. running_actions'[calling[c].fn] = t
        /\ \A h \in ActionNames : h # calling[c].fn => running_actions'[h] = running_actions[h]
    BY <1>1, <1>2, Zenon DEF ActionsInv, ActionsTypeOK
  <2>3. \A d \in PyThreads : InRun(d, g)' <=> InRun(d, g)
    BY <1>2, <1>3, <1>4, Zenon DEF InRun
  <2>4. CASE g = calling[c].fn
    <3>1. \A d \in PyThreads : InRun(d, g) <=> d = c
      BY <1>2, <2>1, <2>4, Zenon DEF ActionInv, InRun
    <3>2. \A u \in Thread : action'[u] = g => thread'[u] # "alive"
      BY <1>6, <2>1, <3>1, Zenon DEF ActionInv
    <3> QED
      BY <1>3, <1>4, <2>2, <2>3, <2>4, <3>1, <3>2, Zenon DEF ActionInv
  <2>5. CASE g # calling[c].fn
    <3>1. \A d \in PyThreads : InRun(d, g) => d # c
      BY <2>5, Zenon DEF InRun
    <3> QED
      BY <1>4, <1>6, <2>1, <2>2, <2>3, <2>5, <3>1 DEF ActionInv
  <2> QED
    BY <2>4, <2>5, Zenon
<1> QED
  BY <1>5, <1>7, <1>8, Zenon DEF ActionsInv

\* Robot.run starts the thread it registered, and returns.
LEMMA StartKeepsInv ==
  ASSUME ActionsInv, NEW c \in PyThreads, StartThread(c)
  PROVE  ActionsInv'
<1> DEFINE t == calling[c].new
           f == calling[c].fn
<1>1. /\ calling[c].at = "start" /\ calling' = [calling EXCEPT ![c] = InCode]
      /\ thread' = [thread EXCEPT ![t] = "alive"]
      /\ UNCHANGED <<running_actions, action, raced>>
  BY Zenon DEF StartThread, Goes
<1>2. t \in Thread /\ thread[t] = "created" /\ action[t] = f /\ f \in ActionNames
  BY <1>1, Zenon DEF ActionsInv, StartsInv
<1>3. InCode \in Calls /\ InCode.at = "code"
  BY Zenon DEF InCode, Calls
<1>4. calling' \in [PyThreads -> Calls] /\ calling'[c] = InCode
      /\ \A d \in PyThreads \ {c} : calling'[d] = calling[d]
  BY <1>1, <1>3, Zenon DEF ActionsInv, ActionsTypeOK
<1>5. thread' \in [Thread -> {"none", "created", "alive", "over"}] /\ thread'[t] = "alive"
      /\ \A u \in Thread \ {t} : thread'[u] = thread[u]
  BY <1>1, <1>2, Zenon DEF ActionsInv, ActionsTypeOK
<1>6. ActionsTypeOK'
  BY <1>1, <1>4, <1>5, Zenon DEF ActionsInv, ActionsTypeOK
<1>7. StartsInv'
  BY <1>1, <1>3, <1>4, <1>5 DEF ActionsInv, StartsInv
<1>8. ASSUME NEW g \in ActionNames \ raced' PROVE ActionInv(g)'
  <2>1. ActionInv(g)
    BY <1>1, <1>8, Zenon DEF ActionsInv
  <2>2. \A d \in PyThreads : InRun(d, g)' <=> InRun(d, g) /\ d # c
    BY <1>3, <1>4, Zenon DEF InRun
  <2>3. CASE g = f
    <3>1. \A d \in PyThreads : InRun(d, g) <=> d = c
      BY <1>1, <2>1, <2>3, Zenon DEF ActionInv, InRun
    <3>2. running_actions[g] = t /\ \A u \in Thread : action[u] = g => thread[u] # "alive"
      BY <1>1, <2>1, <2>3, <3>1, Zenon DEF ActionInv
    <3> QED
      BY <1>1, <1>5, <2>2, <3>1, <3>2, Zenon DEF ActionInv
  <2>4. CASE g # f
    <3>1. \A u \in Thread : action'[u] = g => thread'[u] = thread[u]
      BY <1>1, <1>2, <1>5, <2>4, Zenon
    <3>2. \A d \in PyThreads : d # c => calling'[d] = calling[d]
      BY <1>4, Zenon
    <3> QED
      BY <1>1, <2>1, <2>2, <3>1, <3>2, Zenon DEF ActionInv
  <2> QED
    BY <2>3, <2>4, Zenon
<1> QED
  BY <1>6, <1>7, <1>8, Zenon DEF ActionsInv

\* An action that ends only makes its thread less alive.
LEMMA EndKeepsInv ==
  ASSUME ActionsInv, NEW t \in Thread, NEW failed \in BOOLEAN, ActionEnds(t, failed)
  PROVE  ActionsInv'
<1>1. thread' = [thread EXCEPT ![t] = "over"] /\ thread[t] = "alive"
      /\ UNCHANGED <<running_actions, action, calling, raced>>
  BY DEF ActionEnds, Runs, Thread, Main
<1> QED
  BY <1>1 DEF ActionsInv, ActionsTypeOK, StartsInv, ActionInv, InRun

\* Robot.run keeps the invariant for ever.
THEOREM ActionsInvariant == KSpec => []ActionsInv
<1>1. ActionsInv /\ [KNext]_kvars => ActionsInv'
  <2>1. ASSUME ActionsInv, CallReturns \/ CallFails \/ UNCHANGED kvars PROVE ActionsInv'
    <3>1. UNCHANGED <<running_actions, thread, action, calling, raced>>
      BY <2>1, Zenon DEF CallReturns, CallFails, kvars
    <3> QED
      BY <2>1, <3>1 DEF ActionsInv, ActionsTypeOK, StartsInv, ActionInv, InRun
  <2> QED
    BY <2>1, RunKeepsInv, CountKeepsInv, RegisterKeepsInv, StartKeepsInv, EndKeepsInv, Zenon DEF KNext
<1> QED
  BY <1>1, ActionsStart, PTL DEF KSpec

\* An action that no two threads tried to run at once runs in one thread, the one
\* is_running looks at, however many threads and actions there are.
THEOREM ActionRunsOnce == KSpec => []OneThreadPerAction
<1>1. ActionsInv => OneThreadPerAction
  BY Zenon DEF ActionsInv, ActionInv, OneThreadPerAction
<1> QED
  BY <1>1, ActionsInvariant, PTL

-----------------------------------------------------------------------------
(* LogData: custom log data. *)

LogDataTypeOK ==
  /\ names \in Seq(Keys) /\ values \in Seq(LogVals)
  /\ pc \in [Callers -> {"idle", "wait", "find", "copy", "send"}]
  /\ key \in [Writers -> AllKeys \union {NoKey}]
  /\ value \in [Writers -> LogVals \union {NoKey}]
  /\ idx \in [Callers -> Nat]
  /\ copy \in Seq(Keys \X LogVals)

\* A writer in its search holds the semaphore, and its key is not among the names
\* it has passed.
Searching(t) ==
  pc[t] = "find" =>
    /\ log_data_sem = t
    /\ idx[t] \in 1 .. Len(names) + 1
    /\ key[t] \in AllKeys
    /\ value[t] \in LogVals
    /\ \A i \in 1 .. idx[t] - 1 : names[i] # key[t]

\* net_handler copies with the semaphore held.
Copying ==
  pc[Sender] = "copy" =>
    /\ log_data_sem = Sender
    /\ Len(copy) <= Len(names)
    /\ \A i \in 1 .. Len(copy) : copy[i] = <<names[i], values[i]>>

\* The inductive invariant.
LogDataInv ==
  /\ LogDataTypeOK
  /\ Len(values) = Len(names) /\ Len(names) <= UCHAR_MAX
  /\ \A i, j \in 1 .. Len(names) : names[i] = names[j] => i = j
  /\ \A t \in Writers : pc[t] \in {"idle", "wait", "find"} /\ Searching(t)
  /\ \A t \in Writers : pc[t] = "wait" => key[t] \in AllKeys /\ value[t] \in LogVals
  /\ Copying

\* The table starts empty.
LEMMA LogDataStart == GInit => LogDataInv
<1> SUFFICES ASSUME GInit PROVE LogDataInv
  BY Zenon
<1>1. names = <<>> /\ values = <<>> /\ copy = <<>>
  BY Zenon DEF GInit
<1>2. pc = [t \in Callers |-> "idle"] /\ idx = [t \in Callers |-> 0]
      /\ key = [t \in Writers |-> NoKey] /\ value = [t \in Writers |-> NoKey]
  BY Zenon DEF GInit
<1>3. LogDataTypeOK
  BY <1>1, <1>2 DEF LogDataTypeOK
<1>4. Len(names) = 0 /\ Len(values) = 0
  BY <1>1, Zenon
<1>5. \A t \in Callers : pc[t] = "idle"
  BY <1>2, Zenon
<1> QED
  BY <1>3, <1>4, <1>5, LogDataConstants DEF LogDataInv, Searching, Copying, Callers

\* The first steps of log_data_write and its search preserve the invariant.
LEMMA SearchKeepsInv ==
  ASSUME LogDataInv, NEW t \in Writers,
         \/ \E k \in AllKeys, v \in LogVals : log_data_write(t, k, v)
         \/ Enter(t) \/ Search(t)
  PROVE  LogDataInv'
<1> t \in Callers /\ Sender \in Callers /\ t # Sender /\ Writers \subseteq Callers
  BY LogDataConstants, Zenon DEF Callers
<1>0. Len(names) \in Nat
  BY DEF LogDataInv, LogDataTypeOK
<1>1. ASSUME NEW k \in AllKeys, NEW v \in LogVals, log_data_write(t, k, v)
      PROVE  LogDataInv'
  BY <1>1 DEF log_data_write, Move, LogDataInv, LogDataTypeOK, Searching, Copying
<1>2. CASE Enter(t)
  <2>1. log_data_sem = Nobody /\ \A u \in Writers : pc[u] # "find"
    BY <1>2, LogDataConstants, Zenon DEF Enter, Take, LogDataInv, Searching
  <2>2. pc[Sender] # "copy"
    BY <2>1, LogDataConstants, Zenon DEF LogDataInv, Copying
  <2> QED
    BY <1>0, <1>2, <2>1, <2>2
    DEF Enter, Take, Move, LogDataInv, LogDataTypeOK, Searching, Copying
<1>3. CASE Search(t)
  BY <1>0, <1>3 DEF Search, LogDataInv, LogDataTypeOK, Searching, Copying
<1> QED
  BY <1>1, <1>2, <1>3, Zenon

\* A write that is refused leaves the table alone, and keeps the semaphore.
LEMMA RefuseKeepsInv ==
  ASSUME LogDataInv, NEW t \in Writers, Refuse(t)
  PROVE  LogDataInv'
<1> t \in Callers /\ Sender \in Callers /\ t # Sender /\ Writers \subseteq Callers
  BY LogDataConstants, Zenon DEF Callers
<1> QED
  BY Zenon DEF Refuse, Return, LogDataInv, LogDataTypeOK, Searching, Copying

\* A write that is stored: nobody else is in the table, a new name is one the
\* search did not find, and there is room for it.
LEMMA StoreKeepsInv ==
  ASSUME LogDataInv, NEW t \in Writers, Store(t)
  PROVE  LogDataInv'
<1> t \in Callers /\ Sender \in Callers /\ t # Sender /\ Writers \subseteq Callers
  BY LogDataConstants, Zenon DEF Callers
<1>1. /\ pc[t] = "find" /\ log_data_sem = t
      /\ idx[t] \in 1 .. Len(names) + 1
      /\ key[t] \in AllKeys /\ key[t] \notin LongKeys
      /\ value[t] \in LogVals
      /\ \A i \in 1 .. idx[t] - 1 : names[i] # key[t]
      /\ idx[t] # UCHAR_MAX + 1
  BY Zenon DEF Store, Found, Refused, LogDataInv, Searching
<1>2. key[t] \in Keys
  BY <1>1, Zenon DEF AllKeys
<1>3. pc[Sender] # "copy" /\ \A u \in Writers : u # t => pc[u] # "find"
  BY <1>1, Zenon DEF LogDataInv, Searching, Copying
<1>4. names \in Seq(Keys) /\ values \in Seq(LogVals) /\ Len(values) = Len(names) /\ Len(names) \in Nat
      /\ Len(names) <= UCHAR_MAX /\ \A i, j \in 1 .. Len(names) : names[i] = names[j] => i = j
  BY DEF LogDataInv, LogDataTypeOK
<1>5. /\ names' \in Seq(Keys) /\ values' \in Seq(LogVals)
      /\ Len(values') = Len(names') /\ Len(names') <= UCHAR_MAX
      /\ \A i, j \in 1 .. Len(names') : names'[i] = names'[j] => i = j
  <2>1. CASE idx[t] > Len(names)
    <3>1. idx[t] = Len(names) + 1 /\ Len(names) < UCHAR_MAX
      BY <1>1, <1>4, <2>1, LogDataConstants
    <3>2. names' = Append(names, key[t]) /\ values' = Append(values, value[t])
      BY <2>1, Zenon DEF Store
    <3> QED
      BY <1>1, <1>2, <1>4, <3>1, <3>2, LogDataConstants
  <2>2. CASE ~(idx[t] > Len(names))
    <3>1. idx[t] \in 1 .. Len(values)
      BY <1>1, <1>4, <2>2
    <3>2. names' = names /\ values' = [values EXCEPT ![idx[t]] = value[t]]
      BY <2>2, Zenon DEF Store
    <3>3. values' \in Seq(LogVals) /\ Len(values') = Len(values)
      BY <1>1, <1>4, <3>1, <3>2, ExceptSeq
    <3> QED
      BY <1>4, <3>2, <3>3, Zenon
  <2> QED
    BY <2>1, <2>2, Zenon
<1>6. /\ pc' = [pc EXCEPT ![t] = "idle"] /\ idx' = [idx EXCEPT ![t] = 0] /\ copy' = copy
      /\ key' = [key EXCEPT ![t] = NoKey] /\ value' = [value EXCEPT ![t] = NoKey]
  BY Zenon DEF Store, Return
<1>7. LogDataTypeOK'
  BY <1>5, <1>6, Zenon DEF LogDataInv, LogDataTypeOK
<1>8. pc'[Sender] # "copy" /\ \A u \in Writers : pc'[u] # "find"
  BY <1>3, <1>6, Zenon DEF LogDataInv, LogDataTypeOK
<1>9. \A u \in Writers : /\ pc'[u] \in {"idle", "wait", "find"}
                         /\ pc'[u] = "wait" => key'[u] \in AllKeys /\ value'[u] \in LogVals
  BY <1>6, Zenon DEF LogDataInv, LogDataTypeOK
<1> QED
  BY <1>5, <1>7, <1>8, <1>9, Zenon DEF LogDataInv, Searching, Copying

\* log_data_read preserves the invariant: no writer is in the table meanwhile.
LEMMA ReadKeepsInv ==
  ASSUME LogDataInv, NetStep
  PROVE  LogDataInv'
<1> Sender \in Callers /\ Sender \notin Writers /\ Writers \subseteq Callers
  BY LogDataConstants, Zenon DEF Callers
<1>0. Len(names) \in Nat /\ Len(copy) \in Nat
  BY DEF LogDataInv, LogDataTypeOK
<1>1. CASE log_data_read
  <2>1. \A u \in Writers : pc[u] # "find"
    BY <1>1, LogDataConstants, Zenon DEF log_data_read, Take, LogDataInv, Searching
  <2>2. copy' \in Seq(Keys \X LogVals) /\ Len(copy') = 0
    BY <1>1 DEF log_data_read
  <2> QED
    BY <1>0, <1>1, <2>1, <2>2
    DEF log_data_read, Take, Move, LogDataInv, LogDataTypeOK, Searching, Copying
<1>2. CASE CopyEntry
  <2> DEFINE e == <<names[Len(copy) + 1], values[Len(copy) + 1]>>
  <2>1. Len(copy) + 1 \in 1 .. Len(names) /\ Len(copy) + 1 \in 1 .. Len(values)
    BY <1>0, <1>2 DEF CopyEntry, LogDataInv
  <2>2. e \in Keys \X LogVals
    BY <2>1 DEF LogDataInv, LogDataTypeOK
  <2>3. copy' = Append(copy, e)
    BY <1>2, Zenon DEF CopyEntry
  <2>4. copy \in Seq(Keys \X LogVals)
    BY Zenon DEF LogDataInv, LogDataTypeOK
  <2> HIDE DEF e
  <2>5. /\ copy' \in Seq(Keys \X LogVals) /\ Len(copy') = Len(copy) + 1
        /\ copy'[Len(copy) + 1] = e
        /\ \A i \in 1 .. Len(copy) : copy'[i] = copy[i]
    BY <2>2, <2>3, <2>4
  <2>6. UNCHANGED <<log_data_sem, names, values, pc, key, value, idx>> /\ pc[Sender] = "copy"
    BY <1>2, Zenon DEF CopyEntry
  <2>7. Copying'
    <3>1. \A i \in 1 .. Len(copy') : copy'[i] = <<names[i], values[i]>>
      BY <1>0, <2>5, <2>6 DEF e, LogDataInv, Copying
    <3> QED
      BY <1>0, <2>1, <2>5, <2>6, <3>1 DEF LogDataInv, Copying
  <2> QED
    BY <2>5, <2>6, <2>7, Zenon DEF LogDataInv, LogDataTypeOK, Searching
<1>3. CASE EndRead
  <2>1. \A u \in Writers : pc[u] # "find"
    BY <1>3, LogDataConstants, Zenon DEF EndRead, Move, LogDataInv, Searching, Copying
  <2>2. copy' \in Seq(Keys \X LogVals)
    BY <1>3 DEF EndRead
  <2> QED
    BY <1>3, <2>1, <2>2, Zenon DEF EndRead, Move, LogDataInv, LogDataTypeOK, Searching, Copying
<1>4. CASE Sendto
  BY <1>4, Zenon DEF Sendto, Move, LogDataInv, LogDataTypeOK, Searching, Copying
<1> QED
  BY <1>1, <1>2, <1>3, <1>4, Zenon DEF NetStep

\* The end of the child preserves it: no writer is left in its search.
LEMMA EndKeepsLogDataInv ==
  ASSUME LogDataInv, EndWriters
  PROVE  LogDataInv'
<1> Sender \in Callers /\ Sender \notin Writers /\ Writers \subseteq Callers
  BY LogDataConstants, Zenon DEF Callers
<1>1. pc' \in [Callers -> {"idle", "wait", "find", "copy", "send"}] /\ pc'[Sender] = pc[Sender]
  BY Zenon DEF EndWriters, LogDataInv, LogDataTypeOK
<1>2. \A t \in Writers : pc'[t] = "idle"
  BY Zenon DEF EndWriters
<1>3. idx' \in [Callers -> Nat]
  BY DEF EndWriters
<1>4. key' \in [Writers -> AllKeys \union {NoKey}] /\ value' \in [Writers -> LogVals \union {NoKey}]
  BY Zenon DEF EndWriters
<1>5. UNCHANGED <<log_data_sem, names, values, copy>>
  BY Zenon DEF EndWriters
<1>6. LogDataTypeOK'
  BY <1>1, <1>3, <1>4, <1>5, Zenon DEF LogDataInv, LogDataTypeOK
<1>7. Copying'
  BY <1>1, <1>5, Zenon DEF LogDataInv, Copying
<1>8. \A t \in Writers : pc'[t] \in {"idle", "wait", "find"} /\ Searching(t)'
  BY <1>2, Zenon DEF Searching
<1>9. \A t \in Writers : pc'[t] # "wait"
  BY <1>2, Zenon
<1> QED
  BY <1>5, <1>6, <1>7, <1>8, <1>9, Zenon DEF LogDataInv

\* The semaphore keeps the invariant for ever, also when a refused write or the
\* end of a child loses it.
THEOREM LogDataInvariant == GSpec => []LogDataInv
<1>1. LogDataInv /\ [GNext]_gvars => LogDataInv'
  <2>1. ASSUME LogDataInv, UNCHANGED gvars PROVE LogDataInv'
    BY <2>1, Zenon DEF gvars, LogDataInv, LogDataTypeOK, Searching, Copying
  <2> QED
    BY <2>1, SearchKeepsInv, RefuseKeepsInv, StoreKeepsInv, EndKeepsLogDataInv, ReadKeepsInv, Zenon
    DEF GNext, WriterStep
<1> QED
  BY <1>1, LogDataStart, PTL DEF GSpec

\* What net_handler copies is the table as it stands, without a key twice and
\* within its capacity, however many threads log at once and wherever a child ends.
THEOREM CopiesAreWhole == GSpec => []CopyIsTable
<1>1. LogDataInv => CopyIsTable
  <2> SUFFICES ASSUME LogDataInv PROVE CopyIsTable
    BY Zenon
  <2>1. DOMAIN names = 1 .. Len(names) /\ DOMAIN copy = 1 .. Len(copy)
        /\ Len(names) \in Nat /\ Len(copy) \in Nat
    BY DEF LogDataInv, LogDataTypeOK
  <2> QED
    BY <2>1 DEF LogDataInv, Copying, CopyIsTable, IsInjective
<1> QED
  BY <1>1, LogDataInvariant, PTL
=============================================================================
