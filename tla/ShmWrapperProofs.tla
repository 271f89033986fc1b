--------------------------- MODULE ShmWrapperProofs ---------------------------
(***************************************************************************)
(* Theorems about ShmWrapper, for any number of slots, threads, devices,   *)
(* parameters and values.                                                  *)
(***************************************************************************)
EXTENDS ShmWrapper, TLAPS

USE DEF Ix, NoIx

IInv == ShmTypeOK /\ SemsMatchPosition

\* The block has a first slot, and -1 is not an index.
LEMMA ZeroIsIndex == 0 \in Ix /\ NoIx \notin Ix
  BY ShmConstants

\* The block shm_start leaves behind satisfies the invariant.
LEMMA InitIInv == WInit => IInv
<1> SUFFICES ASSUME WInit PROVE IInv
  BY Zenon
<1> USE ShmConstants DEF WInit, Init
<1>1. ShmTypeOK
  BY Zenon DEF ShmTypeOK, Rows, Zeroes, Streams, Subscribers, Calls, Kinds, NoWord, Sems
<1>2. SemsMatchPosition
  BY ShmWrapperConstants, Zenon DEF SemsMatchPosition, ControlOK, Holds, TouchesCmdMap, Helper
<1> QED
  BY <1>1, <1>2, Zenon DEF IInv

-----------------------------------------------------------------------------
(* Types. *)

\* The checks that open a call of the API keep the types.
LEMMA InvokeType ==
  ASSUME ShmTypeOK, NEW t \in Threads, Invoke(t)
  PROVE  ShmTypeOK'
<1> USE ShmConstants, ShmWrapperConstants
    DEF ShmTypeOK, Start, vars, shm, locals, history, Rows, Kinds, Calls, Streams
<1>1. ASSUME NEW u \in Uids, device_connect(t, u) PROVE ShmTypeOK'
  BY <1>1, Zenon DEF device_connect
<1>2. ASSUME device_disconnect(t) PROVE ShmTypeOK'
  BY <1>2, Zenon DEF device_disconnect
<1>3. ASSUME device_read(t) PROVE ShmTypeOK'
  BY <1>3, Zenon DEF device_read, Zeroes, NoWord
<1>4. ASSUME NEW P \in Masks["DATA"], NEW row \in Writes, device_write(t, P, row)
      PROVE  ShmTypeOK'
  BY <1>4 DEF device_write
<1>5. ASSUME get_cmd_map(t) PROVE ShmTypeOK'
  BY <1>5, Zenon DEF get_cmd_map
<1>6. ASSUME get_sub_requests(t) PROVE ShmTypeOK'
  BY <1>6, Zenon DEF get_sub_requests
<1>7. ASSUME NEW u \in Uids, NEW P \in SUBSET Params, NEW row \in Rows,
             NEW c \in Calls, NEW k \in Kinds, NEW s \in Streams,
             ByUid(t, c, k, u, s, P, row)
      PROVE  ShmTypeOK'
  <2>1. get_dev_ix_from_uid(u) \in Ix \union {NoIx}
    BY DEF get_dev_ix_from_uid
  <2> QED
    BY <1>7, <2>1, Zenon DEF ByUid
<1>8. Zeroes \in Rows
  BY Zenon DEF Zeroes
<1> QED
  BY <1>1, <1>2, <1>3, <1>4, <1>5, <1>6, <1>7, <1>8, ZenonT(30)
  DEF Invoke, device_read_uid, device_write_uid, place_sub_request

\* The union of both subscribers' words is a set of parameters.
LEMMA WantedType ==
  ASSUME sub_map \in [Subscribers -> [Ix -> SUBSET Params]], NEW ix \in Ix
  PROVE  Wanted(ix) \in SUBSET Params
<1>1. /\ sub_map["NET_HANDLER"] \in [Ix -> SUBSET Params]
      /\ sub_map["EXECUTOR"] \in [Ix -> SUBSET Params]
  BY Zenon DEF Subscribers
<1> QED
  BY <1>1, Zenon DEF Wanted

\* One turn of the copy loop of a helper keeps the types.
LEMMA CopyParamType ==
  ASSUME params \in [Streams -> [Ix -> Rows]], buf \in [Threads -> Rows],
         todo \in [Threads -> SUBSET Params], stream \in [Threads -> Streams],
         NEW t \in Threads, dev_ix[t] \in Ix, CopyParam(t)
  PROVE  /\ params' \in [Streams -> [Ix -> Rows]]
         /\ buf' \in [Threads -> Rows]
         /\ todo' \in [Threads -> SUBSET Params]
<1> DEFINE s == stream[t]
           ix == dev_ix[t]
<1>1. PICK p \in todo[t] :
        /\ todo' = [todo EXCEPT ![t] = @ \ {p}]
        /\ IF call[t] = "device_write"
           THEN /\ params' = [params EXCEPT ![s][ix][p] = buf[t][p]]
                /\ buf' = buf
           ELSE /\ buf' = [buf EXCEPT ![t][p] = params[s][ix][p]]
                /\ params' = params
  BY Zenon DEF CopyParam
<1>2. s \in Streams /\ ix \in Ix /\ p \in Params
  BY <1>1, Zenon
<1>3. params[s][ix] \in Rows /\ buf[t] \in Rows
  BY <1>2, Zenon
<1>4. params[s][ix][p] \in Vals /\ buf[t][p] \in Vals
  BY <1>2, <1>3, Zenon DEF Rows
<1>5. /\ [params[s][ix] EXCEPT ![p] = buf[t][p]] \in Rows
      /\ [buf[t] EXCEPT ![p] = params[s][ix][p]] \in Rows
  BY <1>3, <1>4, Zenon DEF Rows
<1>6. params' \in [Streams -> [Ix -> Rows]]
  <2> DEFINE row == [params[s][ix] EXCEPT ![p] = buf[t][p]]
             blk == [params[s] EXCEPT ![ix] = row]
  <2>1. row \in Rows
    BY <1>5, Zenon
  <2> HIDE DEF row
  <2>2. blk \in [Ix -> Rows]
    BY <1>2, <2>1, Zenon
  <2> HIDE DEF blk
  <2>3. [params EXCEPT ![s] = blk] \in [Streams -> [Ix -> Rows]]
    BY <1>2, <2>2, Zenon
  <2> QED
    BY <1>1, <2>3, Zenon DEF row, blk
<1>7. buf' \in [Threads -> Rows]
  BY <1>1, <1>2, <1>5, Zenon
<1> QED
  BY <1>1, <1>6, <1>7, Zenon

\* Setting and clearing bits of cmd_map keeps its types.
LEMMA CmdMapType ==
  ASSUME cmd_changed \subseteq Ix, cmd_map \in [Ix -> SUBSET Params],
         bits \in [Threads -> SUBSET Params],
         NEW t \in Threads, dev_ix[t] \in Ix, ReadBody(t) \/ WriteBody(t)
  PROVE  cmd_changed' \subseteq Ix /\ cmd_map' \in [Ix -> SUBSET Params]
<1> bits[t] \in SUBSET Params /\ cmd_map[dev_ix[t]] \in SUBSET Params
  BY Zenon
<1>1. CASE ReadBody(t)
  BY <1>1, Zenon DEF ReadBody
<1>2. CASE WriteBody(t)
  BY <1>2, Zenon DEF WriteBody
<1> QED
  BY <1>1, <1>2, Zenon

\* Every step of a call keeps the types.
LEMMA StepType ==
  ASSUME IInv, NEW t \in Threads, Step(t)
  PROVE  ShmTypeOK'
<1> USE ShmConstants, ShmWrapperConstants
    DEF IInv, ShmTypeOK, vars, shm, locals, history
<1>0. ControlOK(t) /\ Zeroes \in Rows
  BY Zenon DEF SemsMatchPosition, Zeroes, Rows
<1>1. CASE my_sem_wait(t)
  <2>1. pc[t] \in Kinds => AfterWait(call[t], pc[t]) \in Kinds \union {"find", "copy", "body"}
    BY <1>0, Zenon DEF AfterWait, Kinds, ControlOK, Helper
  <2>2. call[t] = "device_write" /\ pc[t] = StreamSem(stream[t]) /\ pc[t] \in Kinds
          => params[stream[t]][dev_ix[t]] \in Rows
    BY <1>0 DEF ControlOK, StreamSem
  <2> QED
    BY <1>1, <2>1, <2>2, Zenon DEF my_sem_wait
<1>2. CASE FindIx(t)
  BY <1>2 DEF FindIx, Kinds
<1>3. ASSUME NEW S, PostAndReturn(t, S)
      PROVE  /\ sem' \in [Sems -> Threads \union {NoOne}]
             /\ pc' \in [Threads -> Kinds \union {"idle", "find", "copy", "body"}]
             /\ call' \in [Threads -> Calls]
             /\ stream' \in [Threads -> Streams]
             /\ bits' \in [Threads -> SUBSET Params]
             /\ buf' \in [Threads -> Rows]
             /\ todo' \in [Threads -> SUBSET Params]
             /\ old' \in [Threads -> Rows]
  BY <1>0, <1>3, Zenon DEF PostAndReturn, Calls, Streams
<1>4. ASSUME DropIndex(t)
      PROVE  /\ dev_ix' \in [Threads -> Ix \union {NoIx}]
             /\ uid' \in [Threads -> Uids \union {NoDev}]
  BY <1>4, Zenon DEF DropIndex
<1>5. CASE RefuseConnect(t)
  BY <1>3, <1>5, Zenon DEF RefuseConnect
<1>6. CASE CopyParam(t)
  <2>1. dev_ix[t] \in Ix
    BY <1>0, <1>6, Zenon DEF ControlOK, CopyParam, Helper
  <2>2. /\ params' \in [Streams -> [Ix -> Rows]]
        /\ buf' \in [Threads -> Rows]
        /\ todo' \in [Threads -> SUBSET Params]
    BY <1>6, <2>1, CopyParamType, Zenon
  <2> QED
    BY <1>6, <2>2, Zenon DEF CopyParam
<1>7. CASE EndCopy(t)
  BY <1>7, Zenon DEF EndCopy, Kinds
<1>8. CASE ConnectBody(t)
  <2>1. dev_ix[t] \in Ix
    BY <1>0, <1>8, Zenon DEF ConnectBody, At, ControlOK
  <2> QED
    BY <1>0, <1>3, <1>8, <2>1, Zenon DEF ConnectBody, Subscribers
<1>9. CASE DisconnectBody(t)
  BY <1>3, <1>9, Zenon DEF DisconnectBody, NoWord
<1>10. CASE ReadBody(t)
  <2>1. dev_ix[t] \in Ix
    BY <1>0, <1>10, Zenon DEF ReadBody, At, ControlOK
  <2>2. cmd_changed' \subseteq Ix /\ cmd_map' \in [Ix -> SUBSET Params]
    BY <1>10, <2>1, CmdMapType, Zenon
  <2> QED
    BY <1>3, <1>4, <1>10, <2>2, Zenon DEF ReadBody
<1>11. CASE WriteBody(t)
  <2>1. dev_ix[t] \in Ix
    BY <1>0, <1>11, Zenon DEF WriteBody, At, ControlOK
  <2>2. cmd_changed' \subseteq Ix /\ cmd_map' \in [Ix -> SUBSET Params]
    BY <1>11, <2>1, CmdMapType, Zenon
  <2> QED
    BY <1>3, <1>4, <1>11, <2>2, Zenon DEF WriteBody
<1>12. CASE PlaceSubBody(t)
  <2>1. dev_ix[t] \in Ix
    BY <1>0, <1>12, Zenon DEF PlaceSubBody, At, ControlOK
  <2> QED
    BY <1>3, <1>4, <1>12, <2>1, ZenonT(30) DEF PlaceSubBody, Subscribers
<1>13. CASE GetSubBody(t)
  <2>1. \A ix \in Ix : Wanted(ix) \in SUBSET Params
    BY WantedType, Zenon
  <2>2. told' \in [Ix -> SUBSET Params]
    BY <1>13, <2>1, Zenon DEF GetSubBody
  <2> QED
    BY <1>3, <1>13, <2>2, Zenon DEF GetSubBody
<1>14. CASE GetCmdMapBody(t)
  <2>1. dev_ix[t] \in Ix
    BY <1>0, <1>14, Zenon DEF GetCmdMapBody, At, ControlOK
  <2> QED
    BY <1>3, <1>14, <2>1, SMTT(30) DEF GetCmdMapBody, NoWord
<1> QED
  BY <1>1, <1>2, <1>5, <1>6, <1>7, <1>8, <1>9, <1>10, <1>11, <1>12, <1>13, <1>14, Zenon DEF Step

-----------------------------------------------------------------------------
(* Positions and semaphores. *)

\* A step of t leaves the position of another thread as it was.
LEMMA OthersKeepPosition ==
  ASSUME NEW r \in Threads, pc'[r] = pc[r], call'[r] = call[r],
         stream'[r] = stream[r], dev_ix'[r] = dev_ix[r]
  PROVE  /\ ControlOK(r)' <=> ControlOK(r)
         /\ \A s : Holds(r, s)' <=> Holds(r, s)
  BY DEF ControlOK, Holds, Helper, Whole, TouchesCmdMap, StreamSem

\* A thread outside the API holds no semaphore.
LEMMA IdleHoldsNothing ==
  ASSUME NEW t \in Threads, pc[t] = "idle", NEW s
  PROVE  ~Holds(t, s)
  BY Zenon DEF Holds

\* A call that starts stands at the sem_wait its function begins with.
LEMMA StartPosition ==
  ASSUME IInv, NEW t \in Threads, NEW c \in Calls, NEW k \in Kinds,
         Start(t, c, k),
         \A r \in Threads \ {t} : stream'[r] = stream[r] /\ dev_ix'[r] = dev_ix[r],
         \/ c = "device_connect" /\ k = "catalog"
         \/ /\ dev_ix'[t] \in Ix
            /\ \/ c = "device_disconnect" /\ k = "catalog"
               \/ c \in {"device_read", "device_write"} /\ k = StreamSem(stream'[t])
               \/ c \in {"place_sub_request", "get_sub_requests"} /\ k = "sub_map"
               \/ c = "get_cmd_map" /\ k = "cmd_map"
  PROVE  SemsMatchPosition'
<1> SUFFICES ASSUME NEW r \in Threads
             PROVE  /\ ControlOK(r)'
                    /\ \A s \in Sems : sem'[s] = r <=> Holds(r, s)'
  BY Zenon DEF SemsMatchPosition
<1>1. CASE r # t
  BY <1>1, OthersKeepPosition DEF IInv, SemsMatchPosition, ShmTypeOK, Start
<1>2. CASE r = t
  <2>1. pc[t] = "idle" /\ pc'[t] = k /\ call'[t] = c /\ sem' = sem
    BY Zenon DEF Start, IInv, ShmTypeOK
  <2>2. ControlOK(t)'
    BY <2>1, Zenon DEF ControlOK, Helper, StreamSem
  <2>3. \A s \in Sems : sem[s] # t
    BY <2>1, IdleHoldsNothing, Zenon DEF IInv, SemsMatchPosition
  <2>4. \A s \in Sems : ~Holds(t, s)'
    BY <2>1, Zenon DEF Holds, Whole, Helper, StreamSem, Kinds
  <2> QED
    BY <1>2, <2>1, <2>2, <2>3, <2>4, Zenon
<1> QED
  BY <1>1, <1>2, Zenon

\* A call that posts all it holds and returns leaves the others alone.
LEMMA ReturnPosition ==
  ASSUME IInv, NEW t \in Threads, NEW S, PostAndReturn(t, S),
         \A s \in Sems : s \in S <=> Holds(t, s),
         \A r \in Threads \ {t} : dev_ix'[r] = dev_ix[r]
  PROVE  SemsMatchPosition'
<1> SUFFICES ASSUME NEW r \in Threads
             PROVE  /\ ControlOK(r)'
                    /\ \A s \in Sems : sem'[s] = r <=> Holds(r, s)'
  BY Zenon DEF SemsMatchPosition
<1>1. \A s \in Sems : sem'[s] = IF sem[s] = t THEN NoOne ELSE sem[s]
  BY Zenon DEF PostAndReturn, IInv, SemsMatchPosition
<1>2. CASE r # t
  <2>1. pc'[r] = pc[r] /\ call'[r] = call[r] /\ stream'[r] = stream[r]
    BY <1>2, Zenon DEF PostAndReturn, IInv, ShmTypeOK
  <2> QED
    BY <1>1, <1>2, <2>1, OthersKeepPosition, ShmWrapperConstants
    DEF IInv, SemsMatchPosition
<1>3. CASE r = t
  <2>1. pc'[t] = "idle"
    BY Zenon DEF PostAndReturn, IInv, ShmTypeOK
  <2>2. ControlOK(t)' /\ \A s \in Sems : ~Holds(t, s)'
    BY <2>1, Zenon DEF ControlOK, Holds
  <2> QED
    BY <1>1, <1>3, <2>2, ShmWrapperConstants, Zenon
<1> QED
  BY <1>2, <1>3, Zenon

\* The same for each function of the API.
LEMMA InvokePosition ==
  ASSUME IInv, NEW t \in Threads, Invoke(t)
  PROVE  SemsMatchPosition'
<1> USE DEF locals
<1>0. /\ dev_ix \in [Threads -> Ix \union {NoIx}]
      /\ stream \in [Threads -> Streams]
  BY Zenon DEF IInv, ShmTypeOK
<1>1. ASSUME NEW u \in Uids, device_connect(t, u) PROVE SemsMatchPosition'
  BY <1>1, StartPosition, Zenon DEF device_connect, Calls, Kinds
<1>2. ASSUME device_disconnect(t) PROVE SemsMatchPosition'
  BY <1>0, <1>2, StartPosition, Zenon DEF device_disconnect, Calls, Kinds
<1>3. ASSUME device_read(t) PROVE SemsMatchPosition'
  <2>1. dev_ix'[t] \in Ix /\ stream'[t] = "COMMAND"
    BY <1>0, <1>3, Zenon DEF device_read, IInv, ShmTypeOK
  <2> QED
    BY <1>0, <1>3, <2>1, StartPosition, Zenon DEF device_read, Calls, Kinds, StreamSem
<1>4. ASSUME NEW P \in Masks["DATA"], NEW row \in Writes, device_write(t, P, row)
      PROVE  SemsMatchPosition'
  <2>1. dev_ix'[t] \in Ix /\ stream'[t] = "DATA"
    BY <1>0, <1>4, Zenon DEF device_write, IInv, ShmTypeOK
  <2> QED
    BY <1>0, <1>4, <2>1, StartPosition, Zenon DEF device_write, Calls, Kinds, StreamSem
<1>5. ASSUME get_cmd_map(t) PROVE SemsMatchPosition'
  BY <1>0, <1>5, StartPosition, Zenon DEF get_cmd_map, Calls, Kinds
<1>6. ASSUME get_sub_requests(t) PROVE SemsMatchPosition'
  BY <1>0, <1>6, StartPosition, Zenon DEF get_sub_requests, Calls, Kinds
<1>7. ASSUME NEW u \in Uids, NEW P, NEW row, NEW c \in Calls, NEW k \in Kinds,
             NEW s \in Streams, ByUid(t, c, k, u, s, P, row),
             \/ c \in {"device_read", "device_write"} /\ k = StreamSem(s)
             \/ c = "place_sub_request" /\ k = "sub_map"
      PROVE  SemsMatchPosition'
  <2>1. get_dev_ix_from_uid(u) # NoIx => get_dev_ix_from_uid(u) \in Ix
    BY DEF get_dev_ix_from_uid
  <2>2. dev_ix'[t] \in Ix /\ stream'[t] = s
    BY <1>0, <1>7, <2>1, Zenon DEF ByUid
  <2>3. /\ Start(t, c, k)
        /\ \A r \in Threads \ {t} : stream'[r] = stream[r] /\ dev_ix'[r] = dev_ix[r]
    BY <1>0, <1>7, Zenon DEF ByUid
  <2> QED
    BY <1>7, <2>2, <2>3, StartPosition, Zenon
<1> QED
  BY <1>1, <1>2, <1>3, <1>4, <1>5, <1>6, <1>7, Zenon
  DEF Invoke, device_read_uid, device_write_uid, place_sub_request,
      Calls, Kinds, Streams, StreamSem

\* my_sem_wait gives the semaphore to the one thread that waited for it.
LEMMA WaitPosition ==
  ASSUME IInv, NEW t \in Threads, my_sem_wait(t)
  PROVE  SemsMatchPosition'
<1> SUFFICES ASSUME NEW r \in Threads
             PROVE  /\ ControlOK(r)'
                    /\ \A s \in Sems : sem'[s] = r <=> Holds(r, s)'
  BY Zenon DEF SemsMatchPosition
<1> DEFINE w == SemAt(pc[t], dev_ix[t])
<1>1. /\ pc[t] \in Kinds /\ sem[w] = NoOne
      /\ sem' = [sem EXCEPT ![w] = t]
      /\ pc' = [pc EXCEPT ![t] = AfterWait(call[t], pc[t])]
      /\ call' = call /\ stream' = stream /\ dev_ix' = dev_ix
  BY Zenon DEF my_sem_wait, locals
<1>2. /\ sem \in [Sems -> Threads \union {NoOne}]
      /\ pc \in [Threads -> Kinds \union {"idle", "find", "copy", "body"}]
      /\ stream[t] \in Streams
  BY Zenon DEF IInv, ShmTypeOK
<1>3. ControlOK(t) /\ \A s \in Sems : sem[s] = t <=> Holds(t, s)
  BY Zenon DEF IInv, SemsMatchPosition
<1>4. CASE r # t
  <2>1. \A s \in Sems : sem'[s] = r <=> sem[s] = r
    BY <1>1, <1>2, <1>4, ShmWrapperConstants, Zenon
  <2> QED
    BY <1>1, <1>2, <1>4, <2>1, OthersKeepPosition, Zenon DEF IInv, SemsMatchPosition
<1>5. CASE r = t
  <2>1. w \in Sems
    BY <1>1, <1>3, ZeroIsIndex, Zenon DEF SemAt, Sems, Kinds, ControlOK
  <2>2. pc'[t] = AfterWait(call[t], pc[t])
    BY <1>1, <1>2, Zenon
  <2>3. ControlOK(t)'
    BY <1>1, <1>3, <2>2, ZeroIsIndex, SMTT(30) DEF ControlOK, AfterWait, Helper, Kinds, TouchesCmdMap
  <2>4. \A s \in Sems : Holds(t, s)' <=> Holds(t, s) \/ s = w
    BY <1>1, <1>2, <1>3, <2>2, SMTT(30)
    DEF ControlOK, AfterWait, Helper, Whole, Kinds, Holds, TouchesCmdMap, SemAt,
        StreamSem, Streams, Sems
  <2> QED
    BY <1>1, <1>2, <1>3, <1>5, <2>1, <2>3, <2>4, ShmWrapperConstants, Zenon
<1> QED
  BY <1>4, <1>5, Zenon

\* Every step of a call keeps positions and semaphores in agreement.
LEMMA StepPosition ==
  ASSUME IInv, NEW t \in Threads, Step(t)
  PROVE  SemsMatchPosition'
<1>0. /\ ControlOK(t)
      /\ dev_ix \in [Threads -> Ix \union {NoIx}]
      /\ stream[t] \in Streams
      /\ pc \in [Threads -> Kinds \union {"idle", "find", "copy", "body"}]
  BY Zenon DEF IInv, ShmTypeOK, SemsMatchPosition
<1>1. CASE my_sem_wait(t)
  BY <1>1, WaitPosition, Zenon
<1>2. CASE FindIx(t)
  <2>1. dev_ix'[t] \in Ix /\ pc'[t] = "data" /\ call[t] = "device_connect"
    BY <1>0, <1>2, Zenon DEF FindIx, ControlOK
  <2>2. ControlOK(t)'
    BY <1>2, <2>1, Zenon DEF ControlOK, FindIx
  <2>3. \A s \in Sems : Holds(t, s)' <=> Holds(t, s)
    BY <1>2, <2>1, Zenon DEF Holds, FindIx, Whole, Helper, TouchesCmdMap
  <2> QED
    BY <1>0, <1>2, <2>2, <2>3, OthersKeepPosition DEF FindIx, IInv, SemsMatchPosition
<1>3. CASE RefuseConnect(t)
  <2>1. \A s \in Sems : s \in {<<"catalog", 0>>} <=> Holds(t, s)
    BY <1>0, <1>3, Zenon DEF RefuseConnect, Holds, ControlOK, Whole, Helper, TouchesCmdMap
  <2> QED
    BY <1>3, <2>1, ReturnPosition, Zenon DEF RefuseConnect
<1>4. CASE CopyParam(t)
  BY <1>4, OthersKeepPosition, Zenon DEF CopyParam, IInv, SemsMatchPosition
<1>5. CASE EndCopy(t)
  <2>1. /\ pc[t] = "copy" /\ Helper(t) /\ dev_ix[t] \in Ix
        /\ pc'[t] = IF TouchesCmdMap(t) THEN "cmd_map" ELSE "body"
        /\ UNCHANGED <<sem, call, stream, dev_ix>>
    BY <1>0, <1>5, Zenon DEF EndCopy, ControlOK, locals, Helper
  <2>2. ControlOK(t)'
    BY <2>1, Zenon DEF ControlOK, Helper, TouchesCmdMap
  <2>3. \A s \in Sems : Holds(t, s)' <=> Holds(t, s)
    BY <1>0, <2>1, Zenon DEF Holds, Whole, Helper, TouchesCmdMap, Streams
  <2> QED
    BY <1>0, <1>5, <2>1, <2>2, <2>3, OthersKeepPosition DEF EndCopy, IInv, SemsMatchPosition
<1>6. CASE ConnectBody(t)
  <2> DEFINE S == {<<"sub_map", 0>>, <<"data", dev_ix[t]>>,
                   <<"command", dev_ix[t]>>, <<"catalog", 0>>}
  <2>1. \A s \in Sems : s \in S <=> Holds(t, s)
    BY <1>6, Zenon DEF ConnectBody, At, Holds, Whole, Helper, TouchesCmdMap
  <2> QED
    BY <1>6, <2>1, ReturnPosition, Zenon DEF ConnectBody
<1>7. CASE DisconnectBody(t)
  <2> DEFINE S == {<<"cmd_map", 0>>, <<"data", dev_ix[t]>>,
                   <<"command", dev_ix[t]>>, <<"catalog", 0>>}
  <2>1. \A s \in Sems : s \in S <=> Holds(t, s)
    BY <1>7, Zenon DEF DisconnectBody, At, Holds, Whole, Helper, TouchesCmdMap
  <2> QED
    BY <1>0, <1>7, <2>1, ReturnPosition, Zenon DEF DisconnectBody
<1>8. ASSUME pc[t] = "body", Helper(t)
      PROVE  \A s \in Sems : s \in HelperPosts(t) <=> Holds(t, s)
  BY <1>0, <1>8, Zenon DEF HelperPosts, Holds, Whole, Helper, TouchesCmdMap, StreamSem, Streams
<1>9. CASE ReadBody(t)
  BY <1>0, <1>8, <1>9, ReturnPosition, Zenon DEF ReadBody, At, Helper, DropIndex
<1>10. CASE WriteBody(t)
  BY <1>0, <1>8, <1>10, ReturnPosition, Zenon DEF WriteBody, At, Helper, DropIndex
<1>11. ASSUME pc[t] = "body", call[t] \in {"place_sub_request", "get_sub_requests"}
       PROVE  \A s \in Sems : s \in {<<"sub_map", 0>>} <=> Holds(t, s)
  BY <1>11, Zenon DEF Holds, Whole, Helper, TouchesCmdMap
<1>12. CASE PlaceSubBody(t)
  BY <1>0, <1>11, <1>12, ReturnPosition, Zenon DEF PlaceSubBody, At, DropIndex
<1>13. CASE GetSubBody(t)
  BY <1>11, <1>13, ReturnPosition, Zenon DEF GetSubBody, At
<1>14. CASE GetCmdMapBody(t)
  <2>1. \A s \in Sems : s \in {<<"cmd_map", 0>>} <=> Holds(t, s)
    BY <1>14, Zenon DEF GetCmdMapBody, At, Holds, Whole, Helper, TouchesCmdMap
  <2> QED
    BY <1>14, <2>1, ReturnPosition, Zenon DEF GetCmdMapBody
<1> QED
  BY <1>1, <1>2, <1>3, <1>4, <1>5, <1>6, <1>7, <1>9, <1>10, <1>12, <1>13, <1>14, Zenon DEF Step

-----------------------------------------------------------------------------
\* The inductive invariant: types, and the semaphores each position holds.
THEOREM PositionInvariant == WSpec => []IInv
<1>1. WInit => IInv
  BY InitIInv, Zenon
<1>2. IInv /\ [WNext]_wvars => IInv'
  <2> SUFFICES ASSUME IInv, [WNext]_wvars PROVE IInv'
    BY Zenon
  <2>1. ASSUME NEW t \in Threads, Invoke(t) PROVE IInv'
    BY <2>1, InvokeType, InvokePosition, Zenon DEF IInv
  <2>2. ASSUME NEW t \in Threads, Step(t) PROVE IInv'
    BY <2>2, StepType, StepPosition, Zenon DEF IInv
  <2>3. CASE UNCHANGED wvars
    <3>1. ShmTypeOK'
      BY <2>3, Zenon DEF wvars, vars, shm, locals, history, IInv, ShmTypeOK
    <3>2. sem' = sem /\ pc' = pc /\ call' = call /\ stream' = stream /\ dev_ix' = dev_ix
      BY <2>3, Zenon DEF wvars, locals
    <3>3. SemsMatchPosition'
      BY <3>2, OthersKeepPosition, Zenon DEF IInv, SemsMatchPosition
    <3> QED
      BY <3>1, <3>3, Zenon DEF IInv
  <2> QED
    BY <2>1, <2>2, <2>3, Zenon DEF WNext
<1> QED
  BY <1>1, <1>2, PTL DEF WSpec

\* shm_wrapper.c's state keeps its types through every interleaving of calls.
THEOREM TypesHold == WSpec => []ShmTypeOK
  BY PositionInvariant, PTL DEF IInv

\* Every function of shm_wrapper.c posts exactly the semaphores it took, on
\* every return path of the device block's API.
THEOREM SemsHold == WSpec => []SemsMatchPosition
  BY PositionInvariant, PTL DEF IInv

\* The waits of shm_wrapper.c respect one order of the semaphores.
THEOREM LocksAreOrdered == WSpec => []LockOrder
<1>1. IInv => LockOrder
  <2> SUFFICES ASSUME IInv, NEW t \in Threads, pc[t] \in Kinds,
                      NEW s \in Sems, sem[s] = t
               PROVE  Rank(s[1]) < Rank(pc[t])
    BY Zenon DEF LockOrder
  <2>1. Holds(t, s) /\ ControlOK(t)
    BY Zenon DEF IInv, SemsMatchPosition
  <2> QED
    BY <2>1 DEF Holds, ControlOK, Rank, Kinds, Whole, Helper, TouchesCmdMap, StreamSem
<1> QED
  BY <1>1, PositionInvariant, PTL

-----------------------------------------------------------------------------
(* Slots. *)

\* What a relay's position says of its slot: it has none before device_connect has
\* found one, the one it found is not in the catalog until the call's body, and is
\* there with its uid afterwards.
SlotOK(t) ==
  /\ Whole(t) => IsDevHandler(t)
  /\ call[t] = "device_connect" =>
       /\ pc[t] # "idle"
       /\ pc[t] \in {"catalog", "find"} <=> dev_ix[t] = NoIx
  /\ IsDevHandler(t) /\ dev_ix[t] # NoIx =>
       IF call[t] = "device_connect" THEN dev_ix[t] \notin catalog
                                     ELSE HasUid(dev_ix[t], uid[t])

\* No two relays have the same slot.
SlotsDiffer ==
  \A t, r \in Threads :
    IsDevHandler(t) /\ IsDevHandler(r) /\ dev_ix[t] # NoIx /\ dev_ix[t] = dev_ix[r] => t = r

SlotsInv == SlotsDiffer /\ \A t \in Threads : SlotOK(t)

\* A call that starts changes no slot, and a relay's index only by starting.
LEMMA InvokeSlots ==
  ASSUME IInv, SlotsInv, NEW t \in Threads, Invoke(t)
  PROVE  SlotsInv'
<1> USE ShmConstants DEF IsDevHandler, Whole, HasUid, vars, shm, locals
<1>0. /\ pc \in [Threads -> Kinds \union {"idle", "find", "copy", "body"}]
      /\ call \in [Threads -> Calls]
      /\ dev_ix \in [Threads -> Ix \union {NoIx}]
      /\ uid \in [Threads -> Uids \union {NoDev}]
  BY Zenon DEF IInv, ShmTypeOK
<1>1. ASSUME NEW u \in Uids, device_connect(t, u) PROVE SlotsInv'
  BY <1>0, <1>1, Zenon DEF device_connect, Start, SlotsInv, SlotsDiffer, SlotOK
<1>2. ASSUME NEW c \in Calls \ {"device_connect"}, NEW k, Start(t, c, k),
             c = "device_disconnect" => IsDevHandler(t),
             \/ UNCHANGED <<dev_ix, uid>>
             \/ /\ ~IsDevHandler(t)
                /\ \A r \in Threads \ {t} : dev_ix'[r] = dev_ix[r] /\ uid'[r] = uid[r]
      PROVE  SlotsInv'
  <2>1. UNCHANGED <<catalog, dev_ids>> /\ pc[t] = "idle" /\ call'[t] = c
        /\ \A r \in Threads \ {t} : call'[r] = call[r] /\ pc'[r] = pc[r]
    BY <1>0, <1>2, Zenon DEF Start
  <2>2. call[t] # "device_connect"
    BY <2>1, Zenon DEF SlotsInv, SlotOK
  <2>3. SlotsDiffer'
    BY <1>2, Zenon DEF SlotsInv, SlotsDiffer
  <2>4. ASSUME NEW r \in Threads PROVE SlotOK(r)'
    <3>1. CASE r = t
      BY <1>2, <2>1, <2>2, <3>1, Zenon DEF SlotsInv, SlotOK
    <3>2. CASE r # t
      BY <1>2, <2>1, <3>2, Zenon DEF SlotsInv, SlotOK
    <3> QED
      BY <3>1, <3>2, Zenon
  <2> QED
    BY <2>3, <2>4, Zenon DEF SlotsInv
<1>3. CASE device_disconnect(t) \/ device_read(t) \/ get_cmd_map(t) \/ get_sub_requests(t)
  BY <1>2, <1>3, Zenon DEF device_disconnect, device_read, get_cmd_map, get_sub_requests, Calls
<1>4. ASSUME NEW P, NEW row, device_write(t, P, row) PROVE SlotsInv'
  BY <1>2, <1>4, Zenon DEF device_write, Calls
<1>5. ASSUME NEW c \in {"device_read", "device_write", "place_sub_request"}, NEW k, NEW u,
             NEW s, NEW P, NEW row, ByUid(t, c, k, u, s, P, row)
      PROVE  SlotsInv'
  <2>1. \A r \in Threads \ {t} : dev_ix'[r] = dev_ix[r] /\ uid'[r] = uid[r]
    BY <1>0, <1>5, Zenon DEF ByUid
  <2> QED
    BY <1>2, <1>5, <2>1, Zenon DEF ByUid, Calls
<1> QED
  BY <1>1, <1>3, <1>4, <1>5, Zenon DEF Invoke, device_read_uid, device_write_uid, place_sub_request

\* Of two threads past the catalog semaphore in a connect or disconnect there is
\* only one.
LEMMA CatalogExcludes ==
  ASSUME IInv, NEW t \in Threads, NEW r \in Threads,
         Whole(t), pc[t] \notin {"idle", "catalog"},
         Whole(r), pc[r] \notin {"idle", "catalog"}
  PROVE  t = r
<1>1. <<"catalog", 0>> \in Sems
  BY Zenon DEF Sems
<1>2. Holds(t, <<"catalog", 0>>) /\ Holds(r, <<"catalog", 0>>)
  BY Zenon DEF Holds
<1> QED
  BY <1>1, <1>2 DEF IInv, SemsMatchPosition

\* A step inside a call changes catalog and uids only for the relay's own slot.
LEMMA StepSlots ==
  ASSUME IInv, SlotsInv, NEW t \in Threads, Step(t)
  PROVE  SlotsInv'
<1> USE ShmConstants DEF IsDevHandler, Whole, HasUid
<1>0. /\ pc \in [Threads -> Kinds \union {"idle", "find", "copy", "body"}]
      /\ call \in [Threads -> Calls]
      /\ dev_ix \in [Threads -> Ix \union {NoIx}]
      /\ uid \in [Threads -> Uids \union {NoDev}]
      /\ dev_ids \in [Ix -> Uids \union {NoDev}]
      /\ catalog \subseteq Ix
      /\ ControlOK(t)
  BY Zenon DEF IInv, ShmTypeOK, SemsMatchPosition
<1>1. CASE my_sem_wait(t)
  <2>1. UNCHANGED <<catalog, dev_ids, call, dev_ix, uid>>
        /\ \A r \in Threads \ {t} : pc'[r] = pc[r]
    BY <1>0, <1>1, Zenon DEF my_sem_wait, vars, shm, locals
  <2>2. SlotsDiffer'
    BY <2>1, Zenon DEF SlotsInv, SlotsDiffer
  <2>3. call[t] = "device_connect" =>
          pc'[t] # "idle" /\ (pc'[t] \in {"catalog", "find"} <=> pc[t] \in {"catalog", "find"})
    BY <1>0, <1>1, Zenon DEF my_sem_wait, AfterWait, Kinds, ControlOK, Helper
  <2> QED
    BY <2>1, <2>2, <2>3, Zenon DEF SlotsInv, SlotOK
<1>2. CASE FindIx(t)
  <2>1. PICK ix \in Ix : FirstFree(ix) /\ dev_ix' = [dev_ix EXCEPT ![t] = ix]
    BY <1>2, Zenon DEF FindIx
  <2>2. /\ pc' = [pc EXCEPT ![t] = "data"] /\ pc[t] = "find" /\ call[t] = "device_connect"
        /\ UNCHANGED <<catalog, dev_ids, call, uid>>
    BY <1>0, <1>2, Zenon DEF FindIx, ControlOK, vars, shm
  <2>3. ix \notin catalog /\ ix # NoIx
    BY <2>1 DEF FirstFree
  <2>4. ASSUME NEW r \in Threads, IsDevHandler(r), dev_ix[r] = ix PROVE FALSE
    <3>1. call[r] = "device_connect" /\ pc[r] \notin {"idle", "catalog", "find"}
      BY <2>3, <2>4, Zenon DEF SlotsInv, SlotOK
    <3>2. r = t
      BY <2>2, <3>1, CatalogExcludes, Zenon
    <3> QED
      BY <2>2, <3>1, <3>2, Zenon
  <2>5. SlotsDiffer'
    BY <1>0, <2>1, <2>4, Zenon DEF SlotsInv, SlotsDiffer
  <2> QED
    BY <1>0, <2>1, <2>2, <2>3, <2>5, Zenon DEF SlotsInv, SlotOK
<1>3. ASSUME NEW S, PostAndReturn(t, S), UNCHANGED <<catalog, dev_ids>>,
             call[t] # "device_connect" \/ dev_ix[t] = NoIx,
             \/ UNCHANGED <<dev_ix, uid>>
             \/ ~IsDevHandler(t) /\ DropIndex(t)
             \/ dev_ix[t] = NoIx /\ dev_ix' = dev_ix /\ uid' = [uid EXCEPT ![t] = NoDev]
      PROVE  SlotsInv'
  <2>1. /\ call' = [call EXCEPT ![t] = "device_read"] /\ pc' = [pc EXCEPT ![t] = "idle"]
        /\ \A r \in Threads \ {t} : dev_ix'[r] = dev_ix[r] /\ uid'[r] = uid[r]
        /\ dev_ix'[t] # NoIx => dev_ix'[t] = dev_ix[t] /\ uid'[t] = uid[t]
    BY <1>0, <1>3, Zenon DEF PostAndReturn, DropIndex
  <2>2. SlotsDiffer'
    BY <2>1 DEF SlotsInv, SlotsDiffer
  <2> QED
    BY <1>0, <1>3, <2>1, <2>2, Zenon DEF SlotsInv, SlotOK
<1>4. CASE RefuseConnect(t)
  BY <1>0, <1>3, <1>4, Zenon DEF RefuseConnect, SlotsInv, SlotOK, ControlOK, vars, shm
<1>5. CASE CopyParam(t)
  BY <1>5, Zenon DEF CopyParam, SlotsInv, SlotsDiffer, SlotOK
<1>6. CASE EndCopy(t)
  <2>1. call[t] # "device_connect"
    BY <1>0, <1>6, Zenon DEF EndCopy, ControlOK, Helper
  <2> QED
    BY <1>0, <1>6, <2>1, Zenon DEF EndCopy, SlotsInv, SlotsDiffer, SlotOK, vars, shm, locals
<1>7. CASE ConnectBody(t)
  <2>1. dev_ix[t] \in Ix /\ dev_ix[t] # NoIx /\ IsDevHandler(t) /\ dev_ix[t] \notin catalog
    BY <1>0, <1>7, Zenon DEF ConnectBody, At, SlotsInv, SlotOK, ControlOK
  <2>2. /\ catalog' = catalog \union {dev_ix[t]} /\ dev_ids' = [dev_ids EXCEPT ![dev_ix[t]] = uid[t]]
        /\ call' = [call EXCEPT ![t] = "device_read"] /\ pc' = [pc EXCEPT ![t] = "idle"]
        /\ UNCHANGED <<dev_ix, uid>>
    BY <1>7, Zenon DEF ConnectBody, PostAndReturn
  <2>3. SlotsDiffer'
    BY <2>2, Zenon DEF SlotsInv, SlotsDiffer
  <2>4. ASSUME NEW r \in Threads PROVE SlotOK(r)'
    <3>1. CASE r = t
      BY <1>0, <2>1, <2>2, <3>1, Zenon DEF SlotOK
    <3>2. CASE r # t
      <4>1. IsDevHandler(r) => dev_ix[r] # dev_ix[t]
        BY <2>1, <3>2, Zenon DEF SlotsInv, SlotsDiffer
      <4> QED
        BY <1>0, <2>1, <2>2, <3>2, <4>1, Zenon DEF SlotsInv, SlotOK
    <3> QED
      BY <3>1, <3>2, Zenon
  <2> QED
    BY <2>3, <2>4, Zenon DEF SlotsInv
<1>8. CASE DisconnectBody(t)
  <2>1. dev_ix[t] \in Ix /\ IsDevHandler(t)
    BY <1>0, <1>8, Zenon DEF DisconnectBody, At, SlotsInv, SlotOK, ControlOK
  <2>2. /\ catalog' = catalog \ {dev_ix[t]} /\ dev_ix' = [dev_ix EXCEPT ![t] = NoIx]
        /\ call' = [call EXCEPT ![t] = "device_read"] /\ pc' = [pc EXCEPT ![t] = "idle"]
        /\ uid' = [uid EXCEPT ![t] = NoDev] /\ UNCHANGED dev_ids
    BY <1>8, Zenon DEF DisconnectBody, PostAndReturn
  <2>3. SlotsDiffer'
    BY <1>0, <2>2, Zenon DEF SlotsInv, SlotsDiffer
  <2>4. ASSUME NEW r \in Threads PROVE SlotOK(r)'
    <3>1. CASE r = t
      BY <1>0, <2>1, <2>2, <3>1, Zenon DEF SlotOK
    <3>2. CASE r # t
      <4>1. IsDevHandler(r) => dev_ix[r] # dev_ix[t]
        BY <1>0, <2>1, <3>2 DEF SlotsInv, SlotsDiffer
      <4> QED
        BY <1>0, <2>1, <2>2, <3>2, <4>1, Zenon DEF SlotsInv, SlotOK
    <3> QED
      BY <3>1, <3>2, Zenon
  <2> QED
    BY <2>3, <2>4, Zenon DEF SlotsInv
<1>9. CASE ReadBody(t)
  BY <1>3, <1>9, Zenon DEF ReadBody, At, DropIndex
<1>10. CASE WriteBody(t)
  BY <1>3, <1>10, Zenon DEF WriteBody, At, DropIndex
<1>11. CASE PlaceSubBody(t)
  BY <1>3, <1>11, Zenon DEF PlaceSubBody, At, DropIndex
<1>12. CASE GetSubBody(t)
  BY <1>3, <1>12, Zenon DEF GetSubBody, At
<1>13. CASE GetCmdMapBody(t)
  BY <1>3, <1>13, Zenon DEF GetCmdMapBody, At, vars, shm
<1> QED
  BY <1>1, <1>2, <1>4, <1>5, <1>6, <1>7, <1>8, <1>9, <1>10, <1>11, <1>12, <1>13, Zenon DEF Step

\* Slots stay as the positions of the relays say.
LEMMA SlotsInvariant == WSpec => []SlotsInv
<1>1. WInit => SlotsInv
  BY DEF WInit, SlotsInv, SlotsDiffer, SlotOK, Whole
<1>2. IInv /\ SlotsInv /\ [WNext]_wvars => SlotsInv'
  <2>1. ASSUME SlotsInv, UNCHANGED wvars PROVE SlotsInv'
    BY <2>1, Zenon DEF wvars, vars, shm, locals, SlotsInv, SlotsDiffer, SlotOK, Whole, HasUid, IsDevHandler
  <2> QED
    BY <2>1, InvokeSlots, StepSlots, Zenon DEF WNext
<1> QED
  BY <1>1, <1>2, PositionInvariant, PTL DEF WSpec

\* A relay that device_connect gave a slot has it to itself until it disconnects,
\* with any number of relays and slots.
THEOREM SlotsAreOwned == WSpec => []RelayOwnsSlot
<1>1. SlotsInv => RelayOwnsSlot
  BY Zenon DEF SlotsInv, SlotsDiffer, SlotOK, RelayOwnsSlot
<1> QED
  BY <1>1, SlotsInvariant, PTL

-----------------------------------------------------------------------------
(* Subscriptions. *)

\* A step that leaves the catalog, both subscribers' maps and words and what the
\* relays were told alone keeps every change marked.
LEMMA MarksUntouched ==
  ASSUME SubChangeIsMarked, UNCHANGED <<catalog, sub_changed, sub_map, told>>
  PROVE  SubChangeIsMarked'
BY Zenon DEF SubChangeIsMarked, Wanted, Changed

\* Starting a call touches none of them.
LEMMA InvokeMarks ==
  ASSUME SubChangeIsMarked, NEW t \in Threads, Invoke(t)
  PROVE  SubChangeIsMarked'
<1>1. UNCHANGED <<catalog, sub_changed, sub_map, told>>
  BY Zenon DEF Invoke, device_connect, device_disconnect, device_read, device_write, get_cmd_map,
         get_sub_requests, device_read_uid, device_write_uid, place_sub_request, ByUid, Start,
         vars, shm, history
<1> QED
  BY <1>1, MarksUntouched, Zenon

\* A device that connects is marked for the network handler, a subscription that
\* changes is marked for its subscriber, and the words are cleared in the step that
\* hands the wanted parameters to a relay.
LEMMA StepMarks ==
  ASSUME IInv, SubChangeIsMarked, NEW t \in Threads, Step(t)
  PROVE  SubChangeIsMarked'
<1> USE ShmConstants
<1>0. /\ catalog \subseteq Ix
      /\ sub_changed \in [Subscribers -> SUBSET Ix]
      /\ sub_map \in [Subscribers -> [Ix -> SUBSET Params]]
      /\ told \in [Ix -> SUBSET Params]
      /\ ControlOK(t)
  BY Zenon DEF IInv, ShmTypeOK, SemsMatchPosition
<1>1. CASE \/ my_sem_wait(t) \/ FindIx(t) \/ RefuseConnect(t) \/ CopyParam(t) \/ EndCopy(t)
           \/ ReadBody(t) \/ WriteBody(t) \/ GetCmdMapBody(t)
  <2>1. UNCHANGED <<catalog, sub_changed, sub_map, told>>
    BY <1>1, Zenon DEF my_sem_wait, FindIx, RefuseConnect, CopyParam, EndCopy, ReadBody, WriteBody,
                GetCmdMapBody, vars, shm, history
  <2> QED
    BY <2>1, MarksUntouched, Zenon
<1>2. CASE ConnectBody(t)
  <2>1. dev_ix[t] \in Ix
    BY <1>0, <1>2, Zenon DEF ConnectBody, At, ControlOK
  <2>2. /\ dev_ix[t] \in sub_changed'["NET_HANDLER"]
        /\ catalog' = catalog \union {dev_ix[t]}
        /\ \A ix \in Ix \ {dev_ix[t]} :
             /\ told'[ix] = told[ix]
             /\ sub_map'["NET_HANDLER"][ix] = sub_map["NET_HANDLER"][ix]
             /\ sub_map'["EXECUTOR"][ix] = sub_map["EXECUTOR"][ix]
             /\ ix \in sub_changed["NET_HANDLER"] => ix \in sub_changed'["NET_HANDLER"]
             /\ ix \in sub_changed["EXECUTOR"] => ix \in sub_changed'["EXECUTOR"]
    BY <1>0, <1>2, <2>1, Zenon DEF ConnectBody, Subscribers
  <2> QED
    BY <1>0, <2>1, <2>2, Zenon DEF SubChangeIsMarked, Wanted, Changed
<1>3. CASE DisconnectBody(t)
  BY <1>3, Zenon DEF DisconnectBody, SubChangeIsMarked, Wanted, Changed
<1>4. CASE PlaceSubBody(t)
  <2>1. dev_ix[t] \in Ix
    BY <1>0, <1>4, Zenon DEF PlaceSubBody, At, ControlOK
  <2>2. UNCHANGED <<catalog, told>>
        /\ \A s \in Subscribers, ix \in Ix :
             /\ ix \in sub_changed[s] => ix \in sub_changed'[s]
             /\ sub_map'[s][ix] # sub_map[s][ix] => ix \in sub_changed'[s]
    BY <1>0, <1>4, <2>1, Zenon DEF PlaceSubBody
  <2> QED
    BY <1>0, <2>2, Zenon DEF SubChangeIsMarked, Wanted, Changed, Subscribers
<1>5. CASE GetSubBody(t)
  <2>1. \A ix \in catalog : told'[ix] = Wanted(ix)
    BY <1>0, <1>5, Zenon DEF GetSubBody, SubChangeIsMarked
  <2>2. UNCHANGED <<catalog, sub_map>>
    BY <1>5, Zenon DEF GetSubBody
  <2> QED
    BY <2>1, <2>2, Zenon DEF SubChangeIsMarked, Wanted
<1> QED
  BY <1>1, <1>2, <1>3, <1>4, <1>5, Zenon DEF Step

\* No subscription is lost between a subscriber and a relay: what a connected
\* device's relay was last told differs from what is wanted only while the device is
\* marked for the next get_sub_requests.
THEOREM SubscriptionsAreMarked == WSpec => []SubChangeIsMarked
<1>1. WInit => SubChangeIsMarked
  BY Zenon DEF WInit, Init, SubChangeIsMarked
<1>2. IInv /\ SubChangeIsMarked /\ [WNext]_wvars => SubChangeIsMarked'
  <2>1. ASSUME SubChangeIsMarked, UNCHANGED wvars PROVE SubChangeIsMarked'
    BY <2>1, MarksUntouched, Zenon DEF wvars, vars, shm, history
  <2> QED
    BY <2>1, InvokeMarks, StepMarks, Zenon DEF WNext
<1> QED
  BY <1>1, <1>2, PositionInvariant, PTL DEF WSpec
=============================================================================
