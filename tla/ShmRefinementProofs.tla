------------------------- MODULE ShmRefinementProofs -------------------------
(***************************************************************************)
(* ShmWrapper implements ShmAtomic, for any number of slots, threads,      *)
(* devices, parameters and values: each call of the device block's API     *)
(* takes effect in the step of its body, all its other steps are invisible *)
(* to the callers.                                                         *)
(***************************************************************************)
EXTENDS ShmWrapperProofs

\* Where the copy loop of device_read_helper or device_write_helper stands: what it
\* has copied so far, out of a row or into one that was `old` before.
CopyOK(t) ==
  Helper(t) /\ pc[t] # "idle" =>
    /\ todo[t] \subseteq bits[t]
    /\ pc[t] \in {"data", "command"} => todo[t] = bits[t]
    /\ pc[t] \in {"cmd_map", "body"} => todo[t] = {}
    /\ call[t] = "device_read" =>
         buf[t] = [p \in Params |-> IF p \in bits[t] \ todo[t]
                                    THEN params[stream[t]][dev_ix[t]][p] ELSE 0]
    /\ Writing(t) =>
         params[stream[t]][dev_ix[t]] =
           [p \in Params |-> IF p \in bits[t] \ todo[t] THEN buf[t][p] ELSE old[t][p]]

\* What a call's function says of its caller and of the slot it found.
CallOK(t) ==
  /\ call[t] = "place_sub_request" => Process[t] \in Subscribers
  /\ call[t] = "device_connect" =>
       uid[t] \in Uids /\ (dev_ix[t] # NoIx => FirstFree(dev_ix[t]))

RowsInv == \A t \in Threads : CopyOK(t) /\ CallOK(t)

-----------------------------------------------------------------------------
(* Exclusion. *)

\* A thread inside a helper's copy holds the semaphore of its stream's row.
LEMMA HelperHoldsRow ==
  ASSUME NEW t \in Threads, Helper(t), pc[t] \in {"copy", "cmd_map", "body"},
         stream[t] \in Streams
  PROVE  Holds(t, <<StreamSem(stream[t]), dev_ix[t]>>)
BY Zenon DEF Holds, StreamSem, Streams

\* Two threads never hold the same semaphore.
LEMMA SemExcludes ==
  ASSUME SemsMatchPosition, NEW t \in Threads, NEW r \in Threads, NEW s \in Sems,
         Holds(t, s), Holds(r, s)
  PROVE  t = r
BY DEF SemsMatchPosition

\* The semaphores of the rows.
LEMMA RowSem ==
  ASSUME NEW s \in Streams, NEW ix \in Ix
  PROVE  <<StreamSem(s), ix>> \in Sems
BY Zenon DEF Sems, StreamSem, Streams

\* Two threads inside a copy of the same row are one.
LEMMA RowExcludes ==
  ASSUME IInv, NEW t \in Threads, NEW r \in Threads,
         Helper(t), pc[t] \in {"copy", "cmd_map", "body"},
         Helper(r), pc[r] \in {"copy", "cmd_map", "body"},
         stream[t] = stream[r], dev_ix[t] = dev_ix[r]
  PROVE  t = r
<1>1. stream[t] \in Streams /\ stream[r] \in Streams /\ dev_ix[t] \in Ix
  BY Zenon DEF IInv, ShmTypeOK, SemsMatchPosition, ControlOK, Helper
<1>2. /\ Holds(t, <<StreamSem(stream[t]), dev_ix[t]>>)
      /\ Holds(r, <<StreamSem(stream[t]), dev_ix[t]>>)
  BY <1>1, HelperHoldsRow, Zenon
<1> QED
  BY <1>1, <1>2, RowSem, SemExcludes, Zenon DEF IInv

\* While device_connect or device_disconnect holds both semaphores of a slot nobody
\* copies one of its rows.
LEMMA WholeExcludes ==
  ASSUME IInv, NEW t \in Threads, NEW r \in Threads,
         Whole(t), pc[t] = "body",
         Helper(r), pc[r] \in {"copy", "cmd_map", "body"}
  PROVE  dev_ix[r] # dev_ix[t]
<1> SUFFICES ASSUME dev_ix[r] = dev_ix[t] PROVE FALSE
  BY Zenon
<1>1. stream[r] \in Streams /\ dev_ix[r] \in Ix
  BY Zenon DEF IInv, ShmTypeOK, SemsMatchPosition, ControlOK, Helper
<1>2. Holds(r, <<StreamSem(stream[r]), dev_ix[r]>>)
  BY <1>1, HelperHoldsRow, Zenon
<1>3. Holds(t, <<StreamSem(stream[r]), dev_ix[r]>>)
  BY <1>1, Zenon DEF Holds, StreamSem, Streams
<1>4. t = r
  BY <1>1, <1>2, <1>3, RowSem, SemExcludes, Zenon DEF IInv
<1> QED
  BY <1>4, Zenon DEF Whole, Helper

-----------------------------------------------------------------------------
(* Induction. *)

\* A thread that does not move, and whose row nobody changes while it holds it,
\* stays where its copy was.
LEMMA OthersKeepCopy ==
  ASSUME NEW r \in Threads, ControlOK(r), CopyOK(r),
         pc[r] \in Kinds \union {"idle", "find", "copy", "body"},
         pc'[r] = pc[r], call'[r] = call[r], stream'[r] = stream[r], dev_ix'[r] = dev_ix[r],
         bits'[r] = bits[r], buf'[r] = buf[r], todo'[r] = todo[r], old'[r] = old[r],
         Helper(r) /\ pc[r] \in {"copy", "cmd_map", "body"} =>
           params'[stream[r]][dev_ix[r]] = params[stream[r]][dev_ix[r]]
  PROVE  CopyOK(r)'
<1>1. CASE pc[r] \in {"copy", "cmd_map", "body"}
  BY <1>1 DEF CopyOK, Helper, Writing
<1>2. CASE pc[r] \in {"data", "command"} /\ Helper(r)
  <2>1. bits[r] \ todo[r] = {}
    BY <1>2, Zenon DEF CopyOK
  <2> QED
    BY <1>2, <2>1, Zenon DEF CopyOK, Helper, Writing
<1>3. CASE pc[r] = "idle" \/ ~Helper(r)
  BY <1>3, Zenon DEF CopyOK, Helper
<1> QED
  BY <1>1, <1>2, <1>3, Zenon DEF ControlOK, Helper, Kinds

\* A thread that does not move keeps what its call says, as long as the catalog does
\* not change under its device_connect.
LEMMA OthersKeepCall ==
  ASSUME NEW r \in Threads, CallOK(r),
         call'[r] = call[r], dev_ix'[r] = dev_ix[r], uid'[r] = uid[r],
         call[r] = "device_connect" /\ dev_ix[r] # NoIx => catalog' = catalog
  PROVE  CallOK(r)'
BY Zenon DEF CallOK, FirstFree

\* Nobody copies yet in a block that shm_start leaves behind.
LEMMA InitRows == WInit => RowsInv
BY DEF WInit, RowsInv, CopyOK, CallOK

\* The checks that open a call hand over its arguments.
LEMMA InvokeRows ==
  ASSUME IInv, RowsInv, NEW t \in Threads, Invoke(t)
  PROVE  RowsInv'
<1> USE ShmConstants, ShmWrapperConstants DEF IsDevHandler
<1>0. /\ pc \in [Threads -> Kinds \union {"idle", "find", "copy", "body"}]
      /\ call \in [Threads -> Calls] /\ stream \in [Threads -> Streams]
      /\ dev_ix \in [Threads -> Ix \union {NoIx}] /\ uid \in [Threads -> Uids \union {NoDev}]
      /\ bits \in [Threads -> SUBSET Params] /\ buf \in [Threads -> Rows]
      /\ todo \in [Threads -> SUBSET Params]
  BY Zenon DEF IInv, ShmTypeOK
<1>1. ASSUME NEW c, NEW k, Start(t, c, k),
             \A r \in Threads \ {t} :
               /\ stream'[r] = stream[r] /\ dev_ix'[r] = dev_ix[r] /\ uid'[r] = uid[r]
               /\ bits'[r] = bits[r] /\ buf'[r] = buf[r] /\ todo'[r] = todo[r],
             CopyOK(t)', CallOK(t)'
      PROVE  RowsInv'
  <2>1. /\ \A r \in Threads \ {t} : pc'[r] = pc[r] /\ call'[r] = call[r]
        /\ UNCHANGED <<params, catalog, old>>
    BY <1>0, <1>1, Zenon DEF Start, vars, shm, history
  <2>2. ASSUME NEW r \in Threads \ {t} PROVE CopyOK(r)' /\ CallOK(r)'
    BY <1>0, <1>1, <2>1, OthersKeepCopy, OthersKeepCall, Zenon DEF IInv, SemsMatchPosition, RowsInv
  <2> QED
    BY <1>1, <2>2, Zenon DEF RowsInv
<1>2. ASSUME NEW c \in Calls, NEW k \in Kinds, Start(t, c, k)
      PROVE  /\ pc'[t] = k /\ call'[t] = c /\ pc[t] = "idle"
             /\ ~Helper(t)' => CopyOK(t)'
             /\ c \notin {"place_sub_request", "device_connect"} => CallOK(t)'
  BY <1>0, <1>2, Zenon DEF Start, CopyOK, CallOK, Helper
<1>3. ASSUME NEW u \in Uids, device_connect(t, u) PROVE RowsInv'
  <2>1. Start(t, "device_connect", "catalog") /\ uid'[t] = u /\ dev_ix'[t] = NoIx
    BY <1>0, <1>3, Zenon DEF device_connect
  <2>2. CopyOK(t)' /\ CallOK(t)'
    BY <1>2, <2>1, Zenon DEF Calls, Kinds, Helper, CallOK
  <2> QED
    BY <1>0, <1>1, <1>3, <2>1, <2>2, Zenon DEF device_connect
<1>4. ASSUME NEW c \in {"device_disconnect", "get_cmd_map", "get_sub_requests"},
             NEW k \in Kinds, Start(t, c, k), UNCHANGED locals
      PROVE  RowsInv'
  <2>1. CopyOK(t)' /\ CallOK(t)'
    BY <1>2, <1>4, Zenon DEF Calls, Helper
  <2> QED
    BY <1>1, <1>4, <2>1, Zenon DEF locals
<1>5. ASSUME NEW c \in {"device_read", "device_write"}, NEW k \in {"data", "command"},
             Start(t, c, k), todo'[t] = bits'[t], c = "device_read" => buf'[t] = Zeroes,
             \A r \in Threads \ {t} :
               /\ stream'[r] = stream[r] /\ dev_ix'[r] = dev_ix[r] /\ uid'[r] = uid[r]
               /\ bits'[r] = bits[r] /\ buf'[r] = buf[r] /\ todo'[r] = todo[r]
      PROVE  RowsInv'
  <2>1. CallOK(t)' /\ pc'[t] = k /\ call'[t] = c
    BY <1>2, <1>5, Zenon DEF Calls, Kinds
  <2>2. bits'[t] \ todo'[t] = {}
    BY <1>5, Zenon
  <2>3. CopyOK(t)'
    BY <1>5, <2>1, <2>2, Zenon DEF CopyOK, Writing, Zeroes
  <2> QED
    BY <1>1, <1>5, <2>1, <2>3, Zenon
<1>6. ASSUME device_read(t) PROVE RowsInv'
  BY <1>0, <1>5, <1>6, Zenon DEF device_read
<1>7. ASSUME NEW P \in Masks["DATA"], NEW row \in Writes, device_write(t, P, row)
      PROVE  RowsInv'
  BY <1>0, <1>5, <1>7, Zenon DEF device_write
<1>8. ASSUME NEW c \in {"device_read", "device_write"}, NEW k \in {"data", "command"},
             NEW u \in Uids, NEW s \in Streams, NEW P, NEW row, ByUid(t, c, k, u, s, P, row),
             c = "device_read" => row = Zeroes
      PROVE  RowsInv'
  BY <1>0, <1>5, <1>8, Zenon DEF ByUid
<1>9. ASSUME NEW u \in Uids, NEW P \in Subs, place_sub_request(t, u, P) PROVE RowsInv'
  <2>1. Start(t, "place_sub_request", "sub_map") /\ Process[t] \in Subscribers
    BY <1>9, Zenon DEF place_sub_request, ByUid, Subscribers
  <2>2. CopyOK(t)' /\ CallOK(t)'
    BY <1>2, <2>1, Zenon DEF Calls, Kinds, Helper, CallOK
  <2> QED
    BY <1>0, <1>1, <1>9, <2>1, <2>2, Zenon DEF place_sub_request, ByUid
<1> QED
  BY <1>3, <1>4, <1>6, <1>7, <1>8, <1>9, Zenon
  DEF Invoke, device_disconnect, get_cmd_map, get_sub_requests, device_read_uid,
      device_write_uid, Kinds, Streams

\* A step that leaves pc, call and the locals of the other threads alone, and their
\* rows as long as they hold them, keeps what is said of them.
LEMMA OthersKeepRows ==
  ASSUME IInv, SlotsInv, RowsInv, NEW t \in Threads, NEW r \in Threads \ {t},
         pc'[r] = pc[r], call'[r] = call[r], stream'[r] = stream[r], dev_ix'[r] = dev_ix[r],
         uid'[r] = uid[r], bits'[r] = bits[r], buf'[r] = buf[r], todo'[r] = todo[r],
         old'[r] = old[r],
         \/ UNCHANGED params
         \/ /\ Whole(t) /\ pc[t] = "body"
            /\ \A s \in Streams, ix \in Ix \ {dev_ix[t]} : params'[s][ix] = params[s][ix]
         \/ /\ Helper(t) /\ pc[t] = "copy"
            /\ \A s \in Streams, ix \in Ix :
                 s # stream[t] \/ ix # dev_ix[t] => params'[s][ix] = params[s][ix],
         \/ UNCHANGED catalog
         \/ Whole(t) /\ pc[t] = "body"
  PROVE  CopyOK(r)' /\ CallOK(r)'
<1>0. /\ ControlOK(r) /\ CopyOK(r) /\ CallOK(r) /\ stream[r] \in Streams
      /\ pc[r] \in Kinds \union {"idle", "find", "copy", "body"}
  BY Zenon DEF IInv, ShmTypeOK, SemsMatchPosition, RowsInv
<1>1. ASSUME Helper(r), pc[r] \in {"copy", "cmd_map", "body"}
      PROVE  params'[stream[r]][dev_ix[r]] = params[stream[r]][dev_ix[r]]
  <2>1. dev_ix[r] \in Ix
    BY <1>0, <1>1, Zenon DEF ControlOK, Helper
  <2>2. Whole(t) /\ pc[t] = "body" => dev_ix[r] # dev_ix[t]
    BY <1>1, WholeExcludes, Zenon
  <2>3. Helper(t) /\ pc[t] = "copy" => stream[r] # stream[t] \/ dev_ix[r] # dev_ix[t]
    BY <1>1, RowExcludes, Zenon
  <2> QED
    BY <1>0, <2>1, <2>2, <2>3, Zenon
<1>2. CopyOK(r)'
  BY <1>0, <1>1, OthersKeepCopy, Zenon
<1>3. call[r] = "device_connect" /\ dev_ix[r] # NoIx => catalog' = catalog
  <2> SUFFICES ASSUME call[r] = "device_connect", dev_ix[r] # NoIx,
                      Whole(t), pc[t] = "body"
               PROVE  FALSE
    BY Zenon
  <2>1. Whole(r) /\ pc[r] \notin {"idle", "catalog"}
    BY Zenon DEF Whole, SlotsInv, SlotOK
  <2> QED
    BY <2>1, CatalogExcludes, Zenon
<1> QED
  BY <1>0, <1>2, <1>3, OthersKeepCall, Zenon

\* A call that returns has no copy and no slot of its own to look after.
LEMMA ReturnRows ==
  ASSUME IInv, NEW t \in Threads, NEW S, PostAndReturn(t, S)
  PROVE  /\ CopyOK(t)' /\ CallOK(t)'
         /\ \A r \in Threads \ {t} :
              /\ pc'[r] = pc[r] /\ call'[r] = call[r] /\ stream'[r] = stream[r]
              /\ bits'[r] = bits[r] /\ buf'[r] = buf[r] /\ todo'[r] = todo[r] /\ old'[r] = old[r]
BY Zenon DEF PostAndReturn, IInv, ShmTypeOK, CopyOK, CallOK

\* One turn of the copy loop copies one parameter more.
LEMMA CopyParamRows ==
  ASSUME IInv, SlotsInv, RowsInv, NEW t \in Threads, CopyParam(t)
  PROVE  RowsInv'
<1> DEFINE s == stream[t]
           ix == dev_ix[t]
<1>0. /\ pc \in [Threads -> Kinds \union {"idle", "find", "copy", "body"}]
      /\ params \in [Streams -> [Ix -> Rows]] /\ s \in Streams
      /\ buf \in [Threads -> Rows] /\ todo \in [Threads -> SUBSET Params]
      /\ old \in [Threads -> Rows] /\ bits[t] \in SUBSET Params
      /\ pc[t] = "copy" /\ ControlOK(t) /\ CopyOK(t) /\ CallOK(t)
  BY Zenon DEF IInv, ShmTypeOK, SemsMatchPosition, RowsInv, CopyParam
<1>1. Helper(t) /\ ix \in Ix
  BY <1>0, Zenon DEF ControlOK, Helper
<1>2. PICK p \in todo[t] :
        /\ todo' = [todo EXCEPT ![t] = @ \ {p}]
        /\ IF call[t] = "device_write"
           THEN /\ params' = [params EXCEPT ![s][ix][p] = buf[t][p]]
                /\ buf' = buf
           ELSE /\ buf' = [buf EXCEPT ![t][p] = params[s][ix][p]]
                /\ params' = params
  BY Zenon DEF CopyParam
<1>3. /\ UNCHANGED <<catalog, pc, call, stream, dev_ix, uid, bits, old>>
  BY Zenon DEF CopyParam, history
<1>4. /\ p \in Params /\ p \in bits[t] /\ todo[t] \subseteq bits[t] /\ todo'[t] = todo[t] \ {p}
      /\ params[s][ix] \in Rows /\ buf[t] \in Rows /\ old[t] \in Rows
  BY <1>0, <1>1, <1>2, SMTT(30) DEF CopyOK
<1>5. bits[t] \ todo'[t] = (bits[t] \ todo[t]) \union {p}
  BY <1>4, Zenon
<1>6. CopyOK(t)'
  <2>1. CASE call[t] = "device_write"
    <3>1. params'[s][ix] = [params[s][ix] EXCEPT ![p] = buf[t][p]] /\ buf' = buf
      BY <1>0, <1>1, <1>2, <2>1
    <3>2. params[s][ix] = [q \in Params |-> IF q \in bits[t] \ todo[t] THEN buf[t][q] ELSE old[t][q]]
      BY <1>0, <1>1, <2>1, Zenon DEF CopyOK, Writing
    <3>3. params'[s][ix] = [q \in Params |-> IF q \in bits[t] \ todo'[t] THEN buf[t][q] ELSE old[t][q]]
      BY <1>4, <1>5, <3>1, <3>2, Zenon
    <3> QED
      BY <1>0, <1>3, <1>4, <2>1, <3>1, <3>3, SMTT(30) DEF CopyOK, Writing
  <2>2. CASE call[t] = "device_read"
    <3>1. buf'[t] = [buf[t] EXCEPT ![p] = params[s][ix][p]] /\ params' = params
      BY <1>0, <1>1, <1>2, <2>2, Zenon
    <3>2. buf[t] = [q \in Params |-> IF q \in bits[t] \ todo[t] THEN params[s][ix][q] ELSE 0]
      BY <1>0, <1>1, <2>2, Zenon DEF CopyOK
    <3>3. buf'[t] = [q \in Params |-> IF q \in bits[t] \ todo'[t] THEN params[s][ix][q] ELSE 0]
      BY <1>4, <1>5, <3>1, <3>2, Zenon
    <3> QED
      BY <1>0, <1>3, <1>4, <2>2, <3>1, <3>3, Zenon DEF CopyOK, Writing
  <2> QED
    BY <1>1, <2>1, <2>2, Zenon DEF Helper
<1>7. CallOK(t)'
  BY <1>0, <1>3, OthersKeepCall, Zenon
<1>8. ASSUME NEW r \in Threads \ {t} PROVE CopyOK(r)' /\ CallOK(r)'
  <2>1. \A s2 \in Streams, ix2 \in Ix :
          s2 # s \/ ix2 # ix => params'[s2][ix2] = params[s2][ix2]
    BY <1>0, <1>1, <1>2
  <2>2. buf'[r] = buf[r] /\ todo'[r] = todo[r]
    BY <1>0, <1>2, Zenon
  <2> QED
    BY <1>0, <1>1, <1>3, <2>1, <2>2, OthersKeepRows, Zenon
<1> QED
  BY <1>6, <1>7, <1>8, Zenon DEF RowsInv

\* Every step of a call keeps copies and slots as its position says.
LEMMA StepRows ==
  ASSUME IInv, SlotsInv, RowsInv, NEW t \in Threads, Step(t)
  PROVE  RowsInv'
<1> USE ShmConstants, ShmWrapperConstants
<1>0. /\ pc \in [Threads -> Kinds \union {"idle", "find", "copy", "body"}]
      /\ call \in [Threads -> Calls] /\ stream \in [Threads -> Streams]
      /\ dev_ix \in [Threads -> Ix \union {NoIx}] /\ uid \in [Threads -> Uids \union {NoDev}]
      /\ old \in [Threads -> Rows] /\ params \in [Streams -> [Ix -> Rows]]
      /\ ControlOK(t) /\ CopyOK(t) /\ CallOK(t)
  BY Zenon DEF IInv, ShmTypeOK, SemsMatchPosition, RowsInv
<1>1. CASE my_sem_wait(t)
  <2>1. /\ UNCHANGED <<catalog, params, call, stream, dev_ix, uid, bits, buf, todo>>
        /\ pc[t] \in Kinds /\ pc'[t] = AfterWait(call[t], pc[t])
        /\ \A r \in Threads \ {t} : pc'[r] = pc[r] /\ old'[r] = old[r]
    BY <1>0, <1>1, Zenon DEF my_sem_wait, vars, shm, locals
  <2>2. CopyOK(t)'
    <3>1. CASE ~Helper(t)
      BY <2>1, <3>1, Zenon DEF CopyOK, Helper
    <3>2. CASE Helper(t) /\ pc[t] = "cmd_map"
      <4>1. pc'[t] = "body" /\ old'[t] = old[t]
        BY <1>0, <1>1, <2>1, <3>2, Zenon DEF AfterWait, Helper, my_sem_wait, StreamSem
      <4> QED
        BY <1>0, <2>1, <3>2, <4>1, Zenon DEF CopyOK, Helper, Writing
    <3>3. CASE Helper(t) /\ pc[t] \in {"data", "command"}
      <4>1. pc'[t] = "copy" /\ pc[t] = StreamSem(stream[t]) /\ dev_ix[t] \in Ix
        BY <1>0, <2>1, <3>3, Zenon DEF AfterWait, Helper, ControlOK
      <4>2. call[t] = "device_write" => old'[t] = params[stream[t]][dev_ix[t]]
        BY <1>0, <1>1, <4>1, Zenon DEF my_sem_wait
      <4>3. params[stream[t]][dev_ix[t]] \in Rows
        BY <1>0, <4>1
      <4>4. bits[t] \ todo[t] = {} /\ todo[t] \subseteq bits[t]
        BY <1>0, <3>3, Zenon DEF CopyOK
      <4>5. params[stream[t]][dev_ix[t]] =
              [p \in Params |-> params[stream[t]][dev_ix[t]][p]]
        BY <4>3, Zenon DEF Rows
      <4> QED
        BY <1>0, <2>1, <3>3, <4>1, <4>2, <4>4, <4>5, Zenon DEF CopyOK, Helper, Writing
    <3> QED
      BY <1>0, <2>1, <3>1, <3>2, <3>3, Zenon DEF ControlOK, Helper, Kinds
  <2>3. CallOK(t)'
    BY <1>0, <2>1, OthersKeepCall, Zenon
  <2>4. ASSUME NEW r \in Threads \ {t} PROVE CopyOK(r)' /\ CallOK(r)'
    BY <2>1, OthersKeepRows, Zenon
  <2> QED
    BY <2>2, <2>3, <2>4, Zenon DEF RowsInv
<1>2. CASE FindIx(t)
  <2>1. /\ UNCHANGED <<catalog, params, call, stream, uid, bits, buf, todo, old>>
        /\ call[t] = "device_connect" /\ pc'[t] = "data"
        /\ FirstFree(dev_ix'[t])
        /\ \A r \in Threads \ {t} : pc'[r] = pc[r] /\ dev_ix'[r] = dev_ix[r]
    BY <1>0, <1>2, Zenon DEF FindIx, vars, shm, history, ControlOK
  <2>2. CopyOK(t)' /\ CallOK(t)'
    BY <1>0, <2>1, Zenon DEF CopyOK, CallOK, Helper, FirstFree
  <2>3. ASSUME NEW r \in Threads \ {t} PROVE CopyOK(r)' /\ CallOK(r)'
    BY <2>1, OthersKeepRows, Zenon
  <2> QED
    BY <2>2, <2>3, Zenon DEF RowsInv
<1>3. CASE EndCopy(t)
  <2>1. /\ UNCHANGED <<catalog, params, call, stream, dev_ix, uid, bits, buf, todo, old>>
        /\ pc[t] = "copy" /\ todo[t] = {} /\ pc'[t] \in {"cmd_map", "body"}
        /\ \A r \in Threads \ {t} : pc'[r] = pc[r]
    BY <1>0, <1>3, Zenon DEF EndCopy, vars, shm, locals, history
  <2>2. CopyOK(t)'
    BY <1>0, <2>1, Zenon DEF CopyOK, Helper, Writing
  <2>3. CallOK(t)'
    BY <1>0, <2>1, OthersKeepCall, Zenon
  <2>4. ASSUME NEW r \in Threads \ {t} PROVE CopyOK(r)' /\ CallOK(r)'
    BY <2>1, OthersKeepRows, Zenon
  <2> QED
    BY <2>2, <2>3, <2>4, Zenon DEF RowsInv
<1>4. CASE CopyParam(t)
  BY <1>4, CopyParamRows, Zenon
<1>5. ASSUME NEW S, PostAndReturn(t, S),
             \A r \in Threads \ {t} : dev_ix'[r] = dev_ix[r] /\ uid'[r] = uid[r],
             \/ UNCHANGED params
             \/ /\ Whole(t) /\ pc[t] = "body"
                /\ \A s \in Streams, ix \in Ix \ {dev_ix[t]} : params'[s][ix] = params[s][ix],
             UNCHANGED catalog \/ (Whole(t) /\ pc[t] = "body")
      PROVE  RowsInv'
  <2>1. ASSUME NEW r \in Threads \ {t} PROVE CopyOK(r)' /\ CallOK(r)'
    BY <1>5, ReturnRows, OthersKeepRows, Zenon
  <2> QED
    BY <1>5, <2>1, ReturnRows, Zenon DEF RowsInv
<1>6. CASE RefuseConnect(t)
  BY <1>0, <1>5, <1>6, Zenon DEF RefuseConnect, vars, shm
<1>7. CASE ConnectBody(t)
  <2>1. \A s \in Streams, ix \in Ix \ {dev_ix[t]} : params'[s][ix] = params[s][ix]
    BY <1>0, <1>7, Zenon DEF ConnectBody
  <2> QED
    BY <1>5, <1>7, <2>1, Zenon DEF ConnectBody, At, Whole
<1>8. CASE DisconnectBody(t)
  BY <1>0, <1>5, <1>8, Zenon DEF DisconnectBody, At, Whole
<1>9. CASE ReadBody(t)
  BY <1>0, <1>5, <1>9, Zenon DEF ReadBody, DropIndex
<1>10. CASE WriteBody(t)
  BY <1>0, <1>5, <1>10, Zenon DEF WriteBody, DropIndex
<1>11. CASE PlaceSubBody(t)
  BY <1>0, <1>5, <1>11, Zenon DEF PlaceSubBody, DropIndex
<1>12. CASE GetSubBody(t)
  BY <1>5, <1>12, Zenon DEF GetSubBody
<1>13. CASE GetCmdMapBody(t)
  BY <1>5, <1>13, Zenon DEF GetCmdMapBody, vars, shm
<1> QED
  BY <1>1, <1>2, <1>3, <1>4, <1>6, <1>7, <1>8, <1>9, <1>10, <1>11, <1>12, <1>13, Zenon DEF Step

\* What the copies have moved and what the calls rely on, along every behaviour.
LEMMA RowsInvariant == WSpec => []RowsInv
<1>1. IInv /\ SlotsInv /\ RowsInv /\ [WNext]_wvars => RowsInv'
  <2>1. ASSUME RowsInv, UNCHANGED wvars PROVE RowsInv'
    BY <2>1 DEF wvars, vars, shm, locals, history, RowsInv, CopyOK, CallOK, Helper, Writing, FirstFree
  <2> QED
    BY <2>1, InvokeRows, StepRows, Zenon DEF WNext
<1> QED
  BY <1>1, InitRows, PositionInvariant, SlotsInvariant, PTL DEF WSpec

-----------------------------------------------------------------------------
(* The rows the callers see. *)

\* The row of a slot is the one its writer found as long as there is a writer.
WritingTo(t, s, ix) == Writing(t) /\ stream[t] = s /\ dev_ix[t] = ix
RowsSeen ==
  /\ AtomicParams \in [Streams -> [Ix -> Rows]]
  /\ \A s \in Streams, ix \in Ix :
       (\A t \in Threads : ~WritingTo(t, s, ix)) => AtomicParams[s][ix] = params[s][ix]
  /\ \A t \in Threads, s \in Streams, ix \in Ix :
       WritingTo(t, s, ix) => AtomicParams[s][ix] = old[t]

\* AtomicParams is well defined: there is at most one writer of a row.
LEMMA AtomicRow == IInv => RowsSeen
<1> SUFFICES ASSUME IInv PROVE RowsSeen
  BY Zenon
<1>0. params \in [Streams -> [Ix -> Rows]] /\ old \in [Threads -> Rows]
  BY Zenon DEF IInv, ShmTypeOK
<1> DEFINE W(s, ix) == CHOOSE t \in Threads : Writing(t) /\ stream[t] = s /\ dev_ix[t] = ix
<1>1. ASSUME NEW s \in Streams, NEW ix \in Ix
      PROVE  AtomicParams[s][ix] = IF \E t \in Threads : WritingTo(t, s, ix)
                                   THEN old[W(s, ix)] ELSE params[s][ix]
  BY Zenon DEF AtomicParams, WritingTo
<1>2. ASSUME NEW s \in Streams, NEW ix \in Ix, NEW t \in Threads, WritingTo(t, s, ix)
      PROVE  W(s, ix) \in Threads /\ WritingTo(W(s, ix), s, ix)
  BY <1>2, Zenon DEF WritingTo
<1> HIDE DEF W
<1>3. ASSUME NEW s \in Streams, NEW ix \in Ix, NEW t \in Threads, WritingTo(t, s, ix)
      PROVE  W(s, ix) = t
  BY <1>2, <1>3, RowExcludes DEF WritingTo, Writing, Helper
<1>4. ASSUME NEW s \in Streams, NEW ix \in Ix PROVE AtomicParams[s][ix] \in Rows
  BY <1>0, <1>1, <1>2
<1>5. AtomicParams \in [Streams -> [Ix -> Rows]]
  <2>1. AtomicParams = [s \in Streams |-> [ix \in Ix |-> AtomicParams[s][ix]]]
    BY Zenon DEF AtomicParams
  <2> QED
    BY <1>4, <2>1, Zenon
<1> QED
  BY <1>1, <1>3, <1>5, Zenon DEF RowsSeen

\* A step that neither begins nor ends a write, and changes no row but that of a
\* writer, shows the callers the same rows.
LEMMA SameRows ==
  ASSUME RowsSeen, RowsSeen', NEW t \in Threads,
         \A r \in Threads \ {t} : /\ pc'[r] = pc[r] /\ call'[r] = call[r] /\ old'[r] = old[r]
                                  /\ stream'[r] = stream[r] /\ dev_ix'[r] = dev_ix[r],
         Writing(t)' <=> Writing(t),
         Writing(t) => old'[t] = old[t] /\ stream'[t] = stream[t] /\ dev_ix'[t] = dev_ix[t],
         \A s \in Streams, ix \in Ix : WritingTo(t, s, ix) \/ params'[s][ix] = params[s][ix]
  PROVE  AtomicParams' = AtomicParams
<1>1. ASSUME NEW s \in Streams, NEW ix \in Ix PROVE AtomicParams'[s][ix] = AtomicParams[s][ix]
  <2>1. ASSUME NEW r \in Threads
        PROVE  /\ WritingTo(r, s, ix)' <=> WritingTo(r, s, ix)
               /\ WritingTo(r, s, ix) => old'[r] = old[r]
    <3>1. CASE r = t
      BY <3>1, Zenon DEF WritingTo
    <3>2. CASE r # t
      BY <3>2, Zenon DEF WritingTo, Writing
    <3> QED
      BY <3>1, <3>2, Zenon
  <2>2. CASE \E r \in Threads : WritingTo(r, s, ix)
    BY <2>1, <2>2 DEF RowsSeen
  <2>3. CASE \A r \in Threads : ~WritingTo(r, s, ix)
    BY <2>1, <2>3 DEF RowsSeen
  <2> QED
    BY <2>2, <2>3, Zenon
<1>2. AtomicParams \in [Streams -> [Ix -> Rows]] /\ AtomicParams' \in [Streams -> [Ix -> Rows]]
  BY Zenon DEF RowsSeen
<1> HIDE DEF AtomicParams
<1> QED
  BY <1>1, <1>2

-----------------------------------------------------------------------------
(* Simulation: each step of ShmWrapper is a step of ShmAtomic or none. *)

\* Starting a call changes nothing its callers see.
LEMMA InvokeSimulates ==
  ASSUME IInv, RowsSeen, RowsSeen', NEW t \in Threads, Invoke(t)
  PROVE  UNCHANGED Atomic!vars
<1>0. /\ pc \in [Threads -> Kinds \union {"idle", "find", "copy", "body"}]
      /\ call \in [Threads -> Calls] /\ stream \in [Threads -> Streams]
      /\ dev_ix \in [Threads -> Ix \union {NoIx}]
  BY Zenon DEF IInv, ShmTypeOK
<1>1. PICK c, k : Start(t, c, k) /\ (c = "device_write" => k \in {"data", "command"})
  BY DEF Invoke, device_connect, device_disconnect, device_read, device_write, get_cmd_map,
         get_sub_requests, device_read_uid, device_write_uid, place_sub_request, ByUid
<1>2. \A r \in Threads \ {t} : stream'[r] = stream[r] /\ dev_ix'[r] = dev_ix[r]
  BY <1>0, Zenon DEF Invoke, device_connect, device_disconnect, device_read, device_write, get_cmd_map,
              get_sub_requests, device_read_uid, device_write_uid, place_sub_request, ByUid, locals
<1>3. /\ UNCHANGED <<vars, old>> /\ ~Writing(t) /\ ~Writing(t)'
      /\ \A r \in Threads \ {t} : pc'[r] = pc[r] /\ call'[r] = call[r]
  BY <1>0, <1>1, Zenon DEF Start, Writing, history
<1>4. AtomicParams' = AtomicParams
  BY <1>2, <1>3, SameRows, Zenon DEF vars, shm
<1> QED
  BY <1>3, <1>4, Zenon DEF vars, shm, Atomic!vars, Atomic!shm

\* device_connect takes effect in its body: the slot it found is still the first free
\* one, and both its rows are zeroed at once.
LEMMA ConnectSimulates ==
  ASSUME IInv, RowsInv, RowsSeen, RowsSeen', NEW t \in Threads, ConnectBody(t)
  PROVE  Atomic!Next
<1> PICK ix : ix = dev_ix[t]
  BY Zenon
<1>0. /\ ControlOK(t) /\ CallOK(t) /\ At(t, "device_connect")
      /\ dev_ids \in [Ix -> Uids \union {NoDev}] /\ params \in [Streams -> [Ix -> Rows]]
      /\ sub_changed \in [Subscribers -> SUBSET Ix]
      /\ sub_map \in [Subscribers -> [Ix -> SUBSET Params]]
  BY Zenon DEF IInv, ShmTypeOK, SemsMatchPosition, RowsInv, ConnectBody
<1>1. ix \in Ix /\ ix # NoIx /\ uid[t] \in Uids /\ FirstFree(ix)
  BY <1>0, ZeroIsIndex, Zenon DEF At, ControlOK, CallOK
<1>2. /\ \A r \in Threads \ {t} : /\ pc'[r] = pc[r] /\ call'[r] = call[r] /\ old'[r] = old[r]
                                  /\ stream'[r] = stream[r] /\ dev_ix'[r] = dev_ix[r]
      /\ ~Writing(t) /\ ~Writing(t)'
  BY <1>0, ReturnRows, Zenon DEF ConnectBody, PostAndReturn, At, Writing, IInv, ShmTypeOK
<1>3. ASSUME NEW r \in Threads, NEW s \in Streams PROVE ~WritingTo(r, s, ix) /\ ~WritingTo(r, s, ix)'
  <2>1. CASE r = t
    BY <1>2, <2>1, Zenon DEF WritingTo
  <2>2. CASE r # t
    <3>1. ~WritingTo(r, s, ix)
      BY <1>0, WholeExcludes, Zenon DEF WritingTo, Writing, Helper, Whole, At
    <3> QED
      BY <1>2, <2>2, <3>1, Zenon DEF WritingTo, Writing
  <2> QED
    BY <2>1, <2>2, Zenon
<1>4. ASSUME NEW s \in Streams, NEW j \in Ix
      PROVE  AtomicParams'[s][j] = IF j = ix THEN Zeroes ELSE AtomicParams[s][j]
  <2>1. params'[s][j] = IF j = ix THEN Zeroes ELSE params[s][j]
    BY <1>0, <1>1, Zenon DEF ConnectBody
  <2>2. CASE j = ix
    BY <1>3, <2>1, <2>2, Zenon DEF RowsSeen
  <2>3. CASE j # ix
    <3>1. ASSUME NEW r \in Threads
          PROVE  /\ WritingTo(r, s, j)' <=> WritingTo(r, s, j)
                 /\ WritingTo(r, s, j) => old'[r] = old[r]
      BY <1>2, Zenon DEF WritingTo, Writing
    <3>2. CASE \E r \in Threads : WritingTo(r, s, j)
      BY <2>3, <3>1, <3>2 DEF RowsSeen
    <3>3. CASE \A r \in Threads : ~WritingTo(r, s, j)
      BY <2>1, <2>3, <3>1, <3>3, Zenon DEF RowsSeen
    <3> QED
      BY <3>2, <3>3, Zenon
  <2> QED
    BY <2>2, <2>3, Zenon
<1>5. AtomicParams \in [Streams -> [Ix -> Rows]] /\ AtomicParams' \in [Streams -> [Ix -> Rows]]
  BY Zenon DEF RowsSeen
<1> HIDE DEF AtomicParams
<1>6. AtomicParams' = [s \in Streams |-> [AtomicParams[s] EXCEPT ![ix] = Zeroes]]
  BY <1>4, <1>5
<1>7. sub_changed' = [s \in Subscribers |->
                        IF s = "NET_HANDLER" THEN sub_changed[s] \union {ix}
                                             ELSE sub_changed[s] \ {ix}]
  BY <1>0, Zenon DEF ConnectBody, Subscribers
<1>8. sub_map' = [s \in Subscribers |->
                    [sub_map[s] EXCEPT ![ix] = IF s = "NET_HANDLER" THEN Params ELSE {}]]
  BY <1>0, <1>1, Zenon DEF ConnectBody, Subscribers
<1>9. Atomic!Connect(uid[t], ix)
  BY <1>1, <1>6, <1>7, <1>8, Zenon
  DEF ConnectBody, FirstFree, Atomic!Connect, Atomic!FirstFree, Atomic!Ix, Ix, Atomic!Streams,
      Streams, Atomic!Subscribers, Subscribers, Atomic!Zeroes, Zeroes
<1> QED
  BY <1>1, <1>9, Zenon DEF Atomic!Next, Atomic!Ix, Ix

\* What the end of a call that writes no row shows: the same rows.
LEMMA ReturnSameRows ==
  ASSUME IInv, RowsSeen, RowsSeen', NEW t \in Threads, NEW S, PostAndReturn(t, S), ~Writing(t),
         UNCHANGED params, \A r \in Threads \ {t} : dev_ix'[r] = dev_ix[r]
  PROVE  AtomicParams' = AtomicParams
<1>1. ~Writing(t)'
  BY Zenon DEF PostAndReturn, Writing, IInv, ShmTypeOK
<1> QED
  BY <1>1, ReturnRows, SameRows, Zenon

\* device_read takes effect in its body: what it has copied is the row as it is now,
\* because nobody could write it meanwhile.
LEMMA ReadSimulates ==
  ASSUME IInv, RowsInv, RowsSeen, RowsSeen', NEW t \in Threads, ReadBody(t)
  PROVE  Atomic!Next
<1> DEFINE s == stream[t]
           ix == dev_ix[t]
<1>0. /\ ControlOK(t) /\ CopyOK(t) /\ At(t, "device_read") /\ s \in Streams
      /\ bits[t] \in SUBSET Params /\ dev_ix \in [Threads -> Ix \union {NoIx}]
  BY Zenon DEF IInv, ShmTypeOK, SemsMatchPosition, RowsInv, ReadBody
<1>1. ix \in Ix
  BY <1>0, Zenon DEF At, ControlOK
<1>2. AtomicParams' = AtomicParams
  BY <1>0, ReturnSameRows, Zenon DEF ReadBody, At, Writing, DropIndex
<1>3. AtomicParams[s][ix] = params[s][ix]
  <2>1. ASSUME NEW r \in Threads, WritingTo(r, s, ix) PROVE FALSE
    <3>1. r = t
      BY <1>0, <2>1, RowExcludes, Zenon DEF WritingTo, Writing, Helper, At
    <3> QED
      BY <1>0, <2>1, <3>1, Zenon DEF WritingTo, Writing, At
  <2> QED
    BY <1>0, <1>1, <2>1, Zenon DEF RowsSeen
<1>4. buf[t] = [p \in Params |-> IF p \in bits[t] THEN AtomicParams[s][ix][p] ELSE 0]
  BY <1>0, <1>3, Zenon DEF CopyOK, Helper, At
<1> HIDE DEF AtomicParams
<1>5. TouchesCmdMap(t) <=> Process[t] = "DEV_HANDLER" /\ s = "COMMAND"
  BY <1>0, Zenon DEF TouchesCmdMap, At
<1>6. Atomic!Read(t, s, ix, bits[t])
  BY <1>2, <1>4, <1>5, Zenon DEF ReadBody, Atomic!Read
<1> QED
  BY <1>0, <1>1, <1>6, Zenon DEF Atomic!Next, Atomic!Ix, Ix, Atomic!Streams, Streams

\* device_write takes effect in its body: until then the callers see the row it found.
LEMMA WriteSimulates ==
  ASSUME IInv, RowsInv, RowsSeen, RowsSeen', NEW t \in Threads, WriteBody(t)
  PROVE  Atomic!Next
<1> PICK s, ix : s = stream[t] /\ ix = dev_ix[t]
  BY Zenon
<1>0. /\ ControlOK(t) /\ CopyOK(t) /\ At(t, "device_write") /\ s \in Streams
      /\ bits[t] \in SUBSET Params /\ dev_ix \in [Threads -> Ix \union {NoIx}]
      /\ buf[t] \in Rows /\ params' = params
  BY Zenon DEF IInv, ShmTypeOK, SemsMatchPosition, RowsInv, WriteBody
<1>1. ix \in Ix
  BY <1>0, Zenon DEF At, ControlOK
<1>2. /\ \A r \in Threads \ {t} : /\ pc'[r] = pc[r] /\ call'[r] = call[r] /\ old'[r] = old[r]
                                  /\ stream'[r] = stream[r] /\ dev_ix'[r] = dev_ix[r]
      /\ WritingTo(t, s, ix) /\ ~Writing(t)'
  BY <1>0, ReturnRows, SMTT(30)
  DEF WriteBody, DropIndex, PostAndReturn, At, WritingTo, Writing, IInv, ShmTypeOK
<1>3. ASSUME NEW r \in Threads PROVE ~WritingTo(r, s, ix)'
  <2>1. CASE r = t
    BY <1>2, <2>1, Zenon DEF WritingTo
  <2>2. CASE r # t
    <3>1. ~WritingTo(r, s, ix)
      BY <1>2, <2>2, RowExcludes, Zenon DEF WritingTo, Writing, Helper
    <3> QED
      BY <1>2, <2>2, <3>1, Zenon DEF WritingTo, Writing
  <2> QED
    BY <2>1, <2>2, Zenon
<1>4. /\ AtomicParams'[s][ix] = params[s][ix] /\ AtomicParams[s][ix] = old[t]
  BY <1>0, <1>1, <1>2, <1>3, Zenon DEF RowsSeen
<1>5. params[s][ix] = [p \in Params |-> IF p \in bits[t] THEN buf[t][p] ELSE old[t][p]]
  BY <1>0, <1>2, Zenon DEF CopyOK, Helper, At, WritingTo
<1>6. ASSUME NEW s2 \in Streams, NEW j \in Ix, s2 # s \/ j # ix
      PROVE  AtomicParams'[s2][j] = AtomicParams[s2][j]
  <2>1. ASSUME NEW r \in Threads
        PROVE  /\ WritingTo(r, s2, j)' <=> WritingTo(r, s2, j)
               /\ WritingTo(r, s2, j) => old'[r] = old[r]
    <3>1. CASE r = t
      BY <1>2, <1>6, <3>1, Zenon DEF WritingTo
    <3>2. CASE r # t
      BY <1>2, <3>2, Zenon DEF WritingTo, Writing
    <3> QED
      BY <3>1, <3>2, Zenon
  <2>2. CASE \E r \in Threads : WritingTo(r, s2, j)
    BY <2>1, <2>2 DEF RowsSeen
  <2>3. CASE \A r \in Threads : ~WritingTo(r, s2, j)
    BY <1>0, <2>1, <2>3 DEF RowsSeen
  <2> QED
    BY <2>2, <2>3, Zenon
<1>7. AtomicParams \in [Streams -> [Ix -> Rows]] /\ AtomicParams' \in [Streams -> [Ix -> Rows]]
  BY Zenon DEF RowsSeen
<1> HIDE DEF AtomicParams
<1> DEFINE row == [p \in Params |-> IF p \in bits[t] THEN buf[t][p] ELSE AtomicParams[s][ix][p]]
<1>8. AtomicParams'[s][ix] = row
  BY <1>4, <1>5, Zenon
<1> HIDE DEF row
<1>9. AtomicParams' = [AtomicParams EXCEPT ![s][ix] = row]
  BY <1>0, <1>1, <1>6, <1>7, <1>8
<1>10. TouchesCmdMap(t) <=> Process[t] = "EXECUTOR" /\ s = "COMMAND"
  BY <1>0, Zenon DEF TouchesCmdMap, At
<1>11. Atomic!Write(t, s, ix, bits[t], buf[t])
  BY <1>9, <1>10, Zenon DEF WriteBody, Atomic!Write, row
<1> QED
  BY <1>0, <1>1, <1>11, Zenon DEF Atomic!Next, Atomic!Ix, Ix, Atomic!Streams, Streams, Atomic!Rows, Rows

\* A helper that gets the semaphore of its row hides its writing from then on; no
\* other wait changes who writes.
LEMMA WaitSimulates ==
  ASSUME IInv, RowsSeen, RowsSeen', NEW t \in Threads, my_sem_wait(t)
  PROVE  AtomicParams' = AtomicParams
<1> PICK s, ix : s = stream[t] /\ ix = dev_ix[t]
  BY Zenon
<1>0. /\ ControlOK(t) /\ s \in Streams
      /\ pc \in [Threads -> Kinds \union {"idle", "find", "copy", "body"}]
      /\ old \in [Threads -> Rows]
  BY Zenon DEF IInv, ShmTypeOK, SemsMatchPosition
<1>1. /\ UNCHANGED <<params, call, stream, dev_ix>>
      /\ pc[t] \in Kinds /\ pc'[t] = AfterWait(call[t], pc[t])
      /\ \A r \in Threads \ {t} : pc'[r] = pc[r] /\ old'[r] = old[r]
  BY <1>0, Zenon DEF my_sem_wait, vars, shm, locals
<1>2. CASE call[t] = "device_write" /\ pc[t] \in {"data", "command"}
  <2>1. /\ pc[t] = StreamSem(s) /\ ix \in Ix
        /\ old'[t] = params[s][ix] /\ sem[<<StreamSem(s), ix>>] = NoOne
    BY <1>0, <1>2, Zenon DEF ControlOK, Helper, my_sem_wait, SemAt, StreamSem
  <2>2. ASSUME NEW r \in Threads PROVE ~WritingTo(r, s, ix)
    <3> SUFFICES ASSUME WritingTo(r, s, ix) PROVE FALSE
      BY Zenon
    <3>1. Holds(r, <<StreamSem(s), ix>>)
      BY <1>0, HelperHoldsRow, Zenon DEF WritingTo, Writing, Helper
    <3> QED
      BY <1>0, <2>1, <3>1, RowSem, ShmWrapperConstants, Zenon DEF IInv, SemsMatchPosition
  <2>3. AtomicParams[s][ix] = params[s][ix]
    BY <1>0, <2>1, <2>2, Zenon DEF RowsSeen
  <2>4. WritingTo(t, s, ix)'
    BY <1>1, <1>2, Zenon DEF WritingTo, Writing, AfterWait
  <2>5. ASSUME NEW s2 \in Streams, NEW j \in Ix PROVE AtomicParams'[s2][j] = AtomicParams[s2][j]
    <3>1. CASE s2 = s /\ j = ix
      BY <1>0, <2>1, <2>3, <2>4, <3>1, Zenon DEF RowsSeen
    <3>2. CASE s2 # s \/ j # ix
      <4>1. ASSUME NEW r \in Threads
            PROVE  /\ WritingTo(r, s2, j)' <=> WritingTo(r, s2, j)
                   /\ WritingTo(r, s2, j) => old'[r] = old[r]
        BY <1>1, <3>2, Zenon DEF WritingTo, Writing
      <4>2. CASE \E r \in Threads : WritingTo(r, s2, j)
        BY <4>1, <4>2 DEF RowsSeen
      <4>3. CASE \A r \in Threads : ~WritingTo(r, s2, j)
        BY <1>1, <4>1, <4>3 DEF RowsSeen
      <4> QED
        BY <4>2, <4>3, Zenon
    <3> QED
      BY <3>1, <3>2, Zenon
  <2>6. AtomicParams \in [Streams -> [Ix -> Rows]] /\ AtomicParams' \in [Streams -> [Ix -> Rows]]
    BY Zenon DEF RowsSeen
  <2> HIDE DEF AtomicParams
  <2> QED
    BY <2>5, <2>6
<1>3. CASE ~(call[t] = "device_write" /\ pc[t] \in {"data", "command"})
  <2>1. old'[t] = old[t]
    BY <1>0, <1>3, Zenon DEF my_sem_wait, StreamSem
  <2>2. Writing(t)' <=> Writing(t)
    BY <1>0, <1>1, <1>3, Zenon DEF Writing, AfterWait, ControlOK, Helper, Kinds
  <2> QED
    BY <1>1, <2>1, <2>2, SameRows, Zenon
<1> QED
  BY <1>2, <1>3, Zenon

\* Every step inside a call is an atomic call or invisible.
LEMMA StepSimulates ==
  ASSUME IInv, SlotsInv, RowsInv, RowsSeen, RowsSeen', NEW t \in Threads, Step(t)
  PROVE  Atomic!Next \/ UNCHANGED Atomic!vars
<1> USE DEF Atomic!vars, Atomic!shm
<1>0. /\ pc \in [Threads -> Kinds \union {"idle", "find", "copy", "body"}]
      /\ dev_ix \in [Threads -> Ix \union {NoIx}] /\ params \in [Streams -> [Ix -> Rows]]
      /\ stream[t] \in Streams /\ ControlOK(t) /\ CallOK(t) /\ SlotOK(t)
  BY Zenon DEF IInv, ShmTypeOK, SemsMatchPosition, RowsInv, SlotsInv
<1>1. CASE my_sem_wait(t)
  <2>1. AtomicParams' = AtomicParams
    BY <1>1, WaitSimulates, Zenon
  <2> QED
    BY <1>1, <2>1, Zenon DEF my_sem_wait, vars, shm
<1>2. CASE FindIx(t)
  <2>1. /\ UNCHANGED <<vars, call, stream, old>> /\ ~Writing(t) /\ ~Writing(t)'
        /\ \A r \in Threads \ {t} : pc'[r] = pc[r] /\ dev_ix'[r] = dev_ix[r]
    BY <1>0, <1>2, Zenon DEF FindIx, history, Writing, ControlOK
  <2>2. AtomicParams' = AtomicParams
    BY <2>1, SameRows, Zenon DEF vars, shm
  <2> QED
    BY <2>1, <2>2, Zenon DEF vars, shm
<1>3. CASE RefuseConnect(t)
  <2>1. AtomicParams' = AtomicParams
    BY <1>0, <1>3, ReturnSameRows, Zenon DEF RefuseConnect, Writing, vars, shm
  <2> QED
    BY <1>3, <2>1, Zenon DEF RefuseConnect, vars, shm
<1>4. CASE CopyParam(t)
  <2>1. dev_ix[t] \in Ix
    BY <1>0, <1>4, Zenon DEF ControlOK, CopyParam, Helper
  <2>2. /\ UNCHANGED <<catalog, dev_ids, cmd_changed, cmd_map, sub_changed, sub_map, result,
                        pc, call, stream, dev_ix, old>>
        /\ \A s \in Streams, ix \in Ix : WritingTo(t, s, ix) \/ params'[s][ix] = params[s][ix]
    BY <1>0, <1>4, <2>1 DEF CopyParam, history, WritingTo, Writing
  <2>3. Writing(t)' <=> Writing(t)
    BY <2>2, Zenon DEF Writing
  <2>4. AtomicParams' = AtomicParams
    BY <2>2, <2>3, SameRows, Zenon
  <2> QED
    BY <2>2, <2>4, Zenon
<1>5. CASE EndCopy(t)
  <2>1. /\ UNCHANGED <<vars, call, stream, dev_ix, old>> /\ (Writing(t)' <=> Writing(t))
        /\ \A r \in Threads \ {t} : pc'[r] = pc[r]
    BY <1>0, <1>5, Zenon DEF EndCopy, locals, history, Writing
  <2>2. AtomicParams' = AtomicParams
    BY <2>1, SameRows, Zenon DEF vars, shm
  <2> QED
    BY <2>1, <2>2, Zenon DEF vars, shm
<1>6. CASE ConnectBody(t)
  BY <1>6, ConnectSimulates, Zenon
<1>7. CASE DisconnectBody(t)
  <2>1. AtomicParams' = AtomicParams
    BY <1>0, <1>7, ReturnSameRows, Zenon DEF DisconnectBody, At, Writing
  <2>2. dev_ix[t] \in Ix /\ dev_ix[t] \in catalog
    BY <1>0, <1>7, ZeroIsIndex, Zenon DEF DisconnectBody, At, ControlOK, SlotOK, Whole, HasUid
  <2>3. Atomic!Disconnect(dev_ix[t])
    BY <1>7, <2>1, <2>2, Zenon DEF DisconnectBody, Atomic!Disconnect
  <2> QED
    BY <2>2, <2>3, Zenon DEF Atomic!Next, Atomic!Ix, Ix
<1>8. CASE ReadBody(t)
  BY <1>8, ReadSimulates, Zenon
<1>9. CASE WriteBody(t)
  BY <1>9, WriteSimulates, Zenon
<1>10. CASE PlaceSubBody(t)
  <2>1. AtomicParams' = AtomicParams
    BY <1>0, <1>10, ReturnSameRows, Zenon DEF PlaceSubBody, At, Writing, DropIndex
  <2>2. /\ dev_ix[t] \in Ix /\ Process[t] \in Subscribers /\ bits[t] \in SUBSET Params
    BY <1>0, <1>10, Zenon DEF PlaceSubBody, At, ControlOK, CallOK, IInv, ShmTypeOK
  <2>3. CASE sub_map[Process[t]][dev_ix[t]] # bits[t]
    <3>1. Atomic!PlaceSub(t, dev_ix[t], bits[t])
      BY <1>10, <2>1, <2>2, <2>3, Zenon
      DEF PlaceSubBody, Atomic!PlaceSub, Atomic!Subscribers, Subscribers
    <3> QED
      BY <2>2, <3>1, Zenon DEF Atomic!Next, Atomic!Ix, Ix
  <2>4. CASE sub_map[Process[t]][dev_ix[t]] = bits[t]
    BY <1>10, <2>1, <2>4, Zenon DEF PlaceSubBody
  <2> QED
    BY <2>3, <2>4, Zenon
<1>11. CASE GetSubBody(t)
  <2>1. AtomicParams' = AtomicParams
    BY <1>0, <1>11, ReturnSameRows, Zenon DEF GetSubBody, At, Writing
  <2>2. Atomic!TakeSubs
    BY <1>11, <2>1, Zenon DEF GetSubBody, Atomic!TakeSubs, Atomic!Subscribers, Subscribers
  <2> QED
    BY <2>2, Zenon DEF Atomic!Next
<1>12. CASE GetCmdMapBody(t)
  <2>1. AtomicParams' = AtomicParams
    BY <1>0, <1>12, ReturnSameRows, Zenon DEF GetCmdMapBody, At, Writing, vars, shm
  <2> QED
    BY <1>12, <2>1, Zenon DEF GetCmdMapBody, vars, shm
<1> QED
  BY <1>1, <1>2, <1>3, <1>4, <1>5, <1>6, <1>7, <1>8, <1>9, <1>10, <1>11, <1>12, Zenon DEF Step

\* The block shm_start leaves behind is an initial state of the atomic one.
LEMMA InitSimulates == WInit /\ RowsSeen => Atomic!Init
<1> SUFFICES ASSUME WInit, RowsSeen PROVE Atomic!Init
  BY Zenon
<1>1. \A t \in Threads : ~Writing(t)
  BY Zenon DEF WInit, Writing
<1>2. AtomicParams = params
  <2>1. \A s \in Streams, ix \in Ix : AtomicParams[s][ix] = params[s][ix]
    BY <1>1, Zenon DEF RowsSeen, WritingTo
  <2>2. AtomicParams \in [Streams -> [Ix -> Rows]]
    BY Zenon DEF RowsSeen
  <2> HIDE DEF AtomicParams
  <2> QED
    BY <2>1, <2>2, Zenon DEF WInit, Init
<1> QED
  BY <1>2, Zenon DEF WInit, Init, Atomic!Init, Atomic!Ix, Ix, Atomic!Streams, Streams,
              Atomic!Subscribers, Subscribers, Atomic!Zeroes, Zeroes

\* Every call of the device block's API is one atomic step, whatever the threads of
\* the three processes do at the same time: shm_wrapper.c with its semaphores
\* implements the block without any.
THEOREM CallsTakeEffectAtOnce == WSpec => CallsAreAtomic
<1>1. IInv /\ SlotsInv /\ RowsInv /\ RowsSeen /\ RowsSeen' /\ [WNext]_wvars
        => [Atomic!Next]_(Atomic!vars)
  <2> SUFFICES ASSUME IInv, SlotsInv, RowsInv, RowsSeen, RowsSeen', [WNext]_wvars
               PROVE  Atomic!Next \/ UNCHANGED Atomic!vars
    BY Zenon
  <2>1. CASE UNCHANGED wvars
    BY <2>1, Zenon DEF wvars, vars, shm, locals, history, Atomic!vars, Atomic!shm, AtomicParams, Writing
  <2> QED
    BY <2>1, InvokeSimulates, StepSimulates, Zenon DEF WNext
<1>2. WSpec => []RowsSeen
  BY PositionInvariant, AtomicRow, PTL
<1>3. WSpec => Atomic!Init /\ [][Atomic!Next]_(Atomic!vars)
  BY <1>1, <1>2, InitSimulates, PositionInvariant, SlotsInvariant, RowsInvariant, PTL DEF WSpec
<1> QED
  BY <1>3, Zenon DEF CallsAreAtomic, Atomic!Spec
=============================================================================
