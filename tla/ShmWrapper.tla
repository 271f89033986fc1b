------------------------------ MODULE ShmWrapper ------------------------------
(***************************************************************************)
(* The device block of shm_wrapper.c with its semaphores.  Each thread of  *)
(* dev_handler, executor and net_handler runs one call of the API at a     *)
(* time; a call is a walk through the sem_waits, the copy loop and the     *)
(* update the C function makes, and the threads' steps interleave.         *)
(*                                                                         *)
(* pc[t] is where thread t stands:                                         *)
(*   "idle"                         outside the API                        *)
(*   "catalog" "data" "command"     at the sem_wait on that semaphore      *)
(*   "sub_map" "cmd_map"                                                   *)
(*   "find"                         device_connect's search for a slot     *)
(*   "copy"                         the loop of a read or write helper     *)
(*   "body"                         all semaphores held, about to update   *)
(*                                  shared memory, post them and return    *)
(*                                                                         *)
(* The updates of a body and the posts after it are one step: every        *)
(* variable a body writes is written under a semaphore the body holds, and *)
(* a post only enables other threads.  What the code reads without a       *)
(* semaphore (the catalog and the uids, in the checks that open a call)    *)
(* is read in a step of its own.                                           *)
(***************************************************************************)
EXTENDS ShmAtomic, FiniteSets

CONSTANTS
  NoOne,   \* no thread
  Work,    \* the workload: <<thread, call>> pairs,
  Masks,   \*   the parameter bitmaps of reads and writes of each stream,
  Subs,    \*   those of subscriptions,
  Writes   \*   and the values written

Calls == {"device_connect", "device_disconnect", "device_read", "device_write",
          "place_sub_request", "get_sub_requests", "get_cmd_map"}

Kinds == {"catalog", "data", "command", "sub_map", "cmd_map"}

\* There is one catalog, sub_map and cmd_map semaphore, and a data and a
\* command semaphore per slot.
Sems == ({"catalog", "sub_map", "cmd_map"} \X {0}) \union ({"data", "command"} \X Ix)

ASSUME ShmWrapperConstants ==
  /\ NoOne \notin Threads
  /\ Work \subseteq Threads \X Calls
  /\ Masks \in [Streams -> SUBSET (SUBSET Params)] /\ Subs \subseteq SUBSET Params
  /\ Writes \subseteq Rows

VARIABLES
  sem,      \* the thread that took each semaphore, NoOne when its value is 1
  pc,
  call,     \* the API function thread t runs
  stream,   \* its arguments and locals: stream,
  dev_ix,   \*   device index (of a dev_handler thread: relay->shm_dev_idx),
  uid,      \*   uid,
  bits,     \*   params_to_read / params_to_write / params_to_sub,
  buf,      \*   the caller's param_val_t array,
  todo,     \*   the parameters the copy loop has still to copy,
  pmap,     \*   the sender's copy of its own words of cmd_map
  old,      \* history: the row a writer found when its copy loop began
  told      \* history: what dev_handler last learnt of each slot's subscriptions

locals == <<stream, dev_ix, uid, bits, buf, todo, pmap>>
history == <<old, told>>
wvars == <<vars, sem, pc, call, locals, history>>

NoIx == -1
NoWord == [changed |-> FALSE, row |-> {}]
StreamSem(s) == IF s = "DATA" THEN "data" ELSE "command"
SemAt(k, ix) == IF k \in {"data", "command"} THEN <<k, ix>> ELSE <<k, 0>>

WInit ==
  /\ Init
  /\ sem = [s \in Sems |-> NoOne]
  /\ pc = [t \in Threads |-> "idle"]
  /\ call = [t \in Threads |-> "device_read"]
  /\ stream = [t \in Threads |-> "DATA"]
  /\ dev_ix = [t \in Threads |-> NoIx]
  /\ uid = [t \in Threads |-> NoDev]
  /\ bits = [t \in Threads |-> {}]
  /\ buf = [t \in Threads |-> Zeroes]
  /\ todo = [t \in Threads |-> {}]
  /\ pmap = [t \in Threads |-> NoWord]
  /\ old = [t \in Threads |-> Zeroes]
  /\ told = [ix \in Ix |-> {}]

-----------------------------------------------------------------------------
(* Calls.  Each step below is the code before the first sem_wait.          *)

Start(t, c, k) ==
  /\ pc[t] = "idle"
  /\ <<t, c>> \in Work
  /\ pc' = [pc EXCEPT ![t] = k]
  /\ call' = [call EXCEPT ![t] = c]
  /\ UNCHANGED <<vars, sem, history>>

IsDevHandler(t) == Process[t] = "DEV_HANDLER"

\* Fault: the search for a free slot precedes the wait on catalog_sem.
device_connect_SearchFirst(t, u) ==
  /\ IsDevHandler(t)
  /\ dev_ix[t] = NoIx
  /\ \A r \in Threads : IsDevHandler(r) /\ r # t => uid[r] # u
  /\ Start(t, "device_connect", "find")
  /\ uid' = [uid EXCEPT ![t] = u]
  /\ UNCHANGED <<stream, dev_ix, bits, buf, todo, pmap>>

\* The relayer of a device that acknowledged: device_connect.
device_connect(t, u) ==
  /\ IsDevHandler(t)
  /\ dev_ix[t] = NoIx
  /\ \A r \in Threads : IsDevHandler(r) /\ r # t => uid[r] # u
  /\ Start(t, "device_connect", "catalog")
  /\ uid' = [uid EXCEPT ![t] = u]
  /\ UNCHANGED <<stream, dev_ix, bits, buf, todo, pmap>>

\* relay_clean_up: device_disconnect of the relay's own slot, after the sender
\* has reached its cancellation point.
device_disconnect(t) ==
  /\ IsDevHandler(t)
  /\ dev_ix[t] # NoIx
  /\ ~pmap[t].changed
  /\ Start(t, "device_disconnect", "catalog")
  /\ UNCHANGED locals

\* receiver: device_write of a DEVICE_DATA message, after the unlocked
\* catalog check.
device_write(t, P, row) ==
  /\ IsDevHandler(t)
  /\ dev_ix[t] \in catalog
  /\ Start(t, "device_write", "data")
  /\ stream' = [stream EXCEPT ![t] = "DATA"]
  /\ bits' = [bits EXCEPT ![t] = P]
  /\ buf' = [buf EXCEPT ![t] = row]
  /\ todo' = [todo EXCEPT ![t] = P]
  /\ UNCHANGED <<dev_ix, uid, pmap>>

\* sender: device_read of the commands its copy of cmd_map announced.
device_read(t) ==
  /\ IsDevHandler(t)
  /\ pmap[t].changed
  /\ dev_ix[t] \in catalog
  /\ Start(t, "device_read", "command")
  /\ stream' = [stream EXCEPT ![t] = "COMMAND"]
  /\ bits' = [bits EXCEPT ![t] = pmap[t].row]
  /\ buf' = [buf EXCEPT ![t] = Zeroes]
  /\ todo' = [todo EXCEPT ![t] = pmap[t].row]
  /\ pmap' = [pmap EXCEPT ![t] = NoWord]
  /\ UNCHANGED <<dev_ix, uid>>

\* sender: the copy of cmd_map that opens each turn of its loop.
get_cmd_map(t) ==
  /\ IsDevHandler(t)
  /\ dev_ix[t] # NoIx
  /\ ~pmap[t].changed
  /\ Start(t, "get_cmd_map", "cmd_map")
  /\ UNCHANGED locals

get_sub_requests(t) ==
  /\ IsDevHandler(t)
  /\ dev_ix[t] # NoIx
  /\ Start(t, "get_sub_requests", "sub_map")
  /\ UNCHANGED locals

\* get_dev_ix_from_uid: no semaphore is held.
HasUid(ix, u) == ix \in catalog /\ dev_ids[ix] = u
get_dev_ix_from_uid(u) ==
  IF \E ix \in Ix : HasUid(ix, u)
  THEN CHOOSE ix \in Ix : HasUid(ix, u) /\ \A j \in Ix : HasUid(j, u) => ix <= j
  ELSE NoIx

\* What device_read_uid, device_write_uid and place_sub_request share: look
\* the uid up, return at once when no slot has it.
ByUid(t, c, k, u, s, P, row) ==
  /\ ~IsDevHandler(t)
  /\ get_dev_ix_from_uid(u) # NoIx
  /\ Start(t, c, k)
  /\ dev_ix' = [dev_ix EXCEPT ![t] = get_dev_ix_from_uid(u)]
  /\ uid' = [uid EXCEPT ![t] = u]
  /\ stream' = [stream EXCEPT ![t] = s]
  /\ bits' = [bits EXCEPT ![t] = P]
  /\ buf' = [buf EXCEPT ![t] = row]
  /\ todo' = [todo EXCEPT ![t] = P]
  /\ pmap' = pmap

device_read_uid(t, u, P) == ByUid(t, "device_read", "data", u, "DATA", P, Zeroes)

device_write_uid(t, u, P, row) ==
  /\ Process[t] = "EXECUTOR"
  /\ ByUid(t, "device_write", "command", u, "COMMAND", P, row)

place_sub_request(t, u, P) ==
  ByUid(t, "place_sub_request", "sub_map", u, "DATA", P, Zeroes)

-----------------------------------------------------------------------------
(* Steps inside a call.                                                    *)

\* Fault: device_disconnect waits on cmd_map_sem before the device's own.
AfterWait_MapFirst(c, k) ==
  CASE c = "device_connect" /\ k = "catalog"    -> "find"
    [] c = "device_disconnect" /\ k = "catalog" -> "cmd_map"
    [] c = "device_disconnect" /\ k = "cmd_map" -> "data"
    [] c \in {"device_connect", "device_disconnect"} /\ k = "data" -> "command"
    [] c = "device_connect" /\ k = "command"    -> "sub_map"
    [] c \in {"device_read", "device_write"} /\ k \in {"data", "command"} -> "copy"
    [] k = "sub_map" \/ (k = "cmd_map" /\ c # "device_disconnect")
         \/ (k = "command" /\ c = "device_disconnect") -> "body"

\* Where a call stands once it has taken the semaphore it waited for.
AfterWait(c, k) ==
  CASE c = "device_connect" /\ k = "catalog"    -> "find"
    [] c = "device_disconnect" /\ k = "catalog" -> "data"
    [] c \in {"device_connect", "device_disconnect"} /\ k = "data" -> "command"
    [] c = "device_connect" /\ k = "command"    -> "sub_map"
    [] c = "device_disconnect" /\ k = "command" -> "cmd_map"
    [] c \in {"device_read", "device_write"} /\ k \in {"data", "command"} -> "copy"
    [] k \in {"sub_map", "cmd_map"} -> "body"

my_sem_wait(t) ==
  LET s == SemAt(pc[t], dev_ix[t]) IN
  /\ pc[t] \in Kinds
  /\ sem[s] = NoOne
  /\ sem' = [sem EXCEPT ![s] = t]
  /\ pc' = [pc EXCEPT ![t] = AfterWait(call[t], pc[t])]
  /\ old' = IF call[t] = "device_write" /\ pc[t] = StreamSem(stream[t])
            THEN [old EXCEPT ![t] = params[stream[t]][dev_ix[t]]]
            ELSE old
  /\ UNCHANGED <<vars, call, locals, told>>

\* my_sem_post on each semaphore of S, and return to the caller.
PostAndReturn(t, S) ==
  /\ sem' = [s \in Sems |-> IF s \in S THEN NoOne ELSE sem[s]]
  /\ pc' = [pc EXCEPT ![t] = "idle"]
  /\ call' = [call EXCEPT ![t] = "device_read"]
  /\ stream' = [stream EXCEPT ![t] = "DATA"]
  /\ bits' = [bits EXCEPT ![t] = {}]
  /\ buf' = [buf EXCEPT ![t] = Zeroes]
  /\ todo' = [todo EXCEPT ![t] = {}]
  /\ old' = [old EXCEPT ![t] = Zeroes]

\* A caller that named the device by uid forgets the index; a relay keeps it.
DropIndex(t) ==
  /\ dev_ix' = IF IsDevHandler(t) THEN dev_ix ELSE [dev_ix EXCEPT ![t] = NoIx]
  /\ uid' = IF IsDevHandler(t) THEN uid ELSE [uid EXCEPT ![t] = NoDev]

\* device_connect, catalog_sem held: the first free slot, or refuse.
FindIx(t) ==
  /\ pc[t] = "find"
  /\ \E ix \in Ix : FirstFree(ix) /\ dev_ix' = [dev_ix EXCEPT ![t] = ix]
  /\ pc' = [pc EXCEPT ![t] = "data"]
  /\ UNCHANGED <<vars, sem, call, stream, uid, bits, buf, todo, pmap, history>>

\* Fault: the search starts over until a slot is free.
RefuseConnect_Retry(t) ==
  /\ pc[t] = "find"
  /\ \A ix \in Ix : ix \in catalog
  /\ UNCHANGED wvars

RefuseConnect(t) ==
  /\ pc[t] = "find"
  /\ \A ix \in Ix : ix \in catalog
  /\ PostAndReturn(t, {<<"catalog", 0>>})
  /\ uid' = [uid EXCEPT ![t] = NoDev]
  /\ UNCHANGED <<vars, dev_ix, pmap, told>>

\* One turn of the loop of device_read_helper or device_write_helper.
CopyParam(t) ==
  /\ pc[t] = "copy"
  /\ \E p \in todo[t] :
       /\ \A q \in todo[t] : p <= q
       /\ todo' = [todo EXCEPT ![t] = @ \ {p}]
       /\ IF call[t] = "device_write"
          THEN /\ params' = [params EXCEPT ![stream[t]][dev_ix[t]][p] = buf[t][p]]
               /\ buf' = buf
          ELSE /\ buf' = [buf EXCEPT ![t][p] = params[stream[t]][dev_ix[t]][p]]
               /\ params' = params
  /\ UNCHANGED <<catalog, dev_ids, cmd_changed, cmd_map, sub_changed, sub_map, result,
                 sem, pc, call, stream, dev_ix, uid, bits, pmap, history>>

\* Only dev_handler's reads and executor's writes of commands touch cmd_map.
TouchesCmdMap(t) ==
  /\ stream[t] = "COMMAND"
  /\ \/ call[t] = "device_read" /\ Process[t] = "DEV_HANDLER"
     \/ call[t] = "device_write" /\ Process[t] = "EXECUTOR"

EndCopy(t) ==
  /\ pc[t] = "copy"
  /\ todo[t] = {}
  /\ pc' = [pc EXCEPT ![t] = IF TouchesCmdMap(t) THEN "cmd_map" ELSE "body"]
  /\ UNCHANGED <<vars, sem, call, locals, history>>

-----------------------------------------------------------------------------
(* Bodies: the update made with every semaphore of the call held.          *)

At(t, c) == pc[t] = "body" /\ call[t] = c

\* Fault: a new device is not marked for a subscription request.
ConnectBody_NoMark(t) ==
  LET ix == dev_ix[t] IN
  /\ At(t, "device_connect")
  /\ dev_ids' = [dev_ids EXCEPT ![ix] = uid[t]]
  /\ catalog' = catalog \union {ix}
  /\ params' = [s \in Streams |-> [params[s] EXCEPT ![ix] = Zeroes]]
  /\ sub_changed' = [sub_changed EXCEPT !["EXECUTOR"] = @ \ {ix}]
  /\ sub_map' = [sub_map EXCEPT !["EXECUTOR"][ix] = {},
                                !["NET_HANDLER"][ix] = Params]
  /\ told' = [told EXCEPT ![ix] = {}]
  /\ PostAndReturn(t, {<<"sub_map", 0>>, <<"data", ix>>, <<"command", ix>>, <<"catalog", 0>>})
  /\ UNCHANGED <<cmd_changed, cmd_map, result, dev_ix, uid, pmap>>

ConnectBody(t) ==
  LET ix == dev_ix[t] IN
  /\ At(t, "device_connect")
  /\ dev_ids' = [dev_ids EXCEPT ![ix] = uid[t]]
  /\ catalog' = catalog \union {ix}
  /\ params' = [s \in Streams |-> [params[s] EXCEPT ![ix] = Zeroes]]
  /\ sub_changed' = [sub_changed EXCEPT !["EXECUTOR"] = @ \ {ix},
                                        !["NET_HANDLER"] = @ \union {ix}]
  /\ sub_map' = [sub_map EXCEPT !["EXECUTOR"][ix] = {},
                                !["NET_HANDLER"][ix] = Params]
  /\ told' = [told EXCEPT ![ix] = {}]
  /\ PostAndReturn(t, {<<"sub_map", 0>>, <<"data", ix>>, <<"command", ix>>, <<"catalog", 0>>})
  /\ UNCHANGED <<cmd_changed, cmd_map, result, dev_ix, uid, pmap>>

DisconnectBody(t) ==
  LET ix == dev_ix[t] IN
  /\ At(t, "device_disconnect")
  /\ catalog' = catalog \ {ix}
  /\ cmd_changed' = cmd_changed \ {ix}
  /\ cmd_map' = [cmd_map EXCEPT ![ix] = {}]
  /\ PostAndReturn(t, {<<"cmd_map", 0>>, <<"data", ix>>, <<"command", ix>>, <<"catalog", 0>>})
  /\ dev_ix' = [dev_ix EXCEPT ![t] = NoIx]
  /\ uid' = [uid EXCEPT ![t] = NoDev]
  /\ pmap' = [pmap EXCEPT ![t] = NoWord]
  /\ UNCHANGED <<dev_ids, params, sub_changed, sub_map, result, told>>

HelperPosts(t) ==
  {<<StreamSem(stream[t]), dev_ix[t]>>}
    \union (IF TouchesCmdMap(t) THEN {<<"cmd_map", 0>>} ELSE {})

\* Fault: the read turns off every bit of the device, not those it read.
ReadBody_ClearRow(t) ==
  LET ix == dev_ix[t] IN
  /\ At(t, "device_read")
  /\ result' = [result EXCEPT ![t] = buf[t]]
  /\ cmd_changed' = IF TouchesCmdMap(t) THEN cmd_changed \ {ix} ELSE cmd_changed
  /\ cmd_map' = IF TouchesCmdMap(t) THEN [cmd_map EXCEPT ![ix] = {}] ELSE cmd_map
  /\ PostAndReturn(t, HelperPosts(t))
  /\ DropIndex(t)
  /\ UNCHANGED <<catalog, dev_ids, params, sub_changed, sub_map, pmap, told>>

ReadBody(t) ==
  LET ix == dev_ix[t] IN
  /\ At(t, "device_read")
  /\ result' = [result EXCEPT ![t] = buf[t]]
  /\ cmd_changed' = IF TouchesCmdMap(t) THEN cmd_changed \ {ix} ELSE cmd_changed
  /\ cmd_map' = IF TouchesCmdMap(t) THEN [cmd_map EXCEPT ![ix] = @ \ bits[t]] ELSE cmd_map
  /\ PostAndReturn(t, HelperPosts(t))
  /\ DropIndex(t)
  /\ UNCHANGED <<catalog, dev_ids, params, sub_changed, sub_map, pmap, told>>

WriteBody(t) ==
  LET ix == dev_ix[t] IN
  /\ At(t, "device_write")
  /\ cmd_changed' = IF TouchesCmdMap(t) THEN cmd_changed \union {ix} ELSE cmd_changed
  /\ cmd_map' = IF TouchesCmdMap(t) THEN [cmd_map EXCEPT ![ix] = @ \union bits[t]] ELSE cmd_map
  /\ PostAndReturn(t, HelperPosts(t))
  /\ DropIndex(t)
  /\ UNCHANGED <<catalog, dev_ids, params, sub_changed, sub_map, result, pmap, told>>

PlaceSubBody(t) ==
  LET ix == dev_ix[t]
      me == Process[t]
      new == sub_map[me][ix] # bits[t] IN
  /\ At(t, "place_sub_request")
  /\ sub_map' = IF new THEN [sub_map EXCEPT ![me][ix] = bits[t]] ELSE sub_map
  /\ sub_changed' = IF new THEN [sub_changed EXCEPT ![me] = @ \union {ix}] ELSE sub_changed
  /\ PostAndReturn(t, {<<"sub_map", 0>>})
  /\ DropIndex(t)
  /\ UNCHANGED <<catalog, dev_ids, params, cmd_changed, cmd_map, result, pmap, told>>

\* get_sub_requests(sub_map, DEV_HANDLER).  The word sub_map[0] it hands out
\* is masked with the catalog; both change words are cleared, whichever
\* device the caller serves.
Changed == sub_changed["NET_HANDLER"] \union sub_changed["EXECUTOR"]
Wanted(ix) == sub_map["NET_HANDLER"][ix] \union sub_map["EXECUTOR"][ix]

\* Fault: only the executor's change word is cleared.
GetSubBody_OneWord(t) ==
  /\ At(t, "get_sub_requests")
  /\ told' = [ix \in Ix |-> IF ix \in Changed \intersect catalog THEN Wanted(ix) ELSE told[ix]]
  /\ sub_changed' = [sub_changed EXCEPT !["EXECUTOR"] = {}]
  /\ PostAndReturn(t, {<<"sub_map", 0>>})
  /\ UNCHANGED <<catalog, dev_ids, params, cmd_changed, cmd_map, sub_map, result,
                 dev_ix, uid, pmap>>

GetSubBody(t) ==
  /\ At(t, "get_sub_requests")
  /\ told' = [ix \in Ix |-> IF ix \in Changed \intersect catalog THEN Wanted(ix) ELSE told[ix]]
  /\ sub_changed' = [s \in Subscribers |-> {}]
  /\ PostAndReturn(t, {<<"sub_map", 0>>})
  /\ UNCHANGED <<catalog, dev_ids, params, cmd_changed, cmd_map, sub_map, result,
                 dev_ix, uid, pmap>>

GetCmdMapBody(t) ==
  /\ At(t, "get_cmd_map")
  /\ pmap' = [pmap EXCEPT ![t] = IF dev_ix[t] \in cmd_changed
                                 THEN [changed |-> TRUE, row |-> cmd_map[dev_ix[t]]]
                                 ELSE NoWord]
  /\ PostAndReturn(t, {<<"cmd_map", 0>>})
  /\ UNCHANGED <<vars, dev_ix, uid, told>>

Invoke(t) ==
  \/ \E u \in Uids : device_connect(t, u)
  \/ device_disconnect(t)
  \/ device_read(t)
  \/ \E P \in Masks["DATA"], row \in Writes : device_write(t, P, row)
  \/ get_cmd_map(t)
  \/ get_sub_requests(t)
  \/ \E u \in Uids :
       \/ \E P \in Masks["DATA"] : device_read_uid(t, u, P)
       \/ \E P \in Masks["COMMAND"], row \in Writes : device_write_uid(t, u, P, row)
       \/ \E P \in Subs : place_sub_request(t, u, P)

Step(t) ==
  \/ my_sem_wait(t) \/ FindIx(t) \/ RefuseConnect(t) \/ CopyParam(t) \/ EndCopy(t)
  \/ ConnectBody(t) \/ DisconnectBody(t) \/ ReadBody(t) \/ WriteBody(t)
  \/ PlaceSubBody(t) \/ GetSubBody(t) \/ GetCmdMapBody(t)

WNext == \E t \in Threads : Invoke(t) \/ Step(t)

WSpec == WInit /\ [][WNext]_wvars

-----------------------------------------------------------------------------
(* Properties.                                                             *)

ShmTypeOK ==
  /\ catalog \subseteq Ix
  /\ dev_ids \in [Ix -> Uids \union {NoDev}]
  /\ params \in [Streams -> [Ix -> Rows]]
  /\ cmd_changed \subseteq Ix
  /\ cmd_map \in [Ix -> SUBSET Params]
  /\ sub_changed \in [Subscribers -> SUBSET Ix]
  /\ sub_map \in [Subscribers -> [Ix -> SUBSET Params]]
  /\ result \in [Threads -> Rows]
  /\ sem \in [Sems -> Threads \union {NoOne}]
  /\ pc \in [Threads -> Kinds \union {"idle", "find", "copy", "body"}]
  /\ call \in [Threads -> Calls]
  /\ stream \in [Threads -> Streams]
  /\ dev_ix \in [Threads -> Ix \union {NoIx}]
  /\ uid \in [Threads -> Uids \union {NoDev}]
  /\ bits \in [Threads -> SUBSET Params]
  /\ buf \in [Threads -> Rows]
  /\ todo \in [Threads -> SUBSET Params]
  /\ pmap \in [Threads -> [changed : BOOLEAN, row : SUBSET Params]]
  /\ old \in [Threads -> Rows]
  /\ told \in [Ix -> SUBSET Params]

Rank(k) == CASE k = "catalog" -> 0 [] k = "data" -> 1 [] k = "command" -> 2 [] k \in {"sub_map", "cmd_map"} -> 3

\* No call of the API waits for a semaphore while it holds one of the same or
\* of a later kind in the order catalog, data, command, {sub_map, cmd_map}.
\* A cycle of threads each waiting for the next is then impossible.
LockOrder ==
  \A t \in Threads : pc[t] \in Kinds =>
    \A s \in Sems : sem[s] = t => Rank(s[1]) < Rank(pc[t])

\* Which calls reach which points, and which semaphores a thread holds there:
\* with the types, an inductive invariant.
Helper(t) == call[t] \in {"device_read", "device_write"}
ControlOK(t) ==
  /\ pc[t] = "catalog" => call[t] \in {"device_connect", "device_disconnect"}
  /\ pc[t] = "find" => call[t] = "device_connect"
  /\ pc[t] \in {"data", "command"} =>
       \/ call[t] \in {"device_connect", "device_disconnect"}
       \/ Helper(t) /\ pc[t] = StreamSem(stream[t])
  /\ pc[t] = "sub_map" =>
       call[t] \in {"device_connect", "place_sub_request", "get_sub_requests"}
  /\ pc[t] = "cmd_map" =>
       \/ call[t] \in {"device_disconnect", "get_cmd_map"}
       \/ Helper(t) /\ TouchesCmdMap(t)
  /\ pc[t] = "copy" => Helper(t)
  /\ pc[t] = "idle" \/ (call[t] = "device_connect" /\ pc[t] \in {"catalog", "find"})
       \/ dev_ix[t] \in Ix

Whole(t) == call[t] \in {"device_connect", "device_disconnect"}
Holds(t, s) ==
  \/ /\ s = <<"catalog", 0>>
     /\ Whole(t) /\ pc[t] \notin {"idle", "catalog"}
  \/ /\ s = <<"data", dev_ix[t]>>
     /\ \/ Whole(t) /\ pc[t] \in {"command", "sub_map", "cmd_map", "body"}
        \/ Helper(t) /\ stream[t] = "DATA" /\ pc[t] \in {"copy", "cmd_map", "body"}
  \/ /\ s = <<"command", dev_ix[t]>>
     /\ \/ Whole(t) /\ pc[t] \in {"sub_map", "cmd_map", "body"}
        \/ Helper(t) /\ stream[t] = "COMMAND" /\ pc[t] \in {"copy", "cmd_map", "body"}
  \/ /\ s = <<"sub_map", 0>>
     /\ pc[t] = "body"
     /\ call[t] \in {"device_connect", "place_sub_request", "get_sub_requests"}
  \/ /\ s = <<"cmd_map", 0>>
     /\ pc[t] = "body"
     /\ call[t] \in {"device_disconnect", "get_cmd_map"} \/ TouchesCmdMap(t)

\* Each thread holds exactly the semaphores its position in its call says: no
\* early return keeps one, no post releases another thread's.
SemsMatchPosition ==
  \A t \in Threads :
    /\ ControlOK(t)
    /\ \A s \in Sems : sem[s] = t <=> Holds(t, s)

\* A relay that device_connect gave a slot has that slot to itself until it
\* disconnects: the catalog shows it, the identifier in it is its own, and no
\* other relay was given or is being given the same index.
RelayOwnsSlot ==
  \A t \in Threads : IsDevHandler(t) /\ dev_ix[t] # NoIx =>
    /\ call[t] # "device_connect" => HasUid(dev_ix[t], uid[t])
    /\ \A r \in Threads : IsDevHandler(r) /\ dev_ix[r] = dev_ix[t] => r = t

\* A connected device whose subscriptions differ from those dev_handler last
\* collected is marked in one of the two change words: get_sub_requests,
\* place_sub_request and device_connect together lose no change.
SubChangeIsMarked ==
  \A ix \in catalog : Wanted(ix) # told[ix] => ix \in Changed

\* Every call of the API is one atomic step: what a read returns is a row that
\* stood in the slot at one moment, a write and its mark in cmd_map appear
\* together, a connected slot is zeroed and subscribed at once.
Writing(t) == call[t] = "device_write" /\ pc[t] \in {"copy", "cmd_map", "body"}
AtomicParams ==
  [s \in Streams |-> [ix \in Ix |->
     IF \E t \in Threads : Writing(t) /\ stream[t] = s /\ dev_ix[t] = ix
     THEN old[CHOOSE t \in Threads : Writing(t) /\ stream[t] = s /\ dev_ix[t] = ix]
     ELSE params[s][ix]]]
Atomic == INSTANCE ShmAtomic WITH params <- AtomicParams
CallsAreAtomic == Atomic!Spec

\* Under fair scheduling and semaphores that do not starve a waiter for ever,
\* every call returns: nobody waits on somebody who waits on them.
ShmFairness ==
  \A t \in Threads : WF_wvars(Step(t)) /\ SF_wvars(my_sem_wait(t))
LiveSpec == WSpec /\ ShmFairness
CallsReturn == \A t \in Threads : pc[t] # "idle" ~> pc[t] = "idle"
=============================================================================
