------------------------------ MODULE ShmAtomic ------------------------------
(***************************************************************************)
(* What the device block of shared memory promises to dev_handler,         *)
(* executor and net_handler: every call of the wrapper's API takes effect  *)
(* in one step.  No semaphore appears here; module ShmWrapper has them, and *)
(* implements this specification.                                          *)
(*                                                                         *)
(* Bitmaps of the C code are sets: the catalog and the 0-th word of each   *)
(* map are sets of device indices, the other words sets of parameters.     *)
(*                                                                         *)
(* The promise is weaker than "the call acts on the device it names": a    *)
(* read or a write acts on a device INDEX, which the caller looked up      *)
(* before (see ByUid in ShmWrapper).                                       *)
(***************************************************************************)
EXTENDS Integers

CONSTANTS
  MAX_DEVICES,   \* number of slots of the block
  Uids,          \* devices that may be plugged in
  NoDev,         \* content of a slot of dev_ids never written
  Params,        \* parameter indices of a device
  Vals,          \* parameter values
  Threads,       \* callers of the API
  Process        \* the process each caller belongs to

Ix == 0 .. MAX_DEVICES - 1
Streams == {"DATA", "COMMAND"}
Subscribers == {"NET_HANDLER", "EXECUTOR"}
Rows == [Params -> Vals]

ASSUME ShmConstants ==
  /\ MAX_DEVICES \in Nat \ {0}
  /\ Params \subseteq Nat
  /\ 0 \in Vals
  /\ NoDev \notin Uids
  /\ Process \in [Threads -> {"DEV_HANDLER", "EXECUTOR", "NET_HANDLER"}]

VARIABLES
  catalog,      \* slots that hold a connected device
  dev_ids,      \* the device of each slot
  params,       \* params[stream][ix]: the values of a slot
  cmd_changed,  \* cmd_map[0]: slots with commands not yet read by dev_handler
  cmd_map,      \* cmd_map[ix + 1]: the parameters commanded
  sub_changed,  \* net_sub_map[0] and exec_sub_map[0]
  sub_map,      \* net_sub_map[ix + 1] and exec_sub_map[ix + 1]
  result        \* what the last read of each caller returned

shm == <<catalog, dev_ids, params, cmd_changed, cmd_map, sub_changed, sub_map>>
vars == <<shm, result>>

Zeroes == [p \in Params |-> 0]

Init ==
  /\ catalog = {}
  /\ dev_ids = [ix \in Ix |-> NoDev]
  /\ params = [s \in Streams |-> [ix \in Ix |-> Zeroes]]
  /\ cmd_changed = {}
  /\ cmd_map = [ix \in Ix |-> {}]
  /\ sub_changed = [s \in Subscribers |-> IF s = "NET_HANDLER" THEN Ix ELSE {}]
  /\ sub_map = [s \in Subscribers |->
                  [ix \in Ix |-> IF s = "NET_HANDLER" THEN Params ELSE {}]]
  /\ result = [t \in Threads |-> Zeroes]

-----------------------------------------------------------------------------
FirstFree(ix) == ix \notin catalog /\ \A j \in Ix : j < ix => j \in catalog

Connect(u, ix) ==
  /\ FirstFree(ix)
  /\ catalog' = catalog \union {ix}
  /\ dev_ids' = [dev_ids EXCEPT ![ix] = u]
  /\ params' = [s \in Streams |-> [params[s] EXCEPT ![ix] = Zeroes]]
  /\ sub_changed' = [s \in Subscribers |->
                       IF s = "NET_HANDLER" THEN sub_changed[s] \union {ix}
                                            ELSE sub_changed[s] \ {ix}]
  /\ sub_map' = [s \in Subscribers |->
                   [sub_map[s] EXCEPT ![ix] = IF s = "NET_HANDLER" THEN Params ELSE {}]]
  /\ UNCHANGED <<cmd_changed, cmd_map, result>>

Disconnect(ix) ==
  /\ ix \in catalog
  /\ catalog' = catalog \ {ix}
  /\ cmd_changed' = cmd_changed \ {ix}
  /\ cmd_map' = [cmd_map EXCEPT ![ix] = {}]
  /\ UNCHANGED <<dev_ids, params, sub_changed, sub_map, result>>

Read(t, s, ix, P) ==
  /\ result' = [result EXCEPT ![t] =
                  [p \in Params |-> IF p \in P THEN params[s][ix][p] ELSE 0]]
  /\ IF Process[t] = "DEV_HANDLER" /\ s = "COMMAND"
     THEN /\ cmd_changed' = cmd_changed \ {ix}
          /\ cmd_map' = [cmd_map EXCEPT ![ix] = @ \ P]
     ELSE UNCHANGED <<cmd_changed, cmd_map>>
  /\ UNCHANGED <<catalog, dev_ids, params, sub_changed, sub_map>>

Write(t, s, ix, P, row) ==
  /\ params' = [params EXCEPT ![s][ix] =
                  [p \in Params |-> IF p \in P THEN row[p] ELSE @[p]]]
  /\ IF Process[t] = "EXECUTOR" /\ s = "COMMAND"
     THEN /\ cmd_changed' = cmd_changed \union {ix}
          /\ cmd_map' = [cmd_map EXCEPT ![ix] = @ \union P]
     ELSE UNCHANGED <<cmd_changed, cmd_map>>
  /\ UNCHANGED <<catalog, dev_ids, sub_changed, sub_map, result>>

PlaceSub(t, ix, P) ==
  /\ Process[t] \in Subscribers
  /\ sub_map[Process[t]][ix] # P
  /\ sub_map' = [sub_map EXCEPT ![Process[t]][ix] = P]
  /\ sub_changed' = [sub_changed EXCEPT ![Process[t]] = @ \union {ix}]
  /\ UNCHANGED <<catalog, dev_ids, params, cmd_changed, cmd_map, result>>

TakeSubs ==
  /\ sub_changed' = [s \in Subscribers |-> {}]
  /\ UNCHANGED <<catalog, dev_ids, params, cmd_changed, cmd_map, sub_map, result>>

Next ==
  \/ \E u \in Uids, ix \in Ix : Connect(u, ix)
  \/ \E ix \in Ix : Disconnect(ix)
  \/ \E t \in Threads, s \in Streams, ix \in Ix, P \in SUBSET Params :
       \/ Read(t, s, ix, P)
       \/ \E row \in Rows : Write(t, s, ix, P, row)
  \/ \E t \in Threads, ix \in Ix, P \in SUBSET Params : PlaceSub(t, ix, P)
  \/ TakeSubs

Spec == Init /\ [][Next]_vars
=============================================================================
