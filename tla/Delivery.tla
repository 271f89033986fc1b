------------------------------- MODULE Delivery -------------------------------
(***************************************************************************)
(* From a call of executor or net_handler to the device: the loop of the   *)
(* sender of each connected device (dev_handler.c, sender) over the device *)
(* block of shared memory, whose calls are atomic (module ShmAtomic).      *)
(*                                                                         *)
(* A device is connected in every slot, and a message sent is a message    *)
(* applied by the device (Device.cpp, loop): what the serial line and the  *)
(* firmware's reader may drop is the subject of module Wire.  The sender   *)
(* of slot ix is thread Sender[ix].                                        *)
(***************************************************************************)
EXTENDS ShmAtomic, FiniteSets, Functions

CONSTANT
  Sender        \* the sender of each slot

ASSUME DeliveryConstants ==
  Sender \in [Ix -> {t \in Threads : Process[t] = "DEV_HANDLER"}]

VARIABLES
  at,           \* where each sender stands
  pmap,         \* its copy of cmd_map
  subs,         \* its copy of the subscriptions of its slot
  device_val,   \* the parameters each device was told to write
  device_sub    \* the parameters each device was told to send

dvars == <<vars, at, pmap, subs, device_val, device_sub>>
local == <<at, pmap, subs>>
devices == <<device_val, device_sub>>

\* The state that connecting a device in every slot leaves behind.
DInit ==
  /\ catalog = Ix /\ dev_ids \in Injection(Ix, Uids)
  /\ params = [s \in Streams |-> [ix \in Ix |-> Zeroes]]
  /\ cmd_changed = {} /\ cmd_map = [ix \in Ix |-> {}]
  /\ sub_changed = [s \in Subscribers |-> IF s = "NET_HANDLER" THEN Ix ELSE {}]
  /\ sub_map = [s \in Subscribers |->
                  [ix \in Ix |-> IF s = "NET_HANDLER" THEN Params ELSE {}]]
  /\ result = [t \in Threads |-> Zeroes]
  /\ at = [ix \in Ix |-> "get_cmd_map"]
  /\ pmap = [ix \in Ix |-> {}]
  /\ subs = [ix \in Ix |-> {}]
  /\ device_val = [ix \in Ix |-> Zeroes]
  /\ device_sub = [ix \in Ix |-> {}]

Goto(ix, from, to) == at[ix] = from /\ at' = [at EXCEPT ![ix] = to]

\* get_cmd_map, and skip the write when the slot has no bit in pmap[0].
get_cmd_map(ix) ==
  /\ Goto(ix, "get_cmd_map", IF ix \in cmd_changed THEN "device_read" ELSE "get_sub_requests")
  /\ pmap' = [pmap EXCEPT ![ix] = IF ix \in cmd_changed THEN cmd_map[ix] ELSE {}]
  /\ UNCHANGED <<vars, subs, devices>>

\* device_read of the commanded parameters.
device_read(ix) ==
  /\ Goto(ix, "device_read", "device_write")
  /\ Read(Sender[ix], "COMMAND", ix, pmap[ix])
  /\ UNCHANGED <<pmap, subs, devices>>

\* Fault: the bit of the slot is cleared once the message is sent.
make_device_write_ClearLate(ix) ==
  /\ Goto(ix, "device_write", "get_sub_requests")
  /\ device_val' = [device_val EXCEPT ![ix] =
                      [p \in Params |-> IF p \in pmap[ix] THEN result[Sender[ix]][p] ELSE @[p]]]
  /\ pmap' = [pmap EXCEPT ![ix] = {}]
  /\ cmd_changed' = cmd_changed \ {ix}
  /\ cmd_map' = [cmd_map EXCEPT ![ix] = {}]
  /\ UNCHANGED <<catalog, dev_ids, params, sub_changed, sub_map, result, subs, device_sub>>

\* make_device_write, send_message.
make_device_write(ix) ==
  /\ Goto(ix, "device_write", "get_sub_requests")
  /\ device_val' = [device_val EXCEPT ![ix] =
                      [p \in Params |-> IF p \in pmap[ix] THEN result[Sender[ix]][p] ELSE @[p]]]
  /\ pmap' = [pmap EXCEPT ![ix] = {}]
  /\ UNCHANGED <<vars, subs, device_sub>>

Wanted(ix) == UNION {sub_map[s][ix] : s \in Subscribers}
Changed == UNION {sub_changed[s] : s \in Subscribers}

\* get_sub_requests copies the requests of all slots and clears their flags.
get_sub_requests(ix) ==
  /\ Goto(ix, "get_sub_requests", IF ix \in Changed THEN "subscribe" ELSE "get_cmd_map")
  /\ subs' = [subs EXCEPT ![ix] = IF ix \in Changed THEN Wanted(ix) ELSE {}]
  /\ TakeSubs
  /\ UNCHANGED <<pmap, devices>>

\* Fault: the request is built from what changed last only.
make_subscription_request_Less(ix) ==
  /\ Goto(ix, "subscribe", "get_cmd_map")
  /\ device_sub' = [device_sub EXCEPT ![ix] = subs[ix] \ @]
  /\ subs' = [subs EXCEPT ![ix] = {}]
  /\ UNCHANGED <<vars, pmap, device_val>>

make_subscription_request(ix) ==
  /\ Goto(ix, "subscribe", "get_cmd_map")
  /\ device_sub' = [device_sub EXCEPT ![ix] = subs[ix]]
  /\ subs' = [subs EXCEPT ![ix] = {}]
  /\ UNCHANGED <<vars, pmap, device_val>>

SenderStep(ix) ==
  \/ get_cmd_map(ix) \/ device_read(ix) \/ make_device_write(ix)
  \/ get_sub_requests(ix) \/ make_subscription_request(ix)

\* Student code, and the clients of net_handler.
Command(t, ix, P, row) ==
  /\ Process[t] = "EXECUTOR"
  /\ Write(t, "COMMAND", ix, P, row)
  /\ UNCHANGED <<local, devices>>

Subscribe(t, ix, P) ==
  /\ PlaceSub(t, ix, P)
  /\ UNCHANGED <<local, devices>>

DNext ==
  \/ \E ix \in Ix : SenderStep(ix)
  \/ \E t \in Threads, ix \in Ix, P \in SUBSET Params :
       \/ P # {} /\ \E v \in Vals : Command(t, ix, P, [p \in Params |-> v])
       \/ Subscribe(t, ix, P)

\* The sender loops for ever; executor and net_handler promise nothing.
DSpec == DInit /\ [][DNext]_dvars /\ \A ix \in Ix : WF_dvars(SenderStep(ix))

-----------------------------------------------------------------------------
(* Properties.                                                             *)

\* If the commands for a parameter settle, the device ends up with the last of
\* them, or the command waits in cmd_map without the bit of its device, until
\* the next command for that device takes it along.
CommandsArriveOrWait ==
  \A ix \in Ix, p \in Params, v \in Vals :
    <>[](params["COMMAND"][ix][p] = v) =>
       []<>(device_val[ix][p] = v) \/ <>[](p \in cmd_map[ix] /\ ix \notin cmd_changed)

\* If the subscriptions of a slot settle, its device ends up sending exactly
\* the parameters asked for ("If bit i in sub_map[0] != 0, there is a new
\* SUBSCRIPTION_REQUEST to be sent to device i").
SubsArrive ==
  \A ix \in Ix, P \in SUBSET Params : <>[](Wanted(ix) = P) => []<>(device_sub[ix] = P)
=============================================================================
