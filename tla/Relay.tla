-------------------------------- MODULE Relay --------------------------------
(***************************************************************************)
(* The life of a device in dev_handler: the polling main thread finds a    *)
(* port, opens it and starts a relayer, a sender and a receiver; the       *)
(* relayer verifies the device, connects it to shared memory, wakes the    *)
(* other two and watches it; when the device leaves or falls silent it     *)
(* cancels and joins them, frees the slot and releases the port            *)
(* (dev_handler.c, poll_connected_devices .. receive_message).             *)
(*                                                                         *)
(* A port has at most one relay at a time (OneRelay below), so a relay is  *)
(* named by its port.  Calls of the shared memory wrapper are one step     *)
(* each (module ShmAtomic).  Time is abstracted: a device is "fresh" until *)
(* the clock says TIMEOUT has passed since its last message.               *)
(***************************************************************************)
EXTENDS Integers, FiniteSets

CONSTANTS
  Ports,          \* port numbers of one kind of port
  MAX_DEVICES,    \* slots of the shared memory block
  NoPort          \* content of a free slot

ASSUME RelayConstants ==
  /\ MAX_DEVICES \in Nat \ {0}
  /\ NoPort \notin Ports

VARIABLES
  plugged,      \* ports whose file exists
  alive,        \* ports whose open descriptor still leads to a device
  used_ports,   \* bitmap of ports marked as taken care of
  poll,         \* the main thread: where it stands,
  found,        \*   the new ports it has still to serve
  old_ports,    \*   and the bitmap it has read without the lock
  relay,        \* the relayer of each port: where it stands
  sender,       \*   its sender
  receiver,     \*   its receiver
  cancelled,    \* relays whose sender and receiver have been cancelled
  fresh,        \* relays that heard of their device less than TIMEOUT ago
  shm_dev_idx,  \* the slot of each relay, -1 for none
  slots         \* catalog and dev_ids of shared memory: the port of each slot

rdevice == <<plugged, alive>>
rpoll == <<poll, found, old_ports>>
rthreads == <<relay, sender, receiver, cancelled, fresh>>
lvars == <<rdevice, used_ports, rpoll, rthreads, shm_dev_idx, slots>>

Ix == 0 .. MAX_DEVICES - 1

LInit ==
  /\ plugged = {} /\ alive = {}
  /\ used_ports = {}
  /\ poll = "scan" /\ found = {} /\ old_ports = {}
  /\ relay = [p \in Ports |-> "none"]
  /\ sender = [p \in Ports |-> "done"]
  /\ receiver = [p \in Ports |-> "done"]
  /\ cancelled = {} /\ fresh = {}
  /\ shm_dev_idx = [p \in Ports |-> -1]
  /\ slots = [ix \in Ix |-> NoPort]

-----------------------------------------------------------------------------
(* The devices and the clock.                                              *)

Plug(p) ==
  /\ p \notin plugged
  /\ plugged' = plugged \union {p}
  /\ UNCHANGED <<alive, used_ports, rpoll, rthreads, shm_dev_idx, slots>>

\* A device put back in the same port does not revive the old descriptor.
Unplug(p) ==
  /\ p \in plugged
  /\ plugged' = plugged \ {p}
  /\ alive' = alive \ {p}
  /\ UNCHANGED <<used_ports, rpoll, rthreads, shm_dev_idx, slots>>

Timeout(p) ==
  /\ p \in fresh
  /\ fresh' = fresh \ {p}
  /\ UNCHANGED <<rdevice, used_ports, rpoll, relay, sender, receiver, cancelled,
                 shm_dev_idx, slots>>

-----------------------------------------------------------------------------
(* poll_connected_devices.                                                 *)

\* get_new_devices_helper looks at one port under used_ports_lock.
get_new_devices(p) ==
  /\ poll = "scan"
  /\ p \notin used_ports /\ p \in plugged
  /\ used_ports' = used_ports \union {p}
  /\ found' = found \union {p}
  /\ UNCHANGED <<rdevice, poll, old_ports, rthreads, shm_dev_idx, slots>>

EndScan ==
  /\ poll = "scan" /\ found # {}
  /\ poll' = "communicate"
  /\ UNCHANGED <<rdevice, used_ports, found, old_ports, rthreads, shm_dev_idx, slots>>

NextPort(p) ==
  /\ found' = found \ {p}
  /\ poll' = IF found' = {} THEN "scan" ELSE "communicate"

\* communicate: the port opens and the three threads are created.
communicate(p) ==
  /\ poll = "communicate" /\ p \in found /\ p \in plugged
  /\ NextPort(p)
  /\ alive' = alive \union {p}
  /\ relay' = [relay EXCEPT ![p] = "verify"]
  /\ sender' = [sender EXCEPT ![p] = "start"]
  /\ receiver' = [receiver EXCEPT ![p] = "start"]
  /\ cancelled' = cancelled \ {p}
  /\ UNCHANGED <<plugged, used_ports, old_ports, fresh, shm_dev_idx, slots>>

\* The port does not open: relay_clean_up clears its bit in the main thread,
\* without used_ports_lock, so the read and the write are two steps.
OpenFails(p) ==
  /\ poll = "communicate" /\ p \in found
  /\ poll' = "unmark"
  /\ found' = found
  /\ old_ports' = used_ports \ {p}
  /\ UNCHANGED <<rdevice, used_ports, rthreads, shm_dev_idx, slots>>

ClearUnlocked(p) ==
  /\ poll = "unmark" /\ p \in found /\ p \notin old_ports
  /\ used_ports' = old_ports
  /\ old_ports' = {}
  /\ NextPort(p)
  /\ UNCHANGED <<rdevice, rthreads, shm_dev_idx, slots>>

-----------------------------------------------------------------------------
(* relayer and relay_clean_up.                                             *)

RelayStep(p, from, to) ==
  /\ relay[p] = from
  /\ relay' = [relay EXCEPT ![p] = to]
  /\ UNCHANGED <<rdevice, rpoll>>

\* verify_device: DEVICE_PING, then an ACKNOWLEDGEMENT or a timeout.
verify_device(p, ok) ==
  /\ ok => p \in alive
  /\ RelayStep(p, "verify", IF ok THEN "connect" ELSE "cancel")
  /\ fresh' = IF ok THEN fresh \union {p} ELSE fresh
  /\ UNCHANGED <<used_ports, sender, receiver, cancelled, shm_dev_idx, slots>>

\* device_connect takes the first free slot, or leaves the index at -1.
device_connect(p) ==
  LET free == {ix \in Ix : slots[ix] = NoPort}
      first == CHOOSE ix \in free : \A j \in free : ix <= j
  IN  /\ RelayStep(p, "connect", IF free = {} THEN "cancel" ELSE "broadcast")
      /\ shm_dev_idx' = [shm_dev_idx EXCEPT ![p] = IF free = {} THEN -1 ELSE first]
      /\ slots' = IF free = {} THEN slots ELSE [slots EXCEPT ![first] = p]
      /\ UNCHANGED <<used_ports, sender, receiver, cancelled, fresh>>

\* pthread_cond_broadcast wakes the threads that are waiting now.
Woken(state) == IF state = "wait" THEN "work" ELSE state

Broadcast(p) ==
  /\ RelayStep(p, "broadcast", "monitor")
  /\ sender' = [sender EXCEPT ![p] = Woken(@)]
  /\ receiver' = [receiver EXCEPT ![p] = Woken(@)]
  /\ UNCHANGED <<used_ports, cancelled, fresh, shm_dev_idx, slots>>

\* Fault: only the port file is watched.
Monitor_NoTimeout(p) ==
  /\ p \notin plugged
  /\ RelayStep(p, "monitor", "cancel")
  /\ UNCHANGED <<used_ports, sender, receiver, cancelled, fresh, shm_dev_idx, slots>>

\* The port file is gone or TIMEOUT has passed.
Monitor(p) ==
  /\ p \notin plugged \/ p \notin fresh
  /\ RelayStep(p, "monitor", "cancel")
  /\ UNCHANGED <<used_ports, sender, receiver, cancelled, fresh, shm_dev_idx, slots>>

Cancel(p) ==
  /\ RelayStep(p, "cancel", "join")
  /\ cancelled' = cancelled \union {p}
  /\ UNCHANGED <<used_ports, sender, receiver, fresh, shm_dev_idx, slots>>

\* Fault: the threads are cancelled but not joined.
Join_Skipped(p) ==
  /\ RelayStep(p, "join", "disconnect")
  /\ UNCHANGED <<used_ports, sender, receiver, cancelled, fresh, shm_dev_idx, slots>>

Join(p) ==
  /\ sender[p] = "done" /\ receiver[p] = "done"
  /\ RelayStep(p, "join", "disconnect")
  /\ UNCHANGED <<used_ports, sender, receiver, cancelled, fresh, shm_dev_idx, slots>>

\* Fault: the slot is kept when the device was never heard of again.
device_disconnect_Keep(p) ==
  /\ RelayStep(p, "disconnect", "close")
  /\ slots' = [ix \in Ix |-> IF shm_dev_idx[p] = ix /\ p \in fresh THEN NoPort ELSE slots[ix]]
  /\ shm_dev_idx' = [shm_dev_idx EXCEPT ![p] = -1]
  /\ UNCHANGED <<used_ports, sender, receiver, cancelled, fresh>>

device_disconnect(p) ==
  /\ RelayStep(p, "disconnect", "close")
  /\ slots' = [ix \in Ix |-> IF shm_dev_idx[p] = ix THEN NoPort ELSE slots[ix]]
  /\ shm_dev_idx' = [shm_dev_idx EXCEPT ![p] = -1]
  /\ UNCHANGED <<used_ports, sender, receiver, cancelled, fresh>>

\* Fault: the port is released before the threads are joined.
Release_Early(p) ==
  /\ relay[p] \in {"join", "close"}
  /\ relay' = [relay EXCEPT ![p] = IF @ = "close" THEN "none" ELSE @]
  /\ used_ports' = used_ports \ {p}
  /\ UNCHANGED <<rdevice, rpoll, sender, receiver, cancelled, fresh,
                 shm_dev_idx, slots>>

\* Close the descriptor and clear the bit under used_ports_lock.
Release(p) ==
  /\ relay[p] = "close"
  /\ relay' = [relay EXCEPT ![p] = "none"]
  /\ used_ports' = used_ports \ {p}
  /\ alive' = alive \ {p}
  /\ cancelled' = cancelled \ {p}
  /\ fresh' = fresh \ {p}
  /\ UNCHANGED <<plugged, rpoll, sender, receiver, shm_dev_idx, slots>>

-----------------------------------------------------------------------------
(* sender and receiver.                                                    *)

ThreadStep == UNCHANGED <<rdevice, used_ports, rpoll, relay, cancelled, shm_dev_idx, slots>>

\* pthread_cond_wait: entered, and left by a spurious return or cancellation.
StartWait(p) ==
  /\ \/ sender[p] = "start" /\ sender' = [sender EXCEPT ![p] = "wait"] /\ receiver' = receiver
     \/ receiver[p] = "start" /\ receiver' = [receiver EXCEPT ![p] = "wait"] /\ sender' = sender
  /\ ThreadStep /\ UNCHANGED fresh

SpuriousReturn(p) ==
  /\ \/ sender[p] = "wait" /\ sender' = [sender EXCEPT ![p] = "work"] /\ receiver' = receiver
     \/ receiver[p] = "wait" /\ receiver' = [receiver EXCEPT ![p] = "work"] /\ sender' = sender
  /\ ThreadStep /\ UNCHANGED fresh

\* The sender tests for cancellation once per round, the receiver is cancelled
\* in its read of a delimiter; both in pthread_cond_wait.
Cancelable(p) ==
  /\ p \in cancelled
  /\ \/ sender[p] \in {"wait", "work"} /\ sender' = [sender EXCEPT ![p] = "done"] /\ receiver' = receiver
     \/ receiver[p] \in {"wait", "work"} /\ receiver' = [receiver EXCEPT ![p] = "done"] /\ sender' = sender
  /\ ThreadStep /\ UNCHANGED fresh

ReceiverStep(p, from, to) ==
  /\ receiver[p] = from
  /\ receiver' = [receiver EXCEPT ![p] = to]
  /\ ThreadStep /\ UNCHANGED sender

\* receive_message: a delimiter arrives, or a failed read is taken for one
\* (readn never reports an error: module Readn); the rest is read with
\* cancellation disabled.
TakeDelimiter(p) ==
  /\ p \notin cancelled
  /\ ReceiverStep(p, "work", "body")
  /\ UNCHANGED fresh

TakeBody(p, good) ==
  /\ good => p \in alive
  /\ ReceiverStep(p, "body", IF good THEN "handle" ELSE "work")
  /\ UNCHANGED fresh

\* The message is handled: the time is noted, device_write stores DEVICE_DATA.
Handle(p) ==
  /\ ReceiverStep(p, "handle", "work")
  /\ fresh' = fresh \union {p}

RelayerStep(p) ==
  \/ verify_device(p, FALSE) \/ device_connect(p) \/ Broadcast(p) \/ Monitor(p)
  \/ Cancel(p) \/ Join(p) \/ device_disconnect(p) \/ Release(p)

WorkerStep(p) ==
  \/ StartWait(p) \/ Cancelable(p) \/ TakeBody(p, FALSE) \/ Handle(p)

PollStep ==
  \/ EndScan
  \/ \E p \in Ports : communicate(p) \/ OpenFails(p) \/ ClearUnlocked(p)

LNext ==
  \/ \E p \in Ports :
       \/ Plug(p) \/ Unplug(p) \/ Timeout(p) \/ get_new_devices(p)
       \/ RelayerStep(p) \/ verify_device(p, TRUE)
       \/ WorkerStep(p) \/ SpuriousReturn(p) \/ TakeDelimiter(p) \/ TakeBody(p, TRUE)
  \/ PollStep

LSpec == LInit /\ [][LNext]_lvars

-----------------------------------------------------------------------------
(* Properties.                                                             *)

Working(state) == state \in {"work", "body", "handle"}

\* A port is handed to communicate() only when no relay, sender or receiver of
\* an earlier device of that port is left.
OneRelay ==
  \A p \in found : relay[p] = "none" /\ sender[p] = "done" /\ receiver[p] = "done"

\* The slot of a relay is its own as long as it has one, and it is not given
\* up before its sender and receiver are joined: neither works on the slot of
\* a device that came later.  (A sender or receiver that pthread_cond_wait lets
\* go without a signal works before its device has any slot.)
WorksOnOwnSlot ==
  \A p \in Ports :
    /\ shm_dev_idx[p] # -1 => slots[shm_dev_idx[p]] = p
    /\ Working(sender[p]) \/ Working(receiver[p]) =>
         relay[p] \notin {"disconnect", "close", "none"}
=============================================================================
