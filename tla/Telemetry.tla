------------------------------ MODULE Telemetry ------------------------------
(***************************************************************************)
(* send_device_data of net_handler (udp_conn.c): the datagram of device    *)
(* data Dawn gets twenty times a second, put together from the catalog,    *)
(* the identifiers and the rows of shared memory in calls of their own,    *)
(* while dev_handler connects and disconnects devices (shm_wrapper.c).     *)
(*                                                                         *)
(* A row is the name of the device whose values it holds, or Zeroed.  The  *)
(* calls are atomic (module ShmWrapper), except that device_read_uid looks *)
(* the uid up before it takes the semaphore of the row.  Which parameters  *)
(* of a device are sent (get_sub_requests) does not matter here.           *)
(***************************************************************************)
EXTENDS Integers, Sequences, FiniteSetsExt

CONSTANTS
  SLOTS,        \* MAX_DEVICES
  Devs,         \* devices
  Unknown       \* those of a type runtime_util does not know

ASSUME TelemetryConstants == SLOTS \in Nat \ {0} /\ Unknown \subseteq Devs

VARIABLES
  catalog, dev_ids, row,   \* shared memory
  online,       \* robot_desc DAWN is CONNECTED
  stage,        \* where send_device_data stands
  seen, ids,    \* its copies of catalog and dev_ids
  todo,         \* the indices it has still to serve, from the lowest on
  at,           \* the index its lookup has found
  devices,      \* the datagram: <<uid, whose values>>
  stayed        \* history: devices connected since the catalog was copied

tshm == <<catalog, dev_ids, row>>
tcopy == <<seen, ids, todo, at, devices>>
tvars == <<tshm, online, stage, tcopy, stayed>>

Slots == 0 .. SLOTS - 1
NoDevice == "none"
Zeroed == "zeroed"
OnStack == "garbage"

Connected == {dev_ids[i] : i \in catalog}

TInit ==
  /\ catalog = {} /\ dev_ids = [i \in Slots |-> NoDevice] /\ row = [i \in Slots |-> Zeroed]
  /\ online = FALSE /\ stage = "dawn"
  /\ seen = {} /\ ids = [i \in Slots |-> NoDevice] /\ todo = {} /\ at = -1 /\ devices = <<>>
  /\ stayed = {}

-----------------------------------------------------------------------------
(* dev_handler and Dawn.                                                   *)

Connects(d) ==
  LET free == Slots \ catalog
  IN  /\ d \notin Connected /\ free # {}
      /\ catalog' = catalog \cup {Min(free)}
      /\ dev_ids' = [dev_ids EXCEPT ![Min(free)] = d]
      /\ row' = [row EXCEPT ![Min(free)] = Zeroed]
      /\ UNCHANGED <<online, stage, tcopy, stayed>>

\* The identifier stays behind.
Leaves(i) ==
  /\ i \in catalog /\ catalog' = catalog \ {i}
  /\ stayed' = stayed \ {dev_ids[i]}
  /\ UNCHANGED <<dev_ids, row, online, stage, tcopy>>

\* The receiver of the device stores what it sent.
Reports(i) ==
  /\ i \in catalog
  /\ row' = [row EXCEPT ![i] = dev_ids[i]]
  /\ UNCHANGED <<catalog, dev_ids, online, stage, tcopy, stayed>>

Dawn ==
  /\ online' = ~online
  /\ UNCHANGED <<tshm, stage, tcopy, stayed>>

-----------------------------------------------------------------------------
(* send_device_data.                                                       *)

Step(from, to) == stage = from /\ stage' = to /\ UNCHANGED <<tshm, online>>

CheckDawn ==
  /\ Step("dawn", "catalog") /\ online
  /\ UNCHANGED <<tcopy, stayed>>

get_catalog ==
  /\ Step("catalog", "ids")
  /\ seen' = catalog
  /\ stayed' = Connected
  /\ UNCHANGED <<ids, todo, at, devices>>

get_device_identifiers ==
  /\ Step("ids", "device")
  /\ ids' = dev_ids
  /\ todo' = seen /\ devices' = <<>>
  /\ UNCHANGED <<seen, at, stayed>>

\* Fault: an unknown type ends the loop.
Skip_Break ==
  /\ Step("device", "device") /\ todo # {} /\ ids[Min(todo)] \in Unknown
  /\ todo' = {}
  /\ UNCHANGED <<seen, ids, at, devices, stayed>>

\* get_device knows no such type: the device is left out.
Skip ==
  /\ Step("device", "device") /\ todo # {} /\ ids[Min(todo)] \in Unknown
  /\ todo' = todo \ {Min(todo)}
  /\ UNCHANGED <<seen, ids, at, devices, stayed>>

\* device_read_uid, get_dev_ix_from_uid: -1 when the device is gone.
Lookup ==
  LET where == {i \in catalog : dev_ids[i] = ids[Min(todo)]}
  IN  /\ Step("device", "read") /\ todo # {} /\ ids[Min(todo)] \notin Unknown
      /\ at' = IF where = {} THEN -1 ELSE Min(where)
      /\ UNCHANGED <<seen, ids, todo, devices, stayed>>

\* device_read_helper; if the lookup failed, param_data is what was on the stack.
Read ==
  /\ Step("read", "device")
  /\ devices' = Append(devices, <<ids[Min(todo)], IF at = -1 THEN OnStack ELSE row[at]>>)
  /\ todo' = todo \ {Min(todo)} /\ at' = -1
  /\ UNCHANGED <<seen, ids, stayed>>

\* The custom data (module LogData) is added and the datagram packed and sent.
Packed ==
  /\ Step("device", "sendto") /\ todo = {}
  /\ UNCHANGED <<tcopy, stayed>>

Sendto ==
  /\ Step("sendto", "dawn")
  /\ seen' = {} /\ ids' = [i \in Slots |-> NoDevice] /\ devices' = <<>> /\ stayed' = {}
  /\ UNCHANGED <<todo, at>>

TNext ==
  \/ \E d \in Devs : Connects(d)
  \/ \E i \in Slots : Leaves(i) \/ Reports(i)
  \/ Dawn \/ CheckDawn \/ get_catalog \/ get_device_identifiers
  \/ Skip \/ Lookup \/ Read \/ Packed \/ Sendto

TSpec == TInit /\ [][TNext]_tvars

-----------------------------------------------------------------------------

\* A device that stays connected while a datagram is put together is in it
\* exactly once, if its type is known, with values of its own, whatever devices
\* come and go around it; only of a device that left meanwhile may the datagram
\* hold the values of another, or what was on the stack, or hold it twice.
DatagramIsTrue ==
  stage = "sendto" =>
    \A d \in stayed \ Unknown :
      \E i \in DOMAIN devices :
        /\ devices[i][1] = d /\ devices[i][2] \in {d, Zeroed}
        /\ \A j \in DOMAIN devices \ {i} : devices[j][1] # d
=============================================================================
