--------------------------- MODULE DataPathProofs ----------------------------
(***************************************************************************)
(* Between a device and Dawn: a port has one relay at a time and a relay a *)
(* slot of its own, for any number of ports and slots; a device that stays *)
(* connected is in the datagram once, with values of its own, whatever     *)
(* other devices do; and the values that dev_handler lays out for the      *)
(* bitmap of a write, or a device for the bitmap of its data, are the ones *)
(* the other side stores under the same parameters, for every device of    *)
(* the tables and every bitmap.                                            *)
(***************************************************************************)
EXTENDS Relay, Telemetry, Payload, CodecProofs

-----------------------------------------------------------------------------
(* Relay: the threads of dev_handler. *)

RelayTypeOK ==
  /\ used_ports \subseteq Ports /\ found \subseteq Ports /\ old_ports \subseteq Ports
  /\ poll \in {"scan", "communicate", "unmark"}
  /\ relay \in [Ports -> {"none", "verify", "connect", "broadcast", "monitor", "cancel",
                          "join", "disconnect", "close"}]
  /\ sender \in [Ports -> {"start", "wait", "work", "done"}]
  /\ receiver \in [Ports -> {"start", "wait", "work", "body", "handle", "done"}]
  /\ shm_dev_idx \in [Ports -> Ix \union {-1}]
  /\ slots \in [Ix -> Ports \union {NoPort}]

\* A port the main thread is about to serve or that has a relay.
Busy(p) == p \in found \/ relay[p] # "none"

\* Ports: a busy port is marked, also in the stale bitmap that ClearUnlocked is
\* about to write, but for the port that did not open.
PortsInv ==
  /\ \A p \in Ports : Busy(p) => p \in used_ports
  /\ \A p \in found : relay[p] = "none"
  /\ poll = "unmark" =>
       \E q \in found : q \notin old_ports /\ \A p \in Ports \ {q} : Busy(p) => p \in old_ports

\* Threads: from the join on, sender and receiver are gone.
ThreadsInv ==
  \A p \in Ports : relay[p] \in {"none", "disconnect", "close"} =>
                     sender[p] = "done" /\ receiver[p] = "done"

\* Slots: a relay has one only between connect and disconnect, and it is its own.
SlotsInv ==
  \A p \in Ports :
    /\ shm_dev_idx[p] # -1 => slots[shm_dev_idx[p]] = p
    /\ relay[p] \in {"none", "verify", "connect", "close"} => shm_dev_idx[p] = -1

\* The inductive invariant.
RelayInv == RelayTypeOK /\ PortsInv /\ ThreadsInv /\ SlotsInv

\* device_connect finds a first free slot when there is a free one.
LEMMA FirstFree ==
  ASSUME NEW S, S \subseteq Ix, S # {}
  PROVE  (CHOOSE ix \in S : \A j \in S : ix <= j) \in S
<1>1. Ix \subseteq Nat
  BY RelayConstants DEF Ix
<1>2. S \subseteq Nat
  BY <1>1, Zenon
<1> DEFINE R == {ss \in Nat \X Nat : ss[1] < ss[2]}
<1>3. IsWellFoundedOn(R, Nat)
  BY NatLessThanWellFounded, Zenon DEF OpToRel
<1>4. \A x, y \in S : ~(<<y, x>> \in R) => x <= y
  BY <1>2
<1> HIDE DEF R
<1>5. \E x \in S : \A y \in S : ~(<<y, x>> \in R)
  BY <1>2, <1>3, WFMin, Zenon
<1>6. \E x \in S : \A y \in S : x <= y
  BY <1>4, <1>5, Zenon
<1> QED
  BY <1>6, Zenon

\* All is quiet at the start.
LEMMA RelayStart == LInit => RelayInv
  BY RelayConstants
  DEF LInit, RelayInv, RelayTypeOK, PortsInv, ThreadsInv, SlotsInv, Busy, Ix

\* The steps of devices and clock touch nothing dev_handler keeps of its ports.
LEMMA OutsideKeepsInv ==
  ASSUME RelayInv, NEW p \in Ports, Plug(p) \/ Unplug(p) \/ Timeout(p)
  PROVE  RelayInv'
  BY Zenon DEF Plug, Unplug, Timeout, rpoll, rthreads, rdevice,
         RelayInv, RelayTypeOK, PortsInv, ThreadsInv, SlotsInv, Busy

\* Sender and receiver touch neither ports nor slots, and do not come back from
\* their end.
LEMMA WorkersKeepInv ==
  ASSUME RelayInv, NEW p \in Ports,
         \/ WorkerStep(p) \/ SpuriousReturn(p) \/ TakeDelimiter(p) \/ TakeBody(p, TRUE)
  PROVE  RelayInv'
<1>1. UNCHANGED <<used_ports, rpoll, relay, shm_dev_idx, slots>>
  BY Zenon DEF WorkerStep, StartWait, SpuriousReturn, Cancelable, TakeDelimiter, TakeBody, Handle,
         ReceiverStep, ThreadStep
<1>2. /\ sender' \in [Ports -> {"start", "wait", "work", "done"}]
      /\ receiver' \in [Ports -> {"start", "wait", "work", "body", "handle", "done"}]
      /\ \A q \in Ports : /\ sender[q] = "done" => sender'[q] = "done"
                          /\ receiver[q] = "done" => receiver'[q] = "done"
  <2>1. CASE StartWait(p)
    BY <2>1, Zenon DEF StartWait, RelayInv, RelayTypeOK
  <2>2. CASE SpuriousReturn(p)
    BY <2>2, Zenon DEF SpuriousReturn, RelayInv, RelayTypeOK
  <2>3. CASE Cancelable(p)
    BY <2>3, Zenon DEF Cancelable, RelayInv, RelayTypeOK
  <2>4. CASE TakeDelimiter(p) \/ TakeBody(p, TRUE) \/ TakeBody(p, FALSE) \/ Handle(p)
    BY <2>4, Zenon DEF TakeDelimiter, TakeBody, Handle, ReceiverStep, RelayInv, RelayTypeOK
  <2> QED
    BY <2>1, <2>2, <2>3, <2>4, Zenon DEF WorkerStep
<1> QED
  BY <1>1, <1>2, Zenon DEF rpoll, RelayInv, RelayTypeOK, PortsInv, ThreadsInv, SlotsInv, Busy

\* The main thread.  A port it takes is not marked, hence not busy; the stale
\* bitmap it writes back has every busy port but the one it gives up.
LEMMA PollKeepsInv ==
  ASSUME RelayInv, PollStep \/ \E p \in Ports : get_new_devices(p)
  PROVE  RelayInv'
<1>1. ASSUME NEW p \in Ports, get_new_devices(p) PROVE RelayInv'
  BY <1>1, Zenon DEF get_new_devices, rthreads, RelayInv, RelayTypeOK, PortsInv, ThreadsInv, SlotsInv, Busy
<1>2. CASE EndScan
  BY <1>2, Zenon DEF EndScan, rthreads, RelayInv, RelayTypeOK, PortsInv, ThreadsInv, SlotsInv, Busy
<1>3. ASSUME NEW p \in Ports, communicate(p) PROVE RelayInv'
  <2>1. /\ relay' = [relay EXCEPT ![p] = "verify"] /\ found' = found \ {p} /\ p \in found
        /\ poll' \in {"scan", "communicate"}
        /\ sender' = [sender EXCEPT ![p] = "start"] /\ receiver' = [receiver EXCEPT ![p] = "start"]
        /\ UNCHANGED <<used_ports, old_ports, shm_dev_idx, slots>>
    BY <1>3, Zenon DEF communicate, NextPort
  <2> QED
    BY <2>1, Zenon DEF RelayInv, RelayTypeOK, PortsInv, ThreadsInv, SlotsInv, Busy
<1>4. ASSUME NEW p \in Ports, OpenFails(p) PROVE RelayInv'
  BY <1>4, Zenon DEF OpenFails, rthreads, RelayInv, RelayTypeOK, PortsInv, ThreadsInv, SlotsInv, Busy
<1>5. ASSUME NEW p \in Ports, ClearUnlocked(p) PROVE RelayInv'
  <2>1. /\ used_ports' = old_ports /\ old_ports' = {} /\ found' = found \ {p}
        /\ poll = "unmark" /\ p \in found /\ p \notin old_ports
        /\ poll' \in {"scan", "communicate"}
        /\ UNCHANGED <<relay, sender, receiver, shm_dev_idx, slots>>
    BY <1>5, Zenon DEF ClearUnlocked, NextPort, rthreads
  <2>2. \A q \in Ports \ {p} : Busy(q) => q \in old_ports
    BY <2>1, Zenon DEF RelayInv, PortsInv, Busy
  <2> QED
    BY <2>1, <2>2, Zenon DEF RelayInv, RelayTypeOK, PortsInv, ThreadsInv, SlotsInv, Busy
<1> QED
  BY <1>1, <1>2, <1>3, <1>4, <1>5, Zenon DEF PollStep

\* The relayer moves within a relay of its port, takes a free slot and gives back
\* its own.
LEMMA RelayerKeepsInv ==
  ASSUME RelayInv, NEW p \in Ports, RelayerStep(p) \/ verify_device(p, TRUE)
  PROVE  RelayInv'
<1> USE DEF RelayInv, RelayTypeOK, PortsInv, ThreadsInv, SlotsInv, Busy, RelayStep, rpoll
<1>1. ASSUME NEW ok \in BOOLEAN, verify_device(p, ok) PROVE RelayInv'
  BY <1>1, Zenon DEF verify_device
<1>2. CASE device_connect(p)
  <2> DEFINE free == {ix \in Ix : slots[ix] = NoPort}
             first == CHOOSE ix \in free : \A j \in free : ix <= j
  <2>1. CASE free = {}
    BY <1>2, <2>1, Zenon DEF device_connect
  <2>2. CASE free # {}
    <3>1. first \in free
      BY <2>2, FirstFree, Zenon
    <3> HIDE DEF first
    <3>2. first \in Ix /\ slots[first] = NoPort /\ first # -1
      BY <3>1, RelayConstants DEF Ix
    <3>3. /\ relay[p] = "connect" /\ relay' = [relay EXCEPT ![p] = "broadcast"]
          /\ shm_dev_idx' = [shm_dev_idx EXCEPT ![p] = first]
          /\ slots' = [slots EXCEPT ![first] = p]
          /\ UNCHANGED <<used_ports, sender, receiver, poll, found, old_ports>>
      BY <1>2, <2>2, Zenon DEF device_connect, first
    <3>4. SlotsInv'
      BY <3>2, <3>3, RelayConstants, ZenonT(30)
    <3> QED
      BY <3>2, <3>3, <3>4, Zenon
  <2> QED
    BY <2>1, <2>2, Zenon
<1>3. CASE Broadcast(p)
  BY <1>3, Zenon DEF Broadcast, Woken
<1>4. CASE Monitor(p)
  BY <1>4, Zenon DEF Monitor
<1>5. CASE Cancel(p)
  BY <1>5, Zenon DEF Cancel
<1>6. CASE Join(p)
  BY <1>6, Zenon DEF Join
<1>7. CASE device_disconnect(p)
  BY <1>7, RelayConstants, ZenonT(30) DEF device_disconnect, Ix
<1>8. CASE Release(p)
  BY <1>8, Zenon DEF Release
<1> QED
  BY <1>1, <1>2, <1>3, <1>4, <1>5, <1>6, <1>7, <1>8, Zenon DEF RelayerStep

\* dev_handler keeps the invariant for ever, its unlocked write included.
THEOREM RelayInvariant == LSpec => []RelayInv
<1>1. RelayInv /\ [LNext]_lvars => RelayInv'
  <2>1. ASSUME RelayInv, UNCHANGED lvars PROVE RelayInv'
    BY <2>1, Zenon DEF lvars, rpoll, rthreads, RelayInv, RelayTypeOK, PortsInv, ThreadsInv, SlotsInv, Busy
  <2> QED
    BY <2>1, OutsideKeepsInv, WorkersKeepInv, PollKeepsInv, RelayerKeepsInv, Zenon DEF LNext
<1> QED
  BY <1>1, RelayStart, PTL DEF LSpec

\* A port is handed to communicate() only when nothing of an earlier device of
\* that port is left.
THEOREM PortHasOneRelay == LSpec => []OneRelay
<1>1. RelayInv => OneRelay
  BY Zenon DEF RelayInv, RelayTypeOK, PortsInv, ThreadsInv, OneRelay
<1> QED
  BY <1>1, RelayInvariant, PTL

\* A relay's slot is its own, and its sender and receiver are gone before it is
\* given up.
THEOREM SlotIsOwn == LSpec => []WorksOnOwnSlot
<1>1. RelayInv => WorksOnOwnSlot
  BY Zenon DEF RelayInv, ThreadsInv, SlotsInv, WorksOnOwnSlot, Working
<1> QED
  BY <1>1, RelayInvariant, PTL

-----------------------------------------------------------------------------
(* Telemetry: the datagram of device data. *)

Uids == Devs \cup {NoDevice}
Values == Devs \cup {NoDevice, Zeroed, OnStack}

TelemetryTypeOK ==
  /\ catalog \subseteq Slots /\ dev_ids \in [Slots -> Uids] /\ row \in [Slots -> Values]
  /\ stage \in {"dawn", "catalog", "ids", "device", "read", "sendto"}
  /\ seen \subseteq Slots /\ ids \in [Slots -> Uids] /\ todo \subseteq seen
  /\ at \in Slots \cup {-1}
  /\ devices \in Seq(Uids \X Values)

\* Shared memory: a device is connected once, and a row holds its own values.
MemoryInv ==
  /\ \A i, j \in catalog : dev_ids[i] = dev_ids[j] => i = j
  /\ \A i \in catalog : row[i] \in {dev_ids[i], Zeroed}

\* The identifiers the datagram is going to be made from.
Copied == IF stage = "ids" THEN dev_ids ELSE ids

\* A device that stays is where it was when the catalog was copied, and no other
\* index that was connected then has its identifier.
StaysAt(d, i) ==
  /\ i \in seen \cap catalog /\ dev_ids[i] = d
  /\ \A j \in seen : Copied[j] = d => j = i
  /\ Copied[i] = d

\* How the datagram holds a device: once, with its own values, or not yet.
Holds(d) ==
  \E k \in DOMAIN devices :
    /\ devices[k][1] = d /\ devices[k][2] \in {d, Zeroed}
    /\ \A l \in DOMAIN devices \ {k} : devices[l][1] # d
HoldsNot(d) == \A k \in DOMAIN devices : devices[k][1] # d

StayedInv ==
  \A d \in stayed :
    /\ stage \notin {"dawn", "catalog"}
    /\ \E i \in Slots :
         /\ StaysAt(d, i)
         /\ stage # "ids" /\ d \notin Unknown => IF i \in todo THEN HoldsNot(d) ELSE Holds(d)

\* The lookup has found the device that is being read, unless it left.
LookupInv ==
  /\ stage = "read" =>
       /\ todo # {} /\ ids[Min(todo)] \notin Unknown
       /\ ids[Min(todo)] \in stayed => at \in catalog /\ dev_ids[at] = ids[Min(todo)]
  /\ stage \notin {"device", "read"} => todo = {}

\* The inductive invariant.
TelemetryInv == TelemetryTypeOK /\ MemoryInv /\ StayedInv /\ LookupInv

\* The least of a set of slots is one of them.
LEMMA LowestSlot ==
  ASSUME NEW S, S \subseteq Slots, S # {}
  PROVE  Min(S) \in S
<1>1. S \subseteq Nat
  BY TelemetryConstants DEF Slots
<1> DEFINE R == {ss \in Nat \X Nat : ss[1] < ss[2]}
<1>2. IsWellFoundedOn(R, Nat)
  BY NatLessThanWellFounded, Zenon DEF OpToRel
<1>3. \A x, y \in S : ~(<<y, x>> \in R) => x <= y
  BY <1>1
<1> HIDE DEF R
<1>4. \E x \in S : \A y \in S : ~(<<y, x>> \in R)
  BY <1>1, <1>2, WFMin, Zenon
<1>5. \E x \in S : \A y \in S : x <= y
  BY <1>3, <1>4, Zenon
<1> QED
  BY <1>5, Zenon DEF Min

\* Nothing is connected and nothing is copied at first.
LEMMA TelemetryStart == TInit => TelemetryInv
<1> SUFFICES ASSUME TInit PROVE TelemetryInv
  BY Zenon
<1>1. devices \in Seq(Uids \X Values)
  BY DEF TInit
<1>2. TelemetryTypeOK
  BY <1>1, Zenon DEF TInit, TelemetryTypeOK, Uids, Values
<1> QED
  BY <1>2, Zenon DEF TInit, TelemetryInv, MemoryInv, StayedInv, LookupInv

\* A datagram nobody changes holds what it held.
LEMMA DatagramKept ==
  ASSUME devices' = devices, NEW d
  PROVE  (Holds(d)' <=> Holds(d)) /\ (HoldsNot(d)' <=> HoldsNot(d))
BY Zenon DEF Holds, HoldsNot

\* A device stays at its index when neither shared memory nor the copies change.
LEMMA StaysAtKept ==
  ASSUME UNCHANGED <<catalog, dev_ids, seen, ids>>, stage' = "ids" <=> stage = "ids", NEW d, NEW i
  PROVE  StaysAt(d, i) => StaysAt(d, i)'
<1>1. Copied' = Copied
  BY Zenon DEF Copied
<1> QED
  BY <1>1, Zenon DEF StaysAt

\* A step that adds nothing to the datagram and moves no device that stays.
LEMMA StayedKept ==
  ASSUME StayedInv, UNCHANGED <<todo, devices>>, stayed' \subseteq stayed,
         stage' \in {"dawn", "catalog"} => stage \in {"dawn", "catalog"}, stage' # "ids" => stage # "ids",
         \A d \in stayed', i \in Slots : StaysAt(d, i) => StaysAt(d, i)'
  PROVE  StayedInv'
<1>1. ASSUME NEW d \in stayed'
      PROVE  /\ stage' \notin {"dawn", "catalog"}
             /\ \E i \in Slots :
                  /\ StaysAt(d, i)'
                  /\ stage' # "ids" /\ d \notin Unknown => IF i \in todo' THEN HoldsNot(d)' ELSE Holds(d)'
  <2>1. d \in stayed
    BY <1>1, Zenon
  <2>2. PICK i \in Slots :
          /\ StaysAt(d, i)
          /\ stage # "ids" /\ d \notin Unknown => IF i \in todo THEN HoldsNot(d) ELSE Holds(d)
    BY <2>1, Zenon DEF StayedInv
  <2>3. StaysAt(d, i)'
    BY <1>1, <2>2, Zenon
  <2>4. stage' # "ids" /\ d \notin Unknown => IF i \in todo' THEN HoldsNot(d)' ELSE Holds(d)'
    BY <2>2, DatagramKept, Zenon
  <2>5. stage' \notin {"dawn", "catalog"}
    BY <2>1, Zenon DEF StayedInv
  <2> QED
    BY <2>3, <2>4, <2>5, Zenon
<1> QED
  BY <1>1, Zenon DEF StayedInv

\* A step that changes nothing the invariant speaks of.
LEMMA NothingMoves ==
  ASSUME TelemetryInv, UNCHANGED <<catalog, dev_ids, row, stage, seen, ids, todo, at, devices, stayed>>
  PROVE  TelemetryInv'
<1>1. TelemetryTypeOK' /\ MemoryInv'
  BY Zenon DEF TelemetryInv, TelemetryTypeOK, MemoryInv
<1>2. StayedInv'
  BY StaysAtKept, StayedKept, Zenon DEF TelemetryInv
<1>3. LookupInv'
  BY Zenon DEF TelemetryInv, LookupInv
<1> QED
  BY <1>1, <1>2, <1>3, Zenon DEF TelemetryInv

\* dev_handler: a device that connects takes a free slot and is not connected
\* yet; one that leaves stays no more; a row gets the values of its own device.
LEMMA OthersKeepTelemetry ==
  ASSUME TelemetryInv,
         \/ \E d \in Devs : Connects(d)
         \/ \E i \in Slots : Leaves(i) \/ Reports(i)
         \/ Dawn
  PROVE  TelemetryInv'
<1> USE DEF TelemetryInv
<1>1. ASSUME NEW d \in Devs, Connects(d)
      PROVE  TelemetryInv'
  <2>1. PICK f \in Slots :
           /\ f \notin catalog /\ catalog' = catalog \cup {f}
           /\ dev_ids' = [dev_ids EXCEPT ![f] = d] /\ row' = [row EXCEPT ![f] = Zeroed]
    <3>1. Min(Slots \ catalog) \in Slots \ catalog
      BY <1>1, LowestSlot, Zenon DEF Connects
    <3> QED
      BY <1>1, <3>1, Zenon DEF Connects
  <2>2. UNCHANGED <<stage, seen, ids, todo, at, devices, stayed>> /\ d \notin Connected
    BY <1>1, Zenon DEF Connects, tcopy
  <2>3. TelemetryTypeOK'
    BY <2>1, <2>2, Zenon DEF TelemetryTypeOK, Uids, Values
  <2>4. \A i \in catalog : i # f /\ i \in Slots /\ dev_ids'[i] = dev_ids[i] /\ row'[i] = row[i] /\ dev_ids[i] # d
    BY <2>1, <2>2, Zenon DEF TelemetryTypeOK, Connected
  <2>5. dev_ids'[f] = d /\ row'[f] = Zeroed
    BY <2>1, Zenon DEF TelemetryTypeOK
  <2>6. MemoryInv'
    BY <2>1, <2>4, <2>5 DEF MemoryInv
  <2>7. ASSUME NEW e, NEW i \in Slots, StaysAt(e, i)
        PROVE  StaysAt(e, i)'
    <3>1. e # d
      BY <2>2, <2>7, Zenon DEF StaysAt, Connected
    <3>2. \A j \in seen : Copied'[j] = e => Copied[j] = e
      BY <2>1, <2>2, <3>1, Zenon DEF Copied, TelemetryTypeOK
    <3>3. Copied'[i] = e
      BY <2>4, <2>2, <2>7, Zenon DEF Copied, StaysAt
    <3> QED
      BY <2>1, <2>2, <2>4, <2>7, <3>2, <3>3, Zenon DEF StaysAt
  <2>8. StayedInv'
    BY <2>2, <2>7, StayedKept, Zenon
  <2>9. LookupInv'
    BY <2>1, <2>2, <2>4, Zenon DEF LookupInv
  <2> QED
    BY <2>3, <2>6, <2>8, <2>9, Zenon
<1>2. ASSUME NEW x \in Slots, Leaves(x)
      PROVE  TelemetryInv'
  <2>1. UNCHANGED <<dev_ids, row, stage, seen, ids, todo, at, devices>> /\ catalog' = catalog \ {x}
        /\ stayed' = stayed \ {dev_ids[x]}
    BY <1>2, Zenon DEF Leaves, tcopy
  <2>2. TelemetryTypeOK'
    BY <2>1, Zenon DEF TelemetryTypeOK
  <2>3. MemoryInv'
    BY <2>1, Zenon DEF MemoryInv
  <2>4. ASSUME NEW e \in stayed', NEW i \in Slots, StaysAt(e, i)
        PROVE  StaysAt(e, i)'
    BY <2>1, <2>4 DEF StaysAt, Copied
  <2>5. StayedInv'
    BY <2>1, <2>4, StayedKept, Zenon
  <2>6. LookupInv'
    BY <2>1, Zenon DEF LookupInv
  <2> QED
    BY <2>2, <2>3, <2>5, <2>6, Zenon
<1>3. ASSUME NEW x \in Slots, Reports(x)
      PROVE  TelemetryInv'
  <2>1. UNCHANGED <<catalog, dev_ids, stage, seen, ids, todo, at, devices, stayed>>
        /\ x \in catalog /\ row' = [row EXCEPT ![x] = dev_ids[x]]
    BY <1>3, Zenon DEF Reports, tcopy
  <2>2. TelemetryTypeOK'
    BY <2>1, Zenon DEF TelemetryTypeOK, Uids, Values
  <2>3. MemoryInv'
    BY <2>1, Zenon DEF MemoryInv, TelemetryTypeOK
  <2>4. StayedInv'
    BY <2>1, StaysAtKept, StayedKept, Zenon
  <2>5. LookupInv'
    BY <2>1, Zenon DEF LookupInv
  <2> QED
    BY <2>2, <2>3, <2>4, <2>5, Zenon
<1>4. ASSUME Dawn
      PROVE  TelemetryInv'
  <2>1. UNCHANGED <<catalog, dev_ids, row, stage, seen, ids, todo, at, devices, stayed>>
    BY <1>4, Zenon DEF Dawn, tshm, tcopy
  <2> QED
    BY <2>1, NothingMoves, Zenon
<1> QED
  BY <1>1, <1>2, <1>3, <1>4, Zenon

\* The catalog and the identifiers: what is connected when the catalog is copied
\* stays under the index it has, as long as it stays.
LEMMA CopiesKeepTelemetry ==
  ASSUME TelemetryInv, CheckDawn \/ get_catalog \/ get_device_identifiers
  PROVE  TelemetryInv'
<1> USE DEF TelemetryInv
<1>1. ASSUME CheckDawn
      PROVE  TelemetryInv'
  BY <1>1, Zenon DEF CheckDawn, Step, tshm, tcopy, TelemetryTypeOK, MemoryInv, StayedInv, LookupInv
<1>2. ASSUME get_catalog
      PROVE  TelemetryInv'
  <2>1. UNCHANGED <<catalog, dev_ids, row, ids, todo, at, devices>> /\ stage = "catalog" /\ stage' = "ids"
        /\ seen' = catalog /\ stayed' = Connected
    BY <1>2, Zenon DEF get_catalog, Step, tshm
  <2>2. todo = {}
    BY <2>1, Zenon DEF LookupInv
  <2>3. TelemetryTypeOK'
    BY <2>1, <2>2, Zenon DEF TelemetryTypeOK
  <2>4. MemoryInv'
    BY <2>1, Zenon DEF MemoryInv
  <2>5. \A i \in catalog : StaysAt(dev_ids[i], i)'
    BY <2>1, Zenon DEF StaysAt, Copied, MemoryInv
  <2>6. StayedInv'
    BY <2>1, <2>5, Zenon DEF StayedInv, Connected, TelemetryTypeOK
  <2> QED
    BY <2>1, <2>3, <2>4, <2>6, Zenon DEF LookupInv
<1>3. ASSUME get_device_identifiers
      PROVE  TelemetryInv'
  <2>1. UNCHANGED <<catalog, dev_ids, row, seen, at, stayed>> /\ stage = "ids" /\ stage' = "device"
        /\ ids' = dev_ids /\ todo' = seen /\ devices' = <<>>
    BY <1>3, Zenon DEF get_device_identifiers, Step, tshm
  <2>2. devices' \in Seq(Uids \X Values)
    BY <2>1
  <2>3. TelemetryTypeOK'
    BY <2>1, <2>2, Zenon DEF TelemetryTypeOK
  <2>4. \A d : HoldsNot(d)'
    BY <2>1 DEF HoldsNot
  <2>5. \A d, i : StaysAt(d, i) => StaysAt(d, i)' /\ i \in todo'
    BY <2>1, Zenon DEF StaysAt, Copied
  <2>6. StayedInv'
    BY <2>1, <2>4, <2>5, Zenon DEF StayedInv
  <2> QED
    BY <2>1, <2>3, <2>6, Zenon DEF MemoryInv, LookupInv
<1> QED
  BY <1>1, <1>2, <1>3, Zenon

\* The devices, one index after the other: the entry of a device that stays is
\* made when its index comes up, and the lookup has found its own row for it.
LEMMA DeviceKeepsTelemetry ==
  ASSUME TelemetryInv, Skip \/ Lookup \/ Read
  PROVE  TelemetryInv'
<1> USE DEF TelemetryInv
<1>1. ASSUME Skip
      PROVE  TelemetryInv'
  <2>1. PICK x \in todo : x = Min(todo)
    BY <1>1, LowestSlot, Zenon DEF Skip, TelemetryTypeOK
  <2>2. UNCHANGED <<catalog, dev_ids, row, seen, ids, at, devices, stayed>> /\ stage = "device"
        /\ stage' = "device" /\ ids[x] \in Unknown /\ todo' = todo \ {x}
    BY <1>1, <2>1, Zenon DEF Skip, Step, tshm
  <2>3. TelemetryTypeOK'
    BY <2>2, Zenon DEF TelemetryTypeOK
  <2>4. ASSUME NEW d, NEW i, StaysAt(d, i)
        PROVE  StaysAt(d, i)' /\ (d \notin Unknown => i # x)
    BY <2>2, <2>4, Zenon DEF StaysAt, Copied
  <2>5. StayedInv'
    BY <2>2, <2>4 DEF StayedInv, Holds, HoldsNot
  <2> QED
    BY <2>2, <2>3, <2>5, Zenon DEF MemoryInv, LookupInv
<1>2. ASSUME Lookup
      PROVE  TelemetryInv'
  <2>1. PICK x \in todo : x = Min(todo)
    BY <1>2, LowestSlot, Zenon DEF Lookup, TelemetryTypeOK
  <2> DEFINE where == {i \in catalog : dev_ids[i] = ids[x]}
  <2>2. UNCHANGED <<catalog, dev_ids, row, seen, ids, todo, devices, stayed>> /\ stage = "device"
        /\ stage' = "read" /\ ids[x] \notin Unknown /\ at' = IF where = {} THEN -1 ELSE Min(where)
    BY <1>2, <2>1, Zenon DEF Lookup, Step, tshm
  <2>3. where # {} => at' \in where
    BY <2>2, LowestSlot, Zenon DEF TelemetryTypeOK
  <2>4. at' \in Slots \cup {-1}
    BY <2>2, <2>3, Zenon DEF TelemetryTypeOK
  <2>5. TelemetryTypeOK'
    BY <2>2, <2>4, Zenon DEF TelemetryTypeOK
  <2>6. ids[x] \in stayed => where # {}
    BY Zenon DEF StayedInv, StaysAt
  <2>7. StayedInv'
    BY <2>2, StaysAtKept, StayedKept, Zenon
  <2>8. LookupInv'
    BY <2>1, <2>2, <2>3, <2>6, Zenon DEF LookupInv
  <2> QED
    BY <2>2, <2>5, <2>7, <2>8, Zenon DEF MemoryInv
<1>3. ASSUME Read
      PROVE  TelemetryInv'
  <2>1. PICK x \in todo : x = Min(todo)
    BY <1>3, LowestSlot, Zenon DEF Read, Step, TelemetryTypeOK, LookupInv
  <2>2. PICK v : v = IF at = -1 THEN OnStack ELSE row[at]
    BY Zenon
  <2>3. UNCHANGED <<catalog, dev_ids, row, seen, ids, stayed>> /\ stage = "read"
        /\ stage' = "device" /\ todo' = todo \ {x} /\ at' = -1
        /\ devices' = Append(devices, <<ids[x], v>>)
    BY <1>3, <2>1, <2>2, Zenon DEF Read, Step, tshm
  <2>4. ids[x] \in Uids /\ v \in Values
    BY <2>2, Zenon DEF TelemetryTypeOK, Values
  <2>5. devices' \in Seq(Uids \X Values) /\ Len(devices') = Len(devices) + 1 /\ Len(devices) \in Nat
        /\ \A k \in 1 .. Len(devices) : devices'[k] = devices[k]
    BY <2>3, <2>4, SMTT(30) DEF TelemetryTypeOK
  <2>6. devices'[Len(devices) + 1][1] = ids[x] /\ devices'[Len(devices) + 1][2] = v
    BY <2>3, <2>4, <2>5, SMTT(30) DEF TelemetryTypeOK
  <2>7. DOMAIN devices = 1 .. Len(devices) /\ DOMAIN devices' = 1 .. Len(devices) + 1
    BY <2>5 DEF TelemetryTypeOK
  <2>8. TelemetryTypeOK'
    BY <2>3, <2>5, Zenon DEF TelemetryTypeOK
  <2>9. ASSUME NEW d \in stayed, NEW i \in Slots, StaysAt(d, i)
        PROVE  StaysAt(d, i)' /\ (ids[x] = d <=> i = x)
    BY <2>3, <2>9, Zenon DEF StaysAt, Copied, TelemetryTypeOK
  <2>10. ids[x] \in stayed => v \in {ids[x], Zeroed}
    <3> SUFFICES ASSUME ids[x] \in stayed PROVE v \in {ids[x], Zeroed}
      BY Zenon
    <3>1. at \in catalog /\ dev_ids[at] = ids[x]
      BY <2>1, <2>3, Zenon DEF LookupInv
    <3>2. at # -1
      BY <3>1, TelemetryConstants DEF TelemetryTypeOK, Slots
    <3> QED
      BY <2>2, <3>1, <3>2, Zenon DEF MemoryInv
  <2>11. ASSUME NEW d \in stayed, d # ids[x]
         PROVE  (HoldsNot(d) => HoldsNot(d)') /\ (Holds(d) => Holds(d)')
    <3>1. \A k \in DOMAIN devices' : devices'[k][1] = d => k \in DOMAIN devices /\ devices'[k] = devices[k]
      BY <2>5, <2>6, <2>7, <2>11
    <3>2. \A k \in DOMAIN devices : k \in DOMAIN devices' /\ devices'[k] = devices[k]
      BY <2>5, <2>7
    <3> QED
      BY <3>1, <3>2, Zenon DEF Holds, HoldsNot
  <2>12. ASSUME NEW d \in stayed, d = ids[x], HoldsNot(d)
         PROVE  Holds(d)'
    <3>1. \A k \in DOMAIN devices' \ {Len(devices) + 1} : devices'[k][1] # d
      BY <2>5, <2>7, <2>12 DEF HoldsNot
    <3>2. Len(devices) + 1 \in DOMAIN devices'
      BY <2>5, <2>7
    <3> QED
      BY <2>6, <2>10, <2>12, <3>1, <3>2, Zenon DEF Holds
  <2>13. StayedInv'
    BY <2>3, <2>9, <2>11, <2>12, Zenon DEF StayedInv
  <2> QED
    BY <2>3, <2>8, <2>13, Zenon DEF MemoryInv, LookupInv
<1> QED
  BY <1>1, <1>2, <1>3, Zenon

\* The datagram is complete when no index is left, and forgotten when it is sent.
LEMMA SendKeepsTelemetry ==
  ASSUME TelemetryInv, Packed \/ Sendto
  PROVE  TelemetryInv'
<1> USE DEF TelemetryInv
<1>1. ASSUME Packed
      PROVE  TelemetryInv'
  <2>1. UNCHANGED <<catalog, dev_ids, row, seen, ids, todo, at, devices, stayed>> /\ stage = "device"
        /\ stage' = "sendto" /\ todo = {}
    BY <1>1, Zenon DEF Packed, Step, tshm, tcopy
  <2>2. TelemetryTypeOK' /\ MemoryInv'
    BY <2>1, Zenon DEF TelemetryTypeOK, MemoryInv
  <2>3. StayedInv'
    BY <2>1, StaysAtKept, StayedKept, Zenon
  <2>4. LookupInv'
    BY <2>1, Zenon DEF LookupInv
  <2> QED
    BY <2>2, <2>3, <2>4, Zenon
<1>2. ASSUME Sendto
      PROVE  TelemetryInv'
  <2>1. devices' \in Seq(Uids \X Values)
    BY <1>2 DEF Sendto
  <2>2. todo = {}
    BY <1>2, Zenon DEF Sendto, Step, LookupInv
  <2>3. TelemetryTypeOK'
    BY <1>2, <2>1, <2>2, Zenon DEF Sendto, Step, tshm, TelemetryTypeOK, Uids
  <2> QED
    BY <1>2, <2>2, <2>3, Zenon DEF Sendto, Step, tshm, MemoryInv, StayedInv, LookupInv
<1> QED
  BY <1>1, <1>2, Zenon

\* The invariant holds in every reachable state.
LEMMA TelemetryInvariant == TSpec => []TelemetryInv
<1>1. ASSUME TelemetryInv, [TNext]_tvars
      PROVE  TelemetryInv'
  <2>1. CASE UNCHANGED tvars
    <3>1. UNCHANGED <<catalog, dev_ids, row, stage, seen, ids, todo, at, devices, stayed>>
      BY <2>1, Zenon DEF tvars, tshm, tcopy
    <3> QED
      BY <1>1, <3>1, NothingMoves, Zenon
  <2>2. CASE TNext
    BY <1>1, <2>2, OthersKeepTelemetry, CopiesKeepTelemetry, DeviceKeepsTelemetry, SendKeepsTelemetry, Zenon
       DEF TNext
  <2> QED
    BY <1>1, <2>1, <2>2, Zenon
<1> QED
  BY <1>1, TelemetryStart, PTL DEF TSpec

\* send_device_data puts a device that stays connected meanwhile into the datagram
\* exactly once, with values of its own, for any number of devices and slots.
THEOREM DatagramsAreTrue == TSpec => []DatagramIsTrue
<1>1. TelemetryInv => DatagramIsTrue
  BY Zenon DEF TelemetryInv, StayedInv, LookupInv, Holds, DatagramIsTrue
<1> QED
  BY <1>1, TelemetryInvariant, PTL
-----------------------------------------------------------------------------
(* Payload: the tables.                                                      *)

\* The two sides agree on the size of every parameter that is read or written.
SizesAgree(i) ==
  /\ i < 16 /\ params(i).type \in {1, 4}
  /\ params(i).read => device_read(i) = params(i).type
  /\ params(i).write => \A v : device_write(i, v) = IF v \in refused THEN 0 ELSE params(i).type
  /\ dev = "ServoControl" => params(i).type = 4

\* What refused means for the devices that are no servos.
RefusedOK == dev # "ServoControl" => refused = {}

\* LimitSwitch, LineFollower, ServoControl and PolarBear.
LEMMA SmallTables ==
  ASSUME dev \in {"LimitSwitch", "LineFollower", "ServoControl", "PolarBear"}, RefusedOK, NEW i \in Nat, Exists(i)
  PROVE  SizesAgree(i)
<1>1. CASE dev = "LimitSwitch"
  <2>1. DEVICES[dev] = <<ro(BOOL), ro(BOOL), ro(BOOL)>>
    BY <1>1, Zenon DEF DEVICES, LimitSwitch
  <2>2. i \in 0 .. 2
    BY <2>1 DEF Exists
  <2>3. params(i) = ro(BOOL)
    BY <2>1, <2>2 DEF params
  <2> QED
    BY <1>1, <2>2, <2>3 DEF SizesAgree, ro, BOOL, device_read, LimitRead
<1>2. CASE dev = "LineFollower"
  <2>1. DEVICES[dev] = <<ro(FLOAT), ro(FLOAT), ro(FLOAT)>>
    BY <1>2, Zenon DEF DEVICES, LineFollower
  <2>2. i \in 0 .. 2
    BY <2>1 DEF Exists
  <2>3. params(i) = ro(FLOAT)
    BY <2>1, <2>2 DEF params
  <2> QED
    BY <1>2, <2>2, <2>3 DEF SizesAgree, ro, FLOAT, device_read, LineRead
<1>3. CASE dev = "ServoControl"
  <2>1. DEVICES[dev] = <<rw(FLOAT), rw(FLOAT)>>
    BY <1>3, Zenon DEF DEVICES, ServoControl
  <2>2. i \in 0 .. 1
    BY <2>1 DEF Exists
  <2>3. params(i) = rw(FLOAT)
    BY <2>1, <2>2 DEF params
  <2> QED
    BY <1>3, <2>2, <2>3 DEF SizesAgree, rw, FLOAT, device_read, ServoRead, device_write, ServoWrite
<1>4. CASE dev = "PolarBear"
  <2>1. DEVICES[dev] = <<rw(FLOAT), ro(FLOAT), rw(FLOAT)>>
    BY <1>4, Zenon DEF DEVICES, PolarBear
  <2>2. i \in 0 .. 2
    BY <2>1 DEF Exists
  <2>3. params(i) = IF i = 1 THEN ro(FLOAT) ELSE rw(FLOAT)
    BY <2>1, <2>2 DEF params
  <2>4. refused = {}
    BY <1>4, Zenon DEF RefusedOK
  <2> QED
    BY <1>4, <2>2, <2>3, <2>4 DEF SizesAgree, rw, ro, FLOAT, device_read, PolarRead, device_write, PolarWrite
<1> QED
  BY <1>1, <1>2, <1>3, <1>4, Zenon

\* DummyDevice.
LEMMA DummyTable ==
  ASSUME dev = "DummyDevice", RefusedOK, NEW i \in Nat, Exists(i)
  PROVE  SizesAgree(i)
<1>1. DEVICES[dev] = DummyDevice
  BY Zenon DEF DEVICES
<1>2. i \in 0 .. 15
  BY <1>1 DEF Exists, DummyDevice
<1>3. params(i).type = DummyBytes[i + 1]
  BY <1>1, <1>2 DEF params, DummyDevice, DummyBytes, rw, ro, wo, INT, FLOAT, BOOL
<1>4. (params(i).read => i \notin 6 .. 11) /\ (params(i).write => ~(i < 6))
  BY <1>1, <1>2 DEF params, DummyDevice, rw, ro, wo
<1>5. DummyBytes[i + 1] \in {1, 4}
  BY <1>2 DEF DummyBytes
<1>6. refused = {}
  BY Zenon DEF RefusedOK
<1> QED
  BY <1>2, <1>3, <1>4, <1>5, <1>6 DEF SizesAgree, device_read, device_write, DummyRead, DummyWrite

\* KoalaBear.
LEMMA KoalaTable ==
  ASSUME dev = "KoalaBear", RefusedOK, NEW i \in Nat, Exists(i)
  PROVE  SizesAgree(i)
<1>1. DEVICES[dev] = KoalaBear
  BY Zenon DEF DEVICES
<1>2. PICK m : /\ m = <<rw(FLOAT), rw(FLOAT), rw(BOOL), rw(BOOL), rw(FLOAT), rw(FLOAT), rw(FLOAT), rw(INT)>>
                /\ DEVICES[dev] = m \o m
  BY <1>1, Zenon DEF KoalaBear
<1>3. m \in Seq({rw(1), rw(4)}) /\ Len(m) = 8 /\ \A k \in 1 .. 8 : m[k] = IF k \in {3, 4} THEN rw(1) ELSE rw(4)
  BY <1>2 DEF INT, FLOAT, BOOL
<1>4. Len(m \o m) = 16 /\ \A k \in 1 .. 16 : (m \o m)[k] = IF k <= 8 THEN m[k] ELSE m[k - 8]
  <2>1. PICK x : x = m \o m
    BY Zenon
  <2>2. Joins(x, m, m)
    BY <1>3, <2>1, Joined, Zenon
  <2>3. Len(x) = 8 + 8 /\ (\A k \in 1 .. 8 : x[k] = m[k]) /\ \A k \in 1 .. 8 : x[8 + k] = m[k]
    BY <1>3, <2>2, Zenon DEF Joins
  <2>4. ASSUME NEW k \in 1 .. 16, ~(k <= 8)
        PROVE  x[k] = m[k - 8]
    <3>1. k - 8 \in 1 .. 8 /\ 8 + (k - 8) = k
      BY <2>4
    <3> QED
      BY <2>3, <3>1, Zenon
  <2>5. Len(x) = 16 /\ \A k \in 1 .. 16 : k <= 8 => x[k] = m[k]
    BY <2>3
  <2> QED
    BY <2>1, <2>4, <2>5, Zenon
<1>5. i \in 0 .. 15
  BY <1>2, <1>4 DEF Exists
<1>6. params(i) = IF i \in {2, 3, 10, 11} THEN rw(1) ELSE rw(4)
  <2>1. params(i) = IF i + 1 <= 8 THEN m[i + 1] ELSE m[i + 1 - 8]
    BY <1>2, <1>4, <1>5 DEF params
  <2> QED
    BY <1>3, <1>5, <2>1
<1>7. i % 8 \in {2, 3} <=> i \in {2, 3, 10, 11}
  BY <1>5
<1>8. refused = {}
  BY Zenon DEF RefusedOK
<1> QED
  BY <1>5, <1>6, <1>7, <1>8 DEF SizesAgree, device_read, device_write, KoalaRead, KoalaWrite, rw

\* BatteryBuzzer.
LEMMA BuzzerTable ==
  ASSUME dev = "BatteryBuzzer", NEW i \in Nat, Exists(i)
  PROVE  SizesAgree(i)
<1>1. DEVICES[dev] = BatteryBuzzer
  BY Zenon DEF DEVICES
<1>2. PICK m, w : m = <<ro(BOOL), ro(BOOL)>> /\ w = [k \in 1 .. 6 |-> ro(FLOAT)] /\ DEVICES[dev] = m \o w
  BY <1>1, Zenon DEF BatteryBuzzer
<1>3. /\ m \in Seq({ro(1), ro(4)}) /\ Len(m) = 2 /\ \A k \in 1 .. 2 : m[k] = ro(1)
      /\ w \in Seq({ro(1), ro(4)}) /\ Len(w) = 6 /\ \A k \in 1 .. 6 : w[k] = ro(4)
  BY <1>2 DEF FLOAT, BOOL
<1>4. Len(m \o w) = 8 /\ \A k \in 1 .. 8 : (m \o w)[k] = IF k <= 2 THEN m[k] ELSE w[k - 2]
  <2>1. PICK x : x = m \o w
    BY Zenon
  <2>2. Joins(x, m, w)
    BY <1>3, <2>1, Joined, Zenon
  <2>3. Len(x) = 2 + 6 /\ (\A k \in 1 .. 2 : x[k] = m[k]) /\ \A k \in 1 .. 6 : x[2 + k] = w[k]
    BY <1>3, <2>2, Zenon DEF Joins
  <2>4. ASSUME NEW k \in 1 .. 8, ~(k <= 2)
        PROVE  x[k] = w[k - 2]
    <3>1. k - 2 \in 1 .. 6 /\ 2 + (k - 2) = k
      BY <2>4
    <3> QED
      BY <2>3, <3>1, Zenon
  <2>5. Len(x) = 8 /\ \A k \in 1 .. 8 : k <= 2 => x[k] = m[k]
    BY <2>3
  <2> QED
    BY <2>1, <2>4, <2>5, Zenon
<1>5. i \in 0 .. 7
  BY <1>2, <1>4 DEF Exists
<1>6. params(i) = IF i < 2 THEN ro(1) ELSE ro(4)
  <2>1. params(i) = IF i + 1 <= 2 THEN m[i + 1] ELSE w[i + 1 - 2]
    BY <1>2, <1>4, <1>5 DEF params
  <2> QED
    BY <1>3, <1>5, <2>1
<1> QED
  BY <1>5, <1>6 DEF SizesAgree, device_read, BuzzerRead, ro

\* Every device.
LEMMA Tables ==
  ASSUME dev \in DOMAIN DEVICES, RefusedOK, NEW i \in Nat, Exists(i)
  PROVE  SizesAgree(i)
<1>1. dev \in {"LimitSwitch", "LineFollower", "ServoControl", "PolarBear"} \/ dev = "DummyDevice"
        \/ dev = "KoalaBear" \/ dev = "BatteryBuzzer"
  BY Zenon DEF DEVICES
<1> QED
  BY <1>1, SmallTables, DummyTable, KoalaTable, BuzzerTable, Zenon
-----------------------------------------------------------------------------
(* Payload: the loops.                                                       *)

ValueBytes == Nat \X Nat

\* b says what was laid out after each turn.
IsLaid(b, bits, size) ==
  /\ b \in [0 .. MAX_PARAMS -> Seq(ValueBytes)] /\ b[0] = <<>>
  /\ \A i \in 1 .. MAX_PARAMS :
       b[i] = IF i - 1 \in bits THEN b[i - 1] \o Value(i - 1, size[i - 1]) ELSE b[i - 1]

\* The bytes of a value.
LEMMA ValueType ==
  ASSUME NEW i \in Nat, NEW n \in Nat
  PROVE  /\ Value(i, n) \in Seq(ValueBytes) /\ Len(Value(i, n)) = n
         /\ \A k \in 1 .. n : Value(i, n)[k] = <<i, k>>
<1>1. PICK v : v = [k \in 1 .. n |-> <<i, k>>]
  BY Zenon
<1>2. \A k \in 1 .. n : <<i, k>> \in ValueBytes
  BY DEF ValueBytes
<1>3. v \in [1 .. n -> ValueBytes]
  BY <1>1, <1>2, Zenon
<1>4. v \in Seq(ValueBytes) /\ Len(v) = n
  BY <1>3
<1>5. v = Value(i, n)
  BY <1>1, Zenon DEF Value
<1> QED
  BY <1>1, <1>4, <1>5, Zenon

\* One turn of the loop that lays the values out.
LayTurn(bits, size, i, x) == IF i - 1 \in bits THEN x \o Value(i - 1, size[i - 1]) ELSE x

\* The loop that lays the values out.
LEMMA LaidTurns ==
  ASSUME NEW bits, NEW size \in [bits -> Nat]
  PROVE  IsLaid(Laid(bits, size), bits, size)
<1> DEFINE n == MAX_PARAMS
           T == Seq(ValueBytes)
           D == [i \in 1 .. n |-> [x \in T |-> LayTurn(bits, size, i, x)]]
           b == Laid(bits, size)
           B == {i \in 0 .. n : b[i] \notin T}
<1>1. n \in Nat /\ <<>> \in T /\ 0 \in 0 .. n /\ \A i \in 1 .. n : i - 1 \in 0 .. n /\ i \in 0 .. n /\ i # 0
  BY DEF MAX_PARAMS
<1>2. ASSUME NEW i \in 1 .. n, NEW x \in T
      PROVE  LayTurn(bits, size, i, x) \in T
  <2>1. CASE i - 1 \in bits
    <3>1. i - 1 \in Nat /\ size[i - 1] \in Nat
      BY <1>1, <2>1
    <3>2. PICK v \in Seq(ValueBytes) : v = Value(i - 1, size[i - 1])
      BY <3>1, ValueType, Zenon
    <3>3. x \o v \in Seq(ValueBytes)
      BY <1>2
    <3> QED
      BY <2>1, <3>2, <3>3, Zenon DEF LayTurn
  <2> QED
    BY <2>1, Zenon DEF LayTurn
<1> HIDE DEF n, T, b, B
<1>3. D \in [1 .. n -> [T -> T]]
  BY <1>2, Zenon
<1>4. LoopRuns(n, T, <<>>, D) # {}
  <2> HIDE DEF D
  <2> QED
    BY <1>1, <1>3, LoopValues, Zenon
<1>5. PICK f \in [0 .. n -> T] : f[0] = <<>> /\ \A i \in 1 .. n : f[i] = D[i][f[i - 1]]
  BY <1>4, Zenon DEF LoopRuns
<1>6. \A i \in 1 .. n : f[i] = LayTurn(bits, size, i, f[i - 1])
  BY <1>1, <1>5, Zenon
<1>7. f = [i \in 0 .. n |-> IF i = 0 THEN <<>> ELSE LayTurn(bits, size, i, f[i - 1])]
  BY <1>1, <1>5, <1>6
<1>8. b = [i \in 0 .. n |-> IF i = 0 THEN <<>> ELSE LayTurn(bits, size, i, b[i - 1])]
  BY <1>7, Zenon DEF b, n, Laid, LayTurn
<1> HIDE DEF D
<1>9. b[0] = <<>> /\ \A i \in 1 .. n : b[i] = LayTurn(bits, size, i, b[i - 1])
  BY <1>1, <1>8, Zenon
<1>10. 0 \notin B
  BY <1>1, <1>9, Zenon DEF B
<1>11. \A i \in 1 .. n : i \in B => i - 1 \in B
  BY <1>1, <1>2, <1>9, Zenon DEF B
<1>12. B = {}
  <2>1. B \subseteq 0 .. n
    BY Zenon DEF B
  <2> QED
    BY <1>1, <1>10, <1>11, <2>1, Turnwise, Zenon
<1>13. b \in [0 .. n -> T]
  <2>1. \A i \in 0 .. n : b[i] \in T
    BY <1>12, Zenon DEF B
  <2>2. DOMAIN b = 0 .. n /\ b = [i \in 0 .. n |-> b[i]]
    BY <1>8, Zenon
  <2> QED
    BY <2>1, <2>2, Zenon
<1> QED
  BY <1>9, <1>13, Zenon DEF IsLaid, LayTurn, b, n, T

\* To begin with is transitive.
LEMMA FrontOfFront ==
  ASSUME NEW r, NEW s, NEW t, Len(r) \in Nat, Len(s) \in Nat, Len(t) \in Nat, FrontIs(r, s), FrontIs(s, t)
  PROVE  FrontIs(r, t)
<1>1. PICK L \in Nat, M \in Nat, N \in Nat : L = Len(r) /\ M = Len(s) /\ N = Len(t)
  BY Zenon
<1>2. M <= L /\ N <= M /\ (\A p \in 1 .. M : r[p] = s[p]) /\ \A p \in 1 .. N : s[p] = t[p]
  BY <1>1, Zenon DEF FrontIs
<1>3. N <= L /\ \A p \in 1 .. N : r[p] = t[p]
  BY <1>2
<1> QED
  BY <1>1, <1>3, Zenon DEF FrontIs

\* s holds the value of parameter j, n bytes, behind place o.
ValueAt(s, o, j, n) == o + n <= Len(s) /\ \A k \in 1 .. n : s[o + k] = <<j, k>>

\* A turn leaves what is there and puts a value behind it if the bit is on.
LEMMA LaidTurn ==
  ASSUME NEW bits, NEW size \in [bits -> Nat], NEW b, IsLaid(b, bits, size), NEW i \in 1 .. MAX_PARAMS
  PROVE  /\ Len(b[i]) \in Nat /\ Len(b[i - 1]) \in Nat /\ FrontIs(b[i], b[i - 1])
         /\ i - 1 \in bits => /\ ValueAt(b[i], Len(b[i - 1]), i - 1, size[i - 1])
                              /\ Len(b[i]) = Len(b[i - 1]) + size[i - 1]
         /\ i - 1 \notin bits => b[i] = b[i - 1]
<1>1. i \in 0 .. MAX_PARAMS /\ i - 1 \in 0 .. MAX_PARAMS /\ i - 1 \in Nat
  BY DEF MAX_PARAMS
<1>2. b[i] \in Seq(ValueBytes) /\ b[i - 1] \in Seq(ValueBytes)
  BY <1>1, Zenon DEF IsLaid
<1>3. b[i] = IF i - 1 \in bits THEN b[i - 1] \o Value(i - 1, size[i - 1]) ELSE b[i - 1]
  BY Zenon DEF IsLaid
<1>4. CASE i - 1 \in bits
  <2>1. PICK n \in Nat : n = size[i - 1]
    BY <1>4, Zenon
  <2>2. PICK v : v = Value(i - 1, n)
    BY Zenon
  <2>3. v \in Seq(ValueBytes) /\ Len(v) = n /\ \A k \in 1 .. n : v[k] = <<i - 1, k>>
    BY <1>1, <2>2, ValueType, Zenon
  <2>4. PICK x \in Seq(ValueBytes), y \in Seq(ValueBytes) : x = b[i - 1] /\ y = b[i]
    BY <1>2, Zenon
  <2>5. y = x \o v
    BY <1>3, <1>4, <2>1, <2>2, <2>4, Zenon
  <2>6. Joins(y, x, v)
    BY <2>3, <2>5, Joined, Zenon
  <2>7. PICK M \in Nat, N \in Nat : M = Len(x) /\ N = Len(y)
    OBVIOUS
  <2>8. N = M + n /\ (\A p \in 1 .. M : y[p] = x[p]) /\ \A k \in 1 .. n : y[M + k] = <<i - 1, k>>
    BY <2>3, <2>6, <2>7, Zenon DEF Joins
  <2>9. M <= N /\ M + n <= N
    BY <2>8
  <2>10. FrontIs(y, x) /\ ValueAt(y, M, i - 1, n)
    BY <2>7, <2>8, <2>9, Zenon DEF FrontIs, ValueAt
  <2> QED
    BY <1>4, <2>1, <2>4, <2>7, <2>8, <2>10, Zenon
<1>5. CASE i - 1 \notin bits
  <2>1. b[i] = b[i - 1]
    BY <1>3, <1>5, Zenon
  <2>2. PICK N \in Nat : N = Len(b[i])
    BY <1>2
  <2>3. N <= N
    OBVIOUS
  <2> QED
    BY <1>5, <2>1, <2>2, <2>3, Zenon DEF FrontIs
<1> QED
  BY <1>4, <1>5, Zenon

\* What is laid out begins with what was after any turn.
LEMMA LaidFront ==
  ASSUME NEW bits, NEW size \in [bits -> Nat], NEW b, IsLaid(b, bits, size), NEW j \in 0 .. MAX_PARAMS
  PROVE  FrontIs(b[MAX_PARAMS], b[j])
<1> DEFINE n == MAX_PARAMS
           B == {i \in 0 .. n : j <= i /\ ~FrontIs(b[i], b[j])}
<1>1. n \in Nat /\ n \in 0 .. n /\ j <= n /\ j \in Nat
  BY DEF MAX_PARAMS
<1>2. ASSUME NEW i \in 0 .. n
      PROVE  b[i] \in Seq(ValueBytes) /\ Len(b[i]) \in Nat
  <2>1. b[i] \in Seq(ValueBytes)
    BY Zenon DEF IsLaid
  <2> QED
    BY <2>1
<1>3. ASSUME NEW i \in 0 .. n
      PROVE  FrontIs(b[i], b[i])
  <2>1. PICK N \in Nat : N = Len(b[i])
    BY <1>2, Zenon
  <2>2. N <= N
    OBVIOUS
  <2> QED
    BY <2>1, <2>2, Zenon DEF FrontIs
<1>4. 0 \notin B
  <2>1. CASE j = 0
    BY <1>1, <1>3, <2>1, Zenon
  <2>2. CASE j # 0
    BY <1>1, <2>2
  <2> QED
    BY <2>1, <2>2, Zenon
<1>5. ASSUME NEW i \in 1 .. n, i \in B
      PROVE  i - 1 \in B
  <2>1. i \in 0 .. n /\ i - 1 \in 0 .. n /\ j <= i /\ ~FrontIs(b[i], b[j])
    BY <1>1, <1>5
  <2>2. i # j
    BY <1>3, <2>1, Zenon
  <2>3. j <= i - 1
    BY <1>1, <2>1, <2>2
  <2>4. FrontIs(b[i], b[i - 1])
    BY LaidTurn, Zenon
  <2>5. ~FrontIs(b[i - 1], b[j])
    BY <1>2, <2>1, <2>4, FrontOfFront, Zenon
  <2> QED
    BY <2>1, <2>3, <2>5, Zenon
<1>6. B = {}
  <2>1. B \subseteq 0 .. n
    BY Zenon
  <2> HIDE DEF B, n
  <2> QED
    BY <1>1, <1>4, <1>5, <2>1, Turnwise, Zenon
<1> QED
  BY <1>1, <1>6, Zenon

\* The value of a parameter of the bitmap is where the sizes of those before it
\* add up to.
LEMMA LaidValue ==
  ASSUME NEW bits, NEW size \in [bits -> Nat], NEW b, IsLaid(b, bits, size), NEW i \in 1 .. MAX_PARAMS, i - 1 \in bits
  PROVE  ValueAt(b[MAX_PARAMS], Len(b[i - 1]), i - 1, size[i - 1])
<1>1. i \in 0 .. MAX_PARAMS /\ MAX_PARAMS \in 0 .. MAX_PARAMS
  BY DEF MAX_PARAMS
<1>2. PICK x, y : x = b[MAX_PARAMS] /\ y = b[i]
  BY Zenon
<1>3. x \in Seq(ValueBytes) /\ y \in Seq(ValueBytes)
  BY <1>1, <1>2, Zenon DEF IsLaid
<1>4. PICK M \in Nat, N \in Nat, o \in Nat : M = Len(y) /\ N = Len(x) /\ o = Len(b[i - 1])
  BY <1>3, LaidTurn
<1>5. FrontIs(x, y)
  BY <1>1, <1>2, LaidFront, Zenon
<1>6. PICK n \in Nat : n = size[i - 1]
  BY Zenon
<1>7. ValueAt(y, o, i - 1, n)
  BY <1>2, <1>4, <1>6, LaidTurn, Zenon
<1>8. M <= N /\ (\A p \in 1 .. M : x[p] = y[p]) /\ o + n <= M /\ \A k \in 1 .. n : y[o + k] = <<i - 1, k>>
  BY <1>4, <1>5, <1>7, Zenon DEF FrontIs, ValueAt
<1>9. \A k \in 1 .. n : o + k \in 1 .. M
  BY <1>8
<1>10. o + n <= N /\ \A k \in 1 .. n : x[o + k] = <<i - 1, k>>
  <2>1. o + n <= N
    BY <1>8
  <2> QED
    BY <1>8, <1>9, <2>1, Zenon
<1> QED
  BY <1>2, <1>4, <1>6, <1>10, Zenon DEF ValueAt

\* A reader at the value of a parameter takes it for that.
LEMMA TakenAt ==
  ASSUME payload \in Seq(ValueBytes), NEW o \in Nat, NEW j \in Nat, NEW n \in Nat, 1 <= n, ValueAt(payload, o, j, n)
  PROVE  Taken(o, n) = j
<1>1. o + n <= Len(payload) /\ \A k \in 1 .. n : payload[o + k] = <<j, k>>
  BY Zenon DEF ValueAt
<1>2. 1 \in 1 .. n
  OBVIOUS
<1>3. payload[o + 1] = <<j, 1>>
  BY <1>1, <1>2, Zenon
<1>4. payload[o + 1][1] = j
  BY <1>3
<1>5. PICK s : s = SubSeq(payload, o + 1, o + n)
  BY Zenon
<1>6. PICK N \in Nat : N = Len(payload)
  OBVIOUS
<1>7. \A i \in o + 1 .. o + n : payload[i] \in ValueBytes
  BY <1>1, <1>6
<1>8. /\ s \in Seq(ValueBytes) /\ Len(s) = (IF o + 1 <= o + n THEN o + n - (o + 1) + 1 ELSE 0)
      /\ \A i \in 1 .. o + n - (o + 1) + 1 : s[i] = payload[o + 1 + i - 1]
  <2>1. o + 1 \in Int /\ o + n \in Int
    OBVIOUS
  <2> QED
    BY <1>5, <1>7, <2>1, SubSeqProperties
<1>9. Len(s) = n /\ \A i \in 1 .. n : s[i] = payload[o + i]
  <2>1. o + n - (o + 1) + 1 = n /\ (\A i \in 1 .. n : o + 1 + i - 1 = o + i) /\ o + 1 <= o + n
    OBVIOUS
  <2> QED
    BY <1>8, <2>1, Zenon
<1>10. PICK v : v = Value(j, n)
  BY Zenon
<1>11. v \in Seq(ValueBytes) /\ Len(v) = n /\ \A k \in 1 .. n : v[k] = <<j, k>>
  BY <1>10, ValueType, Zenon
<1>12. s = v
  <2>1. \A i \in 1 .. n : s[i] = v[i]
    BY <1>1, <1>9, <1>11, Zenon
  <2> QED
    BY <1>8, <1>9, <1>11, <2>1
<1> QED
  BY <1>1, <1>4, <1>5, <1>10, <1>12, Zenon DEF Taken

\* Where a reader stands: how far it read, and which value each parameter got.
ReadStates == [ptr : Nat, taken : Seq(Nat \X Int)]

\* A reader that refuses the values of R, at a value of n bytes for parameter j.
ReadValue(x, j, n, R) == Store(x, j, Taken(x.ptr, n), IF Taken(x.ptr, n) \in R THEN 0 ELSE n)

\* The parameters that got their own value after i turns.
Kept(bits, R, i) == {k \in bits : k < i /\ \A h \in R : h \in bits => k < h}
Landed(bits, R, i) == {<<j, j>> : j \in Kept(bits, R, i)}

\* The reader after i turns: it is where the writer was, or stands at a value
\* that it refused.
ReadTo(x, b, bits, R, i) ==
  /\ x \in ReadStates /\ Range(x.taken) = Landed(bits, R, i)
  /\ \/ x.ptr = Len(b[i]) /\ \A h \in R : h \in bits => i <= h
     \/ \E h \in R : h \in bits /\ h < i /\ x.ptr = Len(b[h])

\* What the bytes are taken for is a number.
LEMMA TakenType ==
  ASSUME payload \in Seq(ValueBytes), NEW o \in Nat, NEW n \in Nat, 1 <= n
  PROVE  Taken(o, n) \in Int
<1>1. CASE o + n <= Len(payload)
  <2>1. payload[o + 1] \in ValueBytes
    BY <1>1
  <2>2. payload[o + 1][1] \in Nat
    BY <2>1, Zenon DEF ValueBytes
  <2>3. payload[o + 1][1] \in Int /\ -1 \in Int
    BY <2>2
  <2> QED
    BY <2>3, Zenon DEF Taken
<1>2. CASE ~(o + n <= Len(payload))
  <2>1. -1 \in Int
    OBVIOUS
  <2> QED
    BY <1>2, <2>1, Zenon DEF Taken
<1> QED
  BY <1>1, <1>2, Zenon

\* Storing a value.
LEMMA StoreType ==
  ASSUME NEW x \in ReadStates, NEW j \in Nat, NEW v \in Int, NEW n \in Nat
  PROVE  /\ Store(x, j, v, n) \in ReadStates /\ Store(x, j, v, n).ptr = x.ptr + n
         /\ n = 0 => Range(Store(x, j, v, n).taken) = Range(x.taken)
         /\ n # 0 => Range(Store(x, j, v, n).taken) = Range(x.taken) \union {<<j, v>>}
<1>1. PICK s : s = x.taken
  BY Zenon
<1>2. s \in Seq(Nat \X Int) /\ x.ptr \in Nat
  BY <1>1, Zenon DEF ReadStates
<1>3. <<j, v>> \in Nat \X Int
  BY Zenon
<1>4. PICK e \in Nat \X Int : e = <<j, v>>
  BY <1>3, Zenon
<1>5. PICK t : t = Append(s, e)
  BY Zenon
<1>6. t \in Seq(Nat \X Int) /\ Extends(t, s, e)
  BY <1>2, <1>5, JoinedOne, Zenon
<1>7. PICK M \in Nat : M = Len(s)
  BY <1>2
<1>8. Len(t) = M + 1 /\ (\A i \in 1 .. M : t[i] = s[i]) /\ t[M + 1] = e
  BY <1>6, <1>7, Zenon DEF Extends
<1>9. DOMAIN s = 1 .. M /\ DOMAIN t = 1 .. M + 1
  <2>1. DOMAIN s = 1 .. Len(s) /\ DOMAIN t = 1 .. Len(t)
    BY <1>2, <1>6
  <2> QED
    BY <1>7, <1>8, <2>1, Zenon
<1>10. \A i : i \in 1 .. M + 1 <=> i \in 1 .. M \/ i = M + 1
  OBVIOUS
<1>11. {t[i] : i \in DOMAIN t} = {s[i] : i \in DOMAIN s} \union {e}
  <2>1. ASSUME NEW i \in DOMAIN t
        PROVE  t[i] \in {s[k] : k \in DOMAIN s} \union {e}
    BY <1>8, <1>9, <1>10, Zenon
  <2>2. \A k \in DOMAIN s : k \in DOMAIN t /\ t[k] = s[k]
    BY <1>8, <1>9, <1>10, Zenon
  <2>3. M + 1 \in DOMAIN t /\ t[M + 1] = e
    BY <1>8, <1>9, <1>10, Zenon
  <2> QED
    BY <2>1, <2>2, <2>3
<1>12. Range(t) = Range(s) \union {e}
  BY <1>11, Zenon DEF Range
<1>13. PICK r : r = Store(x, j, v, n)
  BY Zenon
<1>14. r = [ptr |-> x.ptr + n, taken |-> IF n = 0 THEN s ELSE t]
  BY <1>1, <1>4, <1>5, <1>13, Zenon DEF Store
<1>15. r \in ReadStates /\ r.ptr = x.ptr + n /\ r.taken = IF n = 0 THEN s ELSE t
  BY <1>2, <1>6, <1>14 DEF ReadStates
<1> QED
  BY <1>1, <1>4, <1>12, <1>13, <1>15, Zenon

\* Reading a value.
LEMMA ReadValueType ==
  ASSUME payload \in Seq(ValueBytes), NEW x \in ReadStates, NEW j \in Nat, NEW n \in Nat, 1 <= n, NEW R
  PROVE  ReadValue(x, j, n, R) \in ReadStates
<1>1. x.ptr \in Nat
  BY Zenon DEF ReadStates
<1>2. PICK v : v = Taken(x.ptr, n)
  BY Zenon
<1>3. v \in Int
  BY <1>1, <1>2, TakenType, Zenon
<1>4. PICK m \in Nat : m = IF v \in R THEN 0 ELSE n
  BY Zenon
<1>5. Store(x, j, v, m) \in ReadStates
  BY <1>3, <1>4, StoreType, Zenon
<1> QED
  BY <1>2, <1>4, <1>5, Zenon DEF ReadValue

\* A turn in which no parameter lands: its bit is off, or a value was refused.
LEMMA LandedSame ==
  ASSUME NEW bits, bits \subseteq Nat, NEW R, R \subseteq Nat, NEW i \in Nat, 1 <= i,
         i - 1 \notin bits \/ \E h \in R : h \in bits /\ h < i
  PROVE  Landed(bits, R, i) = Landed(bits, R, i - 1)
<1>1. ASSUME NEW k \in bits
      PROVE  k \in Kept(bits, R, i) <=> k \in Kept(bits, R, i - 1)
  <2>1. k < i <=> k < i - 1 \/ k = i - 1
    OBVIOUS
  <2>2. k = i - 1 => ~(\A h \in R : h \in bits => k < h)
    OBVIOUS
  <2> QED
    BY <2>1, <2>2, Zenon DEF Kept
<1>2. Kept(bits, R, i) = Kept(bits, R, i - 1)
  BY <1>1, Zenon DEF Kept
<1> QED
  BY <1>2, Zenon DEF Landed

\* A turn in which a parameter lands.
LEMMA LandedMore ==
  ASSUME NEW bits, bits \subseteq Nat, NEW R, R \subseteq Nat, NEW i \in Nat, 1 <= i,
         i - 1 \in bits, \A h \in R : h \in bits => i <= h
  PROVE  Landed(bits, R, i) = Landed(bits, R, i - 1) \union {<<i - 1, i - 1>>}
<1>1. ASSUME NEW k \in bits
      PROVE  k \in Kept(bits, R, i) <=> k \in Kept(bits, R, i - 1) \/ k = i - 1
  <2>1. k < i <=> k < i - 1 \/ k = i - 1
    OBVIOUS
  <2>2. k = i - 1 => \A h \in R : h \in bits => k < h
    OBVIOUS
  <2> QED
    BY <2>1, <2>2, Zenon DEF Kept
<1>2. Kept(bits, R, i) = Kept(bits, R, i - 1) \union {i - 1}
  BY <1>1, Zenon DEF Kept
<1>3. \A S : {<<j, j>> : j \in S \union {i - 1}} = {<<j, j>> : j \in S} \union {<<i - 1, i - 1>>}
  BY Zenon
<1> QED
  BY <1>2, <1>3, Zenon DEF Landed

\* The sizes, and what a refusal needs.
SizesOK(bits, size, R) ==
  /\ bits \subseteq 0 .. MAX_PARAMS - 1 /\ size \in [bits -> {1, 4}] /\ R \subseteq Nat
  /\ R # {} => \A j \in bits : size[j] = 4

\* What a reader takes the bytes at a parameter for.
LEMMA TakenLaid ==
  ASSUME NEW bits, NEW size, NEW R, SizesOK(bits, size, R), NEW b, IsLaid(b, bits, size), payload = b[MAX_PARAMS],
         NEW j \in bits
  PROVE  /\ payload \in Seq(ValueBytes) /\ Taken(Len(b[j]), size[j]) = j /\ size[j] \in {1, 4}
         /\ j + 1 \in 1 .. MAX_PARAMS /\ j \in Nat /\ Len(b[j]) \in Nat
<1>1. j + 1 \in 1 .. MAX_PARAMS /\ j + 1 - 1 = j /\ j \in Nat /\ j \in 0 .. MAX_PARAMS /\ MAX_PARAMS \in 0 .. MAX_PARAMS
  BY DEF SizesOK, MAX_PARAMS
<1>2. size \in [bits -> Nat] /\ size[j] \in {1, 4}
  BY DEF SizesOK
<1>3. PICK i \in 1 .. MAX_PARAMS : i - 1 = j
  BY <1>1
<1>4. ValueAt(payload, Len(b[j]), j, size[j])
  <2>1. i - 1 \in bits
    BY <1>3, Zenon
  <2>2. ValueAt(b[MAX_PARAMS], Len(b[i - 1]), i - 1, size[i - 1])
    BY <1>2, <2>1, LaidValue, Zenon
  <2> QED
    BY <1>3, <2>2, Zenon
<1>5. payload \in Seq(ValueBytes) /\ b[j] \in Seq(ValueBytes)
  BY <1>1, Zenon DEF IsLaid
<1>6. Len(b[j]) \in Nat /\ size[j] \in Nat /\ 1 <= size[j]
  BY <1>2, <1>5
<1>7. Taken(Len(b[j]), size[j]) = j
  BY <1>1, <1>4, <1>5, <1>6, TakenAt, Zenon
<1> QED
  BY <1>1, <1>2, <1>5, <1>6, <1>7, Zenon

\* One turn of a reader.
LEMMA ReadStep ==
  ASSUME NEW bits, NEW size, NEW R, SizesOK(bits, size, R), NEW b, IsLaid(b, bits, size), payload = b[MAX_PARAMS],
         NEW i \in 1 .. MAX_PARAMS, NEW x, ReadTo(x, b, bits, R, i - 1),
         NEW y, y = IF i - 1 \in bits THEN ReadValue(x, i - 1, size[i - 1], R) ELSE x
  PROVE  ReadTo(y, b, bits, R, i)
<1>1. /\ x \in ReadStates /\ Range(x.taken) = Landed(bits, R, i - 1)
      /\ \/ x.ptr = Len(b[i - 1]) /\ \A h \in R : h \in bits => i - 1 <= h
         \/ \E h \in R : h \in bits /\ h < i - 1 /\ x.ptr = Len(b[h])
  BY Zenon DEF ReadTo
<1>2. bits \subseteq Nat /\ R \subseteq Nat /\ i \in Nat /\ 1 <= i /\ i - 1 \in Nat
  BY DEF SizesOK, MAX_PARAMS
<1>3. size \in [bits -> Nat]
  BY DEF SizesOK
<1>4. CASE i - 1 \notin bits
  <2>1. y = x
    BY <1>4, Zenon
  <2>2. b[i] = b[i - 1]
    BY <1>3, <1>4, LaidTurn
  <2>3. Landed(bits, R, i) = Landed(bits, R, i - 1)
    BY <1>2, <1>4, LandedSame, Zenon
  <2>4. \A h \in R : h \in bits /\ i - 1 <= h => i <= h
    BY <1>2, <1>4
  <2>5. \A h \in R : h < i - 1 => h < i
    BY <1>2
  <2> QED
    BY <1>1, <2>1, <2>2, <2>3, <2>4, <2>5, Zenon DEF ReadTo
<1>5. CASE i - 1 \in bits
  <2>1. PICK j \in bits : j = i - 1
    BY <1>5, Zenon
  <2>2. PICK n : n = size[j]
    BY Zenon
  <2>3. y = ReadValue(x, j, n, R)
    BY <2>1, <2>2, Zenon
  <2>4. /\ payload \in Seq(ValueBytes) /\ Taken(Len(b[j]), n) = j /\ n \in {1, 4}
        /\ j \in Nat /\ Len(b[j]) \in Nat
    BY <2>2, TakenLaid
  <2>5. CASE \E h \in R : h \in bits /\ h < i - 1 /\ x.ptr = Len(b[h])
    <3>1. PICK h \in R : h \in bits /\ h < i - 1 /\ x.ptr = Len(b[h])
      BY <2>5, Zenon
    <3>2. Taken(Len(b[h]), size[h]) = h /\ h \in Nat
      BY <3>1, TakenLaid
    <3>3. size[h] = 4 /\ n = 4
      BY <2>2, <3>1, Zenon DEF SizesOK
    <3>4. Taken(x.ptr, n) = h
      BY <3>1, <3>2, <3>3, Zenon
    <3>5. y = Store(x, j, h, 0)
      BY <2>3, <3>4, Zenon DEF ReadValue
    <3>6. h \in Int /\ 0 \in Nat
      BY <3>2
    <3>7. y \in ReadStates /\ y.ptr = x.ptr + 0 /\ Range(y.taken) = Range(x.taken)
      BY <1>1, <2>4, <3>5, <3>6, StoreType, SMTT(30)
    <3>8. x.ptr \in Nat
      BY <1>1, Zenon DEF ReadStates
    <3>9. y.ptr = Len(b[h])
      BY <3>1, <3>7, <3>8
    <3>10. h < i
      BY <1>2, <3>1, <3>2
    <3>11. Landed(bits, R, i) = Landed(bits, R, i - 1)
      BY <1>2, <3>1, <3>10, LandedSame, Zenon
    <3> QED
      BY <1>1, <3>1, <3>7, <3>9, <3>10, <3>11, Zenon DEF ReadTo
  <2>6. CASE x.ptr = Len(b[i - 1]) /\ \A h \in R : h \in bits => i - 1 <= h
    <3>1. Taken(x.ptr, n) = j
      BY <2>1, <2>4, <2>6, Zenon
    <3>2. j \in Int /\ 0 \in Nat /\ n \in Nat /\ n # 0 /\ x.ptr \in Nat
      BY <1>1, <2>4 DEF ReadStates
    <3>3. CASE j \in R
      <4>1. y = Store(x, j, j, 0)
        BY <2>3, <3>1, <3>3, Zenon DEF ReadValue
      <4>2. y \in ReadStates /\ y.ptr = x.ptr + 0 /\ Range(y.taken) = Range(x.taken)
        BY <1>1, <2>4, <3>2, <4>1, StoreType
      <4>3. y.ptr = Len(b[j]) /\ j < i
        BY <1>2, <2>1, <2>6, <3>2, <4>2
      <4>4. Landed(bits, R, i) = Landed(bits, R, i - 1)
        BY <1>2, <3>3, <4>3, LandedSame, Zenon
      <4> QED
        BY <1>1, <3>3, <4>2, <4>3, <4>4, Zenon DEF ReadTo
    <3>4. CASE j \notin R
      <4>1. y = Store(x, j, j, n)
        BY <2>3, <3>1, <3>4, Zenon DEF ReadValue
      <4>2. y \in ReadStates /\ y.ptr = x.ptr + n /\ Range(y.taken) = Range(x.taken) \union {<<j, j>>}
        BY <1>1, <2>4, <3>2, <4>1, StoreType
      <4>3. Len(b[i]) = Len(b[i - 1]) + n
        <5>1. Len(b[i]) = Len(b[i - 1]) + size[i - 1]
          BY <1>3, <1>5, LaidTurn
        <5> QED
          BY <2>1, <2>2, <5>1, Zenon
      <4>4. y.ptr = Len(b[i])
        BY <2>6, <4>2, <4>3, Zenon
      <4>5. \A h \in R : h \in bits => i <= h
        BY <1>2, <2>1, <2>6, <3>4
      <4>6. Landed(bits, R, i) = Landed(bits, R, i - 1) \union {<<i - 1, i - 1>>}
        BY <1>2, <1>5, <4>5, LandedMore, Zenon
      <4> QED
        BY <1>1, <2>1, <4>2, <4>4, <4>5, <4>6, Zenon DEF ReadTo
    <3> QED
      BY <3>3, <3>4, Zenon
  <2> QED
    BY <1>1, <2>5, <2>6, Zenon
<1> QED
  BY <1>4, <1>5, Zenon

\* r says where the reader stands after each turn.
IsRead(r, bits, size, R) ==
  /\ r[0] = Start
  /\ \A i \in 1 .. MAX_PARAMS :
       r[i] = IF i - 1 \in bits THEN ReadValue(r[i - 1], i - 1, size[i - 1], R) ELSE r[i - 1]

\* A reader that has not begun stands at the beginning of an empty payload.
LEMMA NothingRead ==
  LET x == [ptr |-> 0, taken |-> <<>>]
  IN  x \in ReadStates /\ x.ptr = Len(<<>>) /\ Range(x.taken) = {}
<1>1. <<>> \in Seq(Nat \X Int) /\ Len(<<>>) = 0 /\ 0 \in Nat
  OBVIOUS
<1>2. Range(<<>>) = {}
  BY DEF Range
<1> QED
  BY <1>1, <1>2, Zenon DEF ReadStates

\* What a reader has at the end of what a writer laid out.
LEMMA ReadAll ==
  ASSUME NEW bits, NEW size, NEW R, SizesOK(bits, size, R), NEW b, IsLaid(b, bits, size), payload = b[MAX_PARAMS],
         NEW r, IsRead(r, bits, size, R)
  PROVE  Range(r[MAX_PARAMS].taken) = Landed(bits, R, MAX_PARAMS)
<1> DEFINE n == MAX_PARAMS
           B == {i \in 0 .. n : ~ReadTo(r[i], b, bits, R, i)}
<1>1. n \in Nat /\ n \in 0 .. n /\ 0 \in 0 .. n /\ \A i \in 1 .. n : i - 1 \in 0 .. n /\ i \in 0 .. n
  BY DEF MAX_PARAMS
<1>2. 0 \notin B
  <2>1. r[0] = [ptr |-> 0, taken |-> <<>>] /\ b[0] = <<>>
    BY Zenon DEF IsRead, IsLaid, Start
  <2>2. r[0] \in ReadStates /\ r[0].ptr = Len(b[0])
    BY <2>1, NothingRead, Zenon
  <2>3. Range(r[0].taken) = {}
    BY <2>1, NothingRead, Zenon
  <2>4. bits \subseteq Nat /\ R \subseteq Nat
    BY DEF SizesOK, MAX_PARAMS
  <2>5. Landed(bits, R, 0) = {}
    BY <2>4 DEF Landed, Kept
  <2>6. \A h \in R : h \in bits => 0 <= h
    BY <2>4
  <2>7. ReadTo(r[0], b, bits, R, 0)
    BY <2>2, <2>3, <2>5, <2>6, Zenon DEF ReadTo
  <2> QED
    BY <2>7, Zenon
<1>3. ASSUME NEW i \in 1 .. n, i \in B
      PROVE  i - 1 \in B
  <2>1. r[i] = IF i - 1 \in bits THEN ReadValue(r[i - 1], i - 1, size[i - 1], R) ELSE r[i - 1]
    BY Zenon DEF IsRead
  <2>2. ReadTo(r[i - 1], b, bits, R, i - 1) => ReadTo(r[i], b, bits, R, i)
    BY <2>1, ReadStep, Zenon
  <2> QED
    BY <1>1, <1>3, <2>2, Zenon
<1>4. B = {}
  <2>1. B \subseteq 0 .. n
    BY Zenon
  <2> HIDE DEF B, n
  <2> QED
    BY <1>1, <1>2, <1>3, <2>1, Turnwise, Zenon
<1>5. ReadTo(r[n], b, bits, R, n)
  BY <1>1, <1>4, Zenon
<1> QED
  BY <1>5, Zenon DEF ReadTo

\* One turn of a loop that reads.
ReadTurn(bits, size, R, i, x) == IF i - 1 \in bits THEN ReadValue(x, i - 1, size[i - 1], R) ELSE x

\* A loop that reads has a value for every turn.
ReadRuns(bits, size, R) ==
  {f \in [0 .. MAX_PARAMS -> ReadStates] :
     f[0] = Start /\ \A i \in 1 .. MAX_PARAMS : f[i] = ReadTurn(bits, size, R, i, f[i - 1])}

\* There are such values.
LEMMA ReadRunsExist ==
  ASSUME NEW bits, NEW size, NEW R, SizesOK(bits, size, R), payload \in Seq(ValueBytes)
  PROVE  ReadRuns(bits, size, R) # {}
<1> DEFINE n == MAX_PARAMS
           D == [i \in 1 .. n |-> [x \in ReadStates |-> ReadTurn(bits, size, R, i, x)]]
<1>1. n \in Nat /\ Start \in ReadStates /\ \A i \in 1 .. n : i - 1 \in 0 .. n
  BY DEF MAX_PARAMS, Start, ReadStates
<1>2. ASSUME NEW i \in 1 .. n, NEW x \in ReadStates
      PROVE  ReadTurn(bits, size, R, i, x) \in ReadStates
  <2>1. CASE i - 1 \in bits
    <3>1. i - 1 \in Nat /\ size[i - 1] \in Nat /\ 1 <= size[i - 1]
      BY <1>1, <2>1 DEF SizesOK
    <3>2. ReadValue(x, i - 1, size[i - 1], R) \in ReadStates
      BY <1>2, <3>1, ReadValueType, Zenon
    <3> QED
      BY <2>1, <3>2, Zenon DEF ReadTurn
  <2>2. CASE i - 1 \notin bits
    BY <1>2, <2>2, Zenon DEF ReadTurn
  <2> QED
    BY <2>1, <2>2, Zenon
<1> HIDE DEF n
<1>3. D \in [1 .. n -> [ReadStates -> ReadStates]]
  BY <1>2, Zenon
<1>4. LoopRuns(n, ReadStates, Start, D) # {}
  <2> HIDE DEF D
  <2> QED
    BY <1>1, <1>3, LoopValues, Zenon
<1>5. PICK f \in [0 .. n -> ReadStates] : f[0] = Start /\ \A i \in 1 .. n : f[i] = D[i][f[i - 1]]
  BY <1>4, Zenon DEF LoopRuns
<1>6. \A i \in 1 .. n : f[i] = ReadTurn(bits, size, R, i, f[i - 1])
  BY <1>1, <1>5, Zenon
<1> HIDE DEF D
<1> QED
  BY <1>5, <1>6, Zenon DEF ReadRuns, n

\* The sizes of the types.
TypeSizes == [i \in pmap |-> params(i).type]

\* parse_device_data reads what was laid out by the types.
LEMMA ParsingTurns ==
  ASSUME SizesOK(pmap, TypeSizes, {}), payload \in Seq(ValueBytes)
  PROVE  IsRead(Parsing, pmap, TypeSizes, {})
<1>1. PICK f \in ReadRuns(pmap, TypeSizes, {}) : TRUE
  BY ReadRunsExist, Zenon
<1>2. /\ f \in [0 .. MAX_PARAMS -> ReadStates] /\ f[0] = Start
      /\ \A i \in 1 .. MAX_PARAMS : f[i] = ReadTurn(pmap, TypeSizes, {}, i, f[i - 1])
  BY <1>1, Zenon DEF ReadRuns
<1>3. \A i, x : ReadTurn(pmap, TypeSizes, {}, i, x) = IF i - 1 \in pmap THEN ParseValue(x, i - 1) ELSE x
  <2>1. \A j \in pmap : TypeSizes[j] = params(j).type
    BY Zenon DEF TypeSizes
  <2>2. \A v : v \notin {}
    BY Zenon
  <2> QED
    BY <2>1, <2>2, Zenon DEF ReadTurn, ReadValue, ParseValue
<1>4. /\ 0 \in 0 .. MAX_PARAMS /\ MAX_PARAMS \in Nat /\ \A i \in 1 .. MAX_PARAMS : i \in 0 .. MAX_PARAMS /\ i # 0
      /\ \A i \in 0 .. MAX_PARAMS : i # 0 => i \in 1 .. MAX_PARAMS
  BY DEF MAX_PARAMS
<1>5. \A i \in 1 .. MAX_PARAMS : f[i] = IF i - 1 \in pmap THEN ParseValue(f[i - 1], i - 1) ELSE f[i - 1]
  BY <1>2, <1>3, Zenon
<1>6. f = [i \in 0 .. MAX_PARAMS |-> IF i = 0 THEN Start
                                     ELSE IF i - 1 \in pmap THEN ParseValue(f[i - 1], i - 1) ELSE f[i - 1]]
  <2>1. \A i \in 0 .. MAX_PARAMS : f[i] = IF i = 0 THEN Start
                                          ELSE IF i - 1 \in pmap THEN ParseValue(f[i - 1], i - 1) ELSE f[i - 1]
    BY <1>2, <1>4, <1>5, Zenon
  <2> QED
    BY <1>2, <2>1, Zenon
<1>7. Parsing = [i \in 0 .. MAX_PARAMS |-> IF i = 0 THEN Start
                                           ELSE IF i - 1 \in pmap THEN ParseValue(Parsing[i - 1], i - 1)
                                           ELSE Parsing[i - 1]]
  BY <1>6, Zenon DEF Parsing
<1>8. /\ Parsing[0] = Start
      /\ \A i \in 1 .. MAX_PARAMS :
           Parsing[i] = IF i - 1 \in pmap THEN ParseValue(Parsing[i - 1], i - 1) ELSE Parsing[i - 1]
  BY <1>4, <1>7, Zenon
<1>9. \A i \in 1 .. MAX_PARAMS : Parsing[i] = ReadTurn(pmap, TypeSizes, {}, i, Parsing[i - 1])
  BY <1>3, <1>8, Zenon
<1> QED
  BY <1>8, <1>9, Zenon DEF IsRead, ReadTurn

\* The device reads what was laid out by the types, but for what it refuses.
LEMMA WritingTurns ==
  ASSUME SizesOK(pmap, TypeSizes, refused), payload \in Seq(ValueBytes), OnDevice(pmap) = pmap,
         \A i \in pmap : \A v : device_write(i, v) = IF v \in refused THEN 0 ELSE params(i).type
  PROVE  IsRead(Writing, pmap, TypeSizes, refused)
<1>1. PICK f \in ReadRuns(pmap, TypeSizes, refused) : TRUE
  BY ReadRunsExist, Zenon
<1>2. /\ f \in [0 .. MAX_PARAMS -> ReadStates] /\ f[0] = Start
      /\ \A i \in 1 .. MAX_PARAMS : f[i] = ReadTurn(pmap, TypeSizes, refused, i, f[i - 1])
  BY <1>1, Zenon DEF ReadRuns
<1>3. \A i, x : ReadTurn(pmap, TypeSizes, refused, i, x) = IF i - 1 \in pmap THEN WriteValue(x, i - 1) ELSE x
  <2>1. \A j \in pmap : TypeSizes[j] = params(j).type
    BY Zenon DEF TypeSizes
  <2> QED
    BY <2>1, Zenon DEF ReadTurn, ReadValue, WriteValue
<1>4. /\ 0 \in 0 .. MAX_PARAMS /\ MAX_PARAMS \in Nat /\ \A i \in 1 .. MAX_PARAMS : i \in 0 .. MAX_PARAMS /\ i # 0
      /\ \A i \in 0 .. MAX_PARAMS : i # 0 => i \in 1 .. MAX_PARAMS
  BY DEF MAX_PARAMS
<1>5. \A i \in 1 .. MAX_PARAMS : f[i] = IF i - 1 \in OnDevice(pmap) THEN WriteValue(f[i - 1], i - 1) ELSE f[i - 1]
  BY <1>2, <1>3, Zenon
<1>6. f = [i \in 0 .. MAX_PARAMS |-> IF i = 0 THEN Start
                                     ELSE IF i - 1 \in OnDevice(pmap) THEN WriteValue(f[i - 1], i - 1) ELSE f[i - 1]]
  <2>1. \A i \in 0 .. MAX_PARAMS : f[i] = IF i = 0 THEN Start
                                          ELSE IF i - 1 \in OnDevice(pmap) THEN WriteValue(f[i - 1], i - 1)
                                          ELSE f[i - 1]
    BY <1>2, <1>4, <1>5, Zenon
  <2> QED
    BY <1>2, <2>1, Zenon
<1>7. Writing = [i \in 0 .. MAX_PARAMS |-> IF i = 0 THEN Start
                                           ELSE IF i - 1 \in OnDevice(pmap) THEN WriteValue(Writing[i - 1], i - 1)
                                           ELSE Writing[i - 1]]
  BY <1>6, Zenon DEF Writing
<1>8. /\ Writing[0] = Start
      /\ \A i \in 1 .. MAX_PARAMS :
           Writing[i] = IF i - 1 \in pmap THEN WriteValue(Writing[i - 1], i - 1) ELSE Writing[i - 1]
  BY <1>4, <1>7, Zenon
<1>9. \A i \in 1 .. MAX_PARAMS : Writing[i] = ReadTurn(pmap, TypeSizes, refused, i, Writing[i - 1])
  BY <1>3, <1>8, Zenon
<1> QED
  BY <1>8, <1>9, Zenon DEF IsRead, ReadTurn

\* The inductive invariant of the payloads: what was sent was laid out by the
\* tables of runtime_util, for parameters the device has and gives access to.
PayloadInv ==
  /\ dev \in DOMAIN DEVICES /\ pmap \subseteq 0 .. MAX_PARAMS - 1 /\ refused \subseteq Nat
  /\ RefusedOK /\ (message = "DEVICE_DATA" => refused = {})
  /\ step = "sent" =>
       /\ \A i \in pmap : Exists(i) /\ (IF message = "DEVICE_WRITE" THEN params(i).write ELSE params(i).read)
       /\ payload = Laid(pmap, TypeSizes)[MAX_PARAMS]
  /\ ParametersLand

\* A bitmap of 16 parameters is the same to the firmware.
LEMMA OnDeviceSame ==
  ASSUME NEW S, S \subseteq 0 .. 15
  PROVE  OnDevice(S) = S
<1>1. INT_BITS \in Nat /\ 16 <= INT_BITS
  BY PayloadConstants, Zenon
<1>2. ASSUME NEW i \in 0 .. INT_BITS - 1
      PROVE  On(S, i) <=> i \in S
  <2>1. CASE i < INT_BITS - 1
    BY <2>1 DEF On
  <2>2. CASE i = INT_BITS - 1
    <3>1. ~(i < INT_BITS - 1)
      BY <1>1, <2>2
    <3>2. On(S, i) <=> \E j \in S : j >= i
      BY <2>2, <3>1, Zenon DEF On
    <3>3. \A j \in S : j >= i => j = i
      BY <1>1, <2>2
    <3>4. i >= i
      BY <1>1, <2>2
    <3> QED
      BY <3>2, <3>3, <3>4, Zenon
  <2> QED
    BY <1>1, <2>1, <2>2
<1>3. \A i \in S : i \in 0 .. INT_BITS - 1
  BY <1>1
<1> QED
  BY <1>2, <1>3, Zenon DEF OnDevice

\* What the tables say of the parameters of a bitmap.
LEMMA BitmapSizes ==
  ASSUME dev \in DOMAIN DEVICES, RefusedOK, NEW S, S \subseteq 0 .. MAX_PARAMS - 1, \A i \in S : Exists(i)
  PROVE  S \subseteq 0 .. 15 /\ \A i \in S : SizesAgree(i)
<1>1. \A i \in S : i \in Nat
  BY DEF MAX_PARAMS
<1>2. \A i \in S : SizesAgree(i)
  BY <1>1, Tables, Zenon
<1>3. \A i \in S : i < 16
  BY <1>2, Zenon DEF SizesAgree
<1> QED
  BY <1>1, <1>2, <1>3

\* The payload that was sent, and the reader's sizes.
LEMMA SentPayload ==
  ASSUME PayloadInv, step = "sent"
  PROVE  /\ SizesOK(pmap, TypeSizes, refused) /\ payload \in Seq(ValueBytes)
         /\ IsLaid(Laid(pmap, TypeSizes), pmap, TypeSizes) /\ payload = Laid(pmap, TypeSizes)[MAX_PARAMS]
         /\ OnDevice(pmap) = pmap /\ \A i \in pmap : SizesAgree(i)
<1>1. /\ dev \in DOMAIN DEVICES /\ pmap \subseteq 0 .. MAX_PARAMS - 1 /\ refused \subseteq Nat /\ RefusedOK
      /\ (\A i \in pmap : Exists(i)) /\ payload = Laid(pmap, TypeSizes)[MAX_PARAMS]
  BY Zenon DEF PayloadInv
<1>2. pmap \subseteq 0 .. 15 /\ \A i \in pmap : SizesAgree(i)
  BY <1>1, BitmapSizes, Zenon
<1>3. \A i \in pmap : params(i).type \in {1, 4} /\ (dev = "ServoControl" => params(i).type = 4)
  BY <1>2, Zenon DEF SizesAgree
<1>4. TypeSizes \in [pmap -> {1, 4}] /\ \A i \in pmap : TypeSizes[i] = params(i).type
  BY <1>3, Zenon DEF TypeSizes
<1>5. refused # {} => \A i \in pmap : TypeSizes[i] = 4
  BY <1>1, <1>3, <1>4, Zenon DEF RefusedOK
<1>6. SizesOK(pmap, TypeSizes, refused)
  BY <1>1, <1>4, <1>5, Zenon DEF SizesOK
<1>7. TypeSizes \in [pmap -> Nat]
  BY <1>4
<1>8. IsLaid(Laid(pmap, TypeSizes), pmap, TypeSizes)
  BY <1>7, LaidTurns, Zenon
<1>9. MAX_PARAMS \in 0 .. MAX_PARAMS
  BY DEF MAX_PARAMS
<1>10. payload \in Seq(ValueBytes)
  BY <1>1, <1>8, <1>9, Zenon DEF IsLaid
<1>11. OnDevice(pmap) = pmap
  BY <1>2, OnDeviceSame, Zenon
<1> QED
  BY <1>1, <1>2, <1>6, <1>8, <1>10, <1>11, Zenon

\* What landed is what the property says.
LEMMA LandedIsRight ==
  ASSUME pmap \subseteq 0 .. MAX_PARAMS - 1, refused \subseteq Nat
  PROVE  Landed(pmap, refused, MAX_PARAMS) =
           {<<i, i>> : i \in pmap \ (refused \cup {j \in pmap : \E i \in Hidden : i < j})}
<1> DEFINE G == pmap \ (refused \cup {j \in pmap : \E i \in Hidden : i < j})
<1>1. ASSUME NEW k \in pmap
      PROVE  k \in Kept(pmap, refused, MAX_PARAMS) <=> k \in G
  <2>1. k < MAX_PARAMS /\ k \in Nat
    BY DEF MAX_PARAMS
  <2>2. k \in Kept(pmap, refused, MAX_PARAMS) <=> \A h \in refused : h \in pmap => k < h
    BY <2>1, Zenon DEF Kept
  <2>3. k \in G <=> k \notin refused /\ ~\E i \in Hidden : i < k
    BY Zenon
  <2>4. \A i \in refused : i \in pmap /\ i < k => i \in Hidden
    BY <2>1, Zenon DEF Hidden
  <2>5. \A i \in Hidden : i \in refused /\ i \in pmap
    BY Zenon DEF Hidden
  <2>6. \A h \in refused : h \in Nat /\ (k < h <=> ~(h = k) /\ ~(h < k))
    BY <2>1
  <2> QED
    BY <2>2, <2>3, <2>4, <2>5, <2>6, Zenon
<1>2. Kept(pmap, refused, MAX_PARAMS) = G
  BY <1>1, Zenon DEF Kept
<1> QED
  BY <1>2, Zenon DEF Landed

\* A request becomes a payload.
LEMMA LaidOut ==
  ASSUME PayloadInv, NEW S, S \subseteq pmap, pmap' = S, step' = "sent",
         dev' = dev /\ message' = message /\ refused' = refused,
         \A i \in S : Exists(i) /\ (IF message = "DEVICE_WRITE" THEN params(i).write ELSE params(i).read),
         payload' = Laid(S, [i \in S |-> params(i).type])[MAX_PARAMS]
  PROVE  PayloadInv'
<1>1. /\ dev \in DOMAIN DEVICES /\ pmap \subseteq 0 .. MAX_PARAMS - 1 /\ refused \subseteq Nat
      /\ RefusedOK /\ (message = "DEVICE_DATA" => refused = {})
  BY Zenon DEF PayloadInv
<1>2. dev' \in DOMAIN DEVICES /\ pmap' \subseteq 0 .. MAX_PARAMS - 1 /\ refused' \subseteq Nat
  BY <1>1, Zenon
<1>3. RefusedOK' /\ (message' = "DEVICE_DATA" => refused' = {})
  BY <1>1, Zenon DEF RefusedOK
<1>4. \A i \in pmap' :
        Exists(i)' /\ (IF message' = "DEVICE_WRITE" THEN params(i).write' ELSE params(i).read')
  BY Zenon DEF Exists, params
<1>5. payload' = Laid(pmap', TypeSizes')[MAX_PARAMS]
  BY Zenon DEF TypeSizes, params
<1>6. ParametersLand'
  BY Zenon DEF ParametersLand
<1> QED
  BY <1>2, <1>3, <1>4, <1>5, <1>6, Zenon DEF PayloadInv

\* A payload is read.
LEMMA ReadOut ==
  ASSUME PayloadInv, step = "sent", step' = "done", UNCHANGED <<dev, message, pmap, refused, payload>>,
         Range(stored') = Landed(pmap, refused, MAX_PARAMS)
  PROVE  PayloadInv'
<1>1. /\ dev \in DOMAIN DEVICES /\ pmap \subseteq 0 .. MAX_PARAMS - 1 /\ refused \subseteq Nat
      /\ RefusedOK /\ (message = "DEVICE_DATA" => refused = {})
  BY Zenon DEF PayloadInv
<1>2. /\ dev' \in DOMAIN DEVICES /\ pmap' \subseteq 0 .. MAX_PARAMS - 1 /\ refused' \subseteq Nat
      /\ RefusedOK' /\ (message' = "DEVICE_DATA" => refused' = {})
  BY <1>1, Zenon DEF RefusedOK
<1>3. Range(stored') = {<<i, i>> : i \in pmap \ (refused \cup {j \in pmap : \E i \in Hidden : i < j})}
  BY <1>1, LandedIsRight, Zenon
<1>4. ParametersLand'
  BY <1>3, Zenon DEF ParametersLand, Hidden
<1> QED
  BY <1>2, <1>4, Zenon DEF PayloadInv

\* Every step keeps the invariant.
LEMMA PayloadStep == PayloadInv /\ [PNext]_pvars => PayloadInv'
<1> SUFFICES ASSUME PayloadInv, [PNext]_pvars
             PROVE  PayloadInv'
  BY Zenon
<1>1. /\ dev \in DOMAIN DEVICES /\ pmap \subseteq 0 .. MAX_PARAMS - 1 /\ refused \subseteq Nat
      /\ RefusedOK /\ (message = "DEVICE_DATA" => refused = {})
  BY Zenon DEF PayloadInv
<1>2. CASE make_device_write
  <2>1. PICK S : S = {i \in pmap : Exists(i) /\ params(i).write}
    BY Zenon
  <2>2. /\ message = "DEVICE_WRITE" /\ pmap' = S /\ payload' = Appended(pmap') /\ step' = "sent"
        /\ dev' = dev /\ message' = message /\ refused' = refused
    BY <1>2, <2>1, Zenon DEF make_device_write
  <2>3. payload' = Laid(S, [i \in S |-> params(i).type])[MAX_PARAMS]
    BY <2>2, Zenon DEF Appended
  <2>4. S \subseteq pmap /\ \A i \in S : Exists(i) /\ (IF message = "DEVICE_WRITE" THEN params(i).write ELSE params(i).read)
    BY <2>1, <2>2, Zenon
  <2> QED
    BY <2>2, <2>3, <2>4, LaidOut, Zenon
<1>3. CASE device_read_params
  <2>1. PICK S : S = {i \in pmap : Exists(i) /\ params(i).read}
    BY Zenon
  <2>2. /\ message = "DEVICE_DATA" /\ pmap' = S /\ step' = "sent"
        /\ payload' = Laid(OnDevice(S), [i \in OnDevice(S) |-> device_read(i)])[MAX_PARAMS]
        /\ dev' = dev /\ message' = message /\ refused' = refused
    BY <1>3, <2>1, Zenon DEF device_read_params
  <2>3. S \subseteq pmap /\ \A i \in S : Exists(i) /\ params(i).read
    BY <2>1, Zenon
  <2>4. S \subseteq 0 .. 15 /\ \A i \in S : SizesAgree(i)
    <3>1. S \subseteq 0 .. MAX_PARAMS - 1 /\ \A i \in S : Exists(i)
      BY <1>1, <2>3, Zenon
    <3> QED
      BY <1>1, <3>1, BitmapSizes, Zenon
  <2>5. OnDevice(S) = S
    BY <2>4, OnDeviceSame, Zenon
  <2>6. \A i \in S : device_read(i) = params(i).type
    BY <2>3, <2>4, Zenon DEF SizesAgree
  <2>7. [i \in S |-> device_read(i)] = [i \in S |-> params(i).type]
    BY <2>6, Zenon
  <2>8. payload' = Laid(S, [i \in S |-> params(i).type])[MAX_PARAMS]
    BY <2>2, <2>5, <2>7, Zenon
  <2>9. \A i \in S : Exists(i) /\ (IF message = "DEVICE_WRITE" THEN params(i).write ELSE params(i).read)
    BY <2>2, <2>3, Zenon
  <2> QED
    BY <2>2, <2>3, <2>8, <2>9, LaidOut, Zenon
<1>4. CASE parse_device_data
  <2>1. /\ step = "sent" /\ message = "DEVICE_DATA" /\ stored' = Parsing[MAX_PARAMS].taken /\ step' = "done"
        /\ UNCHANGED <<dev, message, pmap, refused, payload>>
    BY <1>4, Zenon DEF parse_device_data
  <2>2. refused = {}
    BY <1>1, <2>1, Zenon
  <2>3. /\ SizesOK(pmap, TypeSizes, refused) /\ payload \in Seq(ValueBytes)
        /\ IsLaid(Laid(pmap, TypeSizes), pmap, TypeSizes) /\ payload = Laid(pmap, TypeSizes)[MAX_PARAMS]
    BY <2>1, SentPayload, Zenon
  <2>4. IsRead(Parsing, pmap, TypeSizes, refused)
    BY <2>2, <2>3, ParsingTurns, Zenon
  <2>5. Range(stored') = Landed(pmap, refused, MAX_PARAMS)
    BY <2>1, <2>3, <2>4, ReadAll, Zenon
  <2> QED
    BY <2>1, <2>5, ReadOut, Zenon
<1>5. CASE device_write_params
  <2>1. /\ step = "sent" /\ message = "DEVICE_WRITE" /\ stored' = Writing[MAX_PARAMS].taken /\ step' = "done"
        /\ UNCHANGED <<dev, message, pmap, refused, payload>>
    BY <1>5, Zenon DEF device_write_params
  <2>2. /\ SizesOK(pmap, TypeSizes, refused) /\ payload \in Seq(ValueBytes)
        /\ IsLaid(Laid(pmap, TypeSizes), pmap, TypeSizes) /\ payload = Laid(pmap, TypeSizes)[MAX_PARAMS]
        /\ OnDevice(pmap) = pmap /\ \A i \in pmap : SizesAgree(i)
    BY <2>1, SentPayload, Zenon
  <2>3. \A i \in pmap : params(i).write
    BY <2>1, Zenon DEF PayloadInv
  <2>4. \A i \in pmap : \A v : device_write(i, v) = IF v \in refused THEN 0 ELSE params(i).type
    BY <2>2, <2>3, Zenon DEF SizesAgree
  <2>5. IsRead(Writing, pmap, TypeSizes, refused)
    BY <2>2, <2>4, WritingTurns, Zenon
  <2>6. Range(stored') = Landed(pmap, refused, MAX_PARAMS)
    BY <2>1, <2>2, <2>5, ReadAll, Zenon
  <2> QED
    BY <2>1, <2>6, ReadOut, Zenon
<1>6. CASE UNCHANGED pvars
  BY <1>6, Zenon DEF pvars, PayloadInv, RefusedOK, Exists, params, TypeSizes, ParametersLand, Hidden
<1> QED
  BY <1>2, <1>3, <1>4, <1>5, <1>6, Zenon DEF PNext

\* At first nothing is laid out.
LEMMA PayloadStart == PInit => PayloadInv
<1> SUFFICES ASSUME PInit
             PROVE  PayloadInv
  BY Zenon
<1>1. /\ dev \in DOMAIN DEVICES /\ pmap \in Bitmaps(Len(DEVICES[dev])) /\ step = "asked"
      /\ refused \in IF dev = "ServoControl" /\ message = "DEVICE_WRITE" THEN SUBSET {0, 1} ELSE {{}}
  BY Zenon DEF PInit
<1>2. pmap \subseteq 0 .. MAX_PARAMS - 1
  BY <1>1, PayloadConstants, Zenon
<1>3. refused \subseteq Nat /\ RefusedOK /\ (message = "DEVICE_DATA" => refused = {})
  BY <1>1 DEF RefusedOK
<1>4. ParametersLand
  BY <1>1, Zenon DEF ParametersLand
<1> QED
  BY <1>1, <1>2, <1>3, <1>4, Zenon DEF PayloadInv

\* Every parameter of a DEVICE_WRITE or DEVICE_DATA gets its own value, for every
\* device and every bitmap, although no side writes which parameter a value is
\* of; but for the servo values behind one that was refused.
THEOREM ParametersLandTheorem == PSpec => []ParametersLand
<1>1. PayloadInv => ParametersLand
  BY Zenon DEF PayloadInv
<1> QED
  BY <1>1, PayloadStart, PayloadStep, PTL DEF PSpec
=============================================================================
