------------------------------ MODULE Handshake ------------------------------
(***************************************************************************)
(* A device and its relay in time: the threads of dev_handler for one port *)
(* (module Relay) composed with the loop of the firmware (module Lowcar)   *)
(* and the serial line between them.                                       *)
(*                                                                         *)
(* One tick is PING_FREQ, 250 ms.  Between two ticks every thread runs     *)
(* until it has to wait, in any order; the main thread of dev_handler,     *)
(* which may be asleep for a poll interval or longer, takes its time.  So  *)
(* does device_enable: enable_time is how long the device stays in it,     *)
(* reading and sending nothing.                                            *)
(***************************************************************************)
EXTENDS Relay, Lowcar, Sequences, SequencesExt

CONSTANTS
  port,          \* the port
  EnableTimes,   \* durations of device_enable
  MaxFaults      \* bound on lost messages, spurious returns, restarts and unpluggings

ASSUME HandshakeConstants ==
  /\ Ports = {port}
  /\ EnableTimes \subseteq Nat
  /\ MaxFaults \in Nat

VARIABLES
  enable_time,  \* of this device
  core,         \* the state of Device::loop
  enabling,     \* inside device_enable: ticks left, and whether DEVICE_DATA was due before
  down,         \* messages on their way to the device
  up,           \*   and from the device; CUT has lost a byte
  pinged,       \* verify_device has sent its DEVICE_PING
  wait,         \* ticks left of the read timeout of verify_device, or of sleep()
  rxAge,        \* ticks since last_received_msg_time
  pingAge,      \* ticks since last_sent_ping_time
  subRequest,   \* shared memory has a subscription for the device that is not sent
  faults        \* how many faults there have been

firmware == <<enable_time, core, enabling>>
line == <<down, up>>
timers == <<pinged, wait, rxAge, pingAge, subRequest>>
hvars == <<lvars, firmware, line, timers, faults>>

Running == [left |-> -1, due |-> FALSE]

HInit ==
  /\ LInit
  /\ enable_time \in EnableTimes
  /\ core = Booted /\ enabling = Running
  /\ down = <<>> /\ up = <<>>
  /\ pinged = FALSE /\ wait = 0 /\ rxAge = 0 /\ pingAge = 0 /\ subRequest = FALSE
  /\ faults = 0

-----------------------------------------------------------------------------
(* The firmware.                                                           *)

\* What the device sends reaches an open port somebody will still read from;
\* the rest is discarded when the port is opened the next time.
Heard(msgs) == IF port \in alive /\ receiver[port] # "done" THEN up \o msgs ELSE up

Powered == port \in plugged /\ enabling = Running
UnlessOff(c) == IF c.enabled THEN Flushed(c) ELSE c

Says(c) ==
  IF ~c.enabled THEN <<>>
  ELSE (IF SendsData(c) THEN <<"DATA">> ELSE <<>>) \o (IF c.logs THEN <<"LOG">> ELSE <<>>)

\* The rest of the loop, from the state c the message has left.
LoopTo(c) ==
  /\ core' = UnlessOff(Checked(c))
  /\ up' = Heard(Says(Checked(c)))
  /\ UNCHANGED <<lvars, enable_time, enabling, timers, faults>>

\* The first DEVICE_PING: the loop is inside device_enable.
LoopEnable ==
  /\ Powered /\ down # <<>> /\ Head(down) = "PING" /\ Acknowledges(core)
  /\ down' = Tail(down)
  /\ up' = Heard(<<"ACK">>)
  /\ enabling' = [left |-> enable_time, due |-> SendsData(core)]
  /\ core' = Pinged(core)
  /\ UNCHANGED <<lvars, enable_time, timers, faults>>

\* device_enable returns: curr_time is still that of the DEVICE_PING.
LoopEnabled ==
  /\ port \in plugged /\ enabling.left = 0
  /\ enabling' = Running
  /\ core' = [core EXCEPT !.dataAge = IF enabling.due THEN core.pingAge ELSE @, !.logs = FALSE]
  /\ up' = Heard((IF enabling.due THEN <<"DATA">> ELSE <<>>) \o <<"LOG">>)
  /\ UNCHANGED <<lvars, enable_time, down, timers, faults>>

LoopMessage ==
  /\ Powered /\ down # <<>>
  /\ Head(down) = "PING" => ~Acknowledges(core)
  /\ down' = Tail(down)
  /\ LoopTo(IF Head(down) = "PING" THEN Pinged(core)
            ELSE Subscribed(core, {}, MIN_SUB_INTERVAL))

\* A loop without a message matters when something is due.
LoopIdle ==
  /\ Powered /\ down = <<>> /\ core.enabled
  /\ TimedOut(core) \/ SendsData(core)
  /\ LoopTo(core)
  /\ UNCHANGED down

DeviceStep == LoopEnable \/ LoopEnabled \/ LoopMessage \/ LoopIdle

-----------------------------------------------------------------------------
(* dev_handler, with what its threads send, read and wait for.             *)

\* Opening the port discards what has arrived (TCSAFLUSH).
Open ==
  /\ communicate(port)
  /\ up' = <<>> /\ pinged' = FALSE
  /\ UNCHANGED <<firmware, down, wait, rxAge, pingAge, subRequest, faults>>

OpenVanished ==
  /\ \/ OpenFails(port) /\ port \notin plugged
     \/ ClearUnlocked(port)
  /\ UNCHANGED <<firmware, line, timers, faults>>

Find ==
  /\ get_new_devices(port) \/ EndScan
  /\ UNCHANGED <<firmware, line, timers, faults>>

Reaches(msg) == IF port \in alive THEN Append(down, msg) ELSE down

VerifySend ==
  /\ relay[port] = "verify" /\ ~pinged
  /\ pinged' = TRUE
  /\ down' = Reaches("PING")
  /\ wait' = TIMEOUT
  /\ UNCHANGED <<lvars, firmware, up, rxAge, pingAge, subRequest, faults>>

\* The first message has to be an ACKNOWLEDGEMENT.
VerifyAck ==
  /\ pinged /\ up # <<>> /\ Head(up) = "ACK" /\ receiver[port] # "body"
  /\ verify_device(port, TRUE)
  /\ up' = <<>> /\ wait' = 0 /\ rxAge' = 0
  /\ UNCHANGED <<firmware, down, pinged, pingAge, subRequest, faults>>

VerifyFails ==
  /\ pinged
  /\ \/ up # <<>> /\ (Head(up) # "ACK" \/ receiver[port] = "body")
     \/ up = <<>> /\ wait = 0
     \/ port \notin alive
  /\ verify_device(port, FALSE)
  /\ wait' = 0
  /\ UNCHANGED <<firmware, line, pinged, rxAge, pingAge, subRequest, faults>>

\* device_connect marks a subscription to everything for the new device.
Connect ==
  /\ device_connect(port)
  /\ subRequest' = (shm_dev_idx'[port] # -1)
  /\ UNCHANGED <<firmware, line, pinged, wait, rxAge, pingAge, faults>>

\* A sender that starts notes the time.
Start ==
  /\ Broadcast(port)
  /\ pingAge' = IF sender'[port] = "work" THEN 0 ELSE pingAge
  /\ UNCHANGED <<firmware, line, pinged, wait, rxAge, subRequest, faults>>

Watch ==
  /\ \/ rxAge >= TIMEOUT /\ relay[port] = "monitor" /\ Timeout(port)
     \/ Monitor(port) \/ Cancel(port) \/ Join(port)
  /\ UNCHANGED <<firmware, line, timers, faults>>

\* Fault: relay_clean_up does not sleep before it releases the port.
Disconnect_NoSleep ==
  /\ device_disconnect(port)
  /\ subRequest' = FALSE /\ wait' = 0
  /\ UNCHANGED <<firmware, line, pinged, rxAge, pingAge, faults>>

\* "we sleep to give it time to reset and try to send an ACK again".
Disconnect ==
  /\ device_disconnect(port)
  /\ subRequest' = FALSE /\ wait' = TIMEOUT
  /\ UNCHANGED <<firmware, line, pinged, rxAge, pingAge, faults>>

Close ==
  /\ wait = 0
  /\ Release(port)
  /\ up' = <<>> /\ rxAge' = 0 /\ pingAge' = 0 /\ pinged' = FALSE
  /\ UNCHANGED <<firmware, down, wait, subRequest, faults>>
\* sender: DEVICE_PING every PING_FREQ, and a subscription that is requested.
SendPing ==
  /\ sender[port] = "work" /\ pingAge > 0
  /\ down' = Reaches("PING")
  /\ pingAge' = 0
  /\ UNCHANGED <<lvars, firmware, up, pinged, wait, rxAge, subRequest, faults>>

SendSubscription ==
  /\ sender[port] = "work" /\ shm_dev_idx[port] # -1 /\ subRequest
  /\ down' = Reaches("SUB")
  /\ subRequest' = FALSE
  /\ UNCHANGED <<lvars, firmware, up, pinged, wait, rxAge, pingAge, faults>>

\* receiver.
ReadDelimiter ==
  /\ up # <<>> /\ TakeDelimiter(port)
  /\ UNCHANGED <<firmware, line, timers, faults>>

ReadMessage ==
  /\ up # <<>> /\ Head(up) \in {"DATA", "LOG"}
  /\ TakeBody(port, TRUE)
  /\ up' = Tail(up)
  /\ UNCHANGED <<firmware, down, timers, faults>>

\* A message that lost a byte is read to the end with bytes of the next one.  An
\* ACKNOWLEDGEMENT is for verify_device, and is dropped here.
ReadBad ==
  /\ TakeBody(port, FALSE)
  /\ \/ port \notin alive /\ up' = up
     \/ up # <<>> /\ Head(up) = "ACK" /\ up' = Tail(up)
     \/ Len(up) > 1 /\ Head(up) = "CUT" /\ up' = Tail(Tail(up))
  /\ UNCHANGED <<firmware, down, timers, faults>>

Refresh ==
  /\ Handle(port)
  /\ rxAge' = 0
  /\ UNCHANGED <<firmware, line, pinged, wait, pingAge, subRequest, faults>>

WaitOrCancel ==
  /\ StartWait(port) \/ Cancelable(port)
  /\ UNCHANGED <<firmware, line, timers, faults>>

-----------------------------------------------------------------------------
(* Faults, the clock and the user.                                         *)

Fault == faults < MaxFaults /\ faults' = faults + 1

Wake ==
  /\ Fault
  /\ SpuriousReturn(port)
  /\ pingAge' = 0
  /\ UNCHANGED <<firmware, line, pinged, wait, rxAge, subRequest>>

Lose(i) ==
  /\ Fault
  /\ \/ i \in DOMAIN up /\ up[i] # "CUT" /\ up' = [up EXCEPT ![i] = "CUT"] /\ down' = down
     \/ i \in DOMAIN down /\ down' = RemoveAt(down, i) /\ up' = up
  /\ UNCHANGED <<lvars, firmware, timers>>

\* dev_handler dies and is started again; the device notices nothing.
Restart ==
  /\ Fault
  /\ alive' = {} /\ used_ports' = {}
  /\ poll' = "scan" /\ found' = {} /\ old_ports' = {}
  /\ relay' = [p \in Ports |-> "none"]
  /\ sender' = [p \in Ports |-> "done"] /\ receiver' = [p \in Ports |-> "done"]
  /\ cancelled' = {} /\ fresh' = {}
  /\ shm_dev_idx' = [p \in Ports |-> -1] /\ slots' = [ix \in Ix |-> NoPort]
  /\ up' = <<>> /\ pinged' = FALSE /\ wait' = 0 /\ rxAge' = 0 /\ pingAge' = 0
  /\ subRequest' = FALSE
  /\ UNCHANGED <<plugged, firmware, down>>

\* The board starts anew when it is plugged in.
PlugIn ==
  /\ Plug(port)
  /\ UNCHANGED <<firmware, line, timers, faults>>

PullOut ==
  /\ Fault
  /\ Unplug(port)
  /\ core' = Booted /\ enabling' = Running
  /\ down' = <<>> /\ up' = <<>>
  /\ UNCHANGED <<enable_time, timers>>

HostStep ==
  \/ VerifySend \/ VerifyAck \/ VerifyFails \/ Connect \/ Start \/ Watch
  \/ Disconnect \/ Close
SenderStep == SendPing \/ SendSubscription
ReceiverWork == ReadDelimiter \/ ReadMessage \/ ReadBad \/ Refresh
MainStep == Open \/ OpenVanished \/ Find

Tick ==
  /\ ~ENABLED (DeviceStep \/ HostStep \/ SenderStep \/ ReceiverWork \/ WaitOrCancel)
  /\ core' = IF port \in plugged THEN Aged(core) ELSE core
  /\ enabling' = IF enabling.left > 0 THEN [enabling EXCEPT !.left = @ - 1] ELSE enabling
  /\ wait' = IF wait > 0 THEN wait - 1 ELSE 0
  /\ rxAge' = IF relay[port] = "monitor" THEN Older(rxAge, TIMEOUT) ELSE rxAge
  /\ pingAge' = IF sender[port] = "work" THEN 1 ELSE pingAge
  /\ UNCHANGED <<lvars, enable_time, line, pinged, subRequest, faults>>

HNext ==
  \/ DeviceStep \/ HostStep \/ SenderStep \/ ReceiverWork \/ WaitOrCancel \/ MainStep
  \/ Wake \/ Restart \/ PlugIn \/ PullOut \/ Tick
  \/ \E i \in DOMAIN up \union DOMAIN down : Lose(i)

HSpec == HInit /\ [][HNext]_hvars

\* Every thread runs, and time passes.  The loop of the device is much shorter
\* than the poll interval of dev_handler: when its timeout and a new DEVICE_PING
\* meet again and again, the timeout is not late every time.
HLiveSpec ==
  /\ HSpec
  /\ SF_hvars(TimedOut(core) /\ LoopIdle)
  /\ WF_hvars(DeviceStep) /\ WF_hvars(HostStep) /\ WF_hvars(SenderStep)
  /\ WF_hvars(ReceiverWork) /\ WF_hvars(WaitOrCancel) /\ WF_hvars(MainStep)
  /\ WF_hvars(Tick)

-----------------------------------------------------------------------------
(* Properties.                                                             *)

Connected ==
  /\ relay[port] = "monitor" /\ sender[port] = "work" /\ Working(receiver[port])
  /\ core.enabled

\* The receiver has read the beginning of a message whose end was lost.
Blocked == receiver[port] = "body" /\ Len(up) < 2 /\ (up # <<>> => Head(up) = "CUT")
Missed == relay[port] = "monitor" /\ (sender[port] = "start" \/ receiver[port] = "start")

\* A device that stays plugged in is connected in the end and stays so, whatever
\* was lost before and also when dev_handler was restarted, if its
\* device_enable takes less than TIMEOUT.  It can fail to in two ways: the
\* receiver is blocked for ever behind a message that lost its end, or the
\* threads miss their start signal each time.
StaysConnected ==
  <>[](port \in plugged) =>
    \/ <>[]Connected
    \/ <>[](relay[port] = "join" /\ Blocked)
    \/ []<>Missed
    \/ enable_time >= TIMEOUT

\* A device that left is removed from the catalog: relayer "disconnects the
\* device from shared memory, closes the device, and frees memory".
UnpluggedIsReleased ==
  (port \notin plugged) ~> (port \in plugged \/ \A ix \in Ix : slots[ix] # port)

\* A sender that missed the broadcast of the relayer does not stay idle beside
\* a connected device: unless it is woken by chance, the device falls silent,
\* times out and is retried.
MissedStartIsRetried ==
  (relay[port] = "monitor") ~> (relay[port] # "monitor" \/ sender[port] = "work")
=============================================================================
