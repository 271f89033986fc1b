# Runtime in TLA+

Runtime is the program that runs on a robot of Pioneers in Engineering. This
directory models how its processes share state, checks the models with TLC on
small instances, and proves part of what they promise with TLAPS for instances
of every size.

## The system

Three long-lived processes talk through one POSIX shared memory object and a set
of named semaphores, all behind the functions of `shm_wrapper`:

| Part | Sources | What it does |
| --- | --- | --- |
| shared memory | `shm_wrapper/shm_wrapper.c`, `shm_start.c`, `shm_stop.c` | device block (catalog, identifiers, DATA and COMMAND rows, command map, two subscription maps), input block, robot description, log data |
| `dev_handler` | `dev_handler/dev_handler.c`, `message.c` | polls serial ports; per device a relayer, a sender and a receiver thread |
| `net_handler` | `net_handler/net_handler.c`, `tcp_conn.c`, `udp_conn.c`, `net_util.c` | one TCP thread per client (Dawn, Shepherd), two UDP threads |
| `executor` | `executor/executor.c`, `gamestate_filter.c`, `studentapi.pyx` | a main loop that follows RUN_MODE, and a forked child that runs student code or a challenge |
| utilities | `runtime_util/runtime_util.c` | constant tables; `readn` and `writen` |
| logger | `logger/logger.c` | stdout, file and a FIFO read by `net_handler` |
| firmware | `lowcar/devices`, `lowcar/lib` | the loop of a device and its messenger; motor and servo controllers, RFID reader, battery buzzer, sensors |
| converter | `net_handler/udp_tcp_converter.c` | forwards between a Dawn that only reaches the robot by TCP and `net_handler`'s UDP socket |
| units | `systemd/*.service` | start, stop and restart of the processes |

How they interact: `dev_handler` puts a device in a slot of the device block and
moves values between that slot and the serial line. Student code reads DATA rows
and writes COMMAND rows by uid; `net_handler` reads DATA rows for Dawn. Clients
choose the mode by writing RUN_MODE, which `executor` polls. Dawn's inputs come
by UDP into the input block. Shepherd's game states come by TCP into the robot
description and are polled inside the executor child. When one of the three
processes fails, systemd stops the others, removes the shared memory with `shm_stop`,
creates it again with `shm_start` and starts them.

## Modules

A module keeps the control of its code (steps, guards, early returns, order) and
reduces data to what its properties tell apart. A bitmap is a set, a uid or a key
is a model value, a log line or a protobuf is nothing. A local variable the code
assigns before it next reads it is reset to its initial value.

| Module | Models | One step is |
| --- | --- | --- |
| `ShmAtomic` | what the calls on the device block promise | one call |
| `ShmWrapper` | the same calls as written, with their semaphores | a `sem_wait`, one turn of a copy loop, or the update under all semaphores with the posts after it |
| `Delivery` | the loop of `sender` over `ShmAtomic` | one call of the wrapper or one message |
| `Relay` | a device from its port to its release | one thread step: open, verify, connect, broadcast, time out, cancel, join, disconnect, release |
| `Lowcar` | the connection state of `Device::loop` | (operators) what each part of the loop makes of the state |
| `Handshake` | `Relay` composed with `Lowcar` over a serial line, in time | one thread step or loop of the device; a tick is `PING_FREQ` |
| `Wire` | frames, COBS and both receivers of the serial line | one message sent, one byte arrived or lost, one read of the receiver |
| `Payload` | tables of `runtime_util.c`, `make_device_write`, `parse_device_data`, and `device_read`, `device_write` of every device | one message laid out, one message taken apart |
| `Readn` | `readn` and `writen` | one system call |
| `Telemetry` | `send_device_data` while devices come and go | one call of the wrapper |
| `Actuators` | KoalaBear, PolarBear and ServoControl | one `Device::loop` |
| `Servo` | the servo library's timer interrupt under `ServoControl` | one interrupt, one store of the sketch, one unit of time |
| `Rfid` | RFID and, of MFRC522, request, anticollision and select | one exchange with the cards |
| `BatteryBuzzer` | calibration, EEPROM and safety judgement | one field of the EEPROM, one phase of a loop |
| `RunMode` | accept loop, TCP threads, executor main loop, children | one read or write of a shared field, one blocking call |
| `Inputs` | Dawn's datagrams, `update_inputs`, `input_read`, `input_write` | one field, one copied half of the input block |
| `LogData` | `log_data_write`, `log_data_read` | one semaphore operation, one table entry |
| `GameState` | `gamestate_handler` and `filter_device_write_uid` | one field polled; a clock tick is one poll interval |
| `Actions` | `Robot.run`, `is_running` and the loop that calls student code | one statement of `run` |
| `Lifecycle` | `shm_start`, `shm_stop`, `shm_init`, SIGINT handlers and the units | one phase of a program, one signal, one crash |
| `Logger` | `log_printf`, its mutex and FIFO, SIGPIPE and SIGINT | one step between two of which another thread or a signal matters |
| `Converter` | `udp_tcp_converter.c` and `parse_msg` | one piece of a message, one datagram |

`MC*` modules choose workloads for TLC; the `*Proofs` modules hold the
proofs. Definitions whose comment begins with "Fault:" are deliberately wrong
variants of the definition that follows them. No specification uses them; each is
there to show that a property notices that mistake when the variant replaces the
original.

How the modules fit together:

* `ShmWrapper` implements `ShmAtomic` (`CallsAreAtomic`, also proved): the refinement mapping
  shows, while a writer is in its copy loop, the row it found, so that the write
  appears at once when its body ends. `Delivery` is built on `ShmAtomic`, which this
  refinement justifies; `Relay` and `Telemetry` use the calls of the wrapper as single
  steps for the same reason.
* `Handshake` takes its dev_handler from `Relay`, whose actions it conjoins with what
  the threads send, read and wait for, and its device from `Lowcar`, which `Actuators`
  uses as well.
* `MCDataPath`, `MCDevices`, `MCServices` and `MCStudent` put modules side by side that
  do not share state. A variable (`layer`, `device`, `side`, `part`) says which one a
  behaviour is about; the others stay in one state. They save runs and change nothing
  about the modules.

### State and actions against the code

* `ShmWrapper`: `catalog`, `dev_ids`, `params`, `cmd_changed`/`cmd_map`
  (`cmd_map[0]` and the other words), `sub_changed`/`sub_map` are the fields of
  `dev_shm_t`. `sem` says who took a semaphore. `pc`, `call` and the locals are the
  position of a thread in a function. `old` and `told` are history variables for
  the refinement and for `SubChangeIsMarked`. The unlocked look-up of
  `get_dev_ix_from_uid` is a step of its own, before the first `sem_wait`. Here and in
  `Telemetry` no two connected devices have the same uid: `flash.sh` gives each device
  a random one (unless told which with `-s` or `-t`), and Runtime does not test it.
* `RunMode`: `thread[c]` follows `tcp_process` and `tcp_conn_cleanup`. Cancellation
  is only possible at `select`, as in the code, which disables it elsewhere: in `recv` a
  thread waits in `parse_msg` for the rest of a message.
  `kid[k]` follows `start_mode_subprocess`, `run_challenges` and the signal handlers.
  A call of the wrapper is one step, but a child may end inside one (`Die`): `lost` has the
  semaphores it had taken. Which they may be (`MayHold`) follows from the code: student
  threads are in such a call one at a time, under Python's global lock, and
  `gamestate_handler` reads the robot description beside them. `moving` has the devices
  whose last command was not zero. "PolarBear" stands for PolarBears and servos.
* `Relay`: relay, sender and receiver of a port with their cancellation points;
  `used_ports` is updated under its lock except on the path where the code has none
  (`OpenFails`, `ClearUnlocked`). `pthread_cond_wait` may return spuriously.
* `Handshake`: `core` is the state of `Device::loop`, `up` and `down` the messages on
  the line. A message that lost a byte is `CUT`: the receiver reads it to its end with
  bytes of the next one. Between two ticks every thread of dev_handler runs until it
  has to wait; the main thread and `device_enable` take their time.
* `Wire`: `rx.at` is the position in `receive_message` or `Messenger::read_message`: before
  the delimiter, before the length, before the body. The loops of codec and checksum are
  recursive functions, which give what is there after each turn; `xor` is a constant,
  of which the proofs only need that it makes a byte of two. A payload length that exceeds the decoded bytes makes the parser read
  undefined memory: the result is then a refusal or a message of undefined content.
* `Payload`: a value is its parameter and the number of each of its bytes, so that a
  value taken from the wrong place differs from every value there is. The loops over a
  bitmap are recursive functions of `MAX_PARAMS` turns, of which those past its highest
  bit do nothing.
* `Readn`: 16-bit counters as arithmetic modulo `MODULUS`.
* `Telemetry`: a row is known by the device whose values it holds, or by the zeroes of
  a new slot; `OnStack` is what a variable holds that a failed read did not set.
* `Actuators`: velocities in steps of one tick's acceleration, pins and deadbands in
  quarters of that. The output of the PID controller is any member of `PidOutputs`,
  and 0 for velocity 0, as in `PID::compute`.
* `Rfid`: a card is what it sends on each cascade level, bit by bit. `ChosenBit`
  computes byte and bit as `PICC_Select` does. The module follows `RFID.cpp` as it is
  written: it is in no build of the repository's current tables.
* `BatteryBuzzer`: a calibration value is the number of the `calibrate()` that computed
  it. The constructor leaves the flags of `compute_safety` uninitialised: both values. The
  judgement itself follows the code; no property of a passing run reads it.
* `Lifecycle`: each creation of block and semaphore is a generation; a process keeps
  the one it opened after the name is unlinked. One block stands for the four, one
  semaphore for all of them.
* `Logger`: `call` and `kept` are history variables that say what happened to a call
  between its first test of `fifo_up` and its write, and which messages are in the FIFO.
  JUNK is what `writen` sends when its counter wraps.
* `Converter`: a message of Dawn is three pieces, as `parse_msg` reads it. A datagram of
  device data fits the buffer of `udp_to_tcp` or does not (`fits`).
* `Inputs`: Dawn sends what its pad says, also that there is none or that it has a
  wrong number of axes; the network loses and reorders. `EndReaders` is the end of the
  child: the reader's semaphore stays taken, `rd_lost` says the same of the robot description.
* `LogData`: the refused writes return without `sem_post`, as the code does, and the child
  may end in a write (`EndWriters`).
* `GameState`: velocities in 1/25 of full speed so that scaling by 0.2 is exact. What
  `Filtered` makes of a velocity follows the code, but no property reads it.
* `Actions`: the statements of `run` interleave with those of other Python threads.

## Runs

| Run | Instance | Shows |
| --- | --- | --- |
| `shm_rows` | 1 slot, 2 devices, 2 parameters, 3 threads | every call atomic, for reads and writes of rows |
| `shm_subs` | 1 slot, 2 devices, 2 relays and both subscribers | one order of semaphores, a relay's slot is its own, no subscription change is unmarked, calls atomic, every call returns |
| `delivery` | 1 device, 2 parameters, both subscribers | settled commands and subscriptions reach the device |
| `delivery_steal` | 2 devices | a disagreement, see below |
| `data_path` | see the next table | a value keeps its place and meaning on every layer between device and Dawn |
| `handshake` | 1 port, timeout of 4 ticks, 2 faults | a device that stays plugged in stays connected, one that left is released, a missed start signal is recovered |
| `devices` | see the next table | motors ramp, rest and do not move on their own; cards are reported; calibrations survive a loss of power |
| `motors_stop` | as `devices` | a disagreement, see below |
| `run_mode` | 2 clients, Dawn's challenges, at most 2 children, 1 queued challenge | who commands the robot; no student code and no KoalaBear in motion in IDLE; a stop request stops; reconnection |
| `services` | see the next table | Runtime comes up again in one memory after crashes; logs are kept and logging ends; device data reach a distant Dawn |
| `cut_message` | the converter of `services` | a disagreement, see below |
| `student` | see the next table | no torn input, the settled input is seen; one thread per action; the log table is copied whole and data keep flowing; a debuff takes effect |

Four runs explore several modules, one after the other:

| Run | Module | Instance | Properties |
| --- | --- | --- | --- |
| `data_path` | `Relay` | 2 ports, 1 slot | `OneRelay`, `WorksOnOwnSlot` |
| | `Wire` | 4-bit bytes, payloads of no or one byte, 3 messages, 4 lost bytes | `LossIsLocal`, `FramesAreCobs` |
| | `Payload` | all device types; bitmaps of up to 3 parameters, and all but up to 3 | `ParametersLand` |
| | `Readn` | counters modulo 16, 3 failures | `MovesExactly` |
| | `Telemetry` | 2 slots, 3 devices, one of unknown type | `DatagramIsTrue` |
| `devices` | `Actuators` | 1 motor, 3 velocities, 2 deadbands, timeout of 2 ticks | `RampsSlowly`, `NoMotionFromThePast`, `ComesToRest` |
| | `Rfid` | 2 bytes of 3 bits, 10 cards, 2 at a time, 2 moves, 1 disturbance | `ReportsPresentCard`, `CardsAreReported` |
| | `Servo` | 2 servos, widths 2, 3 and 4, refresh interval 12, counter modulo 20 | `PulsesInTime` |
| | `BatteryBuzzer` | 2 calibrations, 5 readings of the cells | `OneCalibration` |
| `services` | `Lifecycle` | 3 failures | `OneMemory`, `Recovers` |
| | `Logger` | 2 threads of one process, a FIFO of one message, 2 visits of Dawn | `LogsAreKept`, `LogCallsEnd` |
| | `Converter` | 3 sessions, 2 datagrams in each socket | `DataReachDawn` |
| `student` | `Inputs` | 2 pad states, 1 reader, 2 datagrams in flight | `WholeInput`, `SettledInputIsSeen` |
| | `Actions` | 2 actions, a limit of 2 threads, 4 threads created | `OneThreadPerAction` |
| | `LogData` | 2 writers, 3 keys for 2 places, an over-long key, 2 values | `CopyIsTable`, `DataKeepsFlowing` |
| | `GameState` | duration of 2 ticks, velocities up to twice full speed | `DebuffTakesEffect` |

Three runs end in a counterexample, each to what a comment of the code says:

* `delivery_steal`: with two devices, `get_sub_requests` called by the sender of one
  clears the flags of all, and the other's request is never sent. The comment at
  `dev_handler.c:435` says "If bit i in sub_map[0] != 0, there is a new
  SUBSCRIPTION_REQUEST to be sent to device i".
* `cut_message`: when a connection ends between the length and the payload of a
  message, `parse_msg` returns its value for success, with a buffer it has not filled,
  and the converter forwards it. `net_util.h:75` says "-1: Error/EOF encountered when
  reading from fd".
* `motors_stop`: `KoalaBear::device_reset` sets velocities, not pins, and
  `device_actions` is not called while the device is disabled, so that the motors keep
  the duty cycle they had. `KoalaBear.h:28` says "stops motors". A PolarBear has the same
  gap: nothing calls its `device_disable` ("Stops the motors", `PolarBear.h:25`).

### Bounds, and why they are enough

* One slot and two devices is where slots are refused, released and reused. Two
  parameters are needed for a torn row and for a command bit that outlives its
  device's bit. Writes are of one non-zero row: the difference from the zeroes of a
  new slot is what shows a torn or a misplaced copy. Both subscribers ask for
  the same proper subset, which shrinks the one's request and grows the other's.
* `Relay` has more ports than slots, so that a relay is also refused. The liveness of
  one relay does not need the second port, and `handshake` has one. Its timeout of four
  ticks is that of the code in units of `PING_FREQ`; two faults are one that breaks
  the connection and one that meets the recovery. `device_enable` takes no time, just
  the timeout, or more than that.
* Two children suffice to see a second child next to a live one; Dawn is the one
  that sends challenges in `run_mode`, while both clients change modes. The
  challenge queue of one datagram is the smallest that can be full. What this leaves
  out is two clients with challenges at the same time, and Shepherd asking for modes
  other than AUTO. Student code of the run writes to a KoalaBear only, since no property
  speaks of other devices; the proofs have both.
* Four bits hold every message id and the length of the longest frame. As in the code
  (135 bytes of packet, blocks of 254) a packet is shorter than a full block. Three
  messages and four lost bytes are enough for dev_handler to take a payload byte for a length and
  to read past a whole frame; the proofs lift both bounds.
* In `Payload`, the place of a value depends on the parameters before it; sets of up to
  three parameters and their complements contain every pair, and every gap between two.
* Two slots and three devices let a device leave, another take its slot and a third
  have an unknown type while one datagram is put together.
* Velocity 3 is above full speed, -2 is full speed backwards; deadbands are one below and
  one above the step of a tick. The cards differ in each bit of a level, on the first
  bit of a byte with both values before it, and two have a second level.
* The pulse widths of `Servo` are those of the positions -1, 0 and 1 in units of 500
  microseconds; refresh interval and counter are shortened, but the interval is still longer
  than all pulses and the counter than the interval, as `ServoConstants` asks.
* Three failures are a crash, one during the recovery from it, and one after. A FIFO of one
  message is full after one, and a second visit of Dawn meets what the first left.
* A table of two places is filled by three keys. Two datagrams in flight allow a
  reordering. Two ticks distinguish "at" from "after" the duration. Four threads
  allow an action to be started again after it ended.
* `MaxFailures` and `MODULUS` of `Readn` are lifted by the proofs.

Symmetry is used in `shm_rows`, which checks safety only: threads of relays and
devices are interchangeable there.

Deadlock is checked except where the system really can stop: in `run_mode` (a
thread blocked for ever, described below), `data_path` (a call that returned, a line
with nothing more to say), `services` (a handler that waits for its own mutex, bounds
used up) and `student` (a lost semaphore, a mode that is over).

### Fairness

* `ShmWrapper`, `LogData`, `Inputs`, `Logger`: a thread that can take its next step takes
  it (weak fairness), and a `sem_wait` or a mutex that is possible again and again succeeds
  (strong fairness), as futex-based locks under a preemptive scheduler do in practice. This
  is claimed of threads whose process lives: one that ended in a call never posts.
* `Handshake`: threads and the loop of the device run, and time passes. Time does not
  pass while a thread could run. When the timeout of the device and a new ping meet
  again and again, the timeout is not late every time (strong fairness): the loop of
  the device is far shorter than the poll interval of dev_handler.
* `Actuators`: `loop()` is called for ever and time passes. `Rfid`: exchanges with cards end,
  `PCD_CommunicateWithPICC` has a timeout.
* `Delivery`: the sender loops. `RunMode`: threads and processes run, pending signals
  arrive, an armed alarm rings; clients and student code promise nothing, and a blocked
  `writen`, or a `readn` for the rest of a message, need never return.
  `GameState`: time passes and the handler runs.
* `Inputs`: Dawn keeps sending, and a datagram that is sent again and again arrives.
* `Lifecycle`: systemd does what its units say, SIGKILL after the time to stop included. No
  process is assumed to end, or to post a semaphore, on its own.
* `Converter`: both processes run, and `forward` serves both sockets in turn (strong
  fairness for each side, which `select` may find ready together with the other).
  A blocked `writen` to Dawn need never return.

## Where the code waits for ever, or loses something

Some properties name an exception, which is reachable in the code:

* `StoppedWhenIdle`, `StopStops`: `reset_params` writes zero to the velocities of KoalaBears
  and to nothing else (`executor.c:72`). PolarBears keep their duty cycle and servos their
  position when the robot goes to IDLE; the properties speak of KoalaBears only.
* A child that is killed, or ends, inside a call of the wrapper leaves the semaphore taken,
  and who needs it waits for ever:
  `reset_params` in `kill_subprocess` for `command_sem` or `cmd_map_sem` and the main loop of
  executor for `rd_sem` (`StopStops`; the comment at `executor.c:477` says of
  `kill_subprocess` that it "Will make the robot go into IDLE mode"), the clean-up of a TCP
  thread for `rd_sem` (`JoinReturns`), `update_inputs` for `rd_sem` or `input_sem`
  (`SettledInputIsSeen`), the `gamestate_handler` of the next child for `rd_sem`
  (`DebuffTakesEffect`), `log_data_read` for `log_data_sem` (`DataKeepsFlowing`). `rd_sem` is
  the likeliest: `gamestate_handler` takes it several times in every poll. `ShmWrapper`,
  whose `CallsReturn` is about the order of semaphores, has no process that ends in a call.
* `JoinReturns`: a TCP thread that waits in `parse_msg` for the rest of a message its client
  began, in `writen` to a client that does not read, or in `sendto` to the full challenge
  socket has cancellation disabled; the accept
  loop joins it and serves nobody meanwhile (`tcp_conn.h:18` says "May block briefly").
* `StaysConnected`: a message that lost its end keeps the receiver in `readn` with
  cancellation disabled, and the relayer waits for it until the device is pulled out.
  A device whose `device_enable` takes as long as TIMEOUT is never connected for long, and
  threads that miss their start signal each time never start.
* `DataKeepsFlowing`: `log_data_write` returns -1 or -2 without posting the semaphore;
  after that nobody gets it.
* `CommandsArriveOrWait`: a command written between the sender's `get_cmd_map` and
  `device_read` loses the bit of its device and waits for the next command.
* `LossIsLocal`: dev_handler reads as many bytes as a broken message told it, delimiters
  among them. A byte of the payload that is taken for the length may so cost whole messages
  behind the broken one, 23 of the shortest at most (`Reach`); the firmware, which stops at a
  zero, loses one. The statement that one message is the limit on both sides holds
  while a length cannot reach past a frame, and fails in the instance checked now.
  The firmware gives a message up when it has read its delimiter and the
  length is not there yet, also when nothing was lost. A ping is repeated, a command is not.
* `ParametersLand`: `ServoControl::device_write` returns 0 for a position out of range, and
  the next servo of the same message is given the refused bytes again.
* `DatagramIsTrue`: of a device that left while a datagram was put together, the datagram may
  hold what another device reported, or what was on the stack.
* `ComesToRest`, `NoMotionFromThePast`: with a deadband of at most one step of acceleration
  a motor that should stop swings around 0 for ever, also after a reset.
* `CardsAreReported`: two cards that collide on the first bit of a byte, when the first bit of
  the byte before is 0, are never told apart: `PICC_Select` sets the bit in the byte before.
* `OneCalibration`: `write_triple_eeprom` writes a tag before its value; after a loss of power
  in between, a value no calibration computed is used.
* `Recovers`: a `shm_stop` that is killed before it has unlinked the semaphores leaves them
  as a crashed process left them, and `shm_start` takes them over. The converter is not
  started again after a crash: `shm_stop.service` does not name it.
* `LogCallsEnd`: a SIGINT handler logs; in a thread that holds `log_mutex` it waits for
  itself, and systemd's SIGKILL ends the process.
* `LogsAreKept`: a SIGPIPE of a client's socket between the two tests of `fifo_up` loses a
  message. The FIFO is opened again at the next one and the old descriptor stays open.
  The other exceptions are those one expects: nobody has the read end open at the first
  test or any more at the write, or the FIFO is full. A message of a SIGINT handler is none.
* `DataReachDawn`: device data that fill the buffer of `udp_to_tcp` are given up, each
  datagram anew (`udp_tcp_converter.c:115`): a robot whose data are that long shows nothing to a Dawn
  behind the converter, and the property presumes that the data come to fit.
  The converter waits for the rest of a message, or for Dawn to read, and forwards nothing
  meanwhile. The property also presumes that `net_handler` got the one datagram with which the
  converter makes itself known; `ExecPre=` in `converter.service` is not a directive of
  systemd, so that nothing delays it until `net_handler` listens.
* `OneThreadPerAction`: two Python threads in `Robot.run` for one action may both start it.
* `AllOrNothing` (proved, see below): the result of a failed `read` or `write` is stored in
  an unsigned variable and never reported as -1, which `runtime_util.h:258` and `:270` promise.
* `WorksOnOwnSlot` does not say that a working thread has a slot: after a spurious
  return of `pthread_cond_wait` it has none.

Met while reading, in the models or outside them, and no property:

* `compute_safety` declares a battery that hovers between the two thresholds safe (the
  comment at `BatteryBuzzer.cpp:384` says "continuing to be unsafe if hovering close").
* The challenge child writes RUN_MODE IDLE over a mode asked for meanwhile (`executor.c:518`);
  student code that ends leaves RUN_MODE as it was (`executor.c:524`), so that asking for the
  same mode again does nothing; Dawn's thread checks for Shepherd and writes the mode in
  two steps (`tcp_conn.c:202`).
* A servo that is detached during its pulse keeps its pin HIGH until it is attached again
  (`Servo.cpp:57`), and one that is attached again may get one pulse of its old
  position before `writeMicroseconds` (`ServoControl.cpp:36`).
* The start of a debuff is forgotten with the mode, and a debuff set again while it is being
  cleared is lost (`gamestate_filter.c:45`, `:49`).
* The loop over custom data in `send_device_data` goes one entry too far (`udp_conn.c:137`):
  with 255 keys it reads behind the arrays, and one parameter per datagram is never freed.

## Proofs

Assumptions: only those on the constants, named `...Constants` in the module that declares
them. They say that the constants have the right types, that there is at least one
slot, that a counter has at least two values and that threads differ from "nobody".
Five say more: `LoggerConstants` that every thread belongs to a process, `RfidConstants`
that a UID has one to three levels of bits, `ServoConstants` that the longest
pulses of all servos fit into a refresh interval, and that into the timer, `WireConstants`
that a frame is shorter than a full block, as the sizes of `message.h` make it, and that the
receiver's buffer holds one, and `PayloadConstants` that the firmware's int has 16 bits or
more and a bitmap 32.

### The device block

`ShmWrapperProofs`, for any number of slots, devices, parameters, threads and any
workload:

* `PositionInvariant`: the inductive invariant `IInv`, which is `ShmTypeOK` and
  `SemsMatchPosition`. Neither is inductive alone: that an index is in range when a
  body uses it follows from where the thread stands (`ControlOK`), and that a thread
  holds exactly the semaphores of its position needs the types. `Holds(t, s)` gives, for each
  position of each call, the semaphores taken so far; the proof goes through the
  steps one by one, with one lemma for the start of a call, one for `my_sem_wait`
  and one for "post all and return".
* `TypesHold`, `SemsHold`: its two conjuncts. No return path keeps a semaphore and no
  post releases one that somebody else holds.
* `LocksAreOrdered`: `LockOrder` follows from the invariant by inspecting each
  position at a `sem_wait`. It excludes a cycle of waiting threads in an instance of any size.
* `SlotsAreOwned`: `RelayOwnsSlot`, by a second induction on top of `IInv`. `SlotOK` adds what
  a relay's position says of its slot: none before the search, one outside the catalog
  until the body of `device_connect`, one with its uid afterwards. `CatalogExcludes`,
  that two relays are never both past `catalog_sem`, is what makes the slot found stay free.
* `SubscriptionsAreMarked`: `SubChangeIsMarked`, inductive together with `IInv`. Only
  four bodies touch the words, the maps or the catalog, and each has a step.

`ShmRefinementProofs`, on top of it:

* `CallsTakeEffectAtOnce`: `ShmWrapper` implements `ShmAtomic` (`CallsAreAtomic`). A
  third induction, `RowsInvariant`, says what the copy loops have moved so far: a
  reader's copy agrees with the row up to its index, a writer's row has the new values up to it
  and the values it found beyond it. It holds because whoever copies a row holds its semaphore
  (`HelperHoldsRow`) and so copies alone (`RowExcludes`, `WholeExcludes`). On top of it, step
  by step: initial states map to initial states (`InitSimulates`); the start of a call
  is invisible (`InvokeSimulates`); a `sem_wait` is (`WaitSimulates`), although a writer
  that gets the semaphore hides its row from then on; each body is the atomic call
  (`ConnectSimulates`, `ReadSimulates`, `WriteSimulates`, and `StepSimulates` for the others).
  That `AtomicParams` chooses among at most one writer is `AtomicRow`.

### Between device and Dawn

`DataPathProofs`, which also has the payloads of the next section:

* `PortHasOneRelay` (`OneRelay`) and `SlotIsOwn` (`WorksOnOwnSlot`), for any number of ports and
  slots, from `RelayInv`. The main thread writes the bitmap of ports back without the lock,
  so the invariant `PortsInv` speaks of the stale copy too: a busy port is marked in it,
  except the one that failed to open. `ThreadsInv` says that from the joins on both workers
  are gone, `SlotsInv` that a slot is held only between connect and disconnect.
* `DatagramsAreTrue` (`DatagramIsTrue`), for any number of devices and slots, from
  `TelemetryInv`. `StaysAt` is the heart of it: a device that stays is under the index it had
  when the catalog was copied, and no other index copied then carries its
  identifier, in shared memory until the identifiers are copied and in the copy
  afterwards. So its entry is made exactly once, when its index comes up, and `LookupInv` says that
  the look-up before it found its own row, as long as it stays.

### On the serial line

Three results are about what loops over data compute. The library's induction theorems
take a predicate as a parameter, which the provers cannot instantiate; `CodecProofs`
begins with first-order substitutes. `Turnwise` is induction over the turns of a loop, stated of
the set of turns where something fails: a set of turns without a first one is
empty, since a set of numbers has a least one (`Least`, from the library's theorem that < is
well-founded). `LoopValues` says that a loop has values: for a start and what each turn makes of
the last value there is a function that holds them all, which is what
lets a recursive function of a model be unfolded. Per loop there is a lemma that unfolds it
(`EncodingTurns`, `DecodingTurns`, `LaidTurns`, `ParsingTurns`, `WritingTurns`), one that takes a
turn (`EncodeStep`, `DecodeStep`, `LaidTurn`, `ReadStep`), and one that says where the loop ends
(`Encoded`, `Decoded`, `LaidFront`, `ReadAll`).

`CodecProofs`, for all messages: `EncodedTo` says what stands after i bytes: the finished blocks are right
at every place (`IsCode`: a byte that is not zero keeps its value, the others say how
far the next zero is), and the open block holds the bytes since the last zero. `DecodedTo` says
that the decoder of either side has given back the bytes so far and has to copy up to
the next zero. `FramesOK` puts them together: a frame is COBS, has one zero, and is decoded to its
packet; `ParsedBody`: each side's parser makes exactly the message of it. All this
rests on the packet being shorter than a full block, where the two decoders differ.

`WireProofs`, for any number of messages and losses anywhere:

* `FramesAreCobsTheorem` (`FramesAreCobs`), from `FramesOK`.
* `LossIsLocalTheorem` (`LossIsLocal`) from `LineInv`, which needs of a frame only what
  `Frames` says. It speaks of the stream of bytes, arrived or not. `SLine`: bytes are in the order of their
  messages, a delimiter is the first of its message, a message that lost nothing
  is whole as long as its delimiter is there, and that is there as long as anything of an earlier
  one is. `RxLine`: a receiver that saw the delimiter of an undamaged message is in step
  with it (`InStep`), and every undamaged message is delivered, being read, still in
  the stream, or excused. The two ways to excuse one are `NextIsExcused`, when a
  delimiter ends a broken message, and `SwallowedIsExcused`, which counts the bytes of the
  frames between the broken message and the one that is lost.

`DataPathProofs`, for all devices, bitmaps and values:

* `ParametersLandTheorem` (`ParametersLand`) from `PayloadInv`, which says what the payload in
  flight is. `Tables` is the comparison by cases of `runtime_util.c` with each device's `device_read`
  and `device_write`: they agree on the size of every parameter the one side sends and the
  other expects. `LaidValue` says where a value is, `ReadStep` that a
  reader with the same sizes stands there when it comes to it, until the first value
  that a servo refuses: from then on each turn finds the refused value again.

### From the clients to the motors

`ControlProofs`, for any workload of the two clients and any length of the queues:

* `NobodyCommands` (`IdleWithoutClients`) and `IdleIsStill` (`StoppedWhenIdle`) from
  `RunModeInv`; the second is about KoalaBears, the devices `reset_params` resets.
  `IdleWithoutClients` is inductive with the types. `StoppedWhenIdle` is not: it needs
  `ExecutorInv` (what `mode` and `pid` are at each place of the main loop), `KidsInv`
  (there is no child but the one executor knows, and it runs executor's mode) and `MotorsInv`.
* `ExactWithoutFailures` (`MovesExactly`) and `NothingElseIsReturned` (`AllOrNothing`), for every
  width of the counters and any number of failures, from `ReadnInvariant`. The lemma
  `Wrap` says when the modular subtraction is the plain one.

For all commands, deadbands, outputs of the controller and numbers of servos:

* `KoalaRampsSlowly` (`RampsSlowly`) and `KoalaForgetsThePast` (`NoMotionFromThePast`), two
  action properties, from `KoalaInv`: a KoalaBear that is online is enabled and its last loop
  is at most a tick ago, and a motor of which nothing was asked since the reset has velocity 0
  and is at rest or one step from it. `KoalaLoops` says in which ways a loop may end, whatever
  message it finds.
* `PulsesComeInTime` (`PulsesInTime`) from `ServoInv`. `RoundInv` says where in a round the
  compare value is, `TrainInv` relates the age of each attached servo's last pulse
  to the timer: in its own pulse, later in the round, and in the next round. The
  arithmetic of the counter, which wraps, is in `Counts`, that of the pulses in `Turns`.

### Student code

`StudentProofs`, for any number of threads, keys, values and actions:

* `NoTornInput` (`WholeInput`): whoever stands between the two halves of
  a read or a write holds the semaphore, and a child that ends leaves it taken.
* `ActionRunsOnce` (`OneThreadPerAction`): of an action nobody raced for, at
  most one caller is inside `Robot.run`, and until it registers its thread no
  thread of the action lives (`ActionInv`); a thread to be started has one starter (`StartsInv`).
* `CopiesAreWhole` (`CopyIsTable`): a writer that searches has compared its
  key with every entry before its index (`Searching`), and the copy agrees with the table
  (`Copying`), both under the semaphore. A refused write, or a child that ends in one,
  leaves the semaphore taken, which blocks everybody and keeps the invariant.

### What survives

`RecoveryProofs`, for any number of crashes, processes and threads:

* `MemoryIsShared` (`OneMemory`) from `LifecycleInv`: nothing runs while the names
  change (`NamesInv`), because the state of a unit says which of its processes may
  be alive (`UnitsInv`), the child of executor included.
* `MessagesAreKept` (`LogsAreKept`) from `LoggerInv`: a call nothing happened to has a reader
  up to its write and an open FIFO from `open_fifo` on (`Relies`). A step of another
  thread, of a signal or of Dawn that takes one of these away is entered in `call` for
  exactly the calls between their first test of `fifo_up` and the write.

For any set of cards and any number of calibrations:

* `ReportedCardIsPresent` (`ReportsPresentCard`) from `RfidInv`: at each cascade level, what the
  reader has collected is what every card still selected would have sent so far (`SelectInv`), and
  a report is at most one loop older than the field (`ReportInv`).
* `CalibrationIsOne` (`OneCalibration`) from `BuzzerInv`: an EEPROM that is not `Whole` is one
  whose write was cut off or is still going on, and clearing begins with the tag from which
  on the rest does not count.

### Only model-checked

* All liveness: fairness and ENABLED are outside the prover's reach.
  These are the properties of the runs that no theorem states; every invariant and
  every action property of a passing run is proved.

## Not modelled

* Motor encoders, LEDs, the display of the battery buzzer and the vendored libraries
  for displays, SPI and EEPROM: registers and pins, no protocol. Of MFRC522, every
  function the RFID device does not call; of the servo library, the boards with other
  timers or processors.
* The single calibration mode of the battery buzzer, which no build selects.
* The PID controller's floating point arithmetic: `PidOutputs` stands for what it returns.
* `shm_start` killed half way, the boot-time conflict of `shm_stop` with `shm_start`, ngrok and
  update units, shell scripts. Failing `malloc`: the programs exit.
* `make_device_subs` and `get_all_params` of executor and student API, which inspect the
  text of student code. Python itself: what student code computes is "may write,
  may end, may never end".
* The configuration file, stdout and log file of the logger; the queue of log lines of
  the firmware's messenger beyond that it shares the line.
* Virtual devices and virtual ports: the same code with other tables and another bitmap.
* The test framework and its clients, which are read as evidence of what Runtime promises.

## Plan

1. Both directions of `Wire` composed with `Payload` and `Delivery`, so that a command is
   followed from `device_write_uid` to the pin.
2. Shutdown of `dev_handler` and `net_handler` thread by thread, beyond `Lifecycle`.
