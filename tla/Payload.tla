------------------------------- MODULE Payload -------------------------------
(***************************************************************************)
(* The payloads of DEVICE_WRITE and DEVICE_DATA: dev_handler (message.c)   *)
(* lays parameters out by the tables of runtime_util.c, the firmware       *)
(* (Device.cpp) by what the device_read and device_write of each device    *)
(* return.  Neither side writes a parameter's number: a value is found by  *)
(* adding up the sizes of those before it, so one size on which the two    *)
(* disagree gives every later parameter the bytes of another.              *)
(*                                                                         *)
(* A byte of a payload is <<i, k>>, the k-th byte of the value of          *)
(* parameter i.  Values are abstracted to whether ServoControl accepts     *)
(* them.  An int of the AVR has 16 bits, which 1 << param_num depends on.  *)
(***************************************************************************)
EXTENDS Integers, Sequences, Functions

CONSTANTS
  INT_BITS,            \* bits of the firmware's int
  Bitmaps(_)           \* the bitmaps asked for, by number of parameters

VARIABLES
  dev,      \* the type of the device
  message,  \* DEVICE_WRITE, to the device, or DEVICE_DATA, from it
  pmap,     \* the bitmap, a set of parameters
  refused,  \* the servo values outside of [-1, 1]
  step,     \* "asked", "sent", "done"
  payload,  \* the bytes after the bitmap
  stored       \* what the receiver stored: the parameter each value came from

pvars == <<dev, message, pmap, refused, step, payload, stored>>

-----------------------------------------------------------------------------
(* runtime_util.c: the type of each parameter and whether it is read or    *)
(* written, parameters numbered from 0.                                    *)

INT == 4     \* a type is its size in bytes here
FLOAT == 4
BOOL == 1

rw(type) == [type |-> type, read |-> TRUE, write |-> TRUE]
ro(type) == [type |-> type, read |-> TRUE, write |-> FALSE]
wo(type) == [type |-> type, read |-> FALSE, write |-> TRUE]

DummyDevice ==
  <<ro(INT), ro(FLOAT), ro(BOOL), ro(INT), ro(FLOAT), ro(BOOL),
    wo(INT), wo(FLOAT), wo(BOOL), wo(INT), wo(FLOAT), wo(BOOL),
    rw(INT), rw(FLOAT), rw(BOOL), rw(INT)>>

KoalaBear ==
  LET motor == <<rw(FLOAT), rw(FLOAT), rw(BOOL), rw(BOOL),
                 rw(FLOAT), rw(FLOAT), rw(FLOAT), rw(INT)>>
  IN  motor \o motor

LimitSwitch == <<ro(BOOL), ro(BOOL), ro(BOOL)>>
LineFollower == <<ro(FLOAT), ro(FLOAT), ro(FLOAT)>>
BatteryBuzzer == <<ro(BOOL), ro(BOOL)>> \o [i \in 1 .. 6 |-> ro(FLOAT)]
ServoControl == <<rw(FLOAT), rw(FLOAT)>>
PolarBear == <<rw(FLOAT), ro(FLOAT), rw(FLOAT)>>

DEVICES ==
  [DummyDevice   |-> DummyDevice,
   LimitSwitch   |-> LimitSwitch,
   LineFollower  |-> LineFollower,
   BatteryBuzzer |-> BatteryBuzzer,
   ServoControl  |-> ServoControl,
   PolarBear     |-> PolarBear,
   KoalaBear     |-> KoalaBear]

Exists(i) == i < Len(DEVICES[dev])
params(i) == DEVICES[dev][i + 1]

\* Bits of a bitmap, one for each parameter a device could have.
MAX_PARAMS == 32

\* No device has a parameter that the firmware's int has no bit for.
ASSUME PayloadConstants ==
  /\ INT_BITS \in Nat /\ 16 <= INT_BITS
  /\ \A d \in DOMAIN DEVICES : Bitmaps(Len(DEVICES[d])) \subseteq SUBSET (0 .. MAX_PARAMS - 1)

-----------------------------------------------------------------------------
(* The firmware: the bytes device_read puts into a payload and device_write *)
(* takes out of it, 0 where it refuses.                                     *)

DummyBytes == <<4, 4, 1, 4, 4, 1, 4, 4, 1, 4, 4, 1, 4, 4, 1, 4>>
DummyRead(i) == IF i \in 6 .. 11 THEN 0 ELSE DummyBytes[i + 1]
DummyWrite(i) == IF i < 6 THEN 0 ELSE DummyBytes[i + 1]

LimitRead(i) == 1
LineRead(i) == 4
BuzzerRead(i) == IF i < 2 THEN 1 ELSE 4

\* The value found is that of parameter v: a servo looks at it.
ServoRead(i) == 4
ServoWrite(v) == IF v \in refused THEN 0 ELSE 4

PolarRead(i) == 4
PolarWrite(i) == IF i = 1 THEN 0 ELSE 4

KoalaRead(i) == IF i % 8 \in {2, 3} THEN 1 ELSE 4
KoalaWrite(i) == IF i \in {2, 3, 10, 11} THEN 1 ELSE 4

device_read(i) ==
  CASE dev = "DummyDevice"   -> DummyRead(i)
    [] dev = "LimitSwitch"   -> LimitRead(i)
    [] dev = "LineFollower"  -> LineRead(i)
    [] dev = "BatteryBuzzer" -> BuzzerRead(i)
    [] dev = "ServoControl"  -> ServoRead(i)
    [] dev = "PolarBear"     -> PolarRead(i)
    [] dev = "KoalaBear"     -> KoalaRead(i)

\* Device::device_write refuses, where a device has none of its own.
device_write(i, v) ==
  CASE dev = "DummyDevice"  -> DummyWrite(i)
    [] dev = "ServoControl" -> ServoWrite(v)
    [] dev = "PolarBear"    -> PolarWrite(i)
    [] dev = "KoalaBear"    -> KoalaWrite(i)
    [] OTHER                -> 0

\* bitmap & (1 << i) in 16 bit ints: the highest bit is the sign and stands
\* for all bits above it too, and a shift beyond it gives 0.
On(bitmap, i) ==
  CASE i < INT_BITS - 1 -> i \in bitmap
    [] i = INT_BITS - 1 -> \E j \in bitmap : j >= i
    [] OTHER            -> FALSE

OnDevice(bitmap) == {i \in 0 .. INT_BITS - 1 : On(bitmap, i)}

-----------------------------------------------------------------------------

PInit ==
  /\ dev \in DOMAIN DEVICES /\ message \in {"DEVICE_WRITE", "DEVICE_DATA"}
  /\ pmap \in Bitmaps(Len(DEVICES[dev]))
  /\ refused \in IF dev = "ServoControl" /\ message = "DEVICE_WRITE" THEN SUBSET {0, 1} ELSE {{}}
  /\ step = "asked" /\ payload = <<>> /\ stored = <<>>

Value(i, size) == [k \in 1 .. size |-> <<i, k>>]

\* for (i = 0; (bitmap >> i) > 0; i++), with a test of bit i in each turn: what is
\* there after i turns; those past the highest bit do nothing.
Laid(bits, size) ==
  LET bytes[i \in 0 .. MAX_PARAMS] ==
        IF i = 0 THEN <<>>
        ELSE IF i - 1 \in bits THEN bytes[i - 1] \o Value(i - 1, size[i - 1])
        ELSE bytes[i - 1]
  IN  bytes

\* append_payload for each parameter of the bitmap, of the size of its type.
Appended(bitmap) == Laid(bitmap, [i \in bitmap |-> params(i).type])[MAX_PARAMS]

\* Fault: parameters the device does not let be written are sent too.
make_device_write_All ==
  /\ step = "asked" /\ message = "DEVICE_WRITE"
  /\ pmap' = {i \in pmap : Exists(i)}
  /\ payload' = Appended(pmap')
  /\ step' = "sent" /\ UNCHANGED <<dev, message, refused, stored>>

make_device_write ==
  /\ step = "asked" /\ message = "DEVICE_WRITE"
  /\ pmap' = {i \in pmap : Exists(i) /\ params(i).write}
  /\ payload' = Appended(pmap')
  /\ step' = "sent" /\ UNCHANGED <<dev, message, refused, stored>>

\* make_subscription_request cuts the bitmap down before the device gets it;
\* Device::device_read_params builds the data.
device_read_params ==
  /\ step = "asked" /\ message = "DEVICE_DATA"
  /\ pmap' = {i \in pmap : Exists(i) /\ params(i).read}
  /\ LET bits == OnDevice(pmap')
     IN  payload' = Laid(bits, [i \in bits |-> device_read(i)])[MAX_PARAMS]
  /\ step' = "sent" /\ UNCHANGED <<dev, message, refused, stored>>

\* What a reader of n bytes at offset ptr takes them for: the parameter whose
\* value they are, or -1 for a mixture, or for bytes beyond the payload.
Taken(ptr, n) ==
  IF ptr + n <= Len(payload) /\ SubSeq(payload, ptr + 1, ptr + n) = Value(payload[ptr + 1][1], n)
  THEN payload[ptr + 1][1] ELSE -1

\* Reading on from r.ptr: parameter i is given what is there.
Store(r, i, v, size) == [ptr |-> r.ptr + size, taken |-> IF size = 0 THEN r.taken ELSE Append(r.taken, <<i, v>>)]

Start == [ptr |-> 0, taken |-> <<>>]

ParseValue(r, i) == Store(r, i, Taken(r.ptr, params(i).type), params(i).type)

\* The same loop on the side that reads.
Parsing ==
  LET r[i \in 0 .. MAX_PARAMS] ==
        IF i = 0 THEN Start
        ELSE IF i - 1 \in pmap THEN ParseValue(r[i - 1], i - 1)
        ELSE r[i - 1]
  IN  r

parse_device_data ==
  /\ step = "sent" /\ message = "DEVICE_DATA"
  /\ stored' = Parsing[MAX_PARAMS].taken
  /\ step' = "done" /\ UNCHANGED <<dev, message, pmap, refused, payload>>

\* device_write looks at as many bytes as the value it expects has, also when it
\* refuses it.
WriteValue(r, i) ==
  LET v == Taken(r.ptr, params(i).type) IN Store(r, i, v, device_write(i, v))

Writing ==
  LET r[i \in 0 .. MAX_PARAMS] ==
        IF i = 0 THEN Start
        ELSE IF i - 1 \in OnDevice(pmap) THEN WriteValue(r[i - 1], i - 1)
        ELSE r[i - 1]
  IN  r

device_write_params ==
  /\ step = "sent" /\ message = "DEVICE_WRITE"
  /\ stored' = Writing[MAX_PARAMS].taken
  /\ step' = "done" /\ UNCHANGED <<dev, message, pmap, refused, payload>>

PNext == make_device_write \/ device_read_params \/ parse_device_data \/ device_write_params

PSpec == PInit /\ [][PNext]_pvars

-----------------------------------------------------------------------------

\* A servo is not given its value when a servo before it refused its own: the
\* refusal returns 0 bytes and the next servo looks at the refused value again.
Hidden == {i \in refused : \E j \in pmap : j > i /\ i \in pmap}

\* Every parameter of the bitmap that exists, and no other, gets its own value,
\* except the refused servo values and those behind one: the payload dev_handler
\* lays out by its tables is taken apart the same way by each device, and back.
ParametersLand ==
  step = "done" =>
    Range(stored) = {<<i, i>> : i \in pmap \ (refused \cup {j \in pmap : \E i \in Hidden : i < j})}
=============================================================================
