--------------------------------- MODULE Wire ---------------------------------
(***************************************************************************)
(* The serial line between dev_handler and a lowcar device: how a message  *)
(* becomes bytes (message.c, Messenger.cpp), and how each side finds       *)
(* messages in what arrives when bytes are late or lost: receive_message   *)
(* of dev_handler, from a device it has verified, and                      *)
(* Messenger::read_message of the firmware.                                *)
(*                                                                         *)
(* A frame is a zero, the length of the rest, and the COBS encoding of     *)
(* message id, payload length, payload and checksum.  Both sides encode    *)
(* alike.  A byte carries the number of the message it was sent for, which *)
(* no decision depends on.                                                 *)
(***************************************************************************)
EXTENDS Integers, Sequences, FiniteSetsExt

CONSTANTS
  BYTE_MAX,          \* 0xFF, the largest byte and the length of a full COBS block
  MAX_PAYLOAD_SIZE,
  xor(_, _),         \* of two bytes
  BUFFER,            \* bytes the receiving side's driver holds
  Messages,          \* what is sent
  MaxSent,           \* bound on the number of messages sent
  MaxLost            \* bound on the number of bytes lost

Bytes == 0 .. BYTE_MAX

ASSUME WireConstants ==
  /\ {BYTE_MAX, MAX_PAYLOAD_SIZE, BUFFER, MaxSent, MaxLost} \subseteq Nat
  /\ MAX_PAYLOAD_SIZE + 5 <= BYTE_MAX /\ BYTE_MAX <= BUFFER
  /\ \A a, b \in Bytes : xor(a, b) \in Bytes
  /\ \A m \in Messages :
       /\ m = [id |-> m.id, payload |-> m.payload]
       /\ m.id \in Bytes /\ m.payload \in Seq(Bytes)
       /\ Len(m.payload) <= MAX_PAYLOAD_SIZE

VARIABLES
  dir,     \* "up": to dev_handler, "down": to the device
  sent,    \* history: the messages sent
  wire,    \* bytes on their way
  serial,  \* bytes that arrived and were not read
  rx,      \* the receiver: where it stands, the length it read, whose delimiter it saw
  got,     \* history: the messages delivered as they were sent
  raced,   \* history: the messages given up because their length was not there yet
  hit      \* history: the message of each lost byte

xvars == <<dir, sent, wire, serial, rx, got, raced, hit>>

-----------------------------------------------------------------------------
(* Messages and bytes.                                                     *)

\* What the first i bytes come to, for every i; the same form below.
Sums(data) ==
  LET chk[i \in 0 .. Len(data)] == IF i = 0 THEN 0 ELSE xor(chk[i - 1], data[i])
  IN  chk

checksum(data) == Sums(data)[Len(data)]

\* Fault: the length of a block does not count itself.
finish_block_Short(e) ==
  [done |-> e.done \o <<Len(e.block)>> \o e.block, block |-> <<>>]

\* finish_block(): the length of the block goes in front of it.
finish_block(e) ==
  [done |-> e.done \o <<Len(e.block) + 1>> \o e.block, block |-> <<>>]

EncodeByte(e, b) ==
  LET copied == [done |-> e.done, block |-> Append(e.block, b)]
  IN  IF b = 0 THEN finish_block(e)
      ELSE IF Len(copied.block) + 1 = BYTE_MAX THEN finish_block(copied) ELSE copied

Encoding(src) ==
  LET e[i \in 0 .. Len(src)] ==
        IF i = 0 THEN [done |-> <<>>, block |-> <<>>] ELSE EncodeByte(e[i - 1], src[i])
  IN  e

cobs_encode(src) == finish_block(Encoding(src)[Len(src)]).done

\* left: what the current block has still to copy.  A block that another one
\* follows ends in a zero; the firmware makes an exception for a full block.
DecodeByte(d, b) ==
  IF d.left > 0
  THEN [out |-> Append(d.out, b), code |-> d.code, left |-> d.left - 1]
  ELSE [out |-> IF d.code = -1 \/ (dir = "down" /\ d.code = BYTE_MAX)
                THEN d.out ELSE Append(d.out, 0),
        code |-> b,
        left |-> IF b = 0 THEN 0 ELSE b - 1]

Decoding(src) ==
  LET d[i \in 0 .. Len(src)] ==
        IF i = 0 THEN [out |-> <<>>, code |-> -1, left |-> 0] ELSE DecodeByte(d[i - 1], src[i])
  IN  d

\* "Bad packet" is left # 0 at the end.
cobs_decode(src) == Decoding(src)[Len(src)]

Packet(m) == <<m.id, Len(m.payload)>> \o m.payload

message_to_bytes(m) ==
  LET encoded == cobs_encode(Packet(m) \o <<checksum(Packet(m))>>)
  IN  <<0, Len(encoded)>> \o encoded

\* No message, and a message of undefined content.
Broken == [id |-> -1, payload |-> <<>>]
Garbage == [id |-> -2, payload |-> <<>>]

\* What may be made of decoded bytes.  The payload length in them is not
\* compared with their number: behind the last one memory is undefined.
Fields(out) ==
  IF Len(out) < 2 \/ Len(out) < 3 + out[2] THEN {Broken, Garbage}
  ELSE LET n == 2 + out[2]
       IN  {IF checksum(SubSeq(out, 1, n)) = out[n + 1]
            THEN [id |-> out[1], payload |-> SubSeq(out, 3, n)] ELSE Broken}

parse_message(data) ==
  LET d == cobs_decode(data)
  IN  IF d.left # 0 \/ Len(d.out) \notin 3 .. 3 + MAX_PAYLOAD_SIZE
      THEN {Broken} ELSE Fields(d.out)

\* Messenger::read_message ignores what cobs_decode returns.
Parsed(data) == IF dir = "up" THEN parse_message(data) ELSE Fields(cobs_decode(data).out)

-----------------------------------------------------------------------------
(* The line.                                                               *)

Seek == [at |-> "seek", len |-> 0, of |-> 0]

XInit ==
  /\ dir \in {"up", "down"}
  /\ sent = <<>> /\ wire = <<>> /\ serial = <<>>
  /\ rx = Seek
  /\ got = {} /\ raced = {} /\ hit = <<>>

send_message(m) ==
  /\ wire = <<>> /\ Len(sent) < MaxSent
  /\ sent' = Append(sent, m)
  /\ LET frame == message_to_bytes(m)
     IN  wire' = [i \in 1 .. Len(frame) |-> [b |-> frame[i], of |-> Len(sent')]]
  /\ UNCHANGED <<dir, serial, rx, got, raced, hit>>

Arrive ==
  /\ wire # <<>> /\ Len(serial) < BUFFER
  /\ serial' = Append(serial, Head(wire))
  /\ wire' = Tail(wire)
  /\ UNCHANGED <<dir, sent, rx, got, raced, hit>>

Lose ==
  /\ wire # <<>> /\ Len(hit) < MaxLost
  /\ hit' = Append(hit, Head(wire).of)
  /\ wire' = Tail(wire)
  /\ UNCHANGED <<dir, sent, serial, rx, got, raced>>

-----------------------------------------------------------------------------
(* The receivers.                                                          *)

\* Take n bytes and stand at next.
Take(n, next) ==
  /\ serial' = SubSeq(serial, n + 1, Len(serial))
  /\ rx' = next
  /\ UNCHANGED <<dir, sent, wire, hit>>

Zeroes(n) == {i \in 1 .. n : serial[i].b = 0}
Delimiter(i) == [at |-> "length", len |-> 0, of |-> serial[i].of]
Body(n) == [at |-> "body", len |-> n, of |-> rx.of]

\* receive_message: "Keep reading a byte until we get the delimiter byte".
FindDelimiter ==
  /\ dir = "up" /\ rx.at = "seek" /\ serial # <<>>
  /\ Take(1, IF serial[1].b = 0 THEN Delimiter(1) ELSE Seek)
  /\ UNCHANGED <<got, raced>>

ReadLength ==
  /\ dir = "up" /\ rx.at = "length" /\ serial # <<>>
  /\ Take(1, IF serial[1].b \in 4 .. MAX_PAYLOAD_SIZE + 4 THEN Body(serial[1].b) ELSE Seek)
  /\ UNCHANGED <<got, raced>>

\* read_message drops what precedes the first zero, or all there is.
Scan ==
  /\ dir = "down" /\ rx.at = "seek" /\ serial # <<>>
  /\ IF Zeroes(Len(serial)) = {} THEN Take(Len(serial), Seek)
     ELSE LET z == Min(Zeroes(Len(serial))) IN Take(z, Delimiter(z))
  /\ UNCHANGED <<got, raced>>

\* "no packet length found": it has not arrived, or it is the next delimiter.
NoLength ==
  /\ dir = "down" /\ rx.at = "length"
  /\ serial # <<>> => serial[1].b = 0
  /\ Take(0, Seek)
  /\ raced' = IF serial = <<>> THEN raced \union {rx.of} ELSE raced
  /\ UNCHANGED got

DeviceLength ==
  /\ dir = "down" /\ rx.at = "length" /\ serial # <<>> /\ serial[1].b # 0
  /\ Take(1, Body(serial[1].b))
  /\ UNCHANGED <<got, raced>>

\* Fault: the device does not wait for the bytes of a message that are late.
CutShort_AtOnce ==
  /\ dir = "down" /\ rx.at = "body"
  /\ LET n == IF rx.len < Len(serial) THEN rx.len ELSE Len(serial)
     IN  IF Zeroes(n) # {} THEN Take(Min(Zeroes(n)), Seek)
         ELSE n < rx.len /\ Take(n, Seek)
  /\ UNCHANGED <<got, raced>>

\* readBytesUntil stops at a zero, which it removes, or after a second without
\* a byte; bytes on their way take less.
CutShort ==
  /\ dir = "down" /\ rx.at = "body"
  /\ LET n == IF rx.len < Len(serial) THEN rx.len ELSE Len(serial)
     IN  IF Zeroes(n) # {} THEN Take(Min(Zeroes(n)), Seek)
         ELSE n < rx.len /\ wire = <<>> /\ Take(n, Seek)
  /\ UNCHANGED <<got, raced>>

\* The whole message is there: readn, readBytesUntil, and then the parser.
ReadBody ==
  /\ rx.at = "body" /\ Len(serial) >= rx.len
  /\ dir = "down" => Zeroes(rx.len) = {}
  /\ \E m \in Parsed([i \in 1 .. rx.len |-> serial[i].b]) :
       got' = IF m = sent[rx.of] THEN got \union {rx.of} ELSE got
  /\ Take(rx.len, Seek)
  /\ UNCHANGED raced

Receive ==
  \/ FindDelimiter \/ ReadLength
  \/ Scan \/ NoLength \/ DeviceLength \/ CutShort
  \/ ReadBody

XNext == (\E m \in Messages : send_message(m)) \/ Arrive \/ Lose \/ Receive

XSpec == XInit /\ [][XNext]_xvars

-----------------------------------------------------------------------------
(* Properties.                                                             *)

\* The definition of COBS without blocks: every byte keeps its value, except
\* that a zero, and the byte in front, says how far the next zero is away.
Cobs(data) ==
  LET zero == data \o <<0>>
      Away(i) == Min({k \in 1 .. Len(zero) - i : zero[i + k] = 0})
  IN  [i \in 1 .. Len(zero) |-> IF i > 1 /\ data[i - 1] # 0 THEN data[i - 1] ELSE Away(i - 1)]

\* A frame is the COBS encoding of its packet, has no zero but its delimiter,
\* which is what a receiver searches for, and is decoded to the same packet.
FrameOK(m) ==
  LET frame == message_to_bytes(m)
      data == Packet(m) \o <<checksum(Packet(m))>>
      body == SubSeq(frame, 3, Len(frame))
  IN  /\ body = Cobs(data)
      /\ 0 \notin Range(Tail(frame))
      /\ cobs_decode(body).out = data /\ cobs_decode(body).left = 0
FramesAreCobs == [][sent' # sent => FrameOK(sent'[Len(sent')])]_xvars

\* The receiver is through with message j.
Passed(j) ==
  /\ \A x \in Range(wire) \union Range(serial) : x.of # j
  /\ rx.at = "seek" \/ rx.of # j

Dropped == {j \in 1 .. Len(sent) : Passed(j) /\ j \notin got}

\* What a message that lost bytes may take along.  The device stops reading at a
\* zero, so it loses at most the next message, whose delimiter it took for the
\* end of the broken one.  dev_handler reads as many bytes as it was told, whole
\* messages among them, of which each has at least MIN_FRAME.
MIN_FRAME == 6
Reach(i, j) == IF dir = "down" THEN j = i + 1 ELSE MIN_FRAME * (j - i - 1) < MAX_PAYLOAD_SIZE + 4

\* A message is delivered as it was sent unless bytes of it were lost, or a
\* message shortly before it lost bytes, or, on the way to a device, its delimiter
\* was read before its length had arrived: however many bytes are lost, the
\* receiver is in step again at the next delimiter it does not skip.
LossIsLocal ==
  \A j \in Dropped :
    \/ j \in Range(hit)
    \/ \E i \in Range(hit) : i < j /\ Reach(i, j)
    \/ dir = "down" /\ j \in raced
=============================================================================
