------------------------------ MODULE WireProofs ------------------------------
(***************************************************************************)
(* The serial line, where bytes are lost: a message is only ever lost with *)
(* bytes of its own or of one that reaches it, whatever bytes the messages *)
(* hold, however many are sent and wherever the losses fall.               *)
(***************************************************************************)
EXTENDS CodecProofs

-----------------------------------------------------------------------------
(* Wire: the line.  S are the messages sent, s is the stream of bytes that   *)
(* arrived and that will arrive, H the messages that lost bytes.             *)

stream == serial \o wire
Hits == Range(hit)
Fr(S, j) == message_to_bytes(S[j])
StreamByte(S) == [b : Bytes, of : 1 .. Len(S)]

\* From place o on, s holds frame f of message j from its byte k on.
Holds(s, o, f, k, j) ==
  /\ o + Len(f) - k <= Len(s)
  /\ \A i \in k .. Len(f) : s[o + i - k] = [b |-> f[i], of |-> j]

HasZero(s, j) == \E q \in 1 .. Len(s) : s[q].b = 0 /\ s[q].of = j

\* The bytes are in the order of their messages, a delimiter is the first byte of
\* its message, a message that lost nothing is whole while its delimiter is there,
\* and it is there while something of an earlier message is.
SLine(S, s, H) ==
  /\ S \in Seq(Messages) /\ s \in Seq(StreamByte(S))
  /\ \A p, q \in 1 .. Len(s) : p < q => s[p].of <= s[q].of /\ (s[q].b = 0 => s[p].of # s[q].of)
  /\ \A p \in 1 .. Len(s) : s[p].b = 0 /\ s[p].of \notin H => Holds(s, p, Fr(S, s[p].of), 1, s[p].of)
  /\ \A p \in 1 .. Len(s) : \A m \in 1 .. Len(S) : m \notin H /\ s[p].of < m => HasZero(s, m)

\* The receiver has read the delimiter of message o: everything behind it is still
\* in the stream.
RLine(S, s, H, o) ==
  /\ o \in 1 .. Len(S)
  /\ \A p \in 1 .. Len(s) : o <= s[p].of /\ (s[p].b = 0 => o # s[p].of)
  /\ \A m \in 1 .. Len(S) : m \notin H /\ o < m => HasZero(s, m)

\* The receiver is in step with the message whose delimiter it saw.
InStep(S, s, r) ==
  \/ r.at = "length" /\ Holds(s, 1, Fr(S, r.of), 2, r.of)
  \/ r.at = "body" /\ r.len = Len(Fr(S, r.of)) - 2 /\ Holds(s, 1, Fr(S, r.of), 3, r.of)

Excused(d, H, j) ==
  \E i \in H : i < j /\ IF d = "down" THEN j = i + 1 ELSE MIN_FRAME * (j - i - 1) < MAX_PAYLOAD_SIZE + 4

\* The receiver: in step when its message lost nothing, and every message that
\* lost nothing is delivered, still to be read, being read, or given up for a
\* reason.
RxLine(d, S, s, H, r, g, c) ==
  /\ r \in [at : {"seek", "length", "body"}, len : Nat, of : 0 .. Len(S)]
  /\ r.at # "seek" => RLine(S, s, H, r.of) /\ (r.of \notin H => InStep(S, s, r))
  /\ d = "up" /\ r.at = "body" => r.len <= MAX_PAYLOAD_SIZE + 4
  /\ \A j \in 1 .. Len(S) :
       j \in H \/ j \in g \/ HasZero(s, j) \/ (r.at # "seek" /\ r.of = j)
               \/ Excused(d, H, j) \/ (d = "down" /\ j \in c)

\* The inductive invariant of the line.
LineInv ==
  /\ dir \in {"up", "down"}
  /\ wire \in Seq(StreamByte(sent)) /\ serial \in Seq(StreamByte(sent))
  /\ \A p \in 1 .. Len(wire) : wire[p].of = Len(sent)
  /\ hit \in Seq(1 .. Len(sent))
  /\ SLine(sent, stream, Hits)
  /\ RxLine(dir, sent, stream, Hits, rx, got, raced)

\* What the line relies on in a frame: a delimiter, the length of the rest, and no
\* other zero.
GoodFrame(f) ==
  /\ f \in Seq(Bytes) /\ Len(f) \in 6 .. MAX_PAYLOAD_SIZE + 6
  /\ f[1] = 0 /\ f[2] = Len(f) - 2
  /\ \A k \in 2 .. Len(f) : f[k] # 0

\* Every frame is such a frame, and its body is parsed to the message.
LEMMA Frames ==
  ASSUME NEW m \in Messages, NEW f, f = message_to_bytes(m)
  PROVE  GoodFrame(f) /\ Parsed([k \in 1 .. Len(f) - 2 |-> f[k + 2]]) = {m}
<1>0. PICK p : p = Len(m.payload)
  BY Zenon
<1>1. PICK enc : enc = cobs_encode(Data(m))
  BY Zenon
<1>2. FrameIs(f, p, enc)
  BY <1>0, <1>1, FrameBytes, Zenon
<1>3. BodyIs(enc, p, Data(m))
  BY <1>0, <1>1, BodyFacts, Zenon
<1>4. p \in Nat /\ p <= MAX_PAYLOAD_SIZE /\ MAX_PAYLOAD_SIZE \in Nat
  <2>1. p \in 0 .. MAX_PAYLOAD_SIZE
    BY <1>0, PacketFacts, Zenon
  <2> QED
    BY <2>1, WireNumbers
<1>5. Len(f) = p + 6
  BY <1>2, Zenon DEF FrameIs
<1>6. PICK n \in Nat : n = p + 6 /\ n = Len(f) /\ n - 2 = p + 4 /\ n \in 6 .. MAX_PAYLOAD_SIZE + 6
  BY <1>4, <1>5
<1>7. ASSUME NEW k \in 2 .. n
      PROVE  f[k] # 0
  <2>1. CASE k = 2
    <3>1. f[2] = p + 4
      BY <1>2, Zenon DEF FrameIs
    <3> QED
      BY <1>4, <2>1, <3>1
  <2>2. CASE k # 2
    <3>1. k - 2 \in 1 .. p + 4 /\ k - 2 + 2 = k
      BY <1>4, <1>6, <2>2
    <3>2. f[k] = enc[k - 2] /\ enc[k - 2] # 0
      BY <1>2, <1>3, <3>1, Zenon DEF FrameIs, BodyIs
    <3> QED
      BY <3>2, Zenon
  <2> QED
    BY <2>1, <2>2, Zenon
<1>8. GoodFrame(f)
  <2>1. f \in Seq(Bytes) /\ f[1] = 0 /\ f[2] = n - 2
    BY <1>2, <1>6, Zenon DEF FrameIs
  <2> QED
    BY <1>6, <1>7, <2>1, Zenon DEF GoodFrame
<1>9. [k \in 1 .. n - 2 |-> f[k + 2]] = enc
  <2>1. enc \in Seq(Bytes) /\ Len(enc) = n - 2
    BY <1>3, <1>6, Zenon DEF BodyIs
  <2>2. enc = [k \in 1 .. n - 2 |-> enc[k]]
    BY <2>1
  <2>3. \A k \in 1 .. n - 2 : f[k + 2] = enc[k]
    BY <1>2, <1>6, Zenon DEF FrameIs
  <2> QED
    BY <2>2, <2>3, Zenon
<1>10. Parsed(enc) = {m}
  BY <1>1, ParsedBody, Zenon
<1> QED
  BY <1>6, <1>8, <1>9, <1>10, Zenon

\* t is s without its first n elements.
DropOf(t, s, n) == Len(t) = Len(s) - n /\ \A p \in 1 .. Len(t) : t[p] = s[p + n]

\* Reading n bytes moves what is behind them.
LEMMA DropHolds ==
  ASSUME NEW T, NEW s \in Seq(T), NEW t \in Seq(T), NEW n \in Nat, DropOf(t, s, n),
         NEW o \in Nat, n < o, NEW f, Len(f) \in Nat, NEW k \in Nat, NEW j, Holds(s, o, f, k, j)
  PROVE  Holds(t, o - n, f, k, j)
<1>1. PICK L \in Nat, M \in Nat, N \in Nat : L = Len(f) /\ M = Len(s) /\ N = Len(t)
  OBVIOUS
<1>2. N = M - n /\ \A p \in 1 .. N : t[p] = s[p + n]
  BY <1>1, Zenon DEF DropOf
<1>3. o + L - k <= M /\ \A i \in k .. L : s[o + i - k] = [b |-> f[i], of |-> j]
  BY <1>1, Zenon DEF Holds
<1>4. o - n + L - k <= N
  BY <1>2, <1>3
<1>5. ASSUME NEW i \in k .. L
      PROVE  t[o - n + i - k] = [b |-> f[i], of |-> j]
  <2>1. o - n + i - k \in 1 .. N /\ (o - n + i - k) + n = o + i - k
    BY <1>2, <1>3
  <2>2. t[o - n + i - k] = s[o + i - k]
    BY <1>2, <2>1, Zenon
  <2> QED
    BY <1>3, <2>2, Zenon
<1> QED
  BY <1>1, <1>4, <1>5, Zenon DEF Holds

\* A delimiter that reading n bytes removes is among them.
LEMMA DropZero ==
  ASSUME NEW T, NEW s \in Seq(T), NEW t \in Seq(T), NEW n \in 0 .. Len(s), DropOf(t, s, n),
         NEW q \in 1 .. Len(s), NEW j, s[q].b = 0, s[q].of = j, n < q
  PROVE  HasZero(t, j)
<1>1. PICK M \in Nat, N \in Nat : M = Len(s) /\ N = Len(t)
  OBVIOUS
<1>2. N = M - n /\ \A p \in 1 .. N : t[p] = s[p + n]
  BY <1>1, Zenon DEF DropOf
<1>3. q - n \in 1 .. N /\ q - n + n = q
  BY <1>1, <1>2
<1>4. t[q - n] = s[q]
  BY <1>2, <1>3, Zenon
<1> QED
  BY <1>1, <1>3, <1>4, Zenon DEF HasZero

\* A byte of the stream.
LEMMA StreamBytes ==
  ASSUME NEW S, NEW s \in Seq(StreamByte(S)), NEW p \in 1 .. Len(s), Len(S) \in Nat
  PROVE  s[p].of \in 1 .. Len(S) /\ s[p].of \in Nat /\ s[p].b \in Bytes /\ s[p].b \in Nat
<1>1. s[p] \in StreamByte(S)
  OBVIOUS
<1> QED
  BY <1>1, WireNumbers DEF StreamByte, Bytes

\* The frame of a message that was sent.
LEMMA SentFrame ==
  ASSUME NEW S \in Seq(Messages), NEW j \in 1 .. Len(S)
  PROVE  GoodFrame(Fr(S, j)) /\ Len(Fr(S, j)) \in 6 .. MAX_PAYLOAD_SIZE + 6 /\ Len(Fr(S, j)) \in Nat
<1>1. S[j] \in Messages
  OBVIOUS
<1>2. GoodFrame(Fr(S, j))
  BY <1>1, Frames, Zenon DEF Fr
<1>3. Len(Fr(S, j)) \in 6 .. MAX_PAYLOAD_SIZE + 6
  BY <1>2, Zenon DEF GoodFrame
<1> QED
  BY <1>2, <1>3

\* Reading keeps the stream in order.
LEMMA DropSLine ==
  ASSUME NEW S, NEW s, NEW H, SLine(S, s, H), NEW n \in 0 .. Len(s),
         NEW t \in Seq(StreamByte(S)), DropOf(t, s, n)
  PROVE  SLine(S, t, H)
<1>1. /\ S \in Seq(Messages) /\ s \in Seq(StreamByte(S)) /\ Len(S) \in Nat
      /\ n \in Nat
  BY DEF SLine
<1>2. PICK M \in Nat, N \in Nat : M = Len(s) /\ N = Len(t)
  BY <1>1
<1>3. N = M - n /\ \A p \in 1 .. N : t[p] = s[p + n]
  BY <1>2, Zenon DEF DropOf
<1>4. /\ \A p, q \in 1 .. M : p < q => s[p].of <= s[q].of /\ (s[q].b = 0 => s[p].of # s[q].of)
      /\ \A p \in 1 .. M : s[p].b = 0 /\ s[p].of \notin H => Holds(s, p, Fr(S, s[p].of), 1, s[p].of)
      /\ \A p \in 1 .. M : \A m \in 1 .. Len(S) : m \notin H /\ s[p].of < m => HasZero(s, m)
  BY <1>2, Zenon DEF SLine
<1>5. \A p \in 1 .. N : p + n \in 1 .. M /\ p + n \in Nat /\ n < p + n /\ p + n - n = p
  BY <1>1, <1>3
<1>6. ASSUME NEW p \in 1 .. N, NEW q \in 1 .. N, p < q
      PROVE  t[p].of <= t[q].of /\ (t[q].b = 0 => t[p].of # t[q].of)
  <2>1. PICK x \in 1 .. M, y \in 1 .. M : x = p + n /\ y = q + n
    BY <1>5, Zenon
  <2>2. x < y
    BY <1>1, <1>6, <2>1
  <2>3. t[p] = s[x] /\ t[q] = s[y]
    BY <1>3, <2>1, Zenon
  <2> QED
    BY <1>4, <2>2, <2>3, Zenon
<1>7. ASSUME NEW p \in 1 .. N, t[p].b = 0, t[p].of \notin H
      PROVE  Holds(t, p, Fr(S, t[p].of), 1, t[p].of)
  <2>1. t[p] = s[p + n]
    BY <1>3, Zenon
  <2>2. Holds(s, p + n, Fr(S, t[p].of), 1, t[p].of)
    BY <1>4, <1>5, <1>7, <2>1, Zenon
  <2>3. t[p].of \in 1 .. Len(S)
    BY <1>1, <1>2, StreamBytes, Zenon
  <2>4. Len(Fr(S, t[p].of)) \in Nat
    BY <1>1, <2>3, SentFrame, Zenon
  <2>5. Holds(t, p + n - n, Fr(S, t[p].of), 1, t[p].of)
    BY <1>1, <1>5, <2>2, <2>4, DropHolds
  <2> QED
    BY <1>5, <2>5, Zenon
<1>8. ASSUME NEW p \in 1 .. N, NEW m \in 1 .. Len(S), m \notin H, t[p].of < m
      PROVE  HasZero(t, m)
  <2>1. t[p] = s[p + n]
    BY <1>3, Zenon
  <2>2. HasZero(s, m)
    BY <1>4, <1>5, <1>8, <2>1, Zenon
  <2>3. PICK q \in 1 .. M : s[q].b = 0 /\ s[q].of = m
    BY <1>2, <2>2, Zenon DEF HasZero
  <2>4. s[p + n].of \in Nat /\ m \in Nat /\ s[p + n].of < m
    BY <1>1, <1>2, <1>5, <1>8, <2>1, StreamBytes
  <2>5. n < q
    <3>1. SUFFICES ASSUME ~(n < q) PROVE FALSE
      BY Zenon
    <3>2. q < p + n
      BY <1>1, <3>1
    <3>3. s[q].of <= s[p + n].of
      BY <1>4, <1>5, <3>2, Zenon
    <3> QED
      BY <2>3, <2>4, <3>3
  <2> QED
    BY <1>1, <1>2, <2>3, <2>5, DropZero, Zenon
<1> QED
  BY <1>1, <1>2, <1>6, <1>7, <1>8, Zenon DEF SLine

\* Reading bytes that are no delimiter of a message without loss keeps what is
\* behind the message being read.
LEMMA DropRLine ==
  ASSUME NEW S, NEW s, NEW H, SLine(S, s, H), NEW n \in 0 .. Len(s),
         NEW t \in Seq(StreamByte(S)), DropOf(t, s, n), NEW o, RLine(S, s, H, o),
         \A z \in 1 .. n : s[z].b = 0 => s[z].of \in H
  PROVE  RLine(S, t, H, o)
<1>1. s \in Seq(StreamByte(S)) /\ n \in Nat
  BY DEF SLine
<1>2. PICK M \in Nat, N \in Nat : M = Len(s) /\ N = Len(t)
  BY <1>1
<1>3. N = M - n /\ \A p \in 1 .. N : t[p] = s[p + n]
  BY <1>2, Zenon DEF DropOf
<1>4. /\ o \in 1 .. Len(S)
      /\ \A p \in 1 .. M : o <= s[p].of /\ (s[p].b = 0 => o # s[p].of)
      /\ \A m \in 1 .. Len(S) : m \notin H /\ o < m => HasZero(s, m)
  BY <1>2, Zenon DEF RLine
<1>5. \A p \in 1 .. N : p + n \in 1 .. M
  BY <1>1, <1>3
<1>6. \A p \in 1 .. N : o <= t[p].of /\ (t[p].b = 0 => o # t[p].of)
  BY <1>3, <1>4, <1>5, Zenon
<1>7. ASSUME NEW m \in 1 .. Len(S), m \notin H, o < m
      PROVE  HasZero(t, m)
  <2>1. PICK q \in 1 .. M : s[q].b = 0 /\ s[q].of = m
    BY <1>2, <1>4, <1>7, Zenon DEF HasZero
  <2>2. n < q
    BY <1>1, <1>7, <2>1
  <2> QED
    BY <1>1, <1>2, <2>1, <2>2, DropZero, Zenon
<1> QED
  BY <1>2, <1>4, <1>6, <1>7, Zenon DEF RLine

\* One byte of a frame further.
LEMMA HoldsNext ==
  ASSUME NEW s, NEW o \in Nat, NEW f, Len(f) \in Nat, NEW k \in Nat, NEW j, Holds(s, o, f, k, j)
  PROVE  Holds(s, o + 1, f, k + 1, j)
<1>1. PICK L \in Nat : L = Len(f)
  BY Zenon
<1>2. o + L - k <= Len(s) /\ \A i \in k .. L : s[o + i - k] = [b |-> f[i], of |-> j]
  BY <1>1, Zenon DEF Holds
<1>3. o + 1 + L - (k + 1) = o + L - k
  OBVIOUS
<1>4. \A i \in k + 1 .. L : i \in k .. L /\ o + 1 + i - (k + 1) = o + i - k
  OBVIOUS
<1>5. o + 1 + L - (k + 1) <= Len(s)
  BY <1>2, <1>3, Zenon
<1>6. \A i \in k + 1 .. L : s[o + 1 + i - (k + 1)] = [b |-> f[i], of |-> j]
  BY <1>2, <1>4, Zenon
<1> QED
  BY <1>1, <1>5, <1>6, Zenon DEF Holds

\* The receiver gives up what it was doing and searches, for a reason.
LEMMA ToSeek ==
  ASSUME NEW d, NEW S, NEW s, NEW H, NEW r, NEW g, NEW c, NEW n \in 0 .. Len(s), NEW t \in Seq(StreamByte(S)),
         SLine(S, s, H), RxLine(d, S, s, H, r, g, c), DropOf(t, s, n),
         NEW g2, NEW c2, \A j \in g : j \in g2, \A j \in c : j \in c2,
         \A z \in 1 .. n : s[z].b = 0 => s[z].of \in H \/ Excused(d, H, s[z].of),
         r.at # "seek" => r.of \in H \/ r.of \in g2 \/ (d = "down" /\ r.of \in c2)
  PROVE  RxLine(d, S, t, H, Seek, g2, c2)
<1>1. S \in Seq(Messages) /\ s \in Seq(StreamByte(S))
  BY Zenon DEF SLine
<1>2. Len(S) \in Nat /\ Len(s) \in Nat /\ n \in Nat
  BY <1>1
<1>3. Seek \in [at : {"seek", "length", "body"}, len : Nat, of : 0 .. Len(S)] /\ Seek.at = "seek"
  BY <1>2 DEF Seek
<1>4. ASSUME NEW j \in 1 .. Len(S), j \notin H, j \notin g2, ~Excused(d, H, j), ~(d = "down" /\ j \in c2)
      PROVE  HasZero(t, j)
  <2>1. HasZero(s, j)
    BY <1>4, Zenon DEF RxLine
  <2>2. PICK q \in 1 .. Len(s) : s[q].b = 0 /\ s[q].of = j
    BY <2>1, Zenon DEF HasZero
  <2>3. q \notin 1 .. n
    BY <1>4, <2>2, Zenon
  <2>4. n < q
    BY <1>2, <2>3
  <2> QED
    BY <1>1, <2>2, <2>4, DropZero, Zenon
<1>5. "seek" # "body"
  BY Zenon
<1> QED
  BY <1>3, <1>4, <1>5, Zenon DEF RxLine

\* The receiver reads a length.
LEMMA ToBody ==
  ASSUME NEW d, NEW S, NEW s, NEW H, NEW r, NEW g, NEW c, NEW t \in Seq(StreamByte(S)),
         SLine(S, s, H), RxLine(d, S, s, H, r, g, c), 1 <= Len(s), DropOf(t, s, 1), r.at = "length",
         s[1].b # 0, d = "up" => s[1].b <= MAX_PAYLOAD_SIZE + 4,
         NEW r2, r2 = [at |-> "body", len |-> s[1].b, of |-> r.of]
  PROVE  RxLine(d, S, t, H, r2, g, c)
<1>1. S \in Seq(Messages) /\ s \in Seq(StreamByte(S))
  BY Zenon DEF SLine
<1>2. Len(S) \in Nat /\ Len(s) \in Nat /\ 1 \in 0 .. Len(s) /\ 1 \in 1 .. Len(s)
  BY <1>1
<1>3. s[1].b \in Nat
  BY <1>1, <1>2, StreamBytes, Zenon
<1>4. RLine(S, s, H, r.of) /\ (r.of \notin H => InStep(S, s, r))
  <2>1. r.at # "seek"
    BY Zenon
  <2> QED
    BY <2>1, Zenon DEF RxLine
<1>5. r.of \in 1 .. Len(S)
  BY <1>4, Zenon DEF RLine
<1>6. \A z \in 1 .. 1 : s[z].b # 0
  OBVIOUS
<1>7. RLine(S, t, H, r.of)
  BY <1>2, <1>4, <1>6, DropRLine, Zenon
<1>8. r2.at = "body" /\ r2.len = s[1].b /\ r2.of = r.of
  BY Zenon
<1>9. r2 \in [at : {"seek", "length", "body"}, len : Nat, of : 0 .. Len(S)]
  BY <1>2, <1>3, <1>5
<1>10. ASSUME r.of \notin H
       PROVE  InStep(S, t, r2)
  <2>1. PICK f : f = Fr(S, r.of)
    BY Zenon
  <2>2. Holds(s, 1, f, 2, r.of)
    <3>1. r.at # "body"
      BY Zenon
    <3> QED
      BY <1>4, <1>10, <2>1, <3>1, Zenon DEF InStep
  <2>3. GoodFrame(f) /\ Len(f) \in Nat /\ Len(f) \in 6 .. MAX_PAYLOAD_SIZE + 6
    BY <1>1, <1>5, <2>1, SentFrame, Zenon
  <2>4. PICK L \in Nat : L = Len(f) /\ L >= 6
    BY <2>3, WireNumbers
  <2>5. f[2] = L - 2
    BY <2>3, <2>4, Zenon DEF GoodFrame
  <2>6. s[1].b = f[2]
    <3>1. \A i \in 2 .. L : s[1 + i - 2] = [b |-> f[i], of |-> r.of]
      BY <2>2, <2>4, Zenon DEF Holds
    <3>2. 2 \in 2 .. L /\ 1 + 2 - 2 = 1
      BY <2>4
    <3>3. s[1] = [b |-> f[2], of |-> r.of]
      BY <3>1, <3>2, Zenon
    <3> QED
      BY <3>3
  <2>7. Holds(s, 1 + 1, f, 2 + 1, r.of)
    BY <2>2, <2>3, HoldsNext, Zenon
  <2>8. Holds(t, 1 + 1 - 1, f, 2 + 1, r.of)
    BY <1>1, <2>3, <2>7, DropHolds
  <2>9. Holds(t, 1, f, 3, r.of)
    BY <2>8
  <2>10. r2.len = Len(f) - 2
    BY <1>8, <2>4, <2>5, <2>6, Zenon
  <2> QED
    BY <1>8, <2>1, <2>9, <2>10, Zenon DEF InStep
<1>11. ASSUME NEW j \in 1 .. Len(S), HasZero(s, j)
       PROVE  HasZero(t, j)
  <2>1. PICK q \in 1 .. Len(s) : s[q].b = 0 /\ s[q].of = j
    BY <1>11, Zenon DEF HasZero
  <2>2. 1 < q
    BY <1>2, <2>1
  <2> QED
    BY <1>1, <1>2, <2>1, <2>2, DropZero, Zenon
<1>12. \A j \in 1 .. Len(S) :
         j \in H \/ j \in g \/ HasZero(t, j) \/ r2.of = j \/ Excused(d, H, j) \/ (d = "down" /\ j \in c)
  BY <1>8, <1>11, Zenon DEF RxLine
<1>13. "body" # "seek"
  BY Zenon
<1> QED
  BY <1>7, <1>8, <1>9, <1>10, <1>12, <1>13, Zenon DEF RxLine

\* The place behind a place.
LEMMA NextPlace ==
  \A z \in Nat : \E p \in Nat, k \in Nat : p = z + 1 /\ k = 1 + 1 /\ z < p /\ p - z = 1 /\ k = 2
<1> TAKE z \in Nat
<1> WITNESS z + 1 \in Nat, 2 \in Nat
<1> QED
  OBVIOUS

\* The receiver finds a delimiter.
LEMMA ToLength ==
  ASSUME NEW d, NEW S, NEW s, NEW H, NEW r, NEW g, NEW c, NEW z \in 1 .. Len(s), NEW t \in Seq(StreamByte(S)),
         SLine(S, s, H), RxLine(d, S, s, H, r, g, c), DropOf(t, s, z), r.at = "seek",
         s[z].b = 0, \A p \in 1 .. z - 1 : s[p].b # 0,
         NEW r2, r2 = [at |-> "length", len |-> 0, of |-> s[z].of]
  PROVE  RxLine(d, S, t, H, r2, g, c)
<1>1. S \in Seq(Messages) /\ s \in Seq(StreamByte(S))
  BY Zenon DEF SLine
<1>2. Len(S) \in Nat /\ Len(s) \in Nat /\ z \in 0 .. Len(s) /\ z \in Nat
  BY <1>1
<1>3. PICK o : o = s[z].of
  BY Zenon
<1>4. o \in 1 .. Len(S) /\ o \in Nat
  BY <1>1, <1>2, <1>3, StreamBytes, Zenon
<1>5. /\ \A p, q \in 1 .. Len(s) : p < q => s[p].of <= s[q].of /\ (s[q].b = 0 => s[p].of # s[q].of)
      /\ \A p \in 1 .. Len(s) : s[p].b = 0 /\ s[p].of \notin H => Holds(s, p, Fr(S, s[p].of), 1, s[p].of)
      /\ \A p \in 1 .. Len(s) : \A m \in 1 .. Len(S) : m \notin H /\ s[p].of < m => HasZero(s, m)
  BY Zenon DEF SLine
<1>6. r2.at = "length" /\ r2.len = 0 /\ r2.of = o
  BY <1>3, Zenon
<1>7. r2 \in [at : {"seek", "length", "body"}, len : Nat, of : 0 .. Len(S)]
  BY <1>2, <1>3, <1>4
<1>8. RLine(S, t, H, o)
  <2>1. ASSUME NEW p \in 1 .. Len(t)
        PROVE  o <= t[p].of /\ (t[p].b = 0 => o # t[p].of)
    <3>1. PICK M \in Nat, N \in Nat : M = Len(s) /\ N = Len(t)
      BY <1>2
    <3>2. N = M - z /\ t[p] = s[p + z]
      BY <3>1, Zenon DEF DropOf
    <3>3. PICK q \in 1 .. Len(s) : q = p + z /\ z < q
      BY <1>2, <3>1, <3>2
    <3> QED
      BY <1>3, <1>5, <3>2, <3>3, Zenon
  <2>2. ASSUME NEW m \in 1 .. Len(S), m \notin H, o < m
        PROVE  HasZero(t, m)
    <3>1. HasZero(s, m)
      BY <1>3, <1>5, <2>2, Zenon
    <3>2. PICK q \in 1 .. Len(s) : s[q].b = 0 /\ s[q].of = m
      BY <3>1, Zenon DEF HasZero
    <3>3. z < q
      <4>1. CASE q < z
        <5>1. m <= o
          BY <1>3, <1>5, <3>2, <4>1, Zenon
        <5> QED
          BY <1>4, <2>2, <5>1
      <4>2. CASE q = z
        BY <1>3, <1>4, <2>2, <3>2, <4>2
      <4> QED
        BY <1>2, <4>1, <4>2
    <3> QED
      BY <1>1, <1>2, <3>2, <3>3, DropZero, Zenon
  <2> QED
    BY <1>4, <2>1, <2>2, Zenon DEF RLine
<1>9. ASSUME o \notin H
      PROVE  InStep(S, t, r2)
  <2>1. PICK f : f = Fr(S, o)
    BY Zenon
  <2>2. Holds(s, z, f, 1, o)
    BY <1>3, <1>5, <1>9, <2>1, Zenon
  <2>3. Len(f) \in Nat
    BY <1>1, <1>4, <2>1, SentFrame, Zenon
  <2>4. Holds(s, z + 1, f, 1 + 1, o)
    BY <1>2, <2>2, <2>3, HoldsNext, Zenon
  <2>5. PICK p \in Nat, k \in Nat : p = z + 1 /\ k = 1 + 1 /\ z < p /\ p - z = 1 /\ k = 2
    BY <1>2, NextPlace, Zenon
  <2>6. Holds(t, p - z, f, k, o)
    <3>1. Holds(s, p, f, k, o)
      BY <2>4, <2>5, Zenon
    <3> QED
      BY <1>1, <1>2, <2>3, <2>5, <3>1, DropHolds
  <2>7. Holds(t, 1, f, 2, o)
    BY <2>5, <2>6, Zenon
  <2> QED
    BY <1>6, <2>1, <2>7, Zenon DEF InStep
<1>10. ASSUME NEW j \in 1 .. Len(S), HasZero(s, j), j # o
       PROVE  HasZero(t, j)
  <2>1. PICK q \in 1 .. Len(s) : s[q].b = 0 /\ s[q].of = j
    BY <1>10, Zenon DEF HasZero
  <2>2. q \notin 1 .. z - 1 /\ q # z
    BY <1>3, <1>10, <2>1, Zenon
  <2>3. z < q
    BY <1>2, <2>2
  <2> QED
    BY <1>1, <1>2, <2>1, <2>3, DropZero, Zenon
<1>11. \A j \in 1 .. Len(S) :
         j \in H \/ j \in g \/ HasZero(t, j) \/ r2.of = j \/ Excused(d, H, j) \/ (d = "down" /\ j \in c)
  BY <1>6, <1>10, Zenon DEF RxLine
<1>12. "length" # "seek" /\ "length" # "body"
  BY Zenon
<1> QED
  BY <1>6, <1>7, <1>8, <1>9, <1>11, <1>12, Zenon DEF RxLine

\* A receiver that is out of step takes the next delimiter for something else:
\* the message in front of it lost bytes.
LEMMA NextIsExcused ==
  ASSUME NEW d, NEW S, NEW s, NEW H, NEW o, SLine(S, s, H), RLine(S, s, H, o), o \in H,
         NEW z \in 1 .. Len(s), s[z].b = 0, \A p \in 1 .. z - 1 : s[p].b # 0
  PROVE  Excused(d, H, s[z].of)
<1>1. S \in Seq(Messages) /\ s \in Seq(StreamByte(S)) /\ Len(S) \in Nat /\ Len(s) \in Nat
  BY DEF SLine
<1>2. PICK e : e = s[z].of
  BY Zenon
<1>3. e \in 1 .. Len(S) /\ e \in Nat /\ o \in 1 .. Len(S) /\ o <= e /\ o # e
  BY <1>1, <1>2, StreamBytes, Zenon DEF RLine
<1>4. PICK x \in Nat : x = e - 1 /\ x \in 1 .. Len(S) /\ x < e /\ o <= x
  BY <1>1, <1>3
<1>5. x \in H
  <2>1. SUFFICES ASSUME x \notin H PROVE FALSE
    BY Zenon
  <2>2. o < x
    BY <1>3, <1>4, <2>1
  <2>3. HasZero(s, x)
    BY <1>4, <2>1, <2>2, Zenon DEF RLine
  <2>4. PICK q \in 1 .. Len(s) : s[q].b = 0 /\ s[q].of = x
    BY <2>3, Zenon DEF HasZero
  <2>5. CASE z < q
    <3>1. e <= x
      BY <1>2, <2>4, <2>5, Zenon DEF SLine
    <3> QED
      BY <1>4, <1>3, <3>1
  <2>6. CASE ~(z < q)
    <3>1. q = z \/ q \in 1 .. z - 1
      BY <1>1, <2>6
    <3> QED
      BY <1>2, <1>3, <1>4, <2>4, <3>1
  <2> QED
    BY <2>5, <2>6, Zenon
<1>6. e = x + 1 /\ MIN_FRAME * (e - x - 1) < MAX_PAYLOAD_SIZE + 4
  <2>1. e = x + 1 /\ e - x - 1 = 0
    BY <1>3, <1>4
  <2>2. 6 * 0 < MAX_PAYLOAD_SIZE + 4
    BY WireNumbers
  <2> QED
    BY <2>1, <2>2, Zenon DEF MIN_FRAME
<1> QED
  BY <1>2, <1>4, <1>5, <1>6, Zenon DEF Excused

\* A whole message in front of a delimiter takes MIN_FRAME bytes or more.
LEMMA WholeInFront ==
  ASSUME NEW S, NEW s, NEW H, SLine(S, s, H), NEW x \in 1 .. Len(S), x \notin H, HasZero(s, x),
         NEW q \in 1 .. Len(s), x < s[q].of
  PROVE  \E y \in 1 .. Len(s) : s[y].b = 0 /\ s[y].of = x /\ y + MIN_FRAME <= q
<1>1. S \in Seq(Messages) /\ s \in Seq(StreamByte(S)) /\ Len(S) \in Nat /\ Len(s) \in Nat /\ x \in Nat
  BY DEF SLine
<1>2. PICK y \in 1 .. Len(s) : s[y].b = 0 /\ s[y].of = x
  BY Zenon DEF HasZero
<1>3. PICK f : f = Fr(S, x)
  BY Zenon
<1>4. Holds(s, y, f, 1, x)
  BY <1>2, <1>3, Zenon DEF SLine
<1>5. Len(f) \in 6 .. MAX_PAYLOAD_SIZE + 6 /\ Len(f) \in Nat
  BY <1>1, <1>3, SentFrame, Zenon
<1>6. PICK L \in Nat : L = Len(f) /\ L >= 6
  BY <1>5, WireNumbers
<1>7. y + L - 1 <= Len(s) /\ \A i \in 1 .. L : s[y + i - 1] = [b |-> f[i], of |-> x]
  BY <1>4, <1>6, Zenon DEF Holds
<1>8. PICK w \in 1 .. Len(s) : w = y + L - 1
  <2>1. PICK M \in Nat : M = Len(s)
    BY <1>1, Zenon
  <2>2. y \in 1 .. M /\ y + L - 1 <= M
    BY <1>7, <2>1, Zenon
  <2>3. y + L - 1 \in 1 .. M
    BY <1>6, <2>2
  <2> QED
    BY <2>1, <2>3, Zenon
<1>9. s[w].of = x
  <2>1. L \in 1 .. L
    BY <1>6
  <2>2. s[w] = [b |-> f[L], of |-> x]
    BY <1>7, <1>8, <2>1, Zenon
  <2> QED
    BY <2>2
<1>10. w < q
  <2>1. CASE q < w
    <3>1. s[q].of <= s[w].of
      BY <2>1, Zenon DEF SLine
    <3>2. s[q].of \in Nat
      BY <1>1, StreamBytes, Zenon
    <3> QED
      BY <1>1, <1>9, <3>1, <3>2
  <2>2. CASE q = w
    BY <1>1, <1>9, <2>2
  <2> QED
    BY <1>1, <2>1, <2>2
<1>11. y + 6 <= q
  BY <1>1, <1>6, <1>8, <1>10
<1> QED
  BY <1>2, <1>11, Zenon DEF MIN_FRAME

\* dev_handler reads a broken length: every delimiter it swallows is within reach
\* of a message that lost bytes.  Walking back from the delimiter, each message is
\* whole, and takes MIN_FRAME bytes, or lost some.
LEMMA SwallowedIsExcused ==
  ASSUME NEW S, NEW s, NEW H, NEW o, SLine(S, s, H), RLine(S, s, H, o), o \in H,
         NEW z \in 1 .. Len(s), s[z].b = 0, z <= MAX_PAYLOAD_SIZE + 4
  PROVE  Excused("up", H, s[z].of)
<1>1. /\ S \in Seq(Messages) /\ s \in Seq(StreamByte(S)) /\ Len(S) \in Nat /\ Len(s) \in Nat
      /\ MAX_PAYLOAD_SIZE \in Nat /\ z \in Nat
  BY WireNumbers DEF SLine
<1>2. PICK e : e = s[z].of
  BY Zenon
<1>3. e \in 1 .. Len(S) /\ e \in Nat /\ o \in 1 .. Len(S) /\ o \in Nat /\ o < e
  <2>1. e \in 1 .. Len(S) /\ e \in Nat
    BY <1>1, <1>2, StreamBytes, Zenon
  <2>2. o \in 1 .. Len(S) /\ o <= e /\ o # e
    BY <1>2, Zenon DEF RLine
  <2> QED
    BY <1>1, <2>1, <2>2
<1>4. SUFFICES ASSUME ~Excused("up", H, e)
               PROVE  FALSE
  BY <1>2, Zenon
<1>5. ASSUME NEW x \in H, x \in Nat, x < e
      PROVE  ~(6 * (e - x - 1) < MAX_PAYLOAD_SIZE + 4)
  <2>1. "up" # "down"
    BY Zenon
  <2> QED
    BY <1>4, <1>5, <2>1, Zenon DEF Excused, MIN_FRAME
<1>6. PICK K \in Nat : K = e - o - 1
  BY <1>3
<1> DEFINE C(k) == \E q \in 1 .. Len(s) : s[q].b = 0 /\ s[q].of = e - k /\ q + 6 * k <= z
           B == {k \in 0 .. K : ~C(k)}
<1>7. 0 \notin B
  <2>1. e - 0 = e /\ z + 6 * 0 <= z
    BY <1>1, <1>3
  <2>2. C(0)
    BY <1>2, <2>1, Zenon
  <2> QED
    BY <2>2, Zenon
<1>8. ASSUME NEW k \in 1 .. K, k \in B
      PROVE  k - 1 \in B
  <2>1. SUFFICES ASSUME C(k - 1)
                 PROVE  C(k)
    <3>1. k - 1 \in 0 .. K
      BY <1>6
    <3> QED
      BY <1>8, <3>1, Zenon
  <2>2. PICK q \in 1 .. Len(s) : s[q].b = 0 /\ s[q].of = e - (k - 1) /\ q + 6 * (k - 1) <= z
    BY <2>1, Zenon
  <2>3. PICK x \in Nat : x = e - k
    BY <1>3, <1>6
  <2>4. x \in 1 .. Len(S) /\ o < x /\ x < e /\ x < e - (k - 1) /\ e - x - 1 = k - 1
    BY <1>3, <1>6, <2>3
  <2>5. x \notin H
    <3>1. SUFFICES ASSUME x \in H PROVE FALSE
      BY Zenon
    <3>2. ~(6 * (e - x - 1) < MAX_PAYLOAD_SIZE + 4)
      BY <1>5, <2>4, <3>1, Zenon
    <3>3. 6 * (k - 1) < MAX_PAYLOAD_SIZE + 4
      BY <1>1, <2>2
    <3> QED
      BY <2>4, <3>2, <3>3, Zenon
  <2>6. HasZero(s, x)
    BY <2>4, <2>5, Zenon DEF RLine
  <2>7. PICK y \in 1 .. Len(s) : s[y].b = 0 /\ s[y].of = x /\ y + MIN_FRAME <= q
    BY <2>2, <2>4, <2>5, <2>6, WholeInFront
  <2>8. y + 6 * k <= z
    <3>1. y + 6 <= q
      BY <2>7, Zenon DEF MIN_FRAME
    <3> QED
      BY <1>1, <2>2, <3>1
  <2> QED
    BY <2>3, <2>7, <2>8, Zenon
<1>9. B = {}
  <2>1. B \subseteq 0 .. K
    BY Zenon
  <2> HIDE DEF B
  <2> QED
    BY <1>7, <1>8, <2>1, Turnwise, Zenon
<1>10. C(K)
  <2>1. K \in 0 .. K
    OBVIOUS
  <2> QED
    BY <1>9, <2>1, Zenon
<1>11. 6 * K < MAX_PAYLOAD_SIZE + 4
  BY <1>1, <1>10
<1>12. ~(6 * (e - o - 1) < MAX_PAYLOAD_SIZE + 4)
  BY <1>3, <1>5, Zenon
<1> QED
  BY <1>6, <1>11, <1>12, Zenon

\* Reading from what arrived reads from the stream.
LEMMA DropJoined ==
  ASSUME NEW T, NEW a \in Seq(T), NEW w \in Seq(T), NEW n \in 0 .. Len(a), NEW a2, a2 = SubSeq(a, n + 1, Len(a))
  PROVE  a2 \in Seq(T) /\ a2 \o w \in Seq(T) /\ DropOf(a2 \o w, a \o w, n)
<1>1. PICK A \in Nat, W \in Nat : A = Len(a) /\ W = Len(w)
  OBVIOUS
<1>2. n \in Nat /\ n <= A /\ n + 1 \in Int
  BY <1>1
<1>3. \A i \in n + 1 .. A : a[i] \in T
  BY <1>1, <1>2
<1>4. a2 = SubSeq(a, n + 1, A)
  BY <1>1, Zenon
<1>5. /\ a2 \in Seq(T) /\ Len(a2) = (IF n + 1 <= A THEN A - (n + 1) + 1 ELSE 0)
      /\ \A i \in 1 .. A - (n + 1) + 1 : a2[i] = a[n + 1 + i - 1]
  <2> HIDE <1>1
  <2> QED
    BY <1>2, <1>3, <1>4, SubSeqProperties
<1>6. Len(a2) = A - n /\ \A i \in 1 .. A - n : a2[i] = a[i + n]
  <2>1. A - (n + 1) + 1 = A - n /\ \A i \in 1 .. A - n : n + 1 + i - 1 = i + n
    BY <1>2
  <2>2. Len(a2) = A - n
    BY <1>2, <1>5
  <2> QED
    BY <1>5, <2>1, <2>2, Zenon
<1>7. PICK s, t : s = a \o w /\ t = a2 \o w
  BY Zenon
<1>8. s \in Seq(T) /\ Joins(s, a, w)
  BY <1>7, Joined, Zenon
<1>9. t \in Seq(T) /\ Joins(t, a2, w)
  BY <1>5, <1>7, Joined, Zenon
<1>10. Len(s) = A + W /\ (\A i \in 1 .. A : s[i] = a[i]) /\ \A i \in 1 .. W : s[A + i] = w[i]
  BY <1>1, <1>8, Zenon DEF Joins
<1>11. PICK D : D = A - n
  BY Zenon
<1>11a. D \in Nat
  BY <1>2, <1>11
<1>12. Len(t) = D + W /\ (\A i \in 1 .. D : t[i] = a2[i]) /\ \A i \in 1 .. W : t[D + i] = w[i]
  <2>1. Len(a2) = D
    BY <1>6, <1>11, Zenon
  <2> QED
    BY <1>1, <1>9, <2>1, Zenon DEF Joins
<1>13. ASSUME NEW p \in 1 .. D + W
       PROVE  t[p] = s[p + n]
  <2>1. CASE p \in 1 .. D
    <3>1. p + n \in 1 .. A
      BY <1>2, <1>11, <2>1
    <3> QED
      BY <1>6, <1>10, <1>11, <1>12, <2>1, <3>1, Zenon
  <2>2. CASE p \notin 1 .. D
    <3>1. p - D \in 1 .. W /\ D + (p - D) = p /\ A + (p - D) = p + n
      BY <1>2, <1>11, <2>2
    <3> QED
      BY <1>10, <1>12, <3>1, ZenonT(30)
  <2> QED
    BY <2>1, <2>2, Zenon
<1>14. D + W = A + W - n
  BY <1>2, <1>11
<1>15. DropOf(t, s, n)
  <2>1. Len(t) = D + W /\ Len(s) = A + W
    BY <1>10, <1>12, Zenon
  <2>2. Len(t) = Len(s) - n
    <3>1. \A x, y : x = D + W /\ y = A + W => x = y - n
      BY <1>14
    <3> QED
      BY <2>1, <3>1, Zenon
  <2>3. \A p \in 1 .. Len(t) : t[p] = s[p + n]
    BY <1>13, <2>1, Zenon
  <2> QED
    BY <2>2, <2>3, Zenon DEF DropOf
<1> QED
  BY <1>5, <1>7, <1>9, <1>15, Zenon

\* t is s without the element behind place k.
LeftOut(t, s, k) == Len(t) = Len(s) - 1 /\ \A p \in 1 .. Len(t) : t[p] = IF p <= k THEN s[p] ELSE s[p + 1]

\* The next byte on the wire arrives, or is lost.
LEMMA WireJoined ==
  ASSUME NEW T, NEW a \in Seq(T), NEW w \in Seq(T), w # <<>>
  PROVE  /\ Head(w) \in T /\ Head(w) = w[1] /\ Tail(w) \in Seq(T) /\ IsTail(Tail(w), w) /\ 1 <= Len(w)
         /\ Append(a, Head(w)) \in Seq(T)
         /\ Append(a, Head(w)) \o Tail(w) = a \o w
         /\ a \o Tail(w) \in Seq(T) /\ LeftOut(a \o Tail(w), a \o w, Len(a))
<1>1. PICK A \in Nat, W \in Nat : A = Len(a) /\ W = Len(w)
  OBVIOUS
<1>2. 1 <= W
  BY <1>1
<1>3. PICK h, v : h = Head(w) /\ v = Tail(w)
  BY Zenon
<1>4. h \in T /\ h = w[1]
  BY <1>3
<1>5. v \in Seq(T) /\ IsTail(v, w)
  BY <1>3, TailOf, Zenon
<1>6. Len(v) = W - 1 /\ \A i \in 1 .. W - 1 : v[i] = w[i + 1]
  BY <1>1, <1>5, Zenon DEF IsTail
<1>7. PICK s, t, u, x : s = a \o w /\ t = a \o v /\ u = Append(a, h) /\ x = u \o v
  BY Zenon
<1>8. s \in Seq(T) /\ Joins(s, a, w)
  BY <1>7, Joined, Zenon
<1>9. t \in Seq(T) /\ Joins(t, a, v)
  BY <1>5, <1>7, Joined, Zenon
<1>10. u \in Seq(T) /\ Extends(u, a, h)
  BY <1>4, <1>7, JoinedOne, Zenon
<1>11. x \in Seq(T) /\ Joins(x, u, v)
  BY <1>5, <1>7, <1>10, Joined, Zenon
<1>12. Len(s) = A + W /\ (\A i \in 1 .. A : s[i] = a[i]) /\ \A i \in 1 .. W : s[A + i] = w[i]
  BY <1>1, <1>8, Zenon DEF Joins
<1>13. Len(t) = A + (W - 1) /\ (\A i \in 1 .. A : t[i] = a[i]) /\ \A i \in 1 .. W - 1 : t[A + i] = v[i]
  BY <1>1, <1>6, <1>9, Zenon DEF Joins
<1>14. Len(u) = A + 1 /\ (\A i \in 1 .. A : u[i] = a[i]) /\ u[A + 1] = h
  BY <1>1, <1>10, Zenon DEF Extends
<1>15. Len(x) = A + 1 + (W - 1) /\ (\A i \in 1 .. A + 1 : x[i] = u[i]) /\ \A i \in 1 .. W - 1 : x[A + 1 + i] = v[i]
  BY <1>6, <1>11, <1>14, Zenon DEF Joins
<1>16. x = s
  <2>1. Len(x) = Len(s)
    BY <1>12, <1>15
  <2>2. ASSUME NEW i \in 1 .. A + W
        PROVE  x[i] = s[i]
    <3>1. CASE i \in 1 .. A
      <4>1. i \in 1 .. A + 1
        BY <3>1
      <4> QED
        BY <1>12, <1>14, <1>15, <3>1, <4>1, Zenon
    <3>2. CASE i = A + 1
      <4>1. i \in 1 .. A + 1 /\ 1 \in 1 .. W
        BY <1>2, <3>2
      <4> QED
        BY <1>4, <1>12, <1>14, <1>15, <3>2, <4>1, Zenon
    <3>3. CASE i > A + 1
      <4>1. PICK y : y = i - (A + 1)
        BY Zenon
      <4>2. y \in 1 .. W - 1 /\ i = A + 1 + y /\ y + 1 \in 1 .. W /\ i = A + (y + 1)
        BY <1>2, <3>3, <4>1
      <4>3. x[i] = v[y] /\ v[y] = w[y + 1] /\ s[i] = w[y + 1]
        BY <1>6, <1>12, <1>15, <4>2, Zenon
      <4> QED
        BY <4>3, Zenon
    <3> QED
      BY <3>1, <3>2, <3>3
  <2> QED
    BY <1>8, <1>11, <1>12, <2>1, <2>2, SeqEqual, Zenon
<1>17. LeftOut(t, s, A)
  <2>1. A + (W - 1) = A + W - 1
    BY Zenon
  <2>2. ASSUME NEW p \in 1 .. A + (W - 1)
        PROVE  t[p] = IF p <= A THEN s[p] ELSE s[p + 1]
    <3>1. CASE p \in 1 .. A
      BY <1>12, <1>13, <3>1
    <3>2. CASE p \notin 1 .. A
      <4>1. PICK y : y = p - A
        BY Zenon
      <4>2. y \in 1 .. W - 1 /\ p = A + y /\ y + 1 \in 1 .. W /\ p + 1 = A + (y + 1) /\ ~(p <= A)
        BY <1>2, <3>2, <4>1
      <4>3. t[p] = v[y] /\ v[y] = w[y + 1] /\ s[p + 1] = w[y + 1]
        BY <1>6, <1>12, <1>13, <4>2, Zenon
      <4> QED
        BY <4>2, <4>3, Zenon
    <3> QED
      BY <3>1, <3>2, Zenon
  <2>3. Len(t) = A + (W - 1) /\ Len(s) = A + W
    BY <1>12, <1>13, Zenon
  <2>4. Len(t) = Len(s) - 1
    <3>1. \A y, z : y = A + (W - 1) /\ z = A + W => y = z - 1
      BY <2>1
    <3> QED
      BY <2>3, <3>1, Zenon
  <2>5. \A p \in 1 .. Len(t) : t[p] = IF p <= A THEN s[p] ELSE s[p + 1]
    BY <2>2, <2>3, Zenon
  <2> QED
    BY <2>4, <2>5, Zenon DEF LeftOut
<1> QED
  BY <1>1, <1>2, <1>3, <1>4, <1>5, <1>7, <1>9, <1>10, <1>16, <1>17, Zenon

\* Every byte of s behind place k is of message e.
AllOf(s, k, e) == \A p \in k + 1 .. Len(s) : s[p].of = e

\* What holds of the stream when the byte behind place k is lost and every byte
\* from there on is of the last message, e.
LEMMA LeftOutHolds ==
  ASSUME NEW T, NEW s \in Seq(T), NEW t \in Seq(T), NEW k \in Nat, k < Len(s), LeftOut(t, s, k), NEW e,
         AllOf(s, k, e),
         NEW o \in Nat, 1 <= o, NEW f, Len(f) \in Nat, NEW a \in Nat, a <= Len(f), NEW j, j # e, Holds(s, o, f, a, j)
  PROVE  Holds(t, o, f, a, j)
<1>1. PICK L \in Nat, M \in Nat, N \in Nat : L = Len(f) /\ M = Len(s) /\ N = Len(t)
  OBVIOUS
<1>2. N = M - 1 /\ k < M /\ \A p \in 1 .. N : p <= k => t[p] = s[p]
  BY <1>1, Zenon DEF LeftOut
<1>3. o + L - a <= M /\ \A i \in a .. L : s[o + i - a] = [b |-> f[i], of |-> j]
  BY <1>1, Zenon DEF Holds
<1>4. ASSUME NEW i \in a .. L
      PROVE  o + i - a \in 1 .. N /\ o + i - a <= k
  <2>1. o + i - a \in Nat /\ o + i - a >= 1 /\ o + i - a <= M
    BY <1>3
  <2>2. s[o + i - a].of = j
    <3>1. s[o + i - a] = [b |-> f[i], of |-> j]
      BY <1>3, Zenon
    <3> QED
      BY <3>1
  <2>3. o + i - a \notin k + 1 .. M
    BY <1>1, <2>2, Zenon DEF AllOf
  <2> QED
    BY <1>2, <2>1, <2>3
<1>5. \A i \in a .. L : t[o + i - a] = [b |-> f[i], of |-> j]
  BY <1>2, <1>3, <1>4, Zenon
<1>6. o + L - a <= N
  <2>1. L \in a .. L
    BY <1>1
  <2>2. o + L - a \in 1 .. N
    BY <1>4, <2>1, Zenon
  <2> QED
    BY <2>2
<1> QED
  BY <1>1, <1>5, <1>6, Zenon DEF Holds

\* The delimiter of another message stays.
LEMMA LeftOutZero ==
  ASSUME NEW T, NEW s \in Seq(T), NEW t \in Seq(T), NEW k \in Nat, k < Len(s), LeftOut(t, s, k), NEW e,
         AllOf(s, k, e), NEW j, j # e, HasZero(s, j)
  PROVE  HasZero(t, j)
<1>1. PICK M \in Nat, N \in Nat : M = Len(s) /\ N = Len(t)
  OBVIOUS
<1>2. N = M - 1 /\ k < M /\ \A p \in 1 .. N : p <= k => t[p] = s[p]
  BY <1>1, Zenon DEF LeftOut
<1>3. PICK q \in 1 .. M : s[q].b = 0 /\ s[q].of = j
  BY <1>1, Zenon DEF HasZero
<1>4. q \notin k + 1 .. M
  BY <1>1, <1>3, Zenon DEF AllOf
<1>5. q <= k /\ q \in 1 .. N
  BY <1>2, <1>4
<1>6. t[q] = s[q]
  BY <1>2, <1>5, Zenon
<1> QED
  BY <1>1, <1>3, <1>5, <1>6, Zenon DEF HasZero

\* A byte of the last message is lost.
LEMMA LoseLine ==
  ASSUME NEW d, NEW S, NEW s, NEW H, NEW r, NEW g, NEW c, SLine(S, s, H), RxLine(d, S, s, H, r, g, c),
         NEW t \in Seq(StreamByte(S)), NEW k \in Nat, k < Len(s), LeftOut(t, s, k), NEW e, e = Len(S),
         AllOf(s, k, e), NEW H2, H2 = H \union {e}
  PROVE  SLine(S, t, H2) /\ RxLine(d, S, t, H2, r, g, c)
<1>1. S \in Seq(Messages) /\ s \in Seq(StreamByte(S))
  BY Zenon DEF SLine
<1>2. Len(S) \in Nat /\ e \in Nat
  BY <1>1
<1>3. PICK M \in Nat, N \in Nat : M = Len(s) /\ N = Len(t)
  BY <1>1
<1>4. N = M - 1 /\ k < M /\ \A p \in 1 .. N : t[p] = IF p <= k THEN s[p] ELSE s[p + 1]
  BY <1>3, Zenon DEF LeftOut
<1>5. /\ \A p, q \in 1 .. M : p < q => s[p].of <= s[q].of /\ (s[q].b = 0 => s[p].of # s[q].of)
      /\ \A p \in 1 .. M : s[p].b = 0 /\ s[p].of \notin H => Holds(s, p, Fr(S, s[p].of), 1, s[p].of)
      /\ \A p \in 1 .. M : \A m \in 1 .. Len(S) : m \notin H /\ s[p].of < m => HasZero(s, m)
  BY <1>3, Zenon DEF SLine
<1>6. ASSUME NEW j, j \notin H2
      PROVE  j \notin H /\ j # e /\ (HasZero(s, j) => HasZero(t, j))
  <2>1. j \notin H /\ j # e
    BY <1>6, Zenon
  <2> QED
    BY <1>1, <2>1, LeftOutZero, Zenon
<1>7. ASSUME NEW p \in 1 .. N
      PROVE  \E x \in 1 .. M : t[p] = s[x] /\ x = IF p <= k THEN p ELSE p + 1
  BY <1>4
<1>8. ASSUME NEW p \in 1 .. N, NEW q \in 1 .. N, p < q
      PROVE  t[p].of <= t[q].of /\ (t[q].b = 0 => t[p].of # t[q].of)
  <2>1. PICK x \in 1 .. M : t[p] = s[x] /\ x = IF p <= k THEN p ELSE p + 1
    BY <1>7, Zenon
  <2>2. PICK y \in 1 .. M : t[q] = s[y] /\ y = IF q <= k THEN q ELSE q + 1
    BY <1>7, Zenon
  <2>3. x < y
    BY <1>8, <2>1, <2>2
  <2> QED
    BY <1>5, <2>1, <2>2, <2>3, Zenon
<1>9. ASSUME NEW p \in 1 .. N, t[p].b = 0, t[p].of \notin H2
      PROVE  Holds(t, p, Fr(S, t[p].of), 1, t[p].of)
  <2>1. PICK x \in 1 .. M : t[p] = s[x] /\ x = IF p <= k THEN p ELSE p + 1
    BY <1>7, Zenon
  <2>2. PICK j : j = t[p].of /\ j = s[x].of
    BY <2>1, Zenon
  <2>3. j \notin H /\ j # e
    BY <1>6, <1>9, <2>2, Zenon
  <2>4. x = p
    <3>1. x \notin k + 1 .. M
      BY <1>3, <2>2, <2>3, Zenon DEF AllOf
    <3> QED
      BY <2>1, <3>1
  <2>5. j \in 1 .. Len(S)
    BY <1>1, <1>2, <1>3, <2>2, StreamBytes, Zenon
  <2>6. PICK f : f = Fr(S, j)
    BY Zenon
  <2>7. Holds(s, p, f, 1, j)
    BY <1>5, <1>9, <2>1, <2>2, <2>3, <2>4, <2>6, Zenon
  <2>8. Len(f) \in 6 .. MAX_PAYLOAD_SIZE + 6 /\ Len(f) \in Nat
    BY <1>1, <2>5, <2>6, SentFrame, Zenon
  <2>9. 1 <= Len(f) /\ 1 \in Nat /\ p \in Nat /\ 1 <= p
    BY <2>8, WireNumbers
  <2>10. Holds(t, p, f, 1, j)
    BY <1>1, <2>3, <2>7, <2>8, <2>9, LeftOutHolds
  <2> QED
    BY <2>2, <2>6, <2>10, Zenon
<1>10. ASSUME NEW p \in 1 .. N, NEW m \in 1 .. Len(S), m \notin H2, t[p].of < m
       PROVE  HasZero(t, m)
  <2>1. PICK x \in 1 .. M : t[p] = s[x]
    BY <1>7, Zenon
  <2>2. HasZero(s, m)
    BY <1>5, <1>6, <1>10, <2>1, Zenon
  <2> QED
    BY <1>6, <1>10, <2>2, Zenon
<1>11. SLine(S, t, H2)
  BY <1>1, <1>3, <1>8, <1>9, <1>10, Zenon DEF SLine
<1>12. ASSUME r.at # "seek"
       PROVE  RLine(S, t, H2, r.of) /\ (r.of \notin H2 => InStep(S, t, r))
  <2>1. RLine(S, s, H, r.of) /\ (r.of \notin H => InStep(S, s, r))
    BY <1>12, Zenon DEF RxLine
  <2>2. r.of \in 1 .. Len(S)
    BY <2>1, Zenon DEF RLine
  <2>3. \A p \in 1 .. N : r.of <= t[p].of /\ (t[p].b = 0 => r.of # t[p].of)
    <3>1. \A p \in 1 .. M : r.of <= s[p].of /\ (s[p].b = 0 => r.of # s[p].of)
      BY <1>3, <2>1, Zenon DEF RLine
    <3> QED
      BY <1>7, <3>1, Zenon
  <2>4. \A m \in 1 .. Len(S) : m \notin H2 /\ r.of < m => HasZero(t, m)
    BY <1>6, <2>1, Zenon DEF RLine
  <2>5. RLine(S, t, H2, r.of)
    BY <1>3, <2>2, <2>3, <2>4, Zenon DEF RLine
  <2>6. ASSUME r.of \notin H2
        PROVE  InStep(S, t, r)
    <3>1. PICK f : f = Fr(S, r.of)
      BY Zenon
    <3>2. r.of \notin H /\ r.of # e
      BY <1>6, <2>6, Zenon
    <3>3. Len(f) \in 6 .. MAX_PAYLOAD_SIZE + 6 /\ Len(f) \in Nat
      BY <1>1, <2>2, <3>1, SentFrame, Zenon
    <3>4. 2 <= Len(f) /\ 3 <= Len(f) /\ 2 \in Nat /\ 3 \in Nat /\ 1 \in Nat /\ 1 <= 1
      BY <3>3, WireNumbers
    <3>5. \A a \in {2, 3} : Holds(s, 1, f, a, r.of) => Holds(t, 1, f, a, r.of)
      BY <1>1, <3>2, <3>3, <3>4, LeftOutHolds
    <3>6. InStep(S, s, r)
      BY <2>1, <3>2, Zenon
    <3> QED
      BY <3>1, <3>5, <3>6, Zenon DEF InStep
  <2> QED
    BY <2>5, <2>6, Zenon
<1>13. ASSUME NEW j, Excused(d, H, j)
       PROVE  Excused(d, H2, j)
  BY <1>13, Zenon DEF Excused
<1>14. \A j \in 1 .. Len(S) :
         j \in H2 \/ j \in g \/ HasZero(t, j) \/ (r.at # "seek" /\ r.of = j)
                  \/ Excused(d, H2, j) \/ (d = "down" /\ j \in c)
  BY <1>6, <1>13, Zenon DEF RxLine
<1>15. RxLine(d, S, t, H2, r, g, c)
  BY <1>12, <1>14, Zenon DEF RxLine
<1> QED
  BY <1>11, <1>15, Zenon

\* t is s with frame f of message e behind it.
IsSent(t, s, f, e) ==
  /\ Len(t) = Len(s) + Len(f)
  /\ \A p \in 1 .. Len(s) : t[p] = s[p]
  /\ \A i \in 1 .. Len(f) : t[Len(s) + i] = [b |-> f[i], of |-> e]

\* What the stream holds stays when a frame is sent.
LEMMA SentHolds ==
  ASSUME NEW t, NEW s, Len(s) \in Nat, NEW f, Len(f) \in Nat, NEW e, IsSent(t, s, f, e),
         NEW o \in Nat, 1 <= o, NEW h, Len(h) \in Nat, NEW a \in Nat, NEW j, Holds(s, o, h, a, j)
  PROVE  Holds(t, o, h, a, j)
<1>1. PICK L \in Nat, M \in Nat, N \in Nat : L = Len(f) /\ M = Len(s) /\ N = Len(h)
  BY Zenon
<1>2. PICK K \in Nat : K = Len(t) /\ K = M + L /\ \A p \in 1 .. M : t[p] = s[p]
  <2>1. Len(t) = M + L /\ M + L \in Nat
    <3>1. Len(t) = M + L
      BY <1>1, Zenon DEF IsSent
    <3> QED
      BY <3>1
  <2> QED
    BY <1>1, <2>1, Zenon DEF IsSent
<1>3. o + N - a <= M /\ \A i \in a .. N : s[o + i - a] = [b |-> h[i], of |-> j]
  BY <1>1, Zenon DEF Holds
<1>4. o + N - a <= K
  BY <1>2, <1>3
<1>5. \A i \in a .. N : o + i - a \in 1 .. M
  BY <1>3
<1>6. \A i \in a .. N : t[o + i - a] = [b |-> h[i], of |-> j]
  BY <1>2, <1>3, <1>5, Zenon
<1> QED
  BY <1>1, <1>2, <1>4, <1>6, Zenon DEF Holds

\* S2 is S with m, message e of frame f, and only messages of S lost bytes.
IsNext(S, H, m, S2, f, e) ==
  S2 = Append(S, m) /\ f = message_to_bytes(m) /\ e = Len(S) + 1 /\ H \subseteq 1 .. Len(S)

\* The message goes onto the line.
LEMMA SendLine ==
  ASSUME NEW d, NEW S, NEW s, NEW H, NEW r, NEW g, NEW c, SLine(S, s, H), RxLine(d, S, s, H, r, g, c),
         NEW m \in Messages, NEW S2, NEW f, NEW e, IsNext(S, H, m, S2, f, e),
         NEW t \in Seq(StreamByte(S2)), IsSent(t, s, f, e)
  PROVE  SLine(S2, t, H) /\ RxLine(d, S2, t, H, r, g, c)
<1>0. S2 = Append(S, m) /\ f = message_to_bytes(m) /\ e = Len(S) + 1 /\ H \subseteq 1 .. Len(S)
  BY Zenon DEF IsNext
<1>1. S \in Seq(Messages) /\ s \in Seq(StreamByte(S))
  BY Zenon DEF SLine
<1>2. PICK n \in Nat : n = Len(S)
  BY <1>1
<1>3. e = n + 1 /\ e \in Nat /\ H \subseteq 1 .. n
  BY <1>0, <1>2
<1>4. /\ S2 \in Seq(Messages) /\ Len(S2) = e /\ S2[e] = m
      /\ \A j \in 1 .. n : S2[j] = S[j]
  BY <1>0, <1>1, <1>2
<1>5. Fr(S2, e) = f /\ \A j \in 1 .. n : Fr(S2, j) = Fr(S, j)
  BY <1>0, <1>4, Zenon DEF Fr
<1>6. GoodFrame(f)
  BY <1>0, Frames, Zenon
<1>7. /\ Len(f) \in 6 .. MAX_PAYLOAD_SIZE + 6 /\ f[1] = 0
      /\ \A k \in 2 .. Len(f) : f[k] # 0
  BY <1>6, Zenon DEF GoodFrame
<1>8. PICK L \in Nat : L = Len(f) /\ 6 <= L
  BY <1>7, WireNumbers
<1>9. PICK M \in Nat : M = Len(s)
  BY <1>1
<1>10. PICK K \in Nat : K = Len(t)
  OBVIOUS
<1>11. /\ K = M + L /\ \A p \in 1 .. M : t[p] = s[p]
       /\ \A i \in 1 .. L : t[M + i] = [b |-> f[i], of |-> e]
  BY <1>8, <1>9, <1>10, Zenon DEF IsSent
<1>12. /\ \A p, q \in 1 .. M : p < q => s[p].of <= s[q].of /\ (s[q].b = 0 => s[p].of # s[q].of)
       /\ \A p \in 1 .. M : s[p].b = 0 /\ s[p].of \notin H => Holds(s, p, Fr(S, s[p].of), 1, s[p].of)
       /\ \A p \in 1 .. M : \A x \in 1 .. n : x \notin H /\ s[p].of < x => HasZero(s, x)
  BY <1>2, <1>9, Zenon DEF SLine
<1>13. \A p \in 1 .. M : s[p].of \in 1 .. n
  BY <1>1, <1>2, <1>9, StreamBytes, Zenon
<1>14. ASSUME NEW p \in M + 1 .. K
       PROVE  t[p].of = e /\ (t[p].b = 0 => p = M + 1)
  <2>1. p - M \in 1 .. L /\ M + (p - M) = p
    BY <1>11
  <2>2. t[p] = [b |-> f[p - M], of |-> e]
    <3>1. t[M + (p - M)] = [b |-> f[p - M], of |-> e]
      BY <1>11, <2>1, Zenon
    <3> QED
      BY <2>1, <3>1, Zenon
  <2>3. f[p - M] = 0 => p - M = 1
    BY <1>7, <1>8, <2>1
  <2>4. t[p].of = e /\ t[p].b = f[p - M]
    BY <2>2
  <2>5. p - M = 1 => p = M + 1
    OBVIOUS
  <2> QED
    BY <2>3, <2>4, <2>5, Zenon
<1>15. M + 1 \in 1 .. K /\ t[M + 1].b = 0 /\ t[M + 1].of = e
  <2>1. 1 \in 1 .. L
    BY <1>8
  <2>2. t[M + 1] = [b |-> f[1], of |-> e]
    BY <1>11, <2>1, Zenon
  <2> QED
    BY <1>7, <1>8, <1>11, <2>2
<1>16. HasZero(t, e)
  BY <1>10, <1>15, Zenon DEF HasZero
<1>17. \A j : HasZero(s, j) => HasZero(t, j)
  <2>1. \A p \in 1 .. M : p \in 1 .. K /\ t[p] = s[p]
    BY <1>11
  <2> QED
    BY <1>9, <1>10, <2>1, Zenon DEF HasZero
<1>18. Holds(t, M + 1, f, 1, e)
  <2>1. M + 1 + L - 1 = K /\ K <= K /\ \A i \in 1 .. L : M + 1 + i - 1 = M + i
    BY <1>11
  <2>2. \A i \in 1 .. L : t[M + 1 + i - 1] = [b |-> f[i], of |-> e]
    BY <1>11, <2>1, Zenon
  <2>3. M + 1 + L - 1 <= K
    BY <2>1, Zenon
  <2> QED
    BY <1>8, <1>10, <2>2, <2>3, Zenon DEF Holds
<1>19. ASSUME NEW p \in 1 .. K, NEW q \in 1 .. K, p < q
       PROVE  t[p].of <= t[q].of /\ (t[q].b = 0 => t[p].of # t[q].of)
  <2>1. CASE q \in 1 .. M
    <3>1. p \in 1 .. M
      BY <1>19, <2>1
    <3> QED
      BY <1>11, <1>12, <1>19, <2>1, <3>1, Zenon
  <2>2. CASE q \notin 1 .. M /\ p \in 1 .. M
    <3>1. q \in M + 1 .. K
      BY <2>2
    <3>2. t[p].of \in 1 .. n
      BY <1>11, <1>13, <2>2, Zenon
    <3> QED
      BY <1>3, <1>14, <3>1, <3>2, SMTT(30)
  <2>3. CASE q \notin 1 .. M /\ p \notin 1 .. M
    <3>1. q \in M + 1 .. K /\ p \in M + 1 .. K /\ q # M + 1
      BY <1>19, <2>3
    <3> QED
      BY <1>3, <1>14, <3>1
  <2> QED
    BY <2>1, <2>2, <2>3, Zenon
<1>20. ASSUME NEW j \in 1 .. n
       PROVE  Len(Fr(S, j)) \in Nat
  BY <1>1, <1>2, SentFrame, Zenon
<1>21. ASSUME NEW p \in 1 .. K, t[p].b = 0, t[p].of \notin H
       PROVE  Holds(t, p, Fr(S2, t[p].of), 1, t[p].of)
  <2>1. CASE p \in 1 .. M
    <3>1. PICK j \in 1 .. n : j = t[p].of /\ j = s[p].of
      BY <1>11, <1>13, <2>1, Zenon
    <3>2. PICK h : h = Fr(S, j)
      BY Zenon
    <3>3. Holds(s, p, h, 1, j)
      BY <1>11, <1>12, <1>21, <2>1, <3>1, <3>2, Zenon
    <3>4. Len(h) \in Nat /\ p \in Nat /\ 1 <= p /\ 1 \in Nat /\ Len(s) \in Nat /\ Len(f) \in Nat
      BY <1>8, <1>9, <1>20, <3>2
    <3>5. Holds(t, p, h, 1, j)
      BY <3>3, <3>4, SentHolds, Zenon
    <3> QED
      BY <1>5, <3>1, <3>2, <3>5, Zenon
  <2>2. CASE p \notin 1 .. M
    <3>1. p \in M + 1 .. K
      BY <2>2
    <3>2. p = M + 1 /\ t[p].of = e
      BY <1>14, <1>21, <3>1, Zenon
    <3> QED
      BY <1>5, <1>18, <3>2, Zenon
  <2> QED
    BY <2>1, <2>2, Zenon
<1>22. ASSUME NEW p \in 1 .. K, NEW x \in 1 .. e, x \notin H, t[p].of < x
       PROVE  HasZero(t, x)
  <2>1. CASE x = e
    BY <1>16, <2>1, Zenon
  <2>2. CASE x # e
    <3>1. x \in 1 .. n
      BY <1>3, <2>2
    <3>2. CASE p \in 1 .. M
      BY <1>11, <1>12, <1>17, <1>22, <3>1, <3>2, Zenon
    <3>3. CASE p \notin 1 .. M
      <4>1. p \in M + 1 .. K
        BY <3>3
      <4>2. t[p].of = e
        BY <1>14, <4>1, Zenon
      <4> QED
        BY <1>3, <1>22, <3>1, <4>2
    <3> QED
      BY <3>2, <3>3, Zenon
  <2> QED
    BY <2>1, <2>2, Zenon
<1>23. SLine(S2, t, H)
  BY <1>4, <1>10, <1>19, <1>21, <1>22, Zenon DEF SLine
<1>24. ASSUME r.at # "seek"
       PROVE  RLine(S2, t, H, r.of) /\ (r.of \notin H => InStep(S2, t, r))
  <2>1. RLine(S, s, H, r.of) /\ (r.of \notin H => InStep(S, s, r))
    BY <1>24, Zenon DEF RxLine
  <2>2. /\ r.of \in 1 .. n
        /\ \A p \in 1 .. M : r.of <= s[p].of /\ (s[p].b = 0 => r.of # s[p].of)
        /\ \A x \in 1 .. n : x \notin H /\ r.of < x => HasZero(s, x)
    BY <1>2, <1>9, <2>1, Zenon DEF RLine
  <2>3. r.of \in 1 .. e /\ r.of < e
    BY <1>3, <2>2
  <2>4. ASSUME NEW p \in 1 .. K
        PROVE  r.of <= t[p].of /\ (t[p].b = 0 => r.of # t[p].of)
    <3>1. CASE p \in 1 .. M
      BY <1>11, <2>2, <3>1, Zenon
    <3>2. CASE p \notin 1 .. M
      <4>1. p \in M + 1 .. K
        BY <3>2
      <4>2. t[p].of = e
        BY <1>14, <4>1, Zenon
      <4> QED
        BY <1>3, <2>2, <2>3, <4>2
    <3> QED
      BY <3>1, <3>2, Zenon
  <2>5. ASSUME NEW x \in 1 .. e, x \notin H, r.of < x
        PROVE  HasZero(t, x)
    <3>1. x = e \/ x \in 1 .. n
      BY <1>3
    <3> QED
      BY <1>16, <1>17, <2>2, <2>5, <3>1, Zenon
  <2>6. RLine(S2, t, H, r.of)
    BY <1>4, <1>10, <2>3, <2>4, <2>5, Zenon DEF RLine
  <2>7. ASSUME r.of \notin H
        PROVE  InStep(S2, t, r)
    <3>1. PICK h : h = Fr(S, r.of) /\ h = Fr(S2, r.of)
      BY <1>5, <2>2, Zenon
    <3>2. Len(h) \in Nat /\ 1 \in Nat /\ 1 <= 1 /\ 2 \in Nat /\ 3 \in Nat /\ Len(s) \in Nat /\ Len(f) \in Nat
      BY <1>8, <1>9, <1>20, <2>2, <3>1
    <3>3. Holds(s, 1, h, 2, r.of) => Holds(t, 1, h, 2, r.of)
      BY <3>2, SentHolds, Zenon
    <3>4. Holds(s, 1, h, 3, r.of) => Holds(t, 1, h, 3, r.of)
      BY <3>2, SentHolds, Zenon
    <3>5. InStep(S, s, r)
      BY <2>1, <2>7, Zenon
    <3> QED
      BY <3>1, <3>3, <3>4, <3>5, Zenon DEF InStep
  <2> QED
    BY <2>6, <2>7, Zenon
<1>25. ASSUME NEW j \in 1 .. e
       PROVE  j \in H \/ j \in g \/ HasZero(t, j) \/ (r.at # "seek" /\ r.of = j)
                \/ Excused(d, H, j) \/ (d = "down" /\ j \in c)
  <2>1. j = e \/ j \in 1 .. n
    BY <1>3
  <2>2. j \in 1 .. n =>
          j \in H \/ j \in g \/ HasZero(s, j) \/ (r.at # "seek" /\ r.of = j)
             \/ Excused(d, H, j) \/ (d = "down" /\ j \in c)
    BY <1>2, Zenon DEF RxLine
  <2> QED
    BY <1>16, <1>17, <2>1, <2>2, Zenon
<1>26. /\ r \in [at : {"seek", "length", "body"}, len : Nat, of : 0 .. n]
       /\ d = "up" /\ r.at = "body" => r.len <= MAX_PAYLOAD_SIZE + 4
  BY <1>2, Zenon DEF RxLine
<1>27. r \in [at : {"seek", "length", "body"}, len : Nat, of : 0 .. e]
  BY <1>3, <1>26
<1>28. RxLine(d, S2, t, H, r, g, c)
  BY <1>4, <1>24, <1>25, <1>26, <1>27, Zenon DEF RxLine
<1> QED
  BY <1>23, <1>28, Zenon

\* In step in front of a length: the next byte is one, and the right one.
LEMMA InStepLength ==
  ASSUME NEW S \in Seq(Messages), NEW s, NEW r, r.of \in 1 .. Len(S), r.at = "length", InStep(S, s, r), Len(s) \in Nat
  PROVE  1 <= Len(s) /\ s[1].b \in 4 .. MAX_PAYLOAD_SIZE + 4 /\ s[1].b # 0
<1>1. PICK f : f = Fr(S, r.of)
  BY Zenon
<1>2. GoodFrame(f) /\ Len(f) \in Nat
  BY <1>1, SentFrame, Zenon
<1>3. Len(f) \in 6 .. MAX_PAYLOAD_SIZE + 6 /\ f[2] = Len(f) - 2
  BY <1>2, Zenon DEF GoodFrame
<1>4. PICK L \in Nat : L = Len(f)
  BY <1>2, Zenon
<1>5. Holds(s, 1, f, 2, r.of)
  BY <1>1, Zenon DEF InStep
<1>6. 1 + L - 2 <= Len(s) /\ \A i \in 2 .. L : s[1 + i - 2] = [b |-> f[i], of |-> r.of]
  BY <1>4, <1>5, Zenon DEF Holds
<1>7. L >= 6 /\ L <= MAX_PAYLOAD_SIZE + 6 /\ 2 \in 2 .. L /\ 1 + 2 - 2 = 1
  BY <1>3, <1>4, WireNumbers
<1>8. s[1] = [b |-> f[2], of |-> r.of]
  BY <1>6, <1>7, Zenon
<1>9. s[1].b = L - 2
  <2>1. f[2] = L - 2
    BY <1>3, <1>4, Zenon
  <2> QED
    BY <1>8, <2>1
<1>10. L - 2 \in 4 .. MAX_PAYLOAD_SIZE + 4 /\ L - 2 # 0 /\ 1 <= Len(s)
  <2>1. MAX_PAYLOAD_SIZE \in Nat
    BY WireNumbers, Zenon
  <2>2. PICK N \in Nat : N = Len(s)
    BY Zenon
  <2>3. 1 + L - 2 <= N
    BY <1>6, <2>2, Zenon
  <2>4. 1 <= N
    BY <1>7, <2>3
  <2>5. L - 2 \in 4 .. MAX_PAYLOAD_SIZE + 4 /\ L - 2 # 0
    BY <1>7, <2>1
  <2> QED
    BY <2>2, <2>4, <2>5, Zenon
<1> QED
  BY <1>9, <1>10, Zenon

\* The bytes the receiver counts on are those of f from the third on.
BodyOf(s, f, n) == n <= Len(s) /\ n = Len(f) - 2 /\ \A i \in 1 .. n : s[i].b = f[i + 2] /\ s[i].b # 0

\* In step in front of a body: it is the one of the message.
LEMMA InStepBody ==
  ASSUME NEW S \in Seq(Messages), NEW s, NEW r, r.of \in 1 .. Len(S), r.at = "body", InStep(S, s, r), Len(s) \in Nat
  PROVE  BodyOf(s, Fr(S, r.of), r.len)
<1>1. PICK f : f = Fr(S, r.of)
  BY Zenon
<1>2. GoodFrame(f) /\ Len(f) \in Nat
  BY <1>1, SentFrame, Zenon
<1>3. Len(f) \in 6 .. MAX_PAYLOAD_SIZE + 6 /\ \A k \in 2 .. Len(f) : f[k] # 0
  BY <1>2, Zenon DEF GoodFrame
<1>4. PICK L \in Nat : L = Len(f)
  BY <1>2, Zenon
<1>5. Holds(s, 1, f, 3, r.of) /\ r.len = L - 2
  BY <1>1, <1>4, Zenon DEF InStep
<1>6. 1 + L - 3 <= Len(s) /\ \A i \in 3 .. L : s[1 + i - 3] = [b |-> f[i], of |-> r.of]
  BY <1>4, <1>5, Zenon DEF Holds
<1>7. L - 2 <= Len(s)
  BY <1>6
<1>8. ASSUME NEW i \in 1 .. L - 2
      PROVE  s[i].b = f[i + 2] /\ s[i].b # 0
  <2>1. i + 2 \in 3 .. L /\ i + 2 \in 2 .. L /\ 1 + (i + 2) - 3 = i
    OBVIOUS
  <2>2. s[i] = [b |-> f[i + 2], of |-> r.of]
    BY <1>6, <2>1, Zenon
  <2>3. f[i + 2] # 0
    BY <1>3, <1>4, <2>1, Zenon
  <2> QED
    BY <2>2, <2>3
<1> QED
  BY <1>1, <1>4, <1>5, <1>7, <1>8, Zenon DEF BodyOf

\* The stream of a state.
LEMMA StreamFacts ==
  ASSUME LineInv
  PROVE  /\ stream \in Seq(StreamByte(sent)) /\ Joins(stream, serial, wire)
         /\ FrontIs(stream, serial) /\ Len(serial) \in Nat /\ Len(stream) \in Nat /\ Len(wire) \in Nat
<1>1. wire \in Seq(StreamByte(sent)) /\ serial \in Seq(StreamByte(sent))
  BY Zenon DEF LineInv
<1>2. stream \in Seq(StreamByte(sent)) /\ Joins(stream, serial, wire)
  BY <1>1, Joined, Zenon DEF stream
<1>3. PICK A \in Nat, W \in Nat, N \in Nat : A = Len(serial) /\ W = Len(wire) /\ N = Len(stream)
  BY <1>1, <1>2
<1>4. N = A + W /\ \A p \in 1 .. A : stream[p] = serial[p]
  BY <1>2, <1>3, Zenon DEF Joins
<1>5. A <= N
  BY <1>4
<1> QED
  BY <1>2, <1>3, <1>4, <1>5, Zenon DEF FrontIs

\* The receiver takes n bytes: what is left to show is how it stands then.
LEMMA TakeLine ==
  ASSUME LineInv, NEW n \in 0 .. Len(serial), NEW next, Take(n, next)
  PROVE  \E t \in Seq(StreamByte(sent)) :
           /\ DropOf(t, stream, n)
           /\ RxLine(dir, sent, t, Hits, next, got', raced') => LineInv'
<1>1. wire \in Seq(StreamByte(sent)) /\ serial \in Seq(StreamByte(sent))
  BY Zenon DEF LineInv
<1>2. PICK a2 : a2 = SubSeq(serial, n + 1, Len(serial))
  BY Zenon
<1>3. serial' = a2 /\ rx' = next /\ dir' = dir /\ sent' = sent /\ wire' = wire /\ hit' = hit
  BY <1>2, Zenon DEF Take
<1>4. a2 \in Seq(StreamByte(sent)) /\ a2 \o wire \in Seq(StreamByte(sent)) /\ DropOf(a2 \o wire, serial \o wire, n)
  BY <1>1, <1>2, DropJoined, ZenonT(30)
<1>5. PICK t : t = a2 \o wire
  BY Zenon
<1>6. stream' = t
  BY <1>3, <1>5, Zenon DEF stream
<1>7. Hits' = Hits
  BY <1>3, Zenon DEF Hits
<1>8. t \in Seq(StreamByte(sent)) /\ DropOf(t, stream, n)
  BY <1>4, <1>5, Zenon DEF stream
<1>9. n \in 0 .. Len(stream)
  BY StreamFacts DEF FrontIs
<1>10. SLine(sent, stream, Hits)
  BY Zenon DEF LineInv
<1>11. SLine(sent, t, Hits)
  BY <1>8, <1>9, <1>10, DropSLine, Zenon
<1>12. /\ dir \in {"up", "down"} /\ hit \in Seq(1 .. Len(sent))
       /\ \A p \in 1 .. Len(wire) : wire[p].of = Len(sent)
  BY Zenon DEF LineInv
<1>13. ASSUME RxLine(dir, sent, t, Hits, next, got', raced')
       PROVE  LineInv'
  <2>1. dir' \in {"up", "down"} /\ hit' \in Seq(1 .. Len(sent'))
    BY <1>3, <1>12, Zenon
  <2>2. wire' \in Seq(StreamByte(sent')) /\ serial' \in Seq(StreamByte(sent'))
    BY <1>1, <1>3, <1>4, Zenon DEF StreamByte
  <2>3. \A p \in 1 .. Len(wire') : wire'[p].of = Len(sent')
    BY <1>3, <1>12, Zenon
  <2>4. SLine(sent', stream', Hits')
    BY <1>3, <1>6, <1>7, <1>11, Zenon
  <2>5. RxLine(dir', sent', stream', Hits', rx', got', raced')
    BY <1>3, <1>6, <1>7, <1>13, Zenon
  <2> QED
    BY <2>1, <2>2, <2>3, <2>4, <2>5, Zenon DEF LineInv
<1> QED
  BY <1>8, <1>13, Zenon

\* What the invariant says of the receiver.
LEMMA ReceiverFacts ==
  ASSUME LineInv
  PROVE  /\ SLine(sent, stream, Hits) /\ RxLine(dir, sent, stream, Hits, rx, got, raced) /\ sent \in Seq(Messages)
         /\ rx \in [at : {"seek", "length", "body"}, len : Nat, of : 0 .. Len(sent)]
         /\ rx.at # "seek" => /\ RLine(sent, stream, Hits, rx.of) /\ rx.of \in 1 .. Len(sent)
                              /\ rx.of \notin Hits => InStep(sent, stream, rx)
<1>1. SLine(sent, stream, Hits) /\ RxLine(dir, sent, stream, Hits, rx, got, raced)
  BY Zenon DEF LineInv
<1>2. sent \in Seq(Messages)
  BY <1>1, Zenon DEF SLine
<1>3. /\ rx \in [at : {"seek", "length", "body"}, len : Nat, of : 0 .. Len(sent)]
      /\ rx.at # "seek" => /\ RLine(sent, stream, Hits, rx.of)
                           /\ rx.of \notin Hits => InStep(sent, stream, rx)
  BY <1>1, Zenon DEF RxLine
<1>4. rx.at # "seek" => rx.of \in 1 .. Len(sent)
  BY <1>3, Zenon DEF RLine
<1> QED
  BY <1>1, <1>2, <1>3, <1>4, Zenon

\* No zero in front of place n.
NoZero(s, n) == \A p \in 1 .. n : s[p].b # 0

\* The first zero of what arrived.
LEMMA FirstZero ==
  ASSUME NEW n \in Nat, Zeroes(n) # {}
  PROVE  /\ Min(Zeroes(n)) \in 1 .. n /\ serial[Min(Zeroes(n))].b = 0
         /\ \A p \in 1 .. Min(Zeroes(n)) - 1 : serial[p].b # 0
<1>1. \E z \in 1 .. n : /\ z \in Zeroes(n) /\ \A y \in Zeroes(n) : z <= y
  <2>1. Zeroes(n) \in SUBSET Nat /\ Zeroes(n) \subseteq 1 .. n
    BY DEF Zeroes
  <2>2. PICK z \in Zeroes(n) : \A y \in Zeroes(n) : z <= y
    BY <2>1, Least, Zenon
  <2> QED
    BY <2>1, <2>2, Zenon
<1>2. PICK z \in 1 .. n : z \in Zeroes(n) /\ \A y \in Zeroes(n) : z <= y
  BY <1>1, Zenon
<1>3. Zeroes(n) \in SUBSET Int
  BY DEF Zeroes
<1>4. Min(Zeroes(n)) = z
  BY <1>2, <1>3, MinIs, Zenon
<1>5. serial[z].b = 0
  BY <1>2, Zenon DEF Zeroes
<1>6. ASSUME NEW p \in 1 .. z - 1
      PROVE  serial[p].b # 0
  <2>1. p \in 1 .. n /\ ~(z <= p)
    BY <1>2
  <2> QED
    BY <1>2, <2>1, Zenon DEF Zeroes
<1> QED
  BY <1>4, <1>5, <1>6, Zenon

\* Every delimiter among the first n bytes belongs to a message that may be lost.
Spares(d, s, n, H) == \A z \in 1 .. n : s[z].b = 0 => s[z].of \in H \/ Excused(d, H, s[z].of)

\* The receiver takes n bytes and looks for the next delimiter.
LEMMA SeekLine ==
  ASSUME LineInv, NEW n \in 0 .. Len(serial), Take(n, Seek), got \subseteq got', raced \subseteq raced',
         Spares(dir, stream, n, Hits),
         rx.at # "seek" => rx.of \in Hits \/ rx.of \in got' \/ (dir = "down" /\ rx.of \in raced')
  PROVE  LineInv'
<1>1. PICK t \in Seq(StreamByte(sent)) :
        /\ DropOf(t, stream, n)
        /\ RxLine(dir, sent, t, Hits, Seek, got', raced') => LineInv'
  BY TakeLine, Zenon
<1>2. SLine(sent, stream, Hits) /\ RxLine(dir, sent, stream, Hits, rx, got, raced)
  BY ReceiverFacts, Zenon
<1>3. n \in 0 .. Len(stream)
  BY StreamFacts DEF FrontIs
<1>4. (\A j \in got : j \in got') /\ (\A j \in raced : j \in raced')
  BY Zenon
<1>5. \A z \in 1 .. n : stream[z].b = 0 => stream[z].of \in Hits \/ Excused(dir, Hits, stream[z].of)
  BY Zenon DEF Spares
<1>6. RxLine(dir, sent, t, Hits, Seek, got', raced')
  BY <1>1, <1>2, <1>3, <1>4, <1>5, ToSeek, Zenon
<1> QED
  BY <1>1, <1>6, Zenon

\* The receiver finds the first delimiter at place z.
LEMMA DelimiterLine ==
  ASSUME LineInv, NEW z \in 1 .. Len(serial), Take(z, Delimiter(z)), got' = got, raced' = raced,
         rx.at = "seek", serial[z].b = 0, NoZero(serial, z - 1)
  PROVE  LineInv'
<1>1. PICK t \in Seq(StreamByte(sent)) :
        /\ DropOf(t, stream, z)
        /\ RxLine(dir, sent, t, Hits, Delimiter(z), got', raced') => LineInv'
  <2>1. z \in 0 .. Len(serial)
    OBVIOUS
  <2> QED
    BY <2>1, TakeLine, Zenon
<1>2. SLine(sent, stream, Hits) /\ RxLine(dir, sent, stream, Hits, rx, got, raced)
  BY ReceiverFacts, Zenon
<1>3. PICK A \in Nat, N \in Nat : A = Len(serial) /\ N = Len(stream)
  BY StreamFacts, Zenon
<1>4. A <= N /\ \A p \in 1 .. A : stream[p] = serial[p]
  BY <1>3, StreamFacts, Zenon DEF FrontIs
<1>5. z \in 1 .. Len(stream) /\ stream[z] = serial[z]
  BY <1>3, <1>4
<1>6. \A p \in 1 .. z - 1 : stream[p].b # 0
  <2>1. \A p \in 1 .. z - 1 : p \in 1 .. A
    BY <1>3
  <2> QED
    BY <1>4, <2>1, Zenon DEF NoZero
<1>7. PICK r2 : r2 = Delimiter(z) /\ r2 = [at |-> "length", len |-> 0, of |-> stream[z].of]
  BY <1>5, Zenon DEF Delimiter
<1>8. stream[z].b = 0
  BY <1>5, Zenon
<1>9. RxLine(dir, sent, t, Hits, r2, got, raced)
  BY <1>1, <1>2, <1>5, <1>6, <1>7, <1>8, ToLength, Zenon
<1> QED
  BY <1>1, <1>7, <1>9, Zenon

\* The receiver takes the length.
LEMMA BodyLine ==
  ASSUME LineInv, serial # <<>>, Take(1, Body(serial[1].b)), got' = got, raced' = raced, rx.at = "length",
         serial[1].b # 0, dir = "up" => serial[1].b <= MAX_PAYLOAD_SIZE + 4
  PROVE  LineInv'
<1>1. PICK A \in Nat, N \in Nat : A = Len(serial) /\ N = Len(stream)
  BY StreamFacts, Zenon
<1>2. A <= N /\ \A p \in 1 .. A : stream[p] = serial[p]
  BY <1>1, StreamFacts, Zenon DEF FrontIs
<1>3. 1 <= A
  <2>1. serial \in Seq(StreamByte(sent))
    BY Zenon DEF LineInv
  <2> QED
    BY <1>1, <2>1
<1>4. 1 \in 0 .. Len(serial) /\ 1 <= Len(stream) /\ stream[1] = serial[1]
  BY <1>1, <1>2, <1>3
<1>5. PICK t \in Seq(StreamByte(sent)) :
        /\ DropOf(t, stream, 1)
        /\ RxLine(dir, sent, t, Hits, Body(serial[1].b), got', raced') => LineInv'
  BY <1>4, TakeLine, Zenon
<1>6. SLine(sent, stream, Hits) /\ RxLine(dir, sent, stream, Hits, rx, got, raced)
  BY ReceiverFacts, Zenon
<1>7. Body(serial[1].b) = [at |-> "body", len |-> stream[1].b, of |-> rx.of]
  BY <1>4, Zenon DEF Body
<1>8. PICK r2 : r2 = Body(serial[1].b) /\ r2 = [at |-> "body", len |-> stream[1].b, of |-> rx.of]
  BY <1>7, Zenon
<1>9. stream[1].b # 0 /\ (dir = "up" => stream[1].b <= MAX_PAYLOAD_SIZE + 4)
  BY <1>4, Zenon
<1>10. RxLine(dir, sent, t, Hits, r2, got, raced)
  BY <1>4, <1>5, <1>6, <1>8, <1>9, ToBody, Zenon
<1> QED
  BY <1>5, <1>8, <1>10, Zenon

\* Something has arrived.
LEMMA Arrived ==
  ASSUME LineInv, serial # <<>>
  PROVE  1 \in 1 .. Len(serial) /\ 1 \in 0 .. Len(serial) /\ 1 \in 1 .. Len(stream) /\ stream[1] = serial[1]
<1>1. serial \in Seq(StreamByte(sent))
  BY Zenon DEF LineInv
<1>2. PICK A \in Nat, N \in Nat : A = Len(serial) /\ N = Len(stream)
  BY StreamFacts, Zenon
<1>3. A <= N /\ \A p \in 1 .. A : stream[p] = serial[p]
  BY <1>2, StreamFacts, Zenon DEF FrontIs
<1>4. 1 <= A
  BY <1>1, <1>2
<1> QED
  BY <1>2, <1>3, <1>4

\* dev_handler looks for a delimiter.
LEMMA FindDelimiterLine == LineInv /\ FindDelimiter => LineInv'
<1> SUFFICES ASSUME LineInv, FindDelimiter
             PROVE  LineInv'
  BY Zenon
<1>1. /\ rx.at = "seek" /\ serial # <<>> /\ got' = got /\ raced' = raced
      /\ Take(1, IF serial[1].b = 0 THEN Delimiter(1) ELSE Seek)
  BY Zenon DEF FindDelimiter
<1>2. 1 \in 1 .. Len(serial) /\ 1 \in 0 .. Len(serial) /\ stream[1] = serial[1]
  BY <1>1, Arrived, Zenon
<1>3. CASE serial[1].b = 0
  <2>1. Take(1, Delimiter(1))
    BY <1>1, <1>3, Zenon
  <2>2. NoZero(serial, 1 - 1)
    BY DEF NoZero
  <2> QED
    BY <1>1, <1>2, <1>3, <2>1, <2>2, DelimiterLine, Zenon
<1>4. CASE serial[1].b # 0
  <2>1. Take(1, Seek)
    BY <1>1, <1>4, Zenon
  <2>2. \A z \in 1 .. 1 : z = 1
    OBVIOUS
  <2>3. Spares(dir, stream, 1, Hits)
    BY <1>2, <1>4, <2>2, Zenon DEF Spares
  <2>4. got \subseteq got' /\ raced \subseteq raced'
    BY <1>1, Zenon
  <2> QED
    BY <1>1, <1>2, <2>1, <2>3, <2>4, SeekLine, Zenon
<1> QED
  BY <1>3, <1>4, Zenon

\* The delimiter that follows a message that lost bytes.
LEMMA SparesNext ==
  ASSUME LineInv, rx.at # "seek", rx.of \in Hits, NEW z \in 1 .. Len(stream), stream[z].b = 0, NoZero(stream, z - 1)
  PROVE  Spares(dir, stream, z, Hits)
<1>1. SLine(sent, stream, Hits) /\ RLine(sent, stream, Hits, rx.of)
  BY ReceiverFacts, Zenon
<1>2. \A p \in 1 .. z - 1 : stream[p].b # 0
  BY Zenon DEF NoZero
<1>3. Excused(dir, Hits, stream[z].of)
  BY <1>1, <1>2, NextIsExcused, Zenon
<1>4. \A p \in 1 .. z : p = z \/ p \in 1 .. z - 1
  OBVIOUS
<1> QED
  BY <1>2, <1>3, <1>4, Zenon DEF Spares

\* dev_handler reads a length.
LEMMA ReadLengthLine == LineInv /\ ReadLength => LineInv'
<1> SUFFICES ASSUME LineInv, ReadLength
             PROVE  LineInv'
  BY Zenon
<1>1. /\ rx.at = "length" /\ serial # <<>> /\ got' = got /\ raced' = raced
      /\ Take(1, IF serial[1].b \in 4 .. MAX_PAYLOAD_SIZE + 4 THEN Body(serial[1].b) ELSE Seek)
  BY Zenon DEF ReadLength
<1>2. 1 \in 1 .. Len(serial) /\ 1 \in 0 .. Len(serial) /\ 1 \in 1 .. Len(stream) /\ stream[1] = serial[1]
  BY <1>1, Arrived, Zenon
<1>3. CASE serial[1].b \in 4 .. MAX_PAYLOAD_SIZE + 4
  <2>1. Take(1, Body(serial[1].b))
    BY <1>1, <1>3, Zenon
  <2>2. MAX_PAYLOAD_SIZE \in Nat
    BY WireNumbers, Zenon
  <2>3. serial[1].b # 0 /\ serial[1].b <= MAX_PAYLOAD_SIZE + 4
    BY <1>3, <2>2
  <2> QED
    BY <1>1, <2>1, <2>3, BodyLine, Zenon
<1>4. CASE serial[1].b \notin 4 .. MAX_PAYLOAD_SIZE + 4
  <2>1. Take(1, Seek)
    BY <1>1, <1>4, Zenon
  <2>2. rx.at # "seek"
    BY <1>1, Zenon
  <2>3. rx.of \in Hits
    <3>1. /\ sent \in Seq(Messages) /\ rx.of \in 1 .. Len(sent) /\ Len(stream) \in Nat
          /\ rx.of \notin Hits => InStep(sent, stream, rx)
      BY <2>2, ReceiverFacts, StreamFacts, Zenon
    <3>2. rx.of \notin Hits => stream[1].b \in 4 .. MAX_PAYLOAD_SIZE + 4
      BY <1>1, <3>1, InStepLength, Zenon
    <3> QED
      BY <1>2, <1>4, <3>2, Zenon
  <2>4. Spares(dir, stream, 1, Hits)
    <3>1. NoZero(stream, 1 - 1) /\ \A p \in 1 .. 1 : p = 1
      BY DEF NoZero
    <3>2. CASE stream[1].b = 0
      BY <1>2, <2>2, <2>3, <3>1, <3>2, SparesNext, Zenon
    <3>3. CASE stream[1].b # 0
      BY <3>1, <3>3, Zenon DEF Spares
    <3> QED
      BY <3>2, <3>3, Zenon
  <2>5. got \subseteq got' /\ raced \subseteq raced'
    BY <1>1, Zenon
  <2> QED
    BY <1>2, <2>1, <2>3, <2>4, <2>5, SeekLine, Zenon
<1> QED
  BY <1>3, <1>4, Zenon

\* The device scans for a delimiter.
LEMMA ScanLine == LineInv /\ Scan => LineInv'
<1> SUFFICES ASSUME LineInv, Scan
             PROVE  LineInv'
  BY Zenon
<1>1. /\ rx.at = "seek" /\ serial # <<>> /\ got' = got /\ raced' = raced
      /\ IF Zeroes(Len(serial)) = {} THEN Take(Len(serial), Seek)
         ELSE Take(Min(Zeroes(Len(serial))), Delimiter(Min(Zeroes(Len(serial)))))
  BY Zenon DEF Scan
<1>2. PICK A \in Nat, N \in Nat : A = Len(serial) /\ N = Len(stream)
  BY StreamFacts, Zenon
<1>3. A <= N /\ \A p \in 1 .. A : stream[p] = serial[p]
  BY <1>2, StreamFacts, Zenon DEF FrontIs
<1>4. CASE Zeroes(A) = {}
  <2>1. Take(A, Seek)
    BY <1>1, <1>2, <1>4, Zenon
  <2>2. \A p \in 1 .. A : serial[p].b # 0
    BY <1>4, Zenon DEF Zeroes
  <2>3. Spares(dir, stream, A, Hits)
    BY <1>3, <2>2, Zenon DEF Spares
  <2>4. got \subseteq got' /\ raced \subseteq raced' /\ A \in 0 .. Len(serial)
    BY <1>1, <1>2
  <2> QED
    BY <1>1, <2>1, <2>3, <2>4, SeekLine, Zenon
<1>5. CASE Zeroes(A) # {}
  <2>1. PICK z : z = Min(Zeroes(A))
    BY Zenon
  <2>2. z \in 1 .. A /\ serial[z].b = 0 /\ \A p \in 1 .. z - 1 : serial[p].b # 0
    BY <1>5, <2>1, FirstZero, Zenon
  <2>3. Take(z, Delimiter(z))
    BY <1>1, <1>2, <1>5, <2>1, Zenon
  <2>4. NoZero(serial, z - 1) /\ z \in 1 .. Len(serial)
    BY <1>2, <2>2, Zenon DEF NoZero
  <2> QED
    BY <1>1, <2>2, <2>3, <2>4, DelimiterLine, Zenon
<1> QED
  BY <1>4, <1>5, Zenon

\* The device finds no length.
LEMMA NoLengthLine == LineInv /\ NoLength => LineInv'
<1> SUFFICES ASSUME LineInv, NoLength
             PROVE  LineInv'
  BY Zenon
<1>1. /\ dir = "down" /\ rx.at = "length" /\ got' = got /\ Take(0, Seek)
      /\ serial # <<>> => serial[1].b = 0
      /\ raced' = IF serial = <<>> THEN raced \union {rx.of} ELSE raced
  BY Zenon DEF NoLength
<1>2. 0 \in 0 .. Len(serial)
  BY StreamFacts
<1>3. Spares(dir, stream, 0, Hits)
  BY DEF Spares
<1>4. got \subseteq got' /\ raced \subseteq raced' /\ rx.at # "seek"
  BY <1>1, Zenon
<1>5. CASE serial = <<>>
  <2>1. rx.of \in raced'
    BY <1>1, <1>5, Zenon
  <2> QED
    BY <1>1, <1>2, <1>3, <1>4, <2>1, SeekLine, Zenon
<1>6. CASE serial # <<>>
  <2>1. stream[1].b = 0
    BY <1>1, <1>6, Arrived, Zenon
  <2>2. /\ sent \in Seq(Messages) /\ rx.of \in 1 .. Len(sent) /\ Len(stream) \in Nat
        /\ rx.of \notin Hits => InStep(sent, stream, rx)
    BY <1>4, ReceiverFacts, StreamFacts, Zenon
  <2>3. rx.of \in Hits
    BY <1>1, <2>1, <2>2, InStepLength, Zenon
  <2> QED
    BY <1>1, <1>2, <1>3, <1>4, <2>3, SeekLine, Zenon
<1> QED
  BY <1>5, <1>6, Zenon

\* The device reads a length.
LEMMA DeviceLengthLine == LineInv /\ DeviceLength => LineInv'
<1> SUFFICES ASSUME LineInv, DeviceLength
             PROVE  LineInv'
  BY Zenon
<1>1. /\ dir = "down" /\ rx.at = "length" /\ serial # <<>> /\ serial[1].b # 0
      /\ Take(1, Body(serial[1].b)) /\ got' = got /\ raced' = raced
  BY Zenon DEF DeviceLength
<1> QED
  BY <1>1, BodyLine, Zenon

\* What the receiver counts on when it is in step.
LEMMA RightBody ==
  ASSUME LineInv, rx.at = "body"
  PROVE  /\ rx.at # "seek" /\ rx.len \in Nat /\ rx.of \in 1 .. Len(sent)
         /\ rx.of \notin Hits => BodyOf(stream, Fr(sent, rx.of), rx.len)
<1>1. rx.at # "seek"
  BY Zenon
<1>2. /\ sent \in Seq(Messages) /\ rx.of \in 1 .. Len(sent) /\ Len(stream) \in Nat
      /\ rx.of \notin Hits => InStep(sent, stream, rx)
  BY <1>1, ReceiverFacts, StreamFacts, Zenon
<1>3. rx.len \in Nat
  BY ReceiverFacts, Zenon
<1>4. rx.of \notin Hits => BodyOf(stream, Fr(sent, rx.of), rx.len)
  BY <1>2, InStepBody, Zenon
<1> QED
  BY <1>1, <1>2, <1>3, <1>4, Zenon

\* The device stops short of the length it read.
LEMMA CutShortLine == LineInv /\ CutShort => LineInv'
<1> SUFFICES ASSUME LineInv, CutShort
             PROVE  LineInv'
  BY Zenon
<1>1. PICK A \in Nat, N \in Nat, W \in Nat : A = Len(serial) /\ N = Len(stream) /\ W = Len(wire)
  BY StreamFacts, Zenon
<1>2. A <= N /\ \A p \in 1 .. A : stream[p] = serial[p]
  BY <1>1, StreamFacts, Zenon DEF FrontIs
<1>3. PICK n : n = IF rx.len < A THEN rx.len ELSE A
  BY Zenon
<1>4. /\ rx.at = "body" /\ got' = got /\ raced' = raced
      /\ IF Zeroes(n) # {} THEN Take(Min(Zeroes(n)), Seek) ELSE n < rx.len /\ wire = <<>> /\ Take(n, Seek)
  BY <1>1, <1>3, Zenon DEF CutShort
<1>5. rx.at # "seek" /\ rx.len \in Nat /\ (rx.of \notin Hits => BodyOf(stream, Fr(sent, rx.of), rx.len))
  BY <1>4, RightBody, Zenon
<1>6. n \in Nat /\ n <= A /\ n <= rx.len
  BY <1>3, <1>5
<1>7. got \subseteq got' /\ raced \subseteq raced'
  BY <1>4, Zenon
<1>8. CASE Zeroes(n) # {}
  <2>1. PICK z : z = Min(Zeroes(n))
    BY Zenon
  <2>2. z \in 1 .. n /\ serial[z].b = 0 /\ \A p \in 1 .. z - 1 : serial[p].b # 0
    BY <1>6, <1>8, <2>1, FirstZero, Zenon
  <2>3. Take(z, Seek)
    BY <1>4, <1>8, <2>1, Zenon
  <2>4. z \in 1 .. A /\ z \in 1 .. N /\ z \in 1 .. rx.len /\ z \in 0 .. A
    BY <1>2, <1>5, <1>6, <2>2
  <2>5. stream[z].b = 0
    BY <1>2, <2>2, <2>4, Zenon
  <2>6. rx.of \in Hits
    BY <1>5, <2>4, <2>5, Zenon DEF BodyOf
  <2>7. NoZero(stream, z - 1)
    <3>1. \A p \in 1 .. z - 1 : p \in 1 .. A
      BY <2>4
    <3> QED
      BY <1>2, <2>2, <3>1, Zenon DEF NoZero
  <2>8. z \in 1 .. Len(stream) /\ z \in 0 .. Len(serial)
    BY <1>1, <2>4, Zenon
  <2>9. Spares(dir, stream, z, Hits)
    BY <1>5, <2>5, <2>6, <2>7, <2>8, SparesNext, Zenon
  <2> QED
    BY <1>7, <2>3, <2>6, <2>8, <2>9, SeekLine, Zenon
<1>9. CASE Zeroes(n) = {}
  <2>1. n < rx.len /\ wire = <<>> /\ Take(n, Seek)
    BY <1>4, <1>9, Zenon
  <2>2. \A p \in 1 .. n : serial[p].b # 0
    BY <1>9, Zenon DEF Zeroes
  <2>3. Spares(dir, stream, n, Hits)
    <3>1. \A p \in 1 .. n : p \in 1 .. A
      BY <1>6
    <3> QED
      BY <1>2, <2>2, <3>1, Zenon DEF Spares
  <2>4. N = A
    <3>1. N = A + W
      BY <1>1, StreamFacts, Zenon DEF Joins
    <3>2. W = 0
      BY <1>1, <2>1, Zenon
    <3> QED
      BY <3>1, <3>2
  <2>5. ~(rx.len <= N)
    BY <1>3, <1>5, <2>1, <2>4
  <2>6. rx.of \in Hits
    BY <1>1, <1>5, <2>5, Zenon DEF BodyOf
  <2>7. n \in 0 .. Len(serial)
    BY <1>1, <1>6
  <2> QED
    BY <1>7, <2>1, <2>3, <2>6, <2>7, SeekLine, Zenon
<1> QED
  BY <1>8, <1>9, Zenon

\* What follows the delimiter and the length.
BodyBytes(f) == [k \in 1 .. Len(f) - 2 |-> f[k + 2]]

\* The body of a frame is parsed to the message.
LEMMA ParsedFrame ==
  ASSUME NEW m \in Messages, NEW f, f = message_to_bytes(m)
  PROVE  Parsed(BodyBytes(f)) = {m}
BY Frames DEF BodyBytes

\* A whole body is read.
LEMMA ReadBodyLine == LineInv /\ ReadBody => LineInv'
<1> SUFFICES ASSUME LineInv, ReadBody
             PROVE  LineInv'
  BY Zenon
<1>1. PICK A \in Nat, N \in Nat : A = Len(serial) /\ N = Len(stream)
  BY StreamFacts, Zenon
<1>2. A <= N /\ \A p \in 1 .. A : stream[p] = serial[p]
  BY <1>1, StreamFacts, Zenon DEF FrontIs
<1>3. PICK n : n = rx.len
  BY Zenon
<1>4. /\ rx.at = "body" /\ A >= n /\ Take(n, Seek) /\ raced' = raced
      /\ dir = "down" => Zeroes(n) = {}
  BY <1>1, <1>3, Zenon DEF ReadBody
<1>5. PICK m \in Parsed([i \in 1 .. n |-> serial[i].b]) :
        got' = IF m = sent[rx.of] THEN got \union {rx.of} ELSE got
  BY <1>3, Zenon DEF ReadBody
<1>6. rx.at # "seek" /\ n \in Nat /\ rx.of \in 1 .. Len(sent) /\ (rx.of \notin Hits => BodyOf(stream, Fr(sent, rx.of), n))
  BY <1>3, <1>4, RightBody, Zenon
<1>7. got \subseteq got' /\ raced \subseteq raced'
  BY <1>4, <1>5, Zenon
<1>8. \A p \in 1 .. n : p \in 1 .. A /\ p \in 1 .. N
  BY <1>2, <1>4, <1>6
<1>9. n \in 0 .. Len(serial)
  BY <1>1, <1>4, <1>6
<1>10. sent \in Seq(Messages) /\ SLine(sent, stream, Hits) /\ RxLine(dir, sent, stream, Hits, rx, got, raced)
  BY ReceiverFacts, Zenon
<1>11. CASE rx.of \in Hits
  <2>1. CASE dir = "down"
    <3>1. \A p \in 1 .. n : serial[p].b # 0
      BY <1>4, <2>1, Zenon DEF Zeroes
    <3>2. Spares(dir, stream, n, Hits)
      BY <1>2, <1>8, <3>1, Zenon DEF Spares
    <3> QED
      BY <1>7, <1>4, <1>9, <1>11, <3>2, SeekLine, Zenon
  <2>2. CASE dir = "up"
    <3>1. MAX_PAYLOAD_SIZE \in Nat
      BY WireNumbers, Zenon
    <3>2. n <= MAX_PAYLOAD_SIZE + 4
      BY <1>3, <1>4, <1>10, <2>2, Zenon DEF RxLine
    <3>3. RLine(sent, stream, Hits, rx.of)
      BY <1>6, ReceiverFacts, Zenon
    <3>4. ASSUME NEW z \in 1 .. n, stream[z].b = 0
          PROVE  Excused("up", Hits, stream[z].of)
      <4>1. z <= MAX_PAYLOAD_SIZE + 4 /\ z \in 1 .. Len(stream)
        BY <1>1, <1>6, <1>8, <3>1, <3>2
      <4> QED
        BY <1>10, <1>11, <3>3, <3>4, <4>1, SwallowedIsExcused, Zenon
    <3>5. Spares(dir, stream, n, Hits)
      BY <2>2, <3>4, Zenon DEF Spares
    <3> QED
      BY <1>7, <1>4, <1>9, <1>11, <3>5, SeekLine, Zenon
  <2>3. dir \in {"up", "down"}
    BY Zenon DEF LineInv
  <2> QED
    BY <2>1, <2>2, <2>3, Zenon
<1>12. CASE rx.of \notin Hits
  <2>1. PICK f : f = Fr(sent, rx.of)
    BY Zenon
  <2>2. n = Len(f) - 2 /\ \A i \in 1 .. n : stream[i].b = f[i + 2] /\ stream[i].b # 0
    BY <1>6, <1>12, <2>1, Zenon DEF BodyOf
  <2>3. Spares(dir, stream, n, Hits)
    BY <2>2, Zenon DEF Spares
  <2>4. [i \in 1 .. n |-> serial[i].b] = BodyBytes(f)
    <3>1. \A i \in 1 .. n : serial[i].b = f[i + 2]
      BY <1>2, <1>8, <2>2, Zenon
    <3>2. [i \in 1 .. n |-> serial[i].b] = [k \in 1 .. n |-> f[k + 2]]
      BY <3>1, Zenon
    <3> QED
      BY <2>2, <3>2, Zenon DEF BodyBytes
  <2>5. sent[rx.of] \in Messages
    BY <1>6, <1>10
  <2>6. f = message_to_bytes(sent[rx.of])
    BY <2>1, Zenon DEF Fr
  <2>7. Parsed(BodyBytes(f)) = {sent[rx.of]}
    BY <2>5, <2>6, ParsedFrame, Zenon
  <2>8. m = sent[rx.of]
    BY <1>5, <2>4, <2>7, Zenon
  <2>9. rx.of \in got'
    BY <1>5, <2>8, Zenon
  <2> QED
    BY <1>7, <1>4, <1>9, <2>3, <2>9, SeekLine, Zenon
<1> QED
  BY <1>11, <1>12, Zenon

\* A byte arrives: the stream is the same.
LEMMA ArriveLine == LineInv /\ Arrive => LineInv'
<1> SUFFICES ASSUME LineInv, Arrive
             PROVE  LineInv'
  BY Zenon
<1>1. /\ wire # <<>> /\ serial' = Append(serial, Head(wire)) /\ wire' = Tail(wire)
      /\ dir' = dir /\ sent' = sent /\ rx' = rx /\ got' = got /\ raced' = raced /\ hit' = hit
  BY Zenon DEF Arrive
<1>2. /\ dir \in {"up", "down"} /\ hit \in Seq(1 .. Len(sent))
      /\ wire \in Seq(StreamByte(sent)) /\ serial \in Seq(StreamByte(sent))
      /\ \A p \in 1 .. Len(wire) : wire[p].of = Len(sent)
      /\ SLine(sent, stream, Hits) /\ RxLine(dir, sent, stream, Hits, rx, got, raced)
  BY Zenon DEF LineInv
<1>3. /\ Tail(wire) \in Seq(StreamByte(sent)) /\ IsTail(Tail(wire), wire)
      /\ Append(serial, Head(wire)) \in Seq(StreamByte(sent))
      /\ Append(serial, Head(wire)) \o Tail(wire) = serial \o wire
  BY <1>1, <1>2, WireJoined, ZenonT(30)
<1>4. stream' = stream
  BY <1>1, <1>3, Zenon DEF stream
<1>5. Hits' = Hits
  BY <1>1, Zenon DEF Hits
<1>6. \A p \in 1 .. Len(wire') : wire'[p].of = Len(sent')
  <2>0. PICK W \in Nat : W = Len(wire)
    BY StreamFacts, Zenon
  <2>1. PICK v : v = Tail(wire)
    BY Zenon
  <2>2. Len(v) = W - 1 /\ \A i \in 1 .. W - 1 : v[i] = wire[i + 1]
    BY <1>3, <2>0, <2>1, Zenon DEF IsTail
  <2>3. \A i \in 1 .. W - 1 : i + 1 \in 1 .. W
    OBVIOUS
  <2>4. \A i \in 1 .. W - 1 : v[i].of = Len(sent)
    BY <1>2, <2>0, <2>2, <2>3, Zenon
  <2> QED
    BY <1>1, <2>1, <2>2, <2>4, Zenon
<1>7. wire' \in Seq(StreamByte(sent')) /\ serial' \in Seq(StreamByte(sent'))
  BY <1>1, <1>3, Zenon DEF StreamByte
<1>8. dir' \in {"up", "down"} /\ hit' \in Seq(1 .. Len(sent'))
  BY <1>1, <1>2, Zenon
<1>9. SLine(sent', stream', Hits') /\ RxLine(dir', sent', stream', Hits', rx', got', raced')
  BY <1>1, <1>2, <1>4, <1>5, Zenon
<1> QED
  BY <1>6, <1>7, <1>8, <1>9, Zenon DEF LineInv

\* A byte is lost.
LEMMA LoseStep == LineInv /\ Lose => LineInv'
<1> SUFFICES ASSUME LineInv, Lose
             PROVE  LineInv'
  BY Zenon
<1>1. /\ wire # <<>> /\ hit' = Append(hit, Head(wire).of) /\ wire' = Tail(wire)
      /\ dir' = dir /\ sent' = sent /\ rx' = rx /\ got' = got /\ raced' = raced /\ serial' = serial
  BY Zenon DEF Lose
<1>2. /\ dir \in {"up", "down"} /\ hit \in Seq(1 .. Len(sent))
      /\ wire \in Seq(StreamByte(sent)) /\ serial \in Seq(StreamByte(sent))
      /\ \A p \in 1 .. Len(wire) : wire[p].of = Len(sent)
      /\ SLine(sent, stream, Hits) /\ RxLine(dir, sent, stream, Hits, rx, got, raced)
  BY Zenon DEF LineInv
<1>3. /\ Head(wire) \in StreamByte(sent) /\ Head(wire) = wire[1] /\ 1 <= Len(wire)
      /\ Tail(wire) \in Seq(StreamByte(sent)) /\ IsTail(Tail(wire), wire)
      /\ serial \o Tail(wire) \in Seq(StreamByte(sent)) /\ LeftOut(serial \o Tail(wire), serial \o wire, Len(serial))
  BY <1>1, <1>2, WireJoined, Zenon
<1>4. PICK e : e = Len(sent)
  BY Zenon
<1>5. PICK A \in Nat, W \in Nat, N \in Nat : A = Len(serial) /\ W = Len(wire) /\ N = Len(stream)
  BY StreamFacts, Zenon
<1>6. N = A + W /\ \A i \in 1 .. W : stream[A + i] = wire[i]
  BY <1>5, StreamFacts, Zenon DEF Joins
<1>7. A < N
  BY <1>3, <1>5, <1>6
<1>8. AllOf(stream, A, e)
  <2>1. ASSUME NEW p \in A + 1 .. N
        PROVE  stream[p].of = e
    <3>1. p - A \in 1 .. W /\ A + (p - A) = p
      BY <1>6
    <3>2. stream[A + (p - A)] = wire[p - A] /\ wire[p - A].of = e
      BY <1>2, <1>4, <1>5, <1>6, <3>1, Zenon
    <3> QED
      BY <3>1, <3>2, Zenon
  <2> QED
    BY <1>5, <2>1, Zenon DEF AllOf
<1>9. PICK t : t = serial \o Tail(wire)
  BY Zenon
<1>10. stream' = t
  BY <1>1, <1>9, Zenon DEF stream
<1>11. t \in Seq(StreamByte(sent)) /\ LeftOut(t, stream, A)
  BY <1>3, <1>5, <1>9, Zenon DEF stream
<1>12. Head(wire).of = e /\ e \in 1 .. Len(sent)
  <2>1. 1 \in 1 .. Len(wire) /\ Len(sent) \in Nat
    <3>1. sent \in Seq(Messages)
      BY ReceiverFacts, Zenon
    <3> QED
      BY <1>3, <1>5, <3>1
  <2>2. wire[1].of = e
    BY <1>2, <1>4, <2>1, Zenon
  <2>3. wire[1].of \in 1 .. Len(sent)
    BY <1>2, <2>1, StreamBytes, Zenon
  <2> QED
    BY <1>3, <2>2, <2>3, Zenon
<1>13. hit' \in Seq(1 .. Len(sent')) /\ Hits' = Hits \union {e}
  <2>1. hit' = Append(hit, e)
    BY <1>1, <1>12, Zenon
  <2>2. hit' \in Seq(1 .. Len(sent))
    BY <1>2, <1>12, <2>1
  <2>3. DOMAIN hit' = 1 .. Len(hit) + 1 /\ DOMAIN hit = 1 .. Len(hit) /\ Len(hit) \in Nat
    BY <1>2, <1>12, <2>1
  <2>4. hit'[Len(hit) + 1] = e /\ \A i \in 1 .. Len(hit) : hit'[i] = hit[i]
    BY <1>2, <1>12, <2>1
  <2>5. \A i : i \in DOMAIN hit' <=> i \in DOMAIN hit \/ i = Len(hit) + 1
    BY <2>3
  <2>6. {hit'[i] : i \in DOMAIN hit'} = {hit[i] : i \in DOMAIN hit} \union {e}
    BY <2>3, <2>4, <2>5, Zenon
  <2> QED
    BY <1>1, <2>2, <2>6, Zenon DEF Hits, Range
<1>14. PICK H2 : H2 = Hits \union {e}
  BY Zenon
<1>15. A < Len(stream) /\ A \in Nat
  BY <1>5, <1>7, Zenon
<1>16. SLine(sent, t, H2) /\ RxLine(dir, sent, t, H2, rx, got, raced)
  BY <1>2, <1>4, <1>8, <1>11, <1>14, <1>15, LoseLine, Zenon
<1>17. SLine(sent', stream', Hits') /\ RxLine(dir', sent', stream', Hits', rx', got', raced')
  BY <1>1, <1>10, <1>13, <1>14, <1>16, Zenon
<1>18. \A p \in 1 .. Len(wire') : wire'[p].of = Len(sent')
  <2>1. PICK v : v = Tail(wire)
    BY Zenon
  <2>2. Len(v) = W - 1 /\ \A i \in 1 .. W - 1 : v[i] = wire[i + 1]
    BY <1>3, <1>5, <2>1, Zenon DEF IsTail
  <2>3. \A i \in 1 .. W - 1 : i + 1 \in 1 .. W
    OBVIOUS
  <2>4. \A i \in 1 .. W - 1 : v[i].of = Len(sent)
    BY <1>2, <1>5, <2>2, <2>3, Zenon
  <2> QED
    BY <1>1, <2>1, <2>2, <2>4, Zenon
<1>19. wire' \in Seq(StreamByte(sent')) /\ serial' \in Seq(StreamByte(sent')) /\ dir' \in {"up", "down"}
  BY <1>1, <1>2, <1>3, Zenon DEF StreamByte
<1> QED
  BY <1>13, <1>17, <1>18, <1>19, Zenon DEF LineInv

\* A message is sent.
LEMMA SendStep == ASSUME NEW m \in Messages PROVE LineInv /\ send_message(m) => LineInv'
<1> SUFFICES ASSUME LineInv, send_message(m)
             PROVE  LineInv'
  BY Zenon
<1>1. PICK f : f = message_to_bytes(m)
  BY Zenon
<1>2. PICK S2 : S2 = Append(sent, m)
  BY Zenon
<1>3. sent \in Seq(Messages) /\ SLine(sent, stream, Hits) /\ RxLine(dir, sent, stream, Hits, rx, got, raced)
  BY ReceiverFacts, Zenon
<1>4. PICK n \in Nat : n = Len(sent)
  BY <1>3
<1>5. PICK e : e = Len(sent) + 1
  BY Zenon
<1>6. Len(S2) = e /\ e \in Nat /\ e = n + 1
  BY <1>2, <1>3, <1>4, <1>5
<1>7. PICK w : w = [i \in 1 .. Len(f) |-> [b |-> f[i], of |-> e]]
  BY Zenon
<1>8. /\ sent' = S2 /\ wire = <<>> /\ wire' = w /\ dir' = dir /\ serial' = serial
      /\ rx' = rx /\ got' = got /\ raced' = raced /\ hit' = hit
  <2>1. sent' = S2 /\ wire' = [i \in 1 .. Len(f) |-> [b |-> f[i], of |-> Len(sent')]]
    BY <1>1, <1>2, Zenon DEF send_message
  <2>2. wire' = w
    BY <1>6, <1>7, <2>1, Zenon
  <2> QED
    BY <2>1, <2>2, Zenon DEF send_message
<1>9. GoodFrame(f)
  BY <1>1, Frames, Zenon
<1>10. f \in Seq(Bytes) /\ Len(f) \in Nat
  <2>1. f \in Seq(Bytes)
    BY <1>9, Zenon DEF GoodFrame
  <2> QED
    BY <2>1
<1>11. /\ dir \in {"up", "down"} /\ hit \in Seq(1 .. Len(sent)) /\ serial \in Seq(StreamByte(sent))
  BY Zenon DEF LineInv
<1>12. serial \in Seq(StreamByte(S2))
  <2>1. \A x \in StreamByte(sent) : x \in StreamByte(S2)
    BY <1>4, <1>6 DEF StreamByte
  <2>2. PICK T, T2 : T = StreamByte(sent) /\ T2 = StreamByte(S2)
    BY Zenon
  <2>3. serial \in Seq(T) /\ T \subseteq T2
    BY <1>11, <2>1, <2>2, Zenon
  <2>4. serial \in Seq(T2)
    BY <2>3
  <2> QED
    BY <2>2, <2>4, Zenon
<1>13. w \in Seq(StreamByte(S2)) /\ Len(w) = Len(f)
  <2>1. \A i \in 1 .. Len(f) : [b |-> f[i], of |-> e] \in StreamByte(S2)
    BY <1>6, <1>10 DEF StreamByte
  <2>2. PICK T2 : T2 = StreamByte(S2)
    BY Zenon
  <2>3. w \in [1 .. Len(f) -> T2]
    BY <1>7, <2>1, <2>2, Zenon
  <2>4. w \in Seq(T2) /\ Len(w) = Len(f)
    BY <1>10, <2>3
  <2> QED
    BY <2>2, <2>4, Zenon
<1>14. PICK t : t = serial \o w
  BY Zenon
<1>15. t \in Seq(StreamByte(S2)) /\ Joins(t, serial, w)
  BY <1>12, <1>13, <1>14, Joined, Zenon
<1>16. stream = serial
  BY <1>8, <1>11 DEF stream
<1>17. IsSent(t, stream, f, e)
  <2>1. \A i \in 1 .. Len(f) : w[i] = [b |-> f[i], of |-> e]
    BY <1>7, Zenon
  <2> QED
    BY <1>13, <1>15, <1>16, <2>1, Zenon DEF IsSent, Joins
<1>18. Hits \subseteq 1 .. Len(sent) /\ Hits' = Hits
  <2>1. \A i \in DOMAIN hit : hit[i] \in 1 .. Len(sent)
    BY <1>11
  <2>2. Hits' = Hits
    BY <1>8, Zenon DEF Hits
  <2> QED
    BY <2>1, <2>2, Zenon DEF Hits, Range
<1>19. SLine(S2, t, Hits) /\ RxLine(dir, S2, t, Hits, rx, got, raced)
  <2>1. IsNext(sent, Hits, m, S2, f, e)
    BY <1>1, <1>2, <1>5, <1>18, Zenon DEF IsNext
  <2> QED
    BY <1>3, <1>15, <1>17, <2>1, SendLine, Zenon
<1>20. stream' = t
  BY <1>8, <1>14, Zenon DEF stream
<1>21. SLine(sent', stream', Hits') /\ RxLine(dir', sent', stream', Hits', rx', got', raced')
  BY <1>8, <1>18, <1>19, <1>20, Zenon
<1>22. wire' \in Seq(StreamByte(sent')) /\ serial' \in Seq(StreamByte(sent')) /\ dir' \in {"up", "down"}
  BY <1>8, <1>11, <1>12, <1>13, Zenon DEF StreamByte
<1>23. \A p \in 1 .. Len(wire') : wire'[p].of = Len(sent')
  <2>1. ASSUME NEW p \in 1 .. Len(f)
        PROVE  w[p].of = e
    BY <1>7, Zenon
  <2> QED
    BY <1>6, <1>8, <1>13, <2>1, Zenon
<1>24. hit' \in Seq(1 .. Len(sent'))
  <2>1. 1 .. n \subseteq 1 .. e
    BY <1>6
  <2>2. hit \in Seq(1 .. n)
    BY <1>4, <1>11, Zenon
  <2>3. PICK T, T2 : T = 1 .. n /\ T2 = 1 .. e
    BY Zenon
  <2>4. hit \in Seq(T) /\ T \subseteq T2
    BY <2>1, <2>2, <2>3, Zenon
  <2>5. hit \in Seq(T2)
    BY <2>4
  <2> QED
    BY <1>6, <1>8, <2>3, <2>5, Zenon
<1> QED
  BY <1>21, <1>22, <1>23, <1>24, Zenon DEF LineInv

\* The line is empty at first.
LEMMA LineStart == XInit => LineInv
<1> SUFFICES ASSUME XInit
             PROVE  LineInv
  BY Zenon
<1>1. /\ dir \in {"up", "down"} /\ sent = <<>> /\ wire = <<>> /\ serial = <<>> /\ hit = <<>>
      /\ rx = [at |-> "seek", len |-> 0, of |-> 0]
  BY Zenon DEF XInit, Seek
<1>2. stream = <<>>
  BY <1>1 DEF stream
<1>3. /\ Len(sent) = 0 /\ Len(stream) = 0 /\ Len(wire) = 0 /\ 1 .. 0 = {}
      /\ sent \in Seq(Messages) /\ stream \in Seq(StreamByte(sent)) /\ wire \in Seq(StreamByte(sent))
      /\ serial \in Seq(StreamByte(sent)) /\ hit \in Seq(1 .. Len(sent))
  BY <1>1, <1>2
<1>4. SLine(sent, stream, Hits)
  BY <1>3, Zenon DEF SLine
<1>5. RxLine(dir, sent, stream, Hits, rx, got, raced)
  BY <1>1, <1>3 DEF RxLine
<1> QED
  BY <1>1, <1>3, <1>4, <1>5, Zenon DEF LineInv

\* Every step keeps the invariant.
LEMMA LineStep == LineInv /\ [XNext]_xvars => LineInv'
<1> SUFFICES ASSUME LineInv, [XNext]_xvars
             PROVE  LineInv'
  BY Zenon
<1>1. CASE \E m \in Messages : send_message(m)
  BY <1>1, SendStep, Zenon
<1>2. CASE Arrive
  BY <1>2, ArriveLine, Zenon
<1>3. CASE Lose
  BY <1>3, LoseStep, Zenon
<1>4. CASE FindDelimiter
  BY <1>4, FindDelimiterLine, Zenon
<1>5. CASE ReadLength
  BY <1>5, ReadLengthLine, Zenon
<1>6. CASE Scan
  BY <1>6, ScanLine, Zenon
<1>7. CASE NoLength
  BY <1>7, NoLengthLine, Zenon
<1>8. CASE DeviceLength
  BY <1>8, DeviceLengthLine, Zenon
<1>9. CASE CutShort
  BY <1>9, CutShortLine, Zenon
<1>10. CASE ReadBody
  BY <1>10, ReadBodyLine, Zenon
<1>11. CASE UNCHANGED xvars
  BY <1>11, Zenon DEF xvars, LineInv, stream, Hits
<1> QED
  BY <1>1, <1>2, <1>3, <1>4, <1>5, <1>6, <1>7, <1>8, <1>9, <1>10, <1>11, Zenon DEF XNext, Receive

\* What the invariant says of a message the receiver is through with.
LEMMA LineIsLocal == LineInv => LossIsLocal
<1> SUFFICES ASSUME LineInv, NEW j \in Dropped
             PROVE  \/ j \in Range(hit)
                    \/ \E i \in Range(hit) : i < j /\ Reach(i, j)
                    \/ dir = "down" /\ j \in raced
  BY Zenon DEF LossIsLocal
<1>1. j \in 1 .. Len(sent) /\ Passed(j) /\ j \notin got
  BY Zenon DEF Dropped
<1>2. ~(rx.at # "seek" /\ rx.of = j)
  BY <1>1, Zenon DEF Passed
<1>3. ~HasZero(stream, j)
  <2>1. PICK A \in Nat, W \in Nat, N \in Nat : A = Len(serial) /\ W = Len(wire) /\ N = Len(stream)
    BY StreamFacts, Zenon
  <2>2. /\ N = A + W /\ (\A p \in 1 .. A : stream[p] = serial[p])
        /\ \A p \in 1 .. W : stream[A + p] = wire[p]
    BY <2>1, StreamFacts, Zenon DEF Joins
  <2>3. wire \in Seq(StreamByte(sent)) /\ serial \in Seq(StreamByte(sent))
    BY Zenon DEF LineInv
  <2>4. DOMAIN serial = 1 .. A /\ DOMAIN wire = 1 .. W
    BY <2>1, <2>3
  <2>5. (\A p \in 1 .. A : serial[p].of # j) /\ (\A p \in 1 .. W : wire[p].of # j)
    BY <1>1, <2>4, Zenon DEF Passed, Range
  <2>6. ASSUME NEW q \in 1 .. N
        PROVE  stream[q].of # j
    <3>1. CASE q \in 1 .. A
      BY <2>2, <2>5, <3>1, Zenon
    <3>2. CASE q \notin 1 .. A
      <4>1. q - A \in 1 .. W /\ A + (q - A) = q
        BY <2>2, <3>2
      <4>2. stream[A + (q - A)] = wire[q - A] /\ wire[q - A].of # j
        BY <2>2, <2>5, <4>1, Zenon
      <4> QED
        BY <4>1, <4>2, Zenon
    <3> QED
      BY <3>1, <3>2, Zenon
  <2> QED
    BY <2>1, <2>6, Zenon DEF HasZero
<1>4. RxLine(dir, sent, stream, Hits, rx, got, raced)
  BY ReceiverFacts, Zenon
<1>5. j \in Hits \/ Excused(dir, Hits, j) \/ (dir = "down" /\ j \in raced)
  BY <1>1, <1>2, <1>3, <1>4, Zenon DEF RxLine
<1> QED
  BY <1>5, Zenon DEF Hits, Excused, Reach

\* The line between dev_handler and a device, whatever the messages and however
\* many bytes are lost: a message that lost nothing is delivered as it was sent,
\* unless the message whose bytes were lost is so near that its reader took bytes
\* of this one for its own.
THEOREM LossIsLocalTheorem == XSpec => []LossIsLocal
<1>1. XInit => LineInv
  BY LineStart, Zenon
<1>2. LineInv /\ [XNext]_xvars => LineInv'
  BY LineStep, Zenon
<1>3. LineInv => LossIsLocal
  BY LineIsLocal, Zenon
<1> QED
  BY <1>1, <1>2, <1>3, PTL DEF XSpec

\* Every frame that is sent is the COBS encoding of its packet, has one delimiter,
\* and is decoded to the same packet by the side that receives it.
THEOREM FramesAreCobsTheorem == XSpec => FramesAreCobs
<1>1. LineInv /\ [XNext]_xvars => [sent' # sent => FrameOK(sent'[Len(sent')])]_xvars
  <2> SUFFICES ASSUME LineInv, XNext, sent' # sent
               PROVE  FrameOK(sent'[Len(sent')])
    BY Zenon
  <2>1. PICK m \in Messages : send_message(m)
    BY Zenon DEF XNext, Receive, Arrive, Lose, FindDelimiter, ReadLength, Scan, NoLength, DeviceLength, CutShort,
           ReadBody, Take
  <2>2. sent \in Seq(Messages) /\ sent' = Append(sent, m)
    BY <2>1, ReceiverFacts, Zenon DEF send_message
  <2>3. sent'[Len(sent')] = m
    BY <2>2
  <2>4. FrameOK(m)
    BY FramesOK, Zenon
  <2> QED
    BY <2>3, <2>4, Zenon
<1>2. XInit => LineInv
  BY LineStart, Zenon
<1>3. LineInv /\ [XNext]_xvars => LineInv'
  BY LineStep, Zenon
<1> QED
  BY <1>1, <1>2, <1>3, PTL DEF XSpec, FramesAreCobs
=============================================================================
