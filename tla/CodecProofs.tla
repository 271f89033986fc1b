----------------------------- MODULE CodecProofs ------------------------------
(***************************************************************************)
(* A message of any bytes is packed into a frame that has no zero but its  *)
(* delimiter and says its own length, and unpacking that frame gives the   *)
(* message again, on either side of the line.  In front, what is needed of *)
(* loops over data in general.                                             *)
(***************************************************************************)
EXTENDS Wire, WellFoundedInduction, SequenceTheorems, TLAPS

-----------------------------------------------------------------------------
(* Loops over data: what holds at first and in every turn holds at the end,  *)
(* and a function that says what each turn makes of the last one exists.     *)

\* A set of numbers has a least one.
LEMMA Least ==
  ASSUME NEW B, B \subseteq Nat, B # {}
  PROVE  \E x \in B : \A y \in B : x <= y
<1> DEFINE R == {ss \in Nat \X Nat : ss[1] < ss[2]}
<1>1. IsWellFoundedOn(R, Nat)
  BY NatLessThanWellFounded, Zenon DEF OpToRel
<1>2. \A x, y \in Nat : y < x => <<y, x>> \in R
  BY Zenon
<1> HIDE DEF R
<1>3. PICK x \in B : \A y \in B : ~(<<y, x>> \in R)
  BY <1>1, WFMin, Zenon
<1>4. ASSUME NEW y \in B
      PROVE  x <= y
  <2>1. x \in Nat /\ y \in Nat
    BY Zenon
  <2>2. ~(y < x)
    BY <1>2, <1>3, <2>1, Zenon
  <2> QED
    BY <2>1, <2>2
<1> QED
  BY <1>4, Zenon

\* Induction over the turns of a loop: a set of turns that has no first one is
\* empty.
LEMMA Turnwise ==
  ASSUME NEW n \in Nat, NEW B, B \subseteq 0 .. n, 0 \notin B,
         \A i \in 1 .. n : i \in B => i - 1 \in B
  PROVE  B = {}
<1> SUFFICES ASSUME B # {} PROVE FALSE
  BY Zenon
<1>1. B \subseteq Nat
  OBVIOUS
<1>2. PICK x \in B : \A y \in B : x <= y
  BY <1>1, Least, Zenon
<1>3. x \in 1 .. n /\ x - 1 \in B /\ ~(x <= x - 1)
  BY <1>1
<1> QED
  BY <1>2, <1>3, Zenon

\* The values of a loop variable, turn by turn: s before the first, and D[i] of
\* the last value after turn i.
LoopRuns(n, S, s, D) ==
  {f \in [0 .. n -> S] : f[0] = s /\ \A i \in 1 .. n : f[i] = D[i][f[i - 1]]}

\* A loop has such values.
LEMMA LoopValues ==
  ASSUME NEW n \in Nat, NEW S, NEW s \in S, NEW D \in [1 .. n -> [S -> S]]
  PROVE  LoopRuns(n, S, s, D) # {}
<1> DEFINE Runs(m) == {f \in [0 .. m -> S] : f[0] = s /\ \A i \in 1 .. m : f[i] = D[i][f[i - 1]]}
           B == {m \in 0 .. n : Runs(m) = {}}
<1>1. 0 \notin B
  <2>1. [i \in 0 .. 0 |-> s] \in Runs(0)
    OBVIOUS
  <2> QED
    BY <2>1, Zenon
<1>2. ASSUME NEW m \in 1 .. n, m - 1 \notin B
      PROVE  m \notin B
  <2>1. PICK f : f \in Runs(m - 1)
    BY <1>2
  <2>2. f \in [0 .. m - 1 -> S] /\ f[0] = s /\ \A i \in 1 .. m - 1 : f[i] = D[i][f[i - 1]]
    BY <2>1, Zenon
  <2> DEFINE g == [i \in 0 .. m |-> IF i = m THEN D[m][f[m - 1]] ELSE f[i]]
  <2>3. D[m][f[m - 1]] \in S
    <3>1. f[m - 1] \in S
      BY <2>2
    <3> QED
      BY <3>1, Zenon
  <2>4. g \in [0 .. m -> S]
    BY <2>2, <2>3
  <2>5. g[0] = s /\ \A i \in 1 .. m : g[i] = D[i][g[i - 1]]
    BY <2>2
  <2>6. g \in Runs(m)
    BY <2>4, <2>5, Zenon
  <2> QED
    BY <2>6, Zenon
<1>3. B = {}
  <2>1. \A i \in 1 .. n : i \in B => i - 1 \in B
    BY <1>2, Zenon
  <2>2. B \subseteq 0 .. n
    BY Zenon
  <2> HIDE DEF B
  <2> QED
    BY <1>1, <2>1, <2>2, Turnwise, Zenon
<1>4. PICK f : f \in Runs(n)
  BY <1>3
<1>5. f \in LoopRuns(n, S, s, D)
  BY <1>4, Zenon DEF LoopRuns
<1> QED
  BY <1>5, Zenon

\* r is s with t behind it; r is s with x behind it.
Joins(r, s, t) ==
  /\ Len(r) = Len(s) + Len(t)
  /\ \A i \in 1 .. Len(s) : r[i] = s[i]
  /\ \A i \in 1 .. Len(t) : r[Len(s) + i] = t[i]
Extends(r, s, x) ==
  /\ Len(r) = Len(s) + 1
  /\ \A i \in 1 .. Len(s) : r[i] = s[i]
  /\ r[Len(s) + 1] = x

\* A concatenation, place by place.
LEMMA Joined ==
  ASSUME NEW S, NEW s \in Seq(S), NEW t \in Seq(S)
  PROVE  s \o t \in Seq(S) /\ Joins(s \o t, s, t)
BY DEF Joins

\* One more element, written as a concatenation or as Append.
LEMMA JoinedOne ==
  ASSUME NEW S, NEW s \in Seq(S), NEW x \in S
  PROVE  /\ s \o <<x>> \in Seq(S) /\ Extends(s \o <<x>>, s, x)
         /\ Append(s, x) \in Seq(S) /\ Extends(Append(s, x), s, x)
BY DEF Extends

\* s begins with a.
FrontIs(s, a) == Len(a) <= Len(s) /\ \A p \in 1 .. Len(a) : s[p] = a[p]
-----------------------------------------------------------------------------
(* Wire: the codec. *)

\* The numbers among the constants.
LEMMA WireNumbers ==
  BYTE_MAX \in Nat /\ MAX_PAYLOAD_SIZE \in Nat /\ MAX_PAYLOAD_SIZE + 5 <= BYTE_MAX
  BY WireConstants, Zenon

\* The checksum of bytes is a byte.
LEMMA ChecksumIsByte ==
  ASSUME NEW data \in Seq(Bytes)
  PROVE  checksum(data) \in Bytes
<1> DEFINE n == Len(data)
           D == [i \in 1 .. n |-> [c \in Bytes |-> xor(c, data[i])]]
<1>1. n \in Nat /\ 0 \in Bytes /\ \A i \in 1 .. n : data[i] \in Bytes
  BY WireConstants DEF Bytes
<1>2. D \in [1 .. n -> [Bytes -> Bytes]]
  BY <1>1, WireConstants, Zenon
<1>3. LoopRuns(n, Bytes, 0, D) # {}
  <2> HIDE DEF D, n
  <2> QED
    BY <1>1, <1>2, LoopValues, Zenon
<1>3a. PICK f \in [0 .. n -> Bytes] : f[0] = 0 /\ \A i \in 1 .. n : f[i] = D[i][f[i - 1]]
  BY <1>3, Zenon DEF LoopRuns
<1>4. f = [i \in 0 .. n |-> IF i = 0 THEN 0 ELSE xor(f[i - 1], data[i])]
  <2>1. \A i \in 1 .. n : f[i] = xor(f[i - 1], data[i])
    BY <1>1, <1>3a
  <2> HIDE DEF D, n
  <2> QED
    BY <1>1, <1>3a, <2>1
<1>5. Sums(data) = [i \in 0 .. n |-> IF i = 0 THEN 0 ELSE xor(Sums(data)[i - 1], data[i])]
  BY <1>4, Zenon DEF Sums
<1> DEFINE B == {i \in 0 .. n : Sums(data)[i] \notin Bytes}
<1>6. 0 \notin B
  BY <1>1, <1>5, Zenon
<1>7. ASSUME NEW i \in 1 .. n, i - 1 \notin B
      PROVE  i \notin B
  <2>1. i \in 0 .. n /\ i - 1 \in 0 .. n /\ i # 0
    BY <1>1
  <2>2. Sums(data)[i] = xor(Sums(data)[i - 1], data[i])
    BY <1>5, <2>1, Zenon
  <2> QED
    BY <1>1, <1>7, <2>1, <2>2, WireConstants, Zenon
<1>8. B = {}
  <2>1. B \subseteq 0 .. n /\ n \in Nat
    BY <1>1, Zenon
  <2> HIDE DEF B, n
  <2> QED
    BY <1>6, <1>7, <2>1, Turnwise, Zenon
<1> QED
  BY <1>1, <1>8 DEF checksum

EncStates == [done : Seq(Nat), block : Seq(Nat)]

\* c is what COBS puts in front of place p + 1 of data that fits in one block:
\* the byte at p, or the distance to the next zero when p is a zero or the start.
IsCode(data, p, c) ==
  IF p > 0 /\ data[p] # 0 THEN c = data[p]
  ELSE /\ c \in 1 .. Len(data) + 1 - p
       /\ \A k \in 1 .. c - 1 : data[p + k] # 0
       /\ p + c = Len(data) + 1 \/ data[p + c] = 0

\* The encoder after i bytes: what it copied is the input, its current block
\* starts behind a zero and has none, what it finished is final.
EncodedTo(src, i, e) ==
  /\ e \in EncStates
  /\ Len(e.done) + Len(e.block) = i
  /\ \A k \in 1 .. Len(e.block) : e.block[k] = src[Len(e.done) + k] /\ e.block[k] # 0
  /\ Len(e.done) > 0 => src[Len(e.done)] = 0
  /\ \A j \in 1 .. Len(e.done) : IsCode(src, j - 1, e.done[j])

\* r is d, the length of block k, and k.
IsFinished(r, d, k) ==
  /\ Len(r) = Len(d) + 1 + Len(k)
  /\ \A i \in 1 .. Len(d) : r[i] = d[i]
  /\ r[Len(d) + 1] = Len(k) + 1
  /\ \A i \in 1 .. Len(k) : r[Len(d) + 1 + i] = k[i]

\* What finish_block makes of what was done and of the block.
LEMMA FinishedBlock ==
  ASSUME NEW d \in Seq(Nat), NEW k \in Seq(Nat)
  PROVE  d \o <<Len(k) + 1>> \o k \in Seq(Nat) /\ IsFinished(d \o <<Len(k) + 1>> \o k, d, k)
<1>1. PICK q : q = d \o <<Len(k) + 1>>
  BY Zenon
<1>2. Len(d) \in Nat /\ Len(k) \in Nat /\ Len(k) + 1 \in Nat
  OBVIOUS
<1>3. q \in Seq(Nat) /\ Extends(q, d, Len(k) + 1)
  BY <1>1, <1>2, JoinedOne, Zenon
<1>4. PICK r : r = q \o k
  BY Zenon
<1>5. r \in Seq(Nat) /\ Joins(r, q, k)
  BY <1>3, <1>4, Joined, Zenon
<1>6. Len(q) \in Nat /\ Len(d) + 1 \in 1 .. Len(q) /\ \A i \in 1 .. Len(d) : i \in 1 .. Len(q)
  BY <1>2, <1>3 DEF Extends
<1>7. IsFinished(r, d, k)
  <2>1. r[Len(d) + 1] = Len(k) + 1
    BY <1>3, <1>5, <1>6, Zenon DEF Extends, Joins
  <2>2. \A i \in 1 .. Len(d) : r[i] = d[i]
    BY <1>3, <1>5, <1>6, Zenon DEF Extends, Joins
  <2> QED
    BY <1>3, <1>5, <2>1, <2>2, Zenon DEF Extends, Joins, IsFinished
<1> QED
  BY <1>1, <1>4, <1>5, <1>7, Zenon

\* Finishing a block before a zero, or at the end, makes its codes final.
LEMMA FinishedCodes ==
  ASSUME NEW src \in Seq(Nat), NEW i \in 0 .. Len(src), NEW e, EncodedTo(src, i, e),
         i < Len(src) => src[i + 1] = 0
  PROVE  /\ finish_block(e) \in EncStates
         /\ Len(finish_block(e).done) = i + 1 /\ finish_block(e).block = <<>>
         /\ \A j \in 1 .. i + 1 : IsCode(src, j - 1, finish_block(e).done[j])
<1> DEFINE d == e.done
           k == e.block
           r == finish_block(e).done
           n == Len(src)
<1>1. /\ d \in Seq(Nat) /\ k \in Seq(Nat) /\ n \in Nat
      /\ Len(d) \in Nat /\ Len(k) \in Nat /\ Len(d) + Len(k) = i
  BY DEF EncodedTo, EncStates
<1>2. r = d \o <<Len(k) + 1>> \o k /\ finish_block(e).block = <<>>
      /\ finish_block(e) = [done |-> r, block |-> <<>>]
  BY Zenon DEF finish_block
<1>3. /\ \A x \in 1 .. Len(k) : k[x] = src[Len(d) + x] /\ k[x] # 0
      /\ Len(d) > 0 => src[Len(d)] = 0
      /\ \A j \in 1 .. Len(d) : IsCode(src, j - 1, d[j])
  BY Zenon DEF EncodedTo
<1> HIDE DEF d, k, r, n
<1>4a. r \in Seq(Nat) /\ IsFinished(r, d, k)
  BY <1>1, <1>2, FinishedBlock, Zenon
<1>4. /\ r \in Seq(Nat) /\ Len(r) = Len(d) + 1 + Len(k)
      /\ \A x \in 1 .. Len(d) : r[x] = d[x]
      /\ r[Len(d) + 1] = Len(k) + 1
      /\ \A x \in 1 .. Len(k) : r[Len(d) + 1 + x] = k[x]
  BY <1>4a, Zenon DEF IsFinished
<1>5. IsCode(src, Len(d), Len(k) + 1)
  <2>1. PICK D \in Nat, b \in Nat, c \in Nat : D = Len(d) /\ b = Len(k) /\ c = b + 1
    BY <1>1
  <2>2. D + b = i /\ i <= n /\ i \in Nat
    BY <1>1, <2>1 DEF n
  <2>3. c \in 1 .. n + 1 - D /\ c - 1 = b /\ D + c = i + 1
    <3>1. n \in Nat /\ c = b + 1
      BY <1>1, <2>1, Zenon
    <3> QED
      BY <3>1, <2>2, Z3
  <2>4. ~(D > 0 /\ src[D] # 0)
    BY <1>3, <2>1, Zenon
  <2>5. D + c = n + 1 \/ src[D + c] = 0
    <3>1. i < n => src[i + 1] = 0
      BY Zenon DEF n
    <3>2. n \in Nat /\ (i = n \/ i < n)
      BY <1>1, <2>2
    <3> QED
      BY <2>3, <3>1, <3>2, Zenon
  <2>6. \A x \in 1 .. c - 1 : src[D + x] # 0
    BY <1>3, <2>1, <2>3, Zenon
  <2>7. IsCode(src, D, c)
    BY <2>3, <2>4, <2>5, <2>6, Zenon DEF IsCode, n
  <2> QED
    BY <2>1, <2>7, Zenon
<1>6. ASSUME NEW j \in 1 .. i + 1
      PROVE  IsCode(src, j - 1, r[j])
  <2>1. CASE j \in 1 .. Len(d)
    BY <1>3, <1>4, <2>1, Zenon
  <2>2. CASE j = Len(d) + 1
    BY <1>1, <1>4, <1>5, <2>2
  <2>3. CASE j > Len(d) + 1
    <3> DEFINE x == j - (Len(d) + 1)
    <3>1. x \in 1 .. Len(k) /\ j = Len(d) + 1 + x /\ j - 1 = Len(d) + x /\ j - 1 > 0
      BY <1>1, <2>3, SMTT(30)
    <3>2. r[j] = k[x] /\ k[x] = src[j - 1] /\ k[x] # 0
      BY <1>3, <1>4, <3>1, Zenon
    <3> QED
      BY <3>1, <3>2, Zenon DEF IsCode
  <2> QED
    BY <1>1, <2>1, <2>2, <2>3
<1>7. [done |-> r, block |-> <<>>] \in EncStates
  BY <1>4 DEF EncStates
<1>8. Len(r) = i + 1
  BY <1>1, <1>4, SMTT(30)
<1> QED
  BY <1>2, <1>6, <1>7, <1>8, Zenon DEF r

\* The encoder's states.
LEMMA EncodeByteType ==
  ASSUME NEW e \in EncStates, NEW b \in Nat
  PROVE  EncodeByte(e, b) \in EncStates
<1> DEFINE c == [done |-> e.done, block |-> Append(e.block, b)]
<1>1. c \in EncStates
  BY DEF EncStates
<1>2. ASSUME NEW x \in EncStates
      PROVE  finish_block(x) \in EncStates
  <2>1. x.done \in Seq(Nat) /\ x.block \in Seq(Nat)
    BY Zenon DEF EncStates
  <2>2. x.done \o <<Len(x.block) + 1>> \o x.block \in Seq(Nat)
    BY <2>1, FinishedBlock, Zenon
  <2> QED
    BY <2>2 DEF finish_block, EncStates
<1>3. EncodeByte(e, b) = finish_block(e) \/ EncodeByte(e, b) = finish_block(c) \/ EncodeByte(e, b) = c
  BY Zenon DEF EncodeByte
<1> HIDE DEF c
<1> QED
  BY <1>1, <1>2, <1>3, Zenon

\* One byte through the encoder.
LEMMA EncodeStep ==
  ASSUME NEW src \in Seq(Nat), Len(src) + 1 < BYTE_MAX, NEW i \in 1 .. Len(src),
         NEW e, EncodedTo(src, i - 1, e)
  PROVE  EncodedTo(src, i, EncodeByte(e, src[i]))
<1> DEFINE f == EncodeByte(e, src[i])
<1>1. /\ e \in EncStates /\ e.done \in Seq(Nat) /\ e.block \in Seq(Nat)
      /\ Len(e.done) \in Nat /\ Len(e.block) \in Nat /\ Len(e.done) + Len(e.block) = i - 1
  BY DEF EncodedTo, EncStates
<1>2. i \in Nat /\ i <= Len(src) /\ i - 1 \in 0 .. Len(src) /\ i - 1 + 1 = i /\ Len(src) \in Nat /\ src[i] \in Nat
  OBVIOUS
<1>3. CASE src[i] = 0
  <2>1. f = finish_block(e)
    BY <1>3, Zenon DEF EncodeByte
  <2>2. /\ finish_block(e) \in EncStates
        /\ Len(finish_block(e).done) = i - 1 + 1 /\ finish_block(e).block = <<>>
        /\ \A j \in 1 .. i - 1 + 1 : IsCode(src, j - 1, finish_block(e).done[j])
    BY <1>2, <1>3, FinishedCodes, Zenon
  <2>3. /\ f \in EncStates /\ Len(f.done) = i /\ f.block = <<>>
        /\ \A j \in 1 .. i : IsCode(src, j - 1, f.done[j])
    BY <1>2, <2>1, <2>2, Zenon
  <2> HIDE DEF f
  <2>4. EncodedTo(src, i, f)
    BY <1>2, <1>3, <2>3 DEF EncodedTo
  <2> QED
    BY <2>4, Zenon DEF f
<1>4. CASE src[i] # 0
  <2> DEFINE g == Append(e.block, src[i])
  <2>1. g \in Seq(Nat) /\ Extends(g, e.block, src[i])
    BY <1>1, <1>2, JoinedOne, Zenon
  <2>2. Len(g) = Len(e.block) + 1
    BY <2>1, Zenon DEF Extends
  <2> HIDE DEF g
  <2>5. PICK D \in Nat, b \in Nat, n \in Nat : D = Len(e.done) /\ b = Len(e.block) /\ n = Len(src)
    BY <1>1, <1>2, Zenon
  <2>5a. Len(g) = b + 1 /\ D + b = i - 1 /\ i <= n /\ n + 1 < BYTE_MAX
    BY <1>1, <1>2, <2>2, <2>5, Zenon
  <2>5b. b + 1 + 1 # BYTE_MAX /\ D + (b + 1) = i
    <3>1. BYTE_MAX \in Nat
      BY WireConstants, Zenon
    <3>2. \A x, y, z, w, M \in Nat : x + y = z - 1 /\ z <= w /\ w + 1 < M
                                     => y + 1 + 1 # M /\ x + (y + 1) = z
      OBVIOUS
    <3> QED
      BY <1>2, <2>5a, <3>1, <3>2
  <2>3. f = [done |-> e.done, block |-> g]
    <3> USE DEF g
    <3>1. Len(g) + 1 # BYTE_MAX
      BY <2>5a, <2>5b, Zenon
    <3> QED
      BY <1>4, <3>1, Zenon DEF EncodeByte
  <2> HIDE DEF f, g
  <2>4. f.done = e.done /\ f.block = g /\ f \in EncStates
    BY <1>1, <2>1, <2>3, Zenon DEF EncStates
  <2>6. ASSUME NEW k \in 1 .. Len(g)
        PROVE  g[k] = src[D + k] /\ g[k] # 0
    <3>2. CASE k \in 1 .. b
      <4>1. g[k] = e.block[k]
        BY <2>1, <2>5, <3>2, Zenon DEF Extends
      <4> QED
        BY <2>5, <3>2, <4>1, Zenon DEF EncodedTo
    <3>3. CASE k = b + 1
      <4>1. g[k] = src[i]
        BY <2>1, <2>5, <3>3, Zenon DEF Extends
      <4>2. D + k = i
        BY <2>5b, <3>3, Zenon
      <4> QED
        BY <1>4, <4>1, <4>2, Zenon
    <3> QED
      BY <2>5a, <3>2, <3>3
  <2>7. D + Len(g) = i
    BY <2>5a, <2>5b, Zenon
  <2>8. EncodedTo(src, i, f)
    BY <2>4, <2>5, <2>6, <2>7, Zenon DEF EncodedTo
  <2> QED
    BY <2>8, Zenon DEF f
<1> QED
  BY <1>3, <1>4, Zenon

\* The encoder's loop has a value for every turn.
LEMMA EncodingTurns ==
  ASSUME NEW src \in Seq(Nat)
  PROVE  /\ Encoding(src)[0] = [done |-> <<>>, block |-> <<>>]
         /\ \A i \in 1 .. Len(src) : Encoding(src)[i] = EncodeByte(Encoding(src)[i - 1], src[i])
<1> DEFINE n == Len(src)
           s == [done |-> <<>>, block |-> <<>>]
           D == [i \in 1 .. n |-> [e \in EncStates |-> EncodeByte(e, src[i])]]
<1>1. n \in Nat /\ s \in EncStates /\ \A i \in 1 .. n : src[i] \in Nat
  BY DEF EncStates
<1>2. D \in [1 .. n -> [EncStates -> EncStates]]
  BY <1>1, EncodeByteType, Zenon
<1> HIDE DEF n, s
<1>3. LoopRuns(n, EncStates, s, D) # {}
  <2> HIDE DEF D
  <2> QED
    BY <1>1, <1>2, LoopValues, Zenon
<1>4. PICK f \in [0 .. n -> EncStates] : f[0] = s /\ \A i \in 1 .. n : f[i] = D[i][f[i - 1]]
  BY <1>3, Zenon DEF LoopRuns
<1>5. \A i \in 1 .. n : i - 1 \in 0 .. n
  BY <1>1
<1>6. \A i \in 1 .. n : f[i] = EncodeByte(f[i - 1], src[i])
  BY <1>4, <1>5, Zenon
<1>7. f = [i \in 0 .. n |-> IF i = 0 THEN s ELSE EncodeByte(f[i - 1], src[i])]
  BY <1>1, <1>4, <1>6
<1>8. Encoding(src) = [i \in 0 .. n |-> IF i = 0 THEN s ELSE EncodeByte(Encoding(src)[i - 1], src[i])]
  BY <1>7, Zenon DEF Encoding, n, s
<1>9. 0 \in 0 .. n /\ \A i \in 1 .. n : i \in 0 .. n /\ i # 0
  BY <1>1
<1> HIDE DEF D
<1> QED
  BY <1>8, <1>9, Zenon DEF n, s

\* cobs_encode puts the right code in front of every place.
LEMMA Encoded ==
  ASSUME NEW src \in Seq(Nat), Len(src) + 1 < BYTE_MAX
  PROVE  /\ cobs_encode(src) \in Seq(Nat)
         /\ Len(cobs_encode(src)) = Len(src) + 1
         /\ \A j \in 1 .. Len(src) + 1 : IsCode(src, j - 1, cobs_encode(src)[j])
<1> DEFINE n == Len(src)
           B == {i \in 0 .. n : ~EncodedTo(src, i, Encoding(src)[i])}
<1>1. n \in Nat /\ n \in 0 .. n /\ \A i \in 1 .. n : i - 1 \in 0 .. n
  OBVIOUS
<1>2. 0 \notin B
  <2>1. EncodedTo(src, 0, [done |-> <<>>, block |-> <<>>])
    BY DEF EncodedTo, EncStates
  <2> QED
    BY <2>1, EncodingTurns, Zenon
<1>3. ASSUME NEW i \in 1 .. n, i \in B
      PROVE  i - 1 \in B
  <2>1. EncodedTo(src, i - 1, Encoding(src)[i - 1]) => EncodedTo(src, i, EncodeByte(Encoding(src)[i - 1], src[i]))
    BY EncodeStep, Zenon
  <2>2. Encoding(src)[i] = EncodeByte(Encoding(src)[i - 1], src[i])
    BY EncodingTurns, Zenon
  <2> QED
    BY <1>1, <1>3, <2>1, <2>2, Zenon
<1>4. B = {}
  <2>1. B \subseteq 0 .. n
    BY Zenon
  <2> HIDE DEF B, n
  <2> QED
    BY <1>1, <1>2, <1>3, <2>1, Turnwise, Zenon
<1>5. EncodedTo(src, n, Encoding(src)[n])
  BY <1>1, <1>4, Zenon
<1> DEFINE q == finish_block(Encoding(src)[n])
<1>6. /\ q \in EncStates /\ Len(q.done) = n + 1
      /\ \A j \in 1 .. n + 1 : IsCode(src, j - 1, q.done[j])
  <2>1. ~(n < Len(src))
    OBVIOUS
  <2> QED
    BY <1>1, <1>5, <2>1, FinishedCodes, Zenon
<1>7. cobs_encode(src) = q.done
  BY Zenon DEF cobs_encode
<1> HIDE DEF q
<1>8. q.done \in Seq(Nat)
  BY <1>6, Zenon DEF EncStates
<1> QED
  BY <1>6, <1>7, <1>8, Zenon

DecStates == [out : Seq(Nat), code : Int, left : Nat]
DecStart == [out |-> <<>>, code |-> -1, left |-> 0]

\* The decoder after i bytes: it has put out the data before place i, and copies
\* up to the next zero.
DecodedTo(data, i, d) ==
  IF i = 0 THEN d = DecStart
  ELSE /\ d \in DecStates /\ Len(d.out) = i - 1
       /\ \A k \in 1 .. i - 1 : d.out[k] = data[k]
       /\ i + d.left <= Len(data) + 1
       /\ \A k \in i .. i + d.left - 1 : data[k] # 0
       /\ i + d.left = Len(data) + 1 \/ data[i + d.left] = 0
       /\ d.code \in 1 .. Len(data) + 1

\* The decoder's states.
LEMMA DecodeByteType ==
  ASSUME NEW d \in DecStates, NEW b \in Nat
  PROVE  DecodeByte(d, b) \in DecStates
<1>1. d.out \in Seq(Nat) /\ d.code \in Int /\ d.left \in Nat
  BY Zenon DEF DecStates
<1>2. Append(d.out, b) \in Seq(Nat) /\ Append(d.out, 0) \in Seq(Nat)
  BY <1>1
<1>3. CASE d.left > 0
  <2>1. DecodeByte(d, b) = [out |-> Append(d.out, b), code |-> d.code, left |-> d.left - 1]
    BY <1>3, Zenon DEF DecodeByte
  <2> QED
    BY <1>1, <1>2, <1>3, <2>1 DEF DecStates
<1>4. CASE ~(d.left > 0)
  <2>1. \E o \in {d.out, Append(d.out, 0)} : \E l \in {0, b - 1} :
          DecodeByte(d, b) = [out |-> o, code |-> b, left |-> l] /\ (b = 0 => l = 0)
    BY <1>4, Zenon DEF DecodeByte
  <2>2. PICK o \in {d.out, Append(d.out, 0)}, l \in {0, b - 1} :
          DecodeByte(d, b) = [out |-> o, code |-> b, left |-> l] /\ (b = 0 => l = 0)
    BY <2>1, Zenon
  <2>3. l \in Nat
    BY <2>2
  <2>4. o \in Seq(Nat)
    BY <1>1, <1>2, Zenon
  <2> QED
    BY <2>2, <2>3, <2>4 DEF DecStates
<1> QED
  BY <1>3, <1>4, Zenon

\* One byte through the decoder.
LEMMA DecodeStep ==
  ASSUME NEW data \in Seq(Nat), NEW n \in Nat, n = Len(data), n + 1 < BYTE_MAX, NEW i \in 0 .. n,
         NEW d, DecodedTo(data, i, d), NEW b \in Nat, IsCode(data, i, b)
  PROVE  DecodedTo(data, i + 1, DecodeByte(d, b))
<1> DEFINE f == DecodeByte(d, b)
<1>0. i \in Nat /\ i <= n /\ i + 1 # 0 /\ i + 1 - 1 = i /\ i + 1 \in Nat /\ BYTE_MAX \in Nat
  BY WireConstants
<1>1. CASE i = 0
  <2>1. d.left = 0 /\ d.code = -1 /\ d.out = <<>>
    BY <1>1 DEF DecodedTo, DecStart
  <2>2. /\ b \in 1 .. n + 1 /\ \A k \in 1 .. b - 1 : data[k] # 0
        /\ b = n + 1 \/ data[b] = 0
    BY <1>1 DEF IsCode
  <2>3. f = [out |-> <<>>, code |-> b, left |-> b - 1]
    BY <2>1, <2>2 DEF DecodeByte
  <2> HIDE DEF f
  <2>4. f.out = <<>> /\ f.code = b /\ f.left = b - 1 /\ f \in DecStates
    BY <2>2, <2>3 DEF DecStates
  <2>5. DecodedTo(data, 1, f)
    BY <2>2, <2>4 DEF DecodedTo
  <2> QED
    BY <1>1, <2>5 DEF f
<1>2. ASSUME i # 0
      PROVE  DecodedTo(data, i + 1, f)
  <2>1. /\ d \in DecStates /\ Len(d.out) = i - 1
        /\ \A k \in 1 .. i - 1 : d.out[k] = data[k]
        /\ i + d.left <= n + 1
        /\ \A k \in i .. i + d.left - 1 : data[k] # 0
        /\ i + d.left = n + 1 \/ data[i + d.left] = 0
        /\ d.code \in 1 .. n + 1
    BY <1>2, Zenon DEF DecodedTo
  <2>2. d.out \in Seq(Nat) /\ d.code \in Int /\ d.left \in Nat
    BY <2>1, Zenon DEF DecStates
  <2>a. PICK o : o = Append(d.out, data[i])
    BY Zenon
  <2>b. PICK l : l = d.left
    BY Zenon
  <2>c. PICK c : c = d.code
    BY Zenon
  <2>d. /\ l \in Nat /\ c \in Int /\ i + l <= n + 1
        /\ \A k \in i .. i + l - 1 : data[k] # 0
        /\ i + l = n + 1 \/ data[i + l] = 0
        /\ c \in 1 .. n + 1
    BY <2>1, <2>2, <2>b, <2>c, Zenon
  <2>3. o \in Seq(Nat) /\ Len(o) = i /\ \A k \in 1 .. i : o[k] = data[k]
    <3>0. data[i] \in Nat
      BY <1>0, <1>2
    <3>1. o \in Seq(Nat) /\ Extends(o, d.out, data[i])
      BY <2>2, <2>a, <3>0, JoinedOne, Zenon
    <3>2. Len(o) = i - 1 + 1 /\ \A k \in 1 .. i - 1 : o[k] = d.out[k]
      BY <2>1, <3>1, Zenon DEF Extends
    <3>3. o[i - 1 + 1] = data[i]
      BY <2>1, <3>1, Zenon DEF Extends
    <3>4. i - 1 + 1 = i /\ \A k \in 1 .. i : k = i \/ k \in 1 .. i - 1
      BY <1>0
    <3> QED
      BY <2>1, <3>1, <3>2, <3>3, <3>4, Zenon
  <2>4. CASE l > 0
    <3>1. i \in i .. i + l - 1 /\ i > 0 /\ l - 1 \in Nat
      BY <1>0, <1>2, <2>d, <2>4
    <3>2. b = data[i]
      BY <2>d, <3>1, Zenon DEF IsCode
    <3>3. f = [out |-> o, code |-> c, left |-> l - 1]
      BY <2>4, <2>a, <2>b, <2>c, <3>2, Zenon DEF DecodeByte
    <3> HIDE DEF f
    <3>4. f.out = o /\ f.code = c /\ f.left = l - 1 /\ f \in DecStates
      BY <2>d, <2>3, <3>1, <3>3, Zenon DEF DecStates
    <3>5. i + 1 + (l - 1) = i + l /\ \A k \in i + 1 .. i + l - 1 : k \in i .. i + l - 1
      BY <1>0, <2>d
    <3>a. Len(f.out) = i + 1 - 1 /\ \A k \in 1 .. i + 1 - 1 : f.out[k] = data[k]
      BY <1>0, <2>3, <3>4, Zenon
    <3>b. i + 1 + f.left = i + l
      BY <3>4, <3>5, Zenon
    <3>c. i + 1 + f.left <= n + 1 /\ (i + 1 + f.left = n + 1 \/ data[i + 1 + f.left] = 0)
      BY <2>d, <3>5, <3>b, Zenon
    <3>d. \A k \in i + 1 .. i + 1 + f.left - 1 : data[k] # 0
      <4>1. \A k \in i + 1 .. i + l - 1 : data[k] # 0
        BY <2>d, <3>5, Zenon
      <4> QED
        BY <1>0, <3>1, <3>4, <4>1, <2>d
    <3>e. f \in DecStates /\ f.code \in 1 .. n + 1
      BY <2>d, <3>5, <3>4, Zenon
    <3> QED
      BY <1>0, <3>a, <3>c, <3>d, <3>e, SMTT(30) DEF DecodedTo
  <2>5. CASE l = 0
    <3>1. data[i] = 0
      <4>1. i + 0 = i /\ i # n + 1
        BY <1>0
      <4> QED
        BY <2>d, <2>5, <4>1, Zenon
    <3>2. /\ b \in 1 .. n + 1 - i /\ \A k \in 1 .. b - 1 : data[i + k] # 0
          /\ i + b = n + 1 \/ data[i + b] = 0
      BY <3>1, Zenon DEF IsCode
    <3>3. c # -1 /\ c # BYTE_MAX
      BY <1>0, <2>d
    <3>4. f = [out |-> o, code |-> b, left |-> b - 1]
      <4>1. ~(d.left > 0) /\ b # 0 /\ Append(d.out, 0) = o
        BY <2>a, <2>b, <2>5, <3>1, <3>2
      <4>2. ~(d.code = -1 \/ (dir = "down" /\ d.code = BYTE_MAX))
        BY <2>c, <3>3, Zenon
      <4> QED
        BY <4>1, <4>2, Zenon DEF DecodeByte
    <3> HIDE DEF f
    <3>5. b - 1 \in Nat /\ i + 1 + (b - 1) = i + b /\ i + b <= n + 1 /\ b \in 1 .. n + 1
      BY <1>0, <3>2
    <3>6. f.out = o /\ f.code = b /\ f.left = b - 1 /\ f \in DecStates
      BY <2>3, <3>4, <3>5 DEF DecStates
    <3>9. \A k \in i + 1 .. i + b - 1 : data[k] # 0
      <4>1. \A k \in i + 1 .. i + b - 1 : k - i \in 1 .. b - 1 /\ i + (k - i) = k
        BY <1>0
      <4> QED
        BY <3>2, <4>1, Zenon
    <3>a. Len(f.out) = i + 1 - 1 /\ \A k \in 1 .. i + 1 - 1 : f.out[k] = data[k]
      BY <1>0, <2>3, <3>6, Zenon
    <3>b. i + 1 + f.left = i + b
      BY <3>6, <3>5, Zenon
    <3>c. i + 1 + f.left <= n + 1 /\ (i + 1 + f.left = n + 1 \/ data[i + 1 + f.left] = 0)
      BY <3>2, <3>5, <3>9, <3>b, Zenon
    <3>d. \A k \in i + 1 .. i + 1 + f.left - 1 : data[k] # 0
      <4>1. \A k \in i + 1 .. i + b - 1 : data[k] # 0
        BY <3>2, <3>5, <3>9, Zenon
      <4> QED
        BY <1>0, <3>5, <3>6, <4>1
    <3>e. f \in DecStates /\ f.code \in 1 .. n + 1
      BY <3>2, <3>5, <3>9, <3>6, Zenon
    <3> QED
      BY <1>0, <3>a, <3>c, <3>d, <3>e, SMTT(30) DEF DecodedTo
  <2> QED
    BY <2>d, <2>4, <2>5
<1> QED
  BY <1>0, <1>1, <1>2, Zenon

\* The decoder's loop has a value for every turn.
LEMMA DecodingTurns ==
  ASSUME NEW src \in Seq(Nat)
  PROVE  /\ Decoding(src)[0] = DecStart
         /\ \A i \in 1 .. Len(src) : Decoding(src)[i] = DecodeByte(Decoding(src)[i - 1], src[i])
<1> DEFINE n == Len(src)
           D == [i \in 1 .. n |-> [d \in DecStates |-> DecodeByte(d, src[i])]]
<1>1. n \in Nat /\ DecStart \in DecStates /\ \A i \in 1 .. n : src[i] \in Nat
  BY DEF DecStates, DecStart
<1>2. D \in [1 .. n -> [DecStates -> DecStates]]
  BY <1>1, DecodeByteType, Zenon
<1> HIDE DEF n
<1>3. LoopRuns(n, DecStates, DecStart, D) # {}
  <2> HIDE DEF D
  <2> QED
    BY <1>1, <1>2, LoopValues, Zenon
<1>4. PICK f \in [0 .. n -> DecStates] : f[0] = DecStart /\ \A i \in 1 .. n : f[i] = D[i][f[i - 1]]
  BY <1>3, Zenon DEF LoopRuns
<1>5. \A i \in 1 .. n : i - 1 \in 0 .. n
  BY <1>1
<1>6. \A i \in 1 .. n : f[i] = DecodeByte(f[i - 1], src[i])
  BY <1>4, <1>5, Zenon
<1>7. f = [i \in 0 .. n |-> IF i = 0 THEN DecStart ELSE DecodeByte(f[i - 1], src[i])]
  BY <1>1, <1>4, <1>6
<1>8. Decoding(src) = [i \in 0 .. n |-> IF i = 0 THEN DecStart ELSE DecodeByte(Decoding(src)[i - 1], src[i])]
  BY <1>7, Zenon DEF Decoding, n, DecStart
<1>9. 0 \in 0 .. n /\ \A i \in 1 .. n : i \in 0 .. n /\ i # 0
  BY <1>1
<1> HIDE DEF D
<1> QED
  BY <1>8, <1>9, Zenon DEF n

\* cobs_decode undoes the encoding.
LEMMA Decoded ==
  ASSUME NEW data \in Seq(Nat), Len(data) + 1 < BYTE_MAX, NEW enc \in Seq(Nat),
         Len(enc) = Len(data) + 1, \A j \in 1 .. Len(data) + 1 : IsCode(data, j - 1, enc[j])
  PROVE  cobs_decode(enc).out = data /\ cobs_decode(enc).left = 0
<1>0. PICK n \in Nat, e \in Nat : n = Len(data) /\ e = n + 1 /\ e = Len(enc)
  OBVIOUS
<1> DEFINE B == {i \in 0 .. e : ~DecodedTo(data, i, Decoding(enc)[i])}
<1>1. /\ e \in 0 .. e /\ e # 0 /\ e - 1 = n
      /\ \A i \in 1 .. e : i - 1 \in 0 .. n /\ i - 1 \in 0 .. e /\ i - 1 + 1 = i /\ i \in 1 .. n + 1
  BY <1>0
<1>2. 0 \notin B
  BY DecodingTurns, Zenon DEF DecodedTo
<1>3. ASSUME NEW i \in 1 .. e, i \in B
      PROVE  i - 1 \in B
  <2>1. IsCode(data, i - 1, enc[i]) /\ enc[i] \in Nat
    BY <1>0
  <2>2. DecodedTo(data, i - 1, Decoding(enc)[i - 1]) => DecodedTo(data, i - 1 + 1, DecodeByte(Decoding(enc)[i - 1], enc[i]))
    BY <1>0, <1>1, <2>1, DecodeStep, Zenon
  <2>3. Decoding(enc)[i] = DecodeByte(Decoding(enc)[i - 1], enc[i])
    BY <1>0, DecodingTurns, Zenon
  <2> QED
    BY <1>1, <1>3, <2>2, <2>3, Zenon
<1>4. B = {}
  <2>1. B \subseteq 0 .. e
    BY Zenon
  <2> HIDE DEF B
  <2> QED
    BY <1>2, <1>3, <2>1, Turnwise, Zenon
<1>5. DecodedTo(data, e, Decoding(enc)[e])
  BY <1>1, <1>4, Zenon
<1>6. PICK d : d = cobs_decode(enc)
  BY Zenon
<1>7. DecodedTo(data, e, d)
  BY <1>0, <1>5, <1>6, Zenon DEF cobs_decode
<1>8. /\ d \in DecStates /\ Len(d.out) = n /\ \A k \in 1 .. n : d.out[k] = data[k]
      /\ e + d.left <= e
  BY <1>0, <1>1, <1>7, Zenon DEF DecodedTo
<1>9. d.out \in Seq(Nat) /\ d.left \in Nat
  BY <1>8, Zenon DEF DecStates
<1>10. d.left = 0
  BY <1>8, <1>9
<1>11. d.out = data
  BY <1>0, <1>8, <1>9, SeqEqual, Zenon
<1> QED
  BY <1>6, <1>10, <1>11, Zenon

\* t agrees with s from place a on.
Agrees(s, t, a, n) == n = Len(t) /\ \A k \in 1 .. n : t[k] = s[a + k - 1]

\* A stretch of s that agrees with t is t.
LEMMA Stretch ==
  ASSUME NEW S, NEW s \in Seq(S), NEW t \in Seq(S), NEW a \in Nat, NEW b \in Nat, NEW n \in Nat,
         1 <= a, b <= Len(s), n = b - a + 1, Agrees(s, t, a, n)
  PROVE  SubSeq(s, a, b) = t
<1>1. PICK u : u = SubSeq(s, a, b)
  BY Zenon
<1>2. \A i \in a .. b : s[i] \in S
  OBVIOUS
<1>3. /\ u \in Seq(S) /\ Len(u) = (IF a <= b THEN b - a + 1 ELSE 0)
      /\ \A i \in 1 .. b - a + 1 : u[i] = s[a + i - 1]
  BY <1>1, <1>2, SubSeqProperties
<1>4. Len(u) = n /\ n = Len(t)
  BY <1>3, SMTT(30) DEF Agrees
<1>5. \A k \in 1 .. n : u[k] = t[k]
  BY <1>3, Zenon DEF Agrees
<1>6. u = t
  BY <1>3, <1>4, <1>5, SeqEqual, Zenon
<1> QED
  BY <1>1, <1>6, Zenon

\* What is encoded of a message.
Data(m) == Packet(m) \o <<checksum(Packet(m))>>

\* The packet of a message, and the packet with its checksum, byte by byte.
LEMMA PacketFacts ==
  ASSUME NEW m \in Messages, NEW p, p = Len(m.payload)
  PROVE  /\ p \in 0 .. MAX_PAYLOAD_SIZE
         /\ Packet(m) \in Seq(Bytes) /\ Len(Packet(m)) = p + 2
         /\ Packet(m)[1] = m.id /\ Packet(m)[2] = p
         /\ \A k \in 1 .. p : Packet(m)[k + 2] = m.payload[k]
         /\ Data(m) \in Seq(Bytes) /\ Len(Data(m)) = p + 3
         /\ \A k \in 1 .. p + 2 : Data(m)[k] = Packet(m)[k]
         /\ Data(m)[p + 3] = checksum(Packet(m))
<1>1. /\ m.id \in Bytes /\ m.payload \in Seq(Bytes) /\ p \in Nat /\ p <= MAX_PAYLOAD_SIZE
      /\ MAX_PAYLOAD_SIZE \in Nat /\ BYTE_MAX \in Nat /\ p \in Bytes
  BY WireConstants DEF Bytes
<1>2. PICK h : h = <<m.id, p>>
  BY Zenon
<1>3. h \in Seq(Bytes) /\ Len(h) = 2 /\ h[1] = m.id /\ h[2] = p
  BY <1>1, <1>2
<1>4. PICK q : q = Packet(m)
  BY Zenon
<1>5. q = h \o m.payload
  BY <1>2, <1>4, Zenon DEF Packet
<1>6. q \in Seq(Bytes) /\ Joins(q, h, m.payload)
  BY <1>1, <1>3, <1>5, Joined, Zenon
<1>7. /\ Len(q) = 2 + p /\ (\A i \in 1 .. 2 : q[i] = h[i])
      /\ \A i \in 1 .. p : q[2 + i] = m.payload[i]
  BY <1>3, <1>6, Zenon DEF Joins
<1>8. Len(q) = p + 2 /\ q[1] = m.id /\ q[2] = p /\ \A k \in 1 .. p : q[k + 2] = m.payload[k]
  BY <1>1, <1>3, <1>7
<1>9. checksum(q) \in Bytes
  BY <1>6, ChecksumIsByte, Zenon
<1>10. PICK d : d = Data(m)
  BY Zenon
<1>11. d = q \o <<checksum(q)>>
  BY <1>4, <1>10, Zenon DEF Data
<1>12. d \in Seq(Bytes) /\ Extends(d, q, checksum(q))
  BY <1>6, <1>9, <1>11, JoinedOne, Zenon
<1>13. Len(d) = p + 2 + 1 /\ (\A i \in 1 .. p + 2 : d[i] = q[i]) /\ d[p + 2 + 1] = checksum(q)
  BY <1>8, <1>12, Zenon DEF Extends
<1>14. p + 2 + 1 = p + 3 /\ p \in 0 .. MAX_PAYLOAD_SIZE /\ 1 \in 1 .. p + 2
  BY <1>1
<1> QED
  BY <1>4, <1>6, <1>8, <1>10, <1>12, <1>13, <1>14, Zenon

\* enc encodes d, which has p bytes besides id, length and checksum: it has no
\* zero, is one byte longer, and is decoded to d.
BodyIs(enc, p, d) ==
  /\ enc \in Seq(Bytes) /\ Len(enc) = p + 4 /\ \A k \in 1 .. p + 4 : enc[k] # 0
  /\ \A j \in 1 .. p + 4 : IsCode(d, j - 1, enc[j])
  /\ cobs_decode(enc).out = d /\ cobs_decode(enc).left = 0

\* The encoded packet.
LEMMA BodyFacts ==
  ASSUME NEW m \in Messages
  PROVE  BodyIs(cobs_encode(Data(m)), Len(m.payload), Data(m))
<1>a. PICK p : p = Len(m.payload)
  BY Zenon
<1>b. PICK enc : enc = cobs_encode(Data(m))
  BY Zenon
<1>1. PICK d : d = Data(m)
  BY Zenon
<1>2. p \in 0 .. MAX_PAYLOAD_SIZE /\ d \in Seq(Bytes) /\ Len(d) = p + 3
  BY <1>a, <1>1, PacketFacts, Zenon
<1>3. MAX_PAYLOAD_SIZE \in Nat /\ BYTE_MAX \in Nat /\ MAX_PAYLOAD_SIZE + 5 <= BYTE_MAX
  BY WireConstants, Zenon
<1>4. d \in Seq(Nat)
  BY <1>2, <1>3 DEF Bytes
<1>5. p + 3 + 1 < BYTE_MAX /\ p + 3 + 1 = p + 4 /\ p \in Nat
  BY <1>2, <1>3
<1>6. Len(d) + 1 < BYTE_MAX /\ Len(d) + 1 = p + 4
  BY <1>2, <1>5, Zenon
<1>7. enc = cobs_encode(d)
  BY <1>b, <1>1, Zenon
<1>8. /\ enc \in Seq(Nat) /\ Len(enc) = Len(d) + 1
      /\ \A j \in 1 .. Len(d) + 1 : IsCode(d, j - 1, enc[j])
  BY <1>4, <1>6, <1>7, Encoded, Zenon
<1>9. cobs_decode(enc).out = d /\ cobs_decode(enc).left = 0
  BY <1>4, <1>6, <1>8, Decoded, Zenon
<1>10. ASSUME NEW j \in 1 .. p + 4
       PROVE  enc[j] \in Bytes /\ enc[j] # 0
  <2>1. IsCode(d, j - 1, enc[j]) /\ j - 1 \in 0 .. p + 3
    BY <1>5, <1>6, <1>8
  <2>2. CASE j - 1 > 0 /\ d[j - 1] # 0
    <3>1. enc[j] = d[j - 1]
      BY <2>1, <2>2, Zenon DEF IsCode
    <3>2. d[j - 1] \in Bytes
      BY <1>2, <1>5, <2>1, <2>2
    <3> QED
      BY <2>2, <3>1, <3>2, Zenon
  <2>3. CASE ~(j - 1 > 0 /\ d[j - 1] # 0)
    <3>1. enc[j] \in 1 .. p + 3 + 1 - (j - 1)
      BY <1>2, <2>1, <2>3, Zenon DEF IsCode
    <3> QED
      BY <1>3, <1>5, <3>1 DEF Bytes
  <2> QED
    BY <2>2, <2>3, Zenon
<1>11. enc \in Seq(Bytes)
  BY <1>6, <1>8, <1>10, LenProperties
<1>12. BodyIs(enc, p, d)
  BY <1>6, <1>8, <1>9, <1>10, <1>11, Zenon DEF BodyIs
<1> QED
  BY <1>a, <1>b, <1>1, <1>12, Zenon

\* F is the frame with body enc.
FrameIs(F, p, enc) ==
  /\ F \in Seq(Bytes) /\ Len(F) = p + 6 /\ F[1] = 0 /\ F[2] = p + 4
  /\ \A k \in 1 .. p + 4 : F[k + 2] = enc[k]

\* A frame, byte by byte.
LEMMA FrameBytes ==
  ASSUME NEW m \in Messages
  PROVE  FrameIs(message_to_bytes(m), Len(m.payload), cobs_encode(Data(m)))
<1>a. PICK p : p = Len(m.payload)
  BY Zenon
<1>b. PICK enc : enc = cobs_encode(Data(m))
  BY Zenon
<1>c. PICK F : F = message_to_bytes(m)
  BY Zenon
<1>1. enc \in Seq(Bytes) /\ Len(enc) = p + 4
  BY <1>a, <1>b, BodyFacts, Zenon DEF BodyIs
<1>2. p \in 0 .. MAX_PAYLOAD_SIZE
  BY <1>a, PacketFacts, Zenon
<1>3. p \in Nat /\ p + 4 \in Bytes /\ 0 \in Bytes
  BY <1>2, WireConstants DEF Bytes
<1>4. PICK h : h = <<0, p + 4>>
  BY Zenon
<1>5. h \in Seq(Bytes) /\ Len(h) = 2 /\ h[1] = 0 /\ h[2] = p + 4
  BY <1>3, <1>4
<1>6. F = h \o enc
  BY <1>b, <1>c, <1>1, <1>4, Zenon DEF message_to_bytes, Data
<1>7. F \in Seq(Bytes) /\ Joins(F, h, enc)
  BY <1>1, <1>5, <1>6, Joined, Zenon
<1>8. /\ Len(F) = 2 + (p + 4) /\ (\A i \in 1 .. 2 : F[i] = h[i])
      /\ \A i \in 1 .. p + 4 : F[2 + i] = enc[i]
  BY <1>1, <1>5, <1>7, Zenon DEF Joins
<1>9. /\ 2 + (p + 4) = p + 6 /\ 1 \in 1 .. 2 /\ 2 \in 1 .. 2
      /\ \A k \in 1 .. p + 4 : 2 + k = k + 2
  BY <1>3
<1>10. FrameIs(F, p, enc)
  BY <1>5, <1>7, <1>8, <1>9, Zenon DEF FrameIs
<1> QED
  BY <1>a, <1>b, <1>c, <1>10, Zenon

\* The fields of the decoded packet are the message's.
LEMMA FieldsOfData ==
  ASSUME NEW m \in Messages
  PROVE  Fields(Data(m)) = {m}
<1>1. PICK p : p = Len(m.payload)
  BY Zenon
<1>2. PICK q : q = Packet(m)
  BY Zenon
<1>3. PICK d : d = Data(m)
  BY Zenon
<1>4. /\ p \in 0 .. MAX_PAYLOAD_SIZE
      /\ q \in Seq(Bytes) /\ Len(q) = p + 2
      /\ q[1] = m.id /\ q[2] = p
      /\ \A k \in 1 .. p : q[k + 2] = m.payload[k]
      /\ d \in Seq(Bytes) /\ Len(d) = p + 3
      /\ \A k \in 1 .. p + 2 : d[k] = q[k]
      /\ d[p + 3] = checksum(q)
  BY <1>1, <1>2, <1>3, PacketFacts, ZenonT(30)
<1>5. p \in Nat /\ m.payload \in Seq(Bytes) /\ m = [id |-> m.id, payload |-> m.payload]
  BY <1>4, WireConstants
<1>6. d[1] = m.id /\ d[2] = p /\ \A k \in 1 .. p : d[k + 2] = m.payload[k]
  <2>1. 1 \in 1 .. p + 2 /\ 2 \in 1 .. p + 2 /\ \A k \in 1 .. p : k + 2 \in 1 .. p + 2
    BY <1>5
  <2> QED
    BY <1>4, <2>1, Zenon
<1>7. PICK n : n = 2 + p
  BY Zenon
<1>8. n = p + 2 /\ n + 1 = p + 3 /\ n \in Nat /\ n <= p + 3
  BY <1>5, <1>7
<1>9. SubSeq(d, 1, n) = q
  <2>1. n = n - 1 + 1 /\ \A k \in 1 .. n : 1 + k - 1 = k
    BY <1>8
  <2>2. n <= Len(d) /\ n = Len(q) /\ \A k \in 1 .. n : q[k] = d[1 + k - 1]
    BY <1>4, <1>8, <2>1, Zenon
  <2> QED
    BY <1>4, <1>8, <2>1, <2>2, Stretch DEF Agrees
<1>10. SubSeq(d, 3, n) = m.payload
  <2>1. p = n - 3 + 1 /\ \A k \in 1 .. p : 3 + k - 1 = k + 2
    BY <1>5, <1>8
  <2>2. n <= Len(d) /\ \A k \in 1 .. p : m.payload[k] = d[3 + k - 1]
    BY <1>4, <1>6, <1>8, <2>1, Zenon
  <2> QED
    BY <1>1, <1>4, <1>5, <1>8, <2>1, <2>2, Stretch DEF Agrees
<1>11. ~(Len(d) < 2 \/ Len(d) < 3 + d[2])
  BY <1>4, <1>5, <1>6
<1>12. Fields(d) = {[id |-> d[1], payload |-> SubSeq(d, 3, n)]}
  <2>1. 2 + d[2] = n /\ checksum(SubSeq(d, 1, n)) = d[n + 1]
    BY <1>4, <1>6, <1>7, <1>8, <1>9, Zenon
  <2> QED
    BY <1>11, <2>1, Zenon DEF Fields
<1> QED
  BY <1>3, <1>5, <1>6, <1>10, <1>12, Zenon

\* What a receiver makes of the body of a frame that arrived whole.
LEMMA ParsedBody ==
  ASSUME NEW m \in Messages
  PROVE  Parsed(cobs_encode(Data(m))) = {m}
<1>1. PICK p : p = Len(m.payload)
  BY Zenon
<1>2. PICK enc : enc = cobs_encode(Data(m))
  BY Zenon
<1>3. cobs_decode(enc).out = Data(m) /\ cobs_decode(enc).left = 0
  BY <1>1, <1>2, BodyFacts, Zenon DEF BodyIs
<1>4. Fields(Data(m)) = {m}
  BY FieldsOfData, Zenon
<1>5. p \in 0 .. MAX_PAYLOAD_SIZE /\ Len(Data(m)) = p + 3
  BY <1>1, PacketFacts, Zenon
<1>6. Len(Data(m)) \in 3 .. 3 + MAX_PAYLOAD_SIZE
  BY <1>5, WireConstants
<1> QED
  BY <1>2, <1>3, <1>4, <1>6, Zenon DEF Parsed, parse_message

\* The least element of a set of numbers.
LEMMA MinIs ==
  ASSUME NEW T \in SUBSET Int, NEW c \in T, \A y \in T : c <= y
  PROVE  Min(T) = c
<1>1. Min(T) \in T /\ \A y \in T : Min(T) <= y
  BY Zenon DEF Min
<1>2. PICK x \in T : x = Min(T) /\ \A y \in T : x <= y
  BY <1>1, Zenon
<1>3. x = c
  BY <1>2
<1> QED
  BY <1>2, <1>3, Zenon

\* The right code in front of every place is the COBS encoding.
LEMMA CodesAreCobs ==
  ASSUME NEW data \in Seq(Nat), NEW n \in Nat, n = Len(data), NEW enc \in Seq(Nat), Len(enc) = n + 1,
         \A j \in 1 .. n + 1 : IsCode(data, j - 1, enc[j])
  PROVE  enc = Cobs(data)
<1> DEFINE zero == data \o <<0>>
           Away(i) == Min({k \in 1 .. Len(zero) - i : zero[i + k] = 0})
           v(i) == IF i > 1 /\ data[i - 1] # 0 THEN data[i - 1] ELSE Away(i - 1)
<1>4. Cobs(data) = [i \in 1 .. Len(zero) |-> v(i)]
  BY Zenon DEF Cobs
<1>2. zero \in Seq(Nat) /\ Extends(zero, data, 0)
  <2>1. 0 \in Nat
    BY Zenon
  <2> QED
    BY <2>1, JoinedOne, Zenon
<1> HIDE DEF zero
<1>3. Len(zero) = n + 1 /\ (\A i \in 1 .. n : zero[i] = data[i]) /\ zero[n + 1] = 0
  BY <1>2, Zenon DEF Extends
<1>3a. \A o \in Nat : 1 .. Len(zero) - o = 1 .. n + 1 - o
  <2>1. Len(zero) = n + 1
    BY <1>3, Zenon
  <2> QED
    BY <2>1
<1>5. ASSUME NEW i \in 1 .. n + 1
      PROVE  enc[i] = v(i)
  <2>1. PICK o, c : o = i - 1 /\ c = enc[i]
    BY Zenon
  <2>2. IsCode(data, o, c) /\ o \in 0 .. n /\ (i > 1 <=> o > 0)
    BY <2>1
  <2>3. CASE o > 0 /\ data[o] # 0
    <3>1. c = data[o]
      BY <2>2, <2>3, Zenon DEF IsCode
    <3> QED
      BY <2>1, <2>2, <2>3, <3>1, Zenon
  <2>4. CASE ~(o > 0 /\ data[o] # 0)
    <3>1. /\ c \in 1 .. n + 1 - o /\ \A k \in 1 .. c - 1 : data[o + k] # 0
          /\ o + c = n + 1 \/ data[o + c] = 0
      BY <2>2, <2>4, Zenon DEF IsCode
    <3> DEFINE T == {k \in 1 .. Len(zero) - o : zero[o + k] = 0}
    <3>2. c \in T
      <4>1. (o + c \in 1 .. n /\ o + c # n + 1) \/ o + c = n + 1
        <5>1. o \in Nat /\ c \in 1 .. n + 1 - o
          BY <2>2, <3>1
        <5> QED
          BY <5>1
      <4>2. zero[o + c] = 0
        BY <1>3, <3>1, <4>1, Zenon
      <4>3. c \in 1 .. Len(zero) - o
        <5>1. 1 .. Len(zero) - o = 1 .. n + 1 - o
          BY <1>3a, <2>2
        <5> QED
          BY <3>1, <5>1, Zenon
      <4> QED
        BY <4>2, <4>3, Zenon
    <3>3. \A y \in T : c <= y
      <4>1. SUFFICES ASSUME NEW y \in 1 .. Len(zero) - o, zero[o + y] = 0, ~(c <= y)
                     PROVE  FALSE
        BY Zenon
      <4>3. y \in 1 .. n + 1 - o
        <5>1. 1 .. Len(zero) - o = 1 .. n + 1 - o
          BY <1>3a, <2>2
        <5> QED
          BY <4>1, <5>1, Zenon
      <4>2. y \in 1 .. c - 1 /\ o + y \in 1 .. n
        BY <2>2, <3>1, <4>1, <4>3
      <4> QED
        BY <1>3, <3>1, <4>1, <4>2, Zenon
    <3>4. T \in SUBSET Int
      BY <1>3, <2>2
    <3> HIDE DEF T
    <3>5. Min(T) = c
      BY <3>2, <3>3, <3>4, MinIs, Zenon
    <3>6. v(i) = Away(i - 1)
      BY <2>1, <2>2, <2>4, Zenon
    <3>7. Away(i - 1) = Min(T)
      BY <2>1, Zenon DEF T
    <3> QED
      BY <2>1, <3>5, <3>6, <3>7, Zenon
  <2> QED
    BY <2>3, <2>4, Zenon
<1> HIDE DEF v
<1>6. enc = [i \in 1 .. n + 1 |-> enc[i]]
  BY LenProperties, Zenon
<1>7. [i \in 1 .. n + 1 |-> enc[i]] = [i \in 1 .. n + 1 |-> v(i)]
  BY <1>5, Zenon
<1> QED
  BY <1>3, <1>4, <1>6, <1>7, Zenon

\* t is s without its first element.
IsTail(t, s) == Len(t) = Len(s) - 1 /\ \A i \in 1 .. Len(t) : t[i] = s[i + 1]

\* What Tail leaves.
LEMMA TailOf ==
  ASSUME NEW S, NEW s \in Seq(S), s # <<>>
  PROVE  Tail(s) \in Seq(S) /\ IsTail(Tail(s), s)
BY HeadTailProperties, Zenon DEF IsTail

\* Every frame that is sent is well formed.
LEMMA FramesOK ==
  ASSUME NEW m \in Messages
  PROVE  FrameOK(m)
<1>0. PICK p : p = Len(m.payload)
  BY Zenon
<1>a. PICK F : F = message_to_bytes(m)
  BY Zenon
<1>b. PICK enc : enc = cobs_encode(Data(m))
  BY Zenon
<1>c. PICK d : d = Data(m)
  BY Zenon
<1>d. FrameIs(F, p, enc)
  BY <1>0, <1>a, <1>b, FrameBytes, Zenon
<1>2. /\ F \in Seq(Bytes) /\ Len(F) = p + 6 /\ F[1] = 0 /\ F[2] = p + 4
      /\ \A k \in 1 .. p + 4 : F[k + 2] = enc[k]
  BY <1>d, Zenon DEF FrameIs
<1>e. BodyIs(enc, p, d)
  BY <1>0, <1>b, <1>c, BodyFacts, Zenon
<1>3. /\ enc \in Seq(Bytes) /\ Len(enc) = p + 4 /\ \A k \in 1 .. p + 4 : enc[k] # 0
      /\ \A j \in 1 .. p + 4 : IsCode(d, j - 1, enc[j])
      /\ cobs_decode(enc).out = d /\ cobs_decode(enc).left = 0
  BY <1>e, Zenon DEF BodyIs
<1>4. p \in 0 .. MAX_PAYLOAD_SIZE /\ d \in Seq(Bytes) /\ Len(d) = p + 3
  BY <1>0, <1>c, PacketFacts, Zenon
<1>5. p \in Nat /\ p + 3 \in Nat /\ p + 3 + 1 = p + 4 /\ Bytes \in SUBSET Nat
  BY <1>4, WireConstants, SMTT(30) DEF Bytes
<1>6. SubSeq(F, 3, p + 6) = enc
  <2>1. PICK a \in Nat, b \in Nat, n \in Nat : a = 3 /\ b = p + 6 /\ n = p + 4
    BY <1>5
  <2>2. n = b - a + 1 /\ 1 <= a /\ b <= b /\ \A k \in 1 .. n : a + k - 1 = k + 2
    BY <1>5, <2>1
  <2>3. F \in Seq(Bytes) /\ enc \in Seq(Bytes) /\ b <= Len(F) /\ n = Len(enc)
    BY <1>2, <1>3, <2>1, <2>2, Zenon
  <2>4. \A k \in 1 .. n : enc[k] = F[a + k - 1]
    BY <1>2, <2>1, <2>2, Zenon
  <2>5. Agrees(F, enc, a, n)
    BY <2>3, <2>4, Zenon DEF Agrees
  <2>6. SubSeq(F, a, b) = enc
    BY <2>2, <2>3, <2>5, Stretch, Zenon
  <2> QED
    BY <2>1, <2>6, Zenon
<1>7. enc = Cobs(d)
  <2>1. d \in Seq(Nat) /\ enc \in Seq(Nat)
    <3>1. d \in Seq(Bytes) /\ enc \in Seq(Bytes)
      BY <1>3, <1>4, Zenon
    <3> QED
      BY <3>1, WireConstants DEF Bytes
  <2> QED
    BY <1>3, <1>4, <1>5, <2>1, CodesAreCobs, Zenon
<1>8. 0 \notin Range(Tail(F))
  <2>1. PICK t : t = Tail(F)
    BY Zenon
  <2>2. F # <<>>
    BY <1>2, <1>5
  <2>3. t \in Seq(Bytes) /\ Len(t) = p + 5 /\ \A i \in 1 .. Len(t) : t[i] = F[i + 1]
    <3>1. F \in Seq(Bytes)
      BY <1>2, Zenon
    <3>2. t \in Seq(Bytes) /\ Len(t) = Len(F) - 1 /\ \A i \in 1 .. Len(t) : t[i] = F[i + 1]
      <4>1. t \in Seq(Bytes) /\ IsTail(t, F)
        BY <2>1, <2>2, <3>1, TailOf, Zenon
      <4> QED
        BY <4>1, Zenon DEF IsTail
    <3>3. Len(F) = p + 6 /\ Len(t) = Len(F) - 1
      BY <1>2, <3>2, Zenon
    <3>4. Len(t) = p + 5
      BY <1>5, <3>3
    <3> QED
      BY <3>2, <3>4, Zenon
  <2>4. ASSUME NEW i \in 1 .. p + 5
        PROVE  t[i] # 0
    <3>1. CASE i = 1
      BY <1>2, <1>5, <2>3, <3>1
    <3>2. CASE i # 1
      <4>1. i - 1 \in 1 .. p + 4 /\ i - 1 + 2 = i + 1
        BY <1>5, <3>2
      <4> QED
        BY <1>2, <1>3, <2>3, <4>1
    <3> QED
      BY <3>1, <3>2, Zenon
  <2>5. DOMAIN t = 1 .. p + 5
    BY <2>3
  <2> QED
    BY <2>1, <2>4, <2>5, Zenon DEF Range
<1> QED
  BY <1>a, <1>b, <1>c, <1>2, <1>3, <1>6, <1>7, <1>8, Zenon DEF FrameOK, Data
=============================================================================
