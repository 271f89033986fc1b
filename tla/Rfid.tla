--------------------------------- MODULE Rfid ---------------------------------
(***************************************************************************)
(* The RFID device: RFID::device_actions, once per loop, asks the reader    *)
(* (lowcar/lib/MFRC522) whether a card is there and which one it is.  The   *)
(* reader finds out the UID of one card among several by anticollision.     *)
(*                                                                          *)
(* A card is the sequence of what it sends on each cascade level, BYTES     *)
(* bytes of BITS bits (4 of 8 in the code).  The first byte of a level that *)
(* is not the card's last one is the cascade tag CT.                        *)
(***************************************************************************)
EXTENDS Integers, Sequences, FiniteSetsExt

CONSTANTS
  BITS, BYTES,
  CT,         \* PICC_CMD_CT, the cascade tag, a sequence of BITS bits
  Cards,      \* the cards there are
  IdBits,     \* how much of a UID RFID::id holds, three bytes in the code
  MaxCards,   \* how many cards are in the field at a time
  MaxMoves,   \* how many times a card comes or goes
  MaxNoise    \* how many exchanges are disturbed

LevelBits == BITS * BYTES

ASSUME RfidConstants ==
  /\ BITS \in Nat \ {0} /\ BYTES \in Nat \ {0}
  /\ IdBits \in 1 .. LevelBits /\ {MaxCards, MaxMoves, MaxNoise} \subseteq Nat
  /\ CT \in [1 .. BITS -> {0, 1}]
  /\ \A c \in Cards :
       /\ Len(c) \in 1 .. 3
       /\ \A l \in 1 .. Len(c) :
            /\ c[l] \in [1 .. LevelBits -> {0, 1}]
            /\ (SubSeq(c[l], 1, BITS) = CT) <=> (l < Len(c))

VARIABLES
  field,    \* the cards in the field of the antenna
  picc,     \* "IDLE", "ACTIVE" or READY on a level, for each card
  at,       \* what the reader does next
  level, known, buffer,   \* PICC_Select: cascadeLevel, known bits, buffer[2..5]
  uid,      \* uid->uidByte, as bits
  id, tag_detect, delay,  \* RFID
  moves, noise,           \* cards that came or went, disturbed exchanges so far
  seen, before            \* history: cards in the field in this and the last loop

fvars == <<field, picc, at, level, known, buffer, uid, id, tag_detect, delay, moves,
           noise, seen, before>>
reader == <<at, level, known, buffer, uid>>
report == <<id, tag_detect, delay>>

Zeros == [i \in 1 .. LevelBits |-> 0]
NoId == <<>>
IDLE == 0
ACTIVE == 4

RInit ==
  /\ field \in UNION {kSubset(n, Cards) : n \in 0 .. MaxCards}
  /\ picc = [c \in Cards |-> IDLE]
  /\ at = "loop" /\ level = 1 /\ known = 0 /\ buffer = Zeros /\ uid = <<>>
  /\ id = NoId /\ tag_detect = FALSE /\ delay = FALSE
  /\ moves = 0 /\ noise = 0 /\ seen = field /\ before = {}

\* What a card sends on a level without its cascade tag, and all of its UID.
Payload(bits) == IF SubSeq(bits, 1, BITS) = CT THEN SubSeq(bits, BITS + 1, LevelBits) ELSE bits
Id(bits) == SubSeq(bits, 1, IdBits)
Part(c, l) == IF l <= Len(c) THEN Payload(c[l]) ELSE <<>>
Uid(c) == Part(c, 1) \o Part(c, 2) \o Part(c, 3)

-----------------------------------------------------------------------------
\* People hold cards to the reader and take them away.
Enter(c) ==
  /\ moves < MaxMoves /\ moves' = moves + 1
  /\ c \notin field /\ Cardinality(field) < MaxCards
  /\ field' = field \cup {c} /\ seen' = seen \cup {c}
  /\ UNCHANGED <<picc, reader, report, noise, before>>

Leave(c) ==
  /\ moves < MaxMoves /\ moves' = moves + 1
  /\ c \in field
  /\ field' = field \ {c} /\ picc' = [picc EXCEPT ![c] = IDLE]
  /\ UNCHANGED <<reader, report, noise, seen, before>>

\* PCD_CommunicateWithPICC: the cards got the command, but the answer times out
\* or comes with an error, and the caller gives up.
Disturbed == noise < MaxNoise /\ noise' = noise + 1

\* device_actions returns, PICC_Select's variables are gone.
Return ==
  /\ at' = "loop" /\ level' = 1 /\ known' = 0 /\ buffer' = Zeros /\ uid' = <<>>

\* Fault: a loop that finds no card reports that at once.
NoCard_AtOnce ==
  /\ id' = NoId /\ tag_detect' = FALSE /\ delay' = TRUE
  /\ Return

\* Fault: a loop that finds no card keeps the last one.
NoCard_Keep ==
  /\ delay' = TRUE /\ UNCHANGED <<id, tag_detect>>
  /\ Return

\* The end of a device_actions that finds or reads no card: the report is
\* invalidated in the second such loop.
NoCard ==
  /\ id' = IF delay THEN NoId ELSE id
  /\ tag_detect' = (tag_detect /\ ~delay)
  /\ delay' = TRUE
  /\ Return

\* The end of a device_actions that has read a card.
CardRead(bits) ==
  /\ id' = Id(bits) /\ tag_detect' = TRUE /\ delay' = FALSE
  /\ Return

\* The start of device_actions, PICC_IsNewCardPresent: REQA.  The cards that are
\* idle answer, which may collide; all others fall back to idle.
RequestA ==
  /\ at = "loop"
  /\ before' = seen /\ seen' = field
  /\ picc' = [c \in Cards |-> IF c \in field /\ picc[c] = IDLE THEN 1 ELSE IDLE]
  /\ \/ /\ \E c \in field : picc[c] = IDLE
        /\ at' = "select"
        /\ UNCHANGED <<level, known, buffer, uid, report, noise>>
     \/ /\ \/ (\A c \in field : picc[c] # IDLE) /\ UNCHANGED noise
           \/ (\E c \in field : picc[c] = IDLE) /\ Disturbed
        /\ NoCard
  /\ UNCHANGED <<field, moves>>

\* The cards that take part in the anticollision with what is known.
Responders ==
  {c \in field : picc[c] = level /\ SubSeq(c[level], 1, known) = SubSeq(buffer, 1, known)}

\* Where the answers collide, 0 if they do not.
CollisionPos ==
  LET differ == {i \in 1 .. LevelBits : \E c, d \in Responders : c[level][i] # d[level][i]}
  IN  IF differ = {} THEN 0 ELSE CHOOSE i \in differ : \A j \in differ : i <= j

\* "Choose the PICC with the bit set": index and count, as a place in buffer[2..5]
\* (0 and below, and above LevelBits: in another byte of the frame).
ChosenBit(pos) ==
  LET count == (pos - 1) % BITS
      index == 1 + pos \div BITS + (IF count # 0 THEN 1 ELSE 0)
  IN  (index - 2) * BITS + count + 1

\* PICC_Select, ANTICOLLISION: the answer fills the part of the buffer that is
\* not known yet, with 0 from a collision on.
Anticollision ==
  /\ at = "select" /\ known < LevelBits
  /\ \/ /\ Responders # {}
        /\ LET answer == (CHOOSE c \in Responders : TRUE)[level]
               pos == CollisionPos
           IN  /\ known' = IF pos = 0 THEN LevelBits ELSE pos
               /\ buffer' = [i \in 1 .. LevelBits |->
                    IF pos # 0 /\ i = ChosenBit(pos) THEN 1
                    ELSE IF i <= known THEN buffer[i]
                    ELSE IF pos = 0 \/ i < pos THEN answer[i]
                    ELSE 0]
        /\ UNCHANGED <<at, level, uid, report, noise>>
     \/ /\ \/ Responders = {} /\ UNCHANGED noise
           \/ Responders # {} /\ Disturbed
        /\ NoCard
  /\ UNCHANGED <<field, picc, moves, seen, before>>

\* PICC_Select, SELECT: the card with that UID acknowledges, and says whether it
\* has another level; the others fall back to idle.
Select ==
  LET selected == {c \in field : picc[c] = level /\ c[level] = buffer}
      complete == \A c \in selected : Len(c) = level
  IN  /\ at = "select" /\ known = LevelBits
      /\ picc' = [c \in Cards |-> IF c \notin selected THEN IDLE
                                  ELSE IF complete THEN ACTIVE ELSE level + 1]
      /\ \/ /\ selected # {}
            /\ IF complete
               THEN CardRead(uid \o Payload(buffer))
               ELSE /\ uid' = uid \o Payload(buffer)
                    /\ level' = level + 1 /\ known' = 0 /\ buffer' = Zeros
                    /\ UNCHANGED <<at, report>>
            /\ UNCHANGED noise
         \/ /\ \/ selected = {} /\ UNCHANGED noise
               \/ selected # {} /\ Disturbed
            /\ NoCard
      /\ UNCHANGED <<field, moves, seen, before>>

Read == RequestA \/ Anticollision \/ Select

RNext == Read \/ \E c \in Cards : Enter(c) \/ Leave(c)

RSpec == RInit /\ [][RNext]_fvars

\* Device::loop calls device_actions for ever, and the reader's answers and
\* timeouts are bounded.
RFairness == WF_fvars(Read)

-----------------------------------------------------------------------------
\* After every loop RFID::id is the id of a card that was in the field during
\* this loop or the one before, although cards come and go in the middle of the
\* anticollision and other cards answer along with it.
ReportsPresentCard ==
  at = "loop" /\ tag_detect => \E c \in seen \cup before : Id(Uid(c)) = id

\* Two cards collide on the first bit of a byte other than the first, and the
\* first bit of the byte before is 0: ChosenBit sets that one, and no card has
\* the UID the reader goes on with.
Unreadable(cards) ==
  \E c, d \in cards : \E l \in 1 .. 3 : \E i \in BITS + 1 .. LevelBits :
    /\ l <= Len(c) /\ l <= Len(d) /\ i % BITS = 1
    /\ \A k \in 1 .. l - 1 : c[k] = d[k]
    /\ SubSeq(c[l], 1, i - 1) = SubSeq(d[l], 1, i - 1) /\ c[l][i] # d[l][i]
    /\ c[l][i - BITS] = 0

\* Cards that stay in the field are reported from some loop on without a gap,
\* although a card that was just read does not answer in every other loop ("The
\* sensor is too slow, so we have to delay the read by one loop", RFID.cpp:37),
\* unless the reader cannot tell them apart, see Unreadable.
CardsAreReported ==
  \/ []<><<field' # field>>_fvars
  \/ <>[]\/ field = {} \/ Unreadable(field)
         \/ tag_detect /\ \E c \in field : Id(Uid(c)) = id
=============================================================================
