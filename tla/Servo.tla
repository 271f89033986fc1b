-------------------------------- MODULE Servo --------------------------------
(***************************************************************************)
(* The pulses of the servos of ServoControl: the sketch attaches, moves and *)
(* detaches servos while the compare interrupt of the one timer of the      *)
(* board raises and lowers their pins in turn.  Time is the timer's count,  *)
(* in units that are long beside an interrupt and short beside a pulse.     *)
(***************************************************************************)
EXTENDS Integers, FiniteSetsExt

CONSTANTS
  NUM_SERVOS,         \* servos of the board, all constructed at boot
  SERVOS_PER_TIMER,
  REFRESH_INTERVAL,   \* in units, as all that follows
  SLACK,              \* the "few ticks" that a compare value is set ahead
  COUNTS,             \* the timer counts modulo COUNTS, on the board 2^16
  Widths,             \* pulse widths that positions from -1 to 1 stand for
  DEFAULT_PULSE_WIDTH

Pulses == Widths \cup {DEFAULT_PULSE_WIDTH}
Channels == 0 .. NUM_SERVOS - 1

ASSUME ServoConstants ==
  /\ {SERVOS_PER_TIMER, REFRESH_INTERVAL, SLACK, COUNTS} \subseteq Nat
  /\ NUM_SERVOS \in 1 .. SERVOS_PER_TIMER
  /\ Pulses \subseteq 1 .. COUNTS
  /\ NUM_SERVOS * Max(Pulses) + SLACK < REFRESH_INTERVAL /\ REFRESH_INTERVAL < COUNTS

VARIABLES
  tcnt, ocr,     \* TCNT1 and OCR1A
  ocf,           \* OCF1A: the counts were equal, the interrupt is pending
  ocie,          \* OCIE1A: the interrupt is enabled
  channel,       \* Channel[_timer1]
  ticks,         \* servos[].ticks
  isActive,      \* the servos with Pin.isActive
  high,          \* the servos whose pin is HIGH
  sketch,        \* where the sketch is, with which servo and width
  train          \* history of each servo: whether it stayed attached since its last
                 \*   pulse began, how long ago that was, and the width it had then

timer == <<tcnt, ocr, ocf, ocie>>
svars == <<timer, channel, ticks, isActive, high, sketch, train>>

InLoop == [at |-> "loop", servo |-> 0, width |-> 0]

\* The constructors have run, ServoControl's detached both servos.  The timer
\* ran before it was set up, and may have left its flag on.
SInit ==
  /\ tcnt = 0 /\ ocr = 0 /\ ocf \in BOOLEAN /\ ocie = FALSE
  /\ channel = 0
  /\ ticks = [s \in Channels |-> DEFAULT_PULSE_WIDTH]
  /\ isActive = {} /\ high = {}
  /\ sketch = InLoop
  /\ train = [s \in Channels |-> [on |-> FALSE, age |-> 0, width |-> 0]]

-----------------------------------------------------------------------------
\* The timer counts.  Interrupts are served within a unit.
Count ==
  /\ ocie /\ ~ocf
  /\ tcnt' = (tcnt + 1) % COUNTS
  /\ ocf' = (tcnt' = ocr)
  /\ train' = [s \in Channels |->
                 IF train[s].on THEN [train[s] EXCEPT !.age = @ + 1] ELSE train[s]]
  /\ UNCHANGED <<ocr, ocie, channel, ticks, isActive, high, sketch>>

\* TIMER1_COMPA_vect: the pin of this channel goes LOW, that of the next HIGH;
\* behind the last one the refresh interval is waited for.
handle_interrupts ==
  LET now == IF channel < 0 THEN 0 ELSE tcnt
      low == IF channel \in isActive THEN high \ {channel} ELSE high
      next == channel + 1
  IN  /\ ocie /\ ocf
      /\ tcnt' = now
      /\ IF next < NUM_SERVOS /\ next < SERVOS_PER_TIMER
         THEN /\ ocr' = (now + ticks[next]) % COUNTS
              /\ high' = low \cup ({next} \cap isActive)
              /\ channel' = next
              /\ train' = IF next \in isActive
                          THEN [train EXCEPT ![next] =
                                  [on |-> TRUE, age |-> 0, width |-> ticks[next]]]
                          ELSE train
         ELSE /\ ocr' = IF (now + SLACK) % COUNTS < REFRESH_INTERVAL
                        THEN REFRESH_INTERVAL ELSE (now + SLACK) % COUNTS
              /\ high' = low
              /\ channel' = -1
              /\ UNCHANGED train
      /\ ocf' = FALSE
      /\ UNCHANGED <<ocie, ticks, isActive, sketch>>

-----------------------------------------------------------------------------
(* The sketch, which an interrupt may come between any two steps of.       *)

Goes(place) == sketch' = [sketch EXCEPT !.at = place]

\* ServoControl::device_write with a position in range.
device_write_servo(s, w) ==
  /\ sketch.at = "loop"
  /\ sketch' = [at |-> IF s \in isActive THEN "write" ELSE "attach", servo |-> s, width |-> w]
  /\ UNCHANGED <<timer, channel, ticks, isActive, high, train>>

\* isTimerActive.
isTimerActive == \E s \in Channels : s \in isActive

\* Fault: the timer is set up for every servo.
attach_Again ==
  /\ sketch.at = "attach"
  /\ tcnt' = 0 /\ Goes("initISR")
  /\ UNCHANGED <<ocr, ocf, ocie, channel, ticks, isActive, high, train>>

\* Servo::attach, with the first store of initISR if no servo is attached.
attach ==
  /\ sketch.at = "attach"
  /\ IF isTimerActive THEN tcnt' = tcnt /\ Goes("activate")
                      ELSE tcnt' = 0 /\ Goes("initISR")
  /\ UNCHANGED <<ocr, ocf, ocie, channel, ticks, isActive, high, train>>

\* The rest of initISR: pending interrupts are cleared, the interrupt is enabled;
\* neither OCR1A nor Channel is set.
initISR ==
  /\ sketch.at = "initISR"
  /\ ocf' = FALSE /\ ocie' = TRUE
  /\ Goes("activate")
  /\ UNCHANGED <<tcnt, ocr, channel, ticks, isActive, high, train>>

\* "this must be set after the check for isTimerActive".
Activate ==
  /\ sketch.at = "activate"
  /\ isActive' = isActive \cup {sketch.servo}
  /\ Goes("write")
  /\ UNCHANGED <<timer, channel, ticks, high, train>>

\* Servo::writeMicroseconds, which stores the ticks with interrupts off.
writeMicroseconds ==
  /\ sketch.at = "write"
  /\ ticks' = [ticks EXCEPT ![sketch.servo] = sketch.width]
  /\ sketch' = InLoop
  /\ UNCHANGED <<timer, channel, isActive, high, train>>

\* ServoControl::device_reset, disable_all.
device_reset_servo ==
  /\ sketch.at = "loop"
  /\ sketch' = [InLoop EXCEPT !.at = "detach"]
  /\ UNCHANGED <<timer, channel, ticks, isActive, high, train>>

\* Servo::detach of one servo after the other; finISR does nothing on this board,
\* and the pin stays as it is.
detach ==
  /\ sketch.at = "detach"
  /\ isActive' = isActive \ {sketch.servo}
  /\ train' = [train EXCEPT ![sketch.servo] = [on |-> FALSE, age |-> 0, width |-> 0]]
  /\ sketch' = IF sketch.servo + 1 < NUM_SERVOS
               THEN [sketch EXCEPT !.servo = @ + 1] ELSE InLoop
  /\ UNCHANGED <<timer, channel, ticks, high>>

Sketch ==
  \/ \E s \in Channels, w \in Widths : device_write_servo(s, w)
  \/ attach \/ initISR \/ Activate \/ writeMicroseconds
  \/ device_reset_servo \/ detach

SNext == Count \/ handle_interrupts \/ Sketch

SSpec == SInit /\ [][SNext]_svars

-----------------------------------------------------------------------------
\* As long as a servo stays attached, each of its pulses lasts exactly as long as
\* its ticks said when the pulse began, and the next one begins no later than a
\* refresh interval and the pulses of the channels before it, whatever is written
\* meanwhile and whenever other servos are attached, moved or detached: no compare
\* match is missed, and nobody sets the timer up under a running pulse.  (The
\* first round starts behind channel 0, where Channel is initialised, so that the
\* second pulse of a servo comes later than REFRESH_INTERVAL.)
PulsesInTime ==
  \A s \in Channels : train[s].on =>
    /\ IF s \in high THEN train[s].age <= train[s].width ELSE train[s].age >= train[s].width
    /\ train[s].age <= REFRESH_INTERVAL + s * Max(Pulses)
=============================================================================
