------------------------------ MODULE GameState ------------------------------
(***************************************************************************)
(* The game states Shepherd imposes on the robot: the fields of robot_desc *)
(* written by recv_new_msg (tcp_conn.c), and the filter in the executor    *)
(* child through which every Robot.set_value goes, with the thread that    *)
(* polls the fields and ends a debuff after DEBUFF_DURATION                *)
(* (gamestate_filter.c).                                                   *)
(*                                                                         *)
(* One tick of the clock is GAMESTATE_POLL_INTERVAL: a living handler      *)
(* polls once per tick, and a poll takes less than a tick.  Velocities are *)
(* multiples of SLOW_SCALAR squared, so that 1.0 is UNIT.                  *)
(***************************************************************************)
EXTENDS Integers

CONSTANTS
  DEBUFF_DURATION,  \* in ticks
  Velocities        \* what student code asks for

UNIT == 25
Debuffs == {"POISON_IVY", "DEHYDRATION"}

ASSUME GameStateConstants ==
  /\ DEBUFF_DURATION \in Nat \ {0}
  /\ Velocities \subseteq {v \in -2 * UNIT .. 2 * UNIT : v % 5 = 0}

VARIABLES
  active,       \* robot_desc POISON_IVY and DEHYDRATION: TRUE when ACTIVE
  hypothermia,  \* robot_desc HYPOTHERMIA
  handler,      \* gamestate_handler: where it stands
  gamestate,    \*   the debuffs it has noted
  slow,         \*   the hypothermia it has noted
  elapsed,      \*   the ticks since it noted each debuff
  rd_taken,     \* a child ended with the semaphore of robot_desc, which stays taken
  velocity      \* the velocity last written to shared memory

svars == <<active, hypothermia, handler, gamestate, slow, elapsed, rd_taken, velocity>>

Ages == 0 .. DEBUFF_DURATION + 3

SInit ==
  /\ active = [d \in Debuffs |-> FALSE] /\ hypothermia = FALSE
  /\ handler = "none"
  /\ gamestate = [d \in Debuffs |-> FALSE] /\ slow = FALSE
  /\ elapsed = [d \in Debuffs |-> 0]
  /\ rd_taken = FALSE /\ velocity = 0

-----------------------------------------------------------------------------
(* The clock, Shepherd and executor.                                       *)

Older ==
  [d \in Debuffs |-> IF gamestate[d] /\ elapsed[d] + 1 \in Ages THEN elapsed[d] + 1 ELSE elapsed[d]]

Tick ==
  /\ handler \in {"none", "sleep"}
  /\ handler' = IF handler = "sleep" THEN "poll" ELSE "none"
  /\ elapsed' = Older
  /\ UNCHANGED <<active, hypothermia, gamestate, slow, rd_taken, velocity>>

\* recv_new_msg, GAME_STATE_MSG.
SetDebuff(d) ==
  /\ ~rd_taken
  /\ active' = [active EXCEPT ![d] = TRUE]
  /\ UNCHANGED <<hypothermia, handler, gamestate, slow, elapsed, rd_taken, velocity>>

SetHypothermia(on) ==
  /\ ~rd_taken
  /\ hypothermia' = on
  /\ UNCHANGED <<active, handler, gamestate, slow, elapsed, rd_taken, velocity>>

\* kill_subprocess ends the child with its handler, which may be in a call on
\* robot_desc, and resets velocities; the next mode may follow at once.
kill_subprocess ==
  /\ handler' = "none"
  /\ gamestate' = [d \in Debuffs |-> FALSE] /\ slow' = FALSE
  /\ elapsed' = [d \in Debuffs |-> 0]
  /\ velocity' = 0
  /\ rd_taken' \in {rd_taken, TRUE}
  /\ UNCHANGED <<active, hypothermia>>

-----------------------------------------------------------------------------
(* gamestate_handler.                                                      *)

\* Fault: the poll ends with the first debuff.
After_First(d) == "sleep"

After(d) == IF d = "POISON_IVY" THEN "DEHYDRATION" ELSE "sleep"
End(d) == IF d = "POISON_IVY" THEN "end POISON_IVY" ELSE "end DEHYDRATION"

PollHypothermia ==
  /\ handler = "poll" /\ ~rd_taken
  /\ slow' = hypothermia
  /\ handler' = "POISON_IVY"
  /\ UNCHANGED <<active, hypothermia, gamestate, elapsed, rd_taken, velocity>>

NoteDebuff(d) ==
  /\ handler = d /\ ~gamestate[d] /\ ~rd_taken /\ active[d]
  /\ gamestate' = [gamestate EXCEPT ![d] = TRUE]
  /\ elapsed' = [elapsed EXCEPT ![d] = 0]
  /\ handler' = After(d)
  /\ UNCHANGED <<active, hypothermia, slow, rd_taken, velocity>>

KeepDebuff(d) ==
  /\ handler = d
  /\ IF gamestate[d] THEN elapsed[d] <= DEBUFF_DURATION ELSE ~rd_taken /\ ~active[d]
  /\ handler' = After(d)
  /\ UNCHANGED <<active, hypothermia, gamestate, slow, elapsed, rd_taken, velocity>>

\* The flag is cleared first, the field in a call of its own.
EndDebuff(d) ==
  /\ handler = d /\ gamestate[d] /\ elapsed[d] > DEBUFF_DURATION
  /\ gamestate' = [gamestate EXCEPT ![d] = FALSE]
  /\ elapsed' = [elapsed EXCEPT ![d] = 0]
  /\ handler' = End(d)
  /\ UNCHANGED <<active, hypothermia, slow, rd_taken, velocity>>

ClearField(d) ==
  /\ handler = End(d) /\ ~rd_taken
  /\ active' = [active EXCEPT ![d] = FALSE]
  /\ handler' = After(d)
  /\ UNCHANGED <<hypothermia, gamestate, slow, elapsed, rd_taken, velocity>>

-----------------------------------------------------------------------------
(* filter_device_write_uid.                                                *)

bound_velocity(v) == IF v > UNIT THEN UNIT ELSE IF v < -UNIT THEN -UNIT ELSE v

\* scale_velocity(params, SLOW_SCALAR); a fifth of a negative multiple of 5.
Slowed(v) == v \div 5

Filtered(v) ==
  LET bounded == bound_velocity(v)
      slowed == IF slow THEN Slowed(bounded) ELSE bounded
      turned == IF gamestate["POISON_IVY"] THEN -slowed ELSE slowed
  IN  IF gamestate["DEHYDRATION"] THEN 0 ELSE turned

\* The first call of a child creates the handler thread.
filter_device_write_uid(v) ==
  /\ handler' = IF handler = "none" THEN "poll" ELSE handler
  /\ velocity' = Filtered(v)
  /\ UNCHANGED <<active, hypothermia, gamestate, slow, elapsed, rd_taken>>

HandlerStep ==
  \/ PollHypothermia
  \/ \E d \in Debuffs : NoteDebuff(d) \/ KeepDebuff(d) \/ EndDebuff(d) \/ ClearField(d)

SNext ==
  \/ Tick \/ HandlerStep \/ kill_subprocess
  \/ \E d \in Debuffs : SetDebuff(d)
  \/ \E on \in BOOLEAN : SetHypothermia(on)
  \/ \E v \in Velocities : filter_device_write_uid(v)

SSpec == SInit /\ [][SNext]_svars

\* Time passes and a living handler runs.
SFairness == WF_svars(Tick) /\ WF_svars(HandlerStep)

-----------------------------------------------------------------------------
(* Properties.                                                             *)

\* A debuff Shepherd has set takes effect on a robot that moves its motors,
\* unless the mode or the debuff ends first, or an earlier child ended with the
\* semaphore the handler waits for.
DebuffTakesEffect ==
  \A d \in Debuffs :
    (active[d] /\ handler # "none") ~> (gamestate[d] \/ ~active[d] \/ handler = "none" \/ rd_taken)
=============================================================================
