------------------------------ MODULE Actuators ------------------------------
(***************************************************************************)
(* The firmware of the devices that move something: KoalaBear and PolarBear *)
(* (motors) and ServoControl.  Device::loop runs over and over; each loop   *)
(* takes at most one message, resets the device when no DEVICE_PING came    *)
(* for TIMEOUT, and otherwise runs device_actions.                          *)
(*                                                                          *)
(* A velocity is a whole number of the steps that a KoalaBear accelerates   *)
(* in one tick, FULL of them are 1.0.  What a pin is driven at, and the     *)
(* deadband it is compared with, are in quarters of that unit: the largest  *)
(* duty cycle of a KoalaBear is 0.75.                                       *)
(***************************************************************************)
EXTENDS Lowcar

CONSTANTS
  Motors,       \* the motors, or the servos, of the device
  FULL,         \* velocity 1.0
  Commands,     \* velocities and positions that student code asks for
  Deadbands,    \* deadbands that student code sets
  DEADBAND,     \* the deadband at boot, 0.05
  PidOutputs,   \* what PID::compute may return for a velocity other than 0
  EnableTime,   \* ticks that device_enable takes on each kind of device
  MaxIdle       \* where the time since a KoalaBear's last loop is cut off

ASSUME ActuatorConstants ==
  /\ FULL \in Nat \ {0} /\ MaxIdle \in Nat
  /\ Commands \subseteq Int /\ Deadbands \subseteq Nat /\ DEADBAND \in Nat
  /\ PidOutputs \subseteq Int
  /\ EnableTime \in [{"koala", "polar", "servo"} -> Nat]

VARIABLES
  kind,      \* which device this is
  core,      \* the state of Device, see Lowcar
  dev,       \* the state of the device:
             \*   motor     velocity (of a servo: position), curr_velocity,
             \*             deadband, invert and pid_enabled of each motor
             \*   online    KoalaBear::online
             \*   idle      ticks since KoalaBear::prev_loop_time
             \*   pwm       what each pair of pins is driven at, signed
             \*   attached  the servos that are attached
  looped,    \* there was a loop in this tick
  asked      \* history: motors with a velocity other than 0 since the reset

avars == <<kind, core, dev, looped, asked>>

Clamped(x, bound) == Max({-bound, Min({bound, x})})

AInit ==
  /\ kind \in DOMAIN EnableTime
  /\ core = Booted
  /\ dev = [motor |-> [m \in Motors |->
                         [velocity |-> 0, curr |-> 0, deadband |-> DEADBAND, invert |-> FALSE,
                          pid |-> TRUE]],
            online |-> FALSE, idle |-> 0, pwm |-> [m \in Motors |-> 0], attached |-> {}]
  /\ looped = FALSE /\ asked = {}

-----------------------------------------------------------------------------
Silence == [id |-> "NONE"]
Ping == [id |-> "DEVICE_PING"]
Writes ==
  [id : {"DEVICE_WRITE"}, motor : Motors, param : {"velocity"}, value : Commands]
  \cup [id : {"DEVICE_WRITE"}, motor : Motors, param : {"deadband"}, value : Deadbands]
  \cup [id : {"DEVICE_WRITE"}, motor : Motors, param : {"invert", "pid"}, value : BOOLEAN]

\* KoalaBear::device_write limits velocities to [-1.0, 1.0].
KoalaWrite(d, w) ==
  [d EXCEPT !.motor[w.motor][w.param] =
     IF w.param = "velocity" THEN Clamped(w.value, FULL) ELSE w.value]

\* PolarBear::device_write takes a velocity within the deadband for 0.
PolarWrite(d, w) ==
  CASE w.param = "velocity" ->
         [d EXCEPT !.motor[w.motor].velocity =
            IF Clamped(4 * w.value, d.motor[w.motor].deadband) = 4 * w.value
            THEN 0 ELSE w.value]
    [] w.param = "deadband" -> [d EXCEPT !.motor[w.motor].deadband = w.value]
    [] OTHER -> d

\* ServoControl::device_write: a position out of range changes nothing, any
\* other attaches the servo.
ServoWrite(d, w) ==
  IF w.param = "velocity" /\ Clamped(w.value, FULL) = w.value
  THEN [d EXCEPT !.motor[w.motor].velocity = w.value, !.attached = @ \cup {w.motor}]
  ELSE d

device_write(d, w) ==
  CASE kind = "koala" -> KoalaWrite(d, w)
    [] kind = "polar" -> PolarWrite(d, w)
    [] kind = "servo" -> ServoWrite(d, w)

\* device_enable: of what it sets up, only pid_enabled is state.
device_enable(d) ==
  IF kind = "koala"
  THEN [d EXCEPT !.motor = [m \in Motors |-> [@[m] EXCEPT !.pid = TRUE]]]
  ELSE d

Stopped(motor) == [m \in Motors |-> [motor[m] EXCEPT !.velocity = 0, !.curr = 0, !.pid = TRUE]]

\* Fault: online survives a reset.
KoalaReset_Online(d) == [d EXCEPT !.motor = Stopped(@)]

\* Fault: the velocities survive a reset.
KoalaReset_Velocity(d) ==
  [d EXCEPT !.motor = [m \in Motors |-> [@[m] EXCEPT !.curr = 0, !.pid = TRUE]],
            !.online = FALSE]

\* KoalaBear::device_reset; it does not touch the pins.
KoalaReset(d) == [d EXCEPT !.motor = Stopped(@), !.online = FALSE]

\* ServoControl::device_reset, disable_all.
ServoReset(d) == [d EXCEPT !.attached = {}]

\* A PolarBear has no device_reset, and nothing calls its device_disable.
device_reset(d) ==
  CASE kind = "koala" -> KoalaReset(d)
    [] kind = "polar" -> d
    [] kind = "servo" -> ServoReset(d)

\* The velocity a KoalaBear moves to in one loop: towards the one asked for, by
\* what the time since the last loop allows, which may be past it.
Ramped(d, m) ==
  LET old == d.motor[m].curr
  IN  IF d.motor[m].velocity > old THEN old + d.idle ELSE old - d.idle

\* MAX_DUTY_CYCLE is 0.75, three quarters.
Adjusted(d, m) == 3 * (IF d.motor[m].invert THEN -Ramped(d, m) ELSE Ramped(d, m))

\* Fault: the deadband is not looked at.
Stops_Never(d, m) == FALSE

\* "makes sure that the robot doesn't oscillate around 0".
Stops(d, m) ==
  /\ d.motor[m].velocity = 0
  /\ -d.motor[m].deadband < Adjusted(d, m) /\ Adjusted(d, m) < d.motor[m].deadband

\* PID::compute returns 0 for velocity 0.
Duties(d, m) ==
  IF Stops(d, m) \/ Adjusted(d, m) = 0 THEN {0}
  ELSE IF d.motor[m].pid THEN PidOutputs
  ELSE {Adjusted(d, m)}

\* KoalaBear::device_actions with drive: the first loop only takes the time.
KoalaActions(d) ==
  IF ~d.online
  THEN {[d EXCEPT !.online = TRUE, !.idle = 0]}
  ELSE {[d EXCEPT !.idle = 0,
                  !.motor = [m \in Motors |->
                     [@[m] EXCEPT !.curr = IF Stops(d, m) THEN 0 ELSE Ramped(d, m)]],
                  !.pwm = [m \in Motors |-> Clamped(duty[m], 4 * FULL)]] :
          duty \in {f \in [Motors -> UNION {Duties(d, m) : m \in Motors}] :
                      \A m \in Motors : f[m] \in Duties(d, m)}}

\* PolarBear::device_actions with drive.
PolarActions(d) == {[d EXCEPT !.pwm = [m \in Motors |-> 4 * d.motor[m].velocity]]}

device_actions(d) ==
  CASE kind = "koala" -> KoalaActions(d)
    [] kind = "polar" -> PolarActions(d)
    [] kind = "servo" -> {d}

-----------------------------------------------------------------------------
\* One Device::loop with the message it reads.  The loop goes on with the time
\* it read at its start, although device_enable may take longer than TIMEOUT.
Loop(msg) ==
  LET enables  == msg = Ping /\ Acknowledges(core)
      received == IF msg = Ping THEN Pinged(core) ELSE core
      written  == CASE enables -> device_enable(dev)
                    [] msg \in Writes -> device_write(dev, msg)
                    [] OTHER -> dev
  IN  /\ dev' \in CASE TimedOut(received) -> {device_reset(written)}
                    [] ~TimedOut(received) /\ received.enabled -> device_actions(written)
                    [] OTHER -> {written}
      /\ core' = IF enables
                 THEN [received EXCEPT !.pingAge = Min({TIMEOUT, EnableTime[kind]})]
                 ELSE Checked(received)
      /\ asked' = CASE TimedOut(received) -> {}
                    [] ~TimedOut(received) /\ msg \in Writes ->
                         IF msg.param = "velocity" /\ msg.value # 0
                         THEN asked \cup {msg.motor} ELSE asked
                    [] OTHER -> asked
      /\ looped' = TRUE
      /\ UNCHANGED kind

LoopStep == Loop(Silence) \/ Loop(Ping) \/ \E w \in Writes : Loop(w)

\* Device::loop runs more often than the clock ticks.
ATick ==
  /\ looped
  /\ looped' = FALSE
  /\ core' = Aged(core)
  /\ dev' = [dev EXCEPT !.idle = Older(@, MaxIdle)]
  /\ UNCHANGED <<kind, asked>>

ANext == LoopStep \/ ATick

ASpec == AInit /\ [][ANext]_avars

\* loop() is called for ever, and time passes.
AFairness == WF_avars(LoopStep) /\ WF_avars(ATick)

-----------------------------------------------------------------------------
\* However long a KoalaBear was idle or disconnected, its velocity moves by at
\* most what one loop's time allows, or to 0: "prevents extremely large
\* interval_secs (and therefore large extraneous motions on startup)"
\* (KoalaBear.cpp:298).
RampsSlowly ==
  [][kind = "koala" =>
       \A m \in Motors : \/ dev'.motor[m].curr = 0
                         \/ dev'.motor[m].curr - dev.motor[m].curr \in -1 .. 1]_avars

\* A KoalaBear never starts to drive a motor because of what was asked of it
\* before it lost the connection: if a loop changes the pins to another value
\* than stop, a velocity came in since the last reset.  The exception is a
\* deadband of at most one tick's step, which a reset keeps: with it a motor
\* swings around 0 without being asked to.
NoMotionFromThePast ==
  [][kind = "koala" =>
       \A m \in Motors : \/ dev'.pwm[m] \in {0, dev.pwm[m]}
                         \/ m \in asked'
                         \/ dev'.motor[m].deadband <= 3]_avars

\* A connected KoalaBear that is asked to stop stops its motor, whatever PID and
\* inversion are, provided the deadband is more than one tick's step; with a
\* smaller one curr_velocity swings around 0 for ever.
ComesToRest ==
  \A m \in Motors :
    <>[](/\ kind = "koala" /\ core.enabled
         /\ dev.motor[m].velocity = 0 /\ dev.motor[m].deadband > 3)
      => <>[](dev.pwm[m] = 0)

\* What KoalaBear.h says of device_reset, "stops motors": once a loop has
\* noticed that DEVICE_PING stays out, the pins no longer drive a motor.
MotorsAreStopped ==
  kind = "koala" /\ looped /\ TimedOut(core) /\ ~core.enabled => \A m \in Motors : dev.pwm[m] = 0
=============================================================================
