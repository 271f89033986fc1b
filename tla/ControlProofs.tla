---------------------------- MODULE ControlProofs -----------------------------
(***************************************************************************)
(* From the clients to the motors.                                         *)
(*                                                                         *)
(* A robot without clients is told to be IDLE and stands still in IDLE,    *)
(* for any number of children, queued inputs and whatever the clients ask  *)
(* for.  readn and writen move whole messages, for every width of their    *)
(* counters and every pattern of short transfers and failures.             *)
(*                                                                         *)
(* A KoalaBear changes the speed of its motors by one step at a time and   *)
(* forgets what was asked of it before a reset, and the pulses of a servo  *)
(* have their length and come in time, for every number of servos and all  *)
(* the velocities, deadbands, controller outputs and pulse lengths the     *)
(* constants admit.                                                        *)
(***************************************************************************)
EXTENDS RunMode, Readn, Actuators, Servo, WellFoundedInduction, TLAPS

-----------------------------------------------------------------------------
(* Actuators: KoalaBear. *)

Cores ==
  [enabled : BOOLEAN, params : {{}}, interval : {0}, pingAge : Nat, dataAge : Nat,
   logs : BOOLEAN]
MotorStates ==
  [velocity : Int, curr : Int, deadband : Int, invert : BOOLEAN, pid : BOOLEAN]
Devices ==
  [motor : [Motors -> MotorStates], online : BOOLEAN, idle : Nat, pwm : [Motors -> Int],
   attached : {{}}]

\* A KoalaBear that is online is enabled, so that each loop drives it or takes it
\* offline, and its last loop is at most a tick ago.  A motor that nothing was
\* asked of since the reset has velocity 0 and is at rest, or one step away from
\* it, where a small deadband lets it swing.
KoalaInv ==
  kind = "koala" =>
    /\ core \in Cores /\ dev \in Devices /\ looped \in BOOLEAN /\ asked \subseteq Motors
    /\ dev.online => core.enabled /\ dev.idle <= 1 /\ (looped => dev.idle = 0)
    /\ \A m \in Motors \ asked : dev.motor[m].velocity = 0 /\ dev.motor[m].curr \in {-1, 0}

\* The lesser of two numbers.
LEMMA Least ==
  ASSUME NEW x \in Int, NEW y \in Int
  PROVE  Min({x, y}) \in {x, y} /\ Min({x, y}) <= x /\ Min({x, y}) <= y
<1>1. \A S : (\E a \in S : \A c \in S : a <= c) => Min(S) \in S /\ \A c \in S : Min(S) <= c
  BY Zenon DEF Min
<1>2. \E a \in {x, y} : \A c \in {x, y} : a <= c
  OBVIOUS
<1> QED
  BY <1>1, <1>2, Zenon

\* A number limited to an interval around 0.
LEMMA ClampedNumber ==
  ASSUME NEW x \in Int, NEW b \in Nat
  PROVE  Clamped(x, b) \in Int /\ (x = 0 => Clamped(x, b) = 0)
<1>1. \A S : (\E a \in S : \A c \in S : a >= c) => Max(S) \in S /\ \A c \in S : Max(S) >= c
  BY Zenon DEF Max
<1>2. PICK y \in Int : y = Min({b, x}) /\ y <= b /\ y <= x /\ y \in {b, x}
  <2>1. b \in Int
    OBVIOUS
  <2>2. Min({b, x}) \in {b, x} /\ Min({b, x}) <= b /\ Min({b, x}) <= x
    BY <2>1, Least, Zenon
  <2> QED
    BY <2>1, <2>2, Zenon
<1>3. Max({-b, y}) \in {-b, y} /\ Max({-b, y}) >= -b /\ Max({-b, y}) >= y
  <2>1. \E a \in {-b, y} : \A c \in {-b, y} : a >= c
    OBVIOUS
  <2> QED
    BY <1>1, <2>1, Zenon
<1> QED
  BY <1>2, <1>3 DEF Clamped

\* Replacing the state of one motor.
LEMMA MotorReplaced ==
  ASSUME NEW d \in Devices, NEW own \in Motors, NEW s \in MotorStates
  PROVE  LET e == [d EXCEPT !.motor[own] = s]
         IN  /\ e \in Devices /\ e.online = d.online /\ e.idle = d.idle /\ e.pwm = d.pwm
             /\ e.motor[own] = s /\ \A m \in Motors \ {own} : e.motor[m] = d.motor[m]
<1>1. [d.motor EXCEPT ![own] = s] \in [Motors -> MotorStates]
  BY Zenon DEF Devices
<1>2. \A mot \in [Motors -> MotorStates] :
        LET e == [d EXCEPT !.motor = mot]
        IN  e \in Devices /\ e.online = d.online /\ e.idle = d.idle /\ e.pwm = d.pwm /\ e.motor = mot
  BY Zenon DEF Devices
<1> QED
  BY <1>1, <1>2, Zenon DEF Devices

\* KoalaBear::device_write changes one parameter of one motor, and neither
\* curr_velocity nor a velocity of 0 that 0 is written to.
LEMMA KoalaWritten ==
  ASSUME NEW d \in Devices, NEW w \in Writes
  PROVE  LET e == KoalaWrite(d, w)
         IN  /\ e \in Devices /\ e.online = d.online /\ e.idle = d.idle /\ e.pwm = d.pwm
             /\ \A m \in Motors :
                  /\ e.motor[m].curr = d.motor[m].curr
                  /\ \/ e.motor[m].velocity = d.motor[m].velocity
                     \/ w.motor = m /\ w.param = "velocity" /\ w.value # 0
                     \/ e.motor[m].velocity = 0
<1> DEFINE e == KoalaWrite(d, w)
           old == d.motor[w.motor]
           new == [old EXCEPT ![w.param] =
                     IF w.param = "velocity" THEN Clamped(w.value, FULL) ELSE w.value]
<1>1. w.motor \in Motors /\ e = [d EXCEPT !.motor[w.motor] = new]
  BY Zenon DEF Writes, KoalaWrite
<1>2. old \in MotorStates
  BY <1>1, Zenon DEF Devices
<1>3. /\ new \in MotorStates /\ new.curr = old.curr
      /\ \/ new.velocity = old.velocity
         \/ w.param = "velocity" /\ w.value # 0
         \/ new.velocity = 0
  <2>1. CASE w.param = "velocity"
    <3>1. w.value \in Int
      BY <2>1, ActuatorConstants, Zenon DEF Writes
    <3>2. Clamped(w.value, FULL) \in Int /\ (w.value = 0 => Clamped(w.value, FULL) = 0)
      BY <3>1, ClampedNumber, ActuatorConstants, Zenon
    <3>3. new = [old EXCEPT !.velocity = Clamped(w.value, FULL)]
      BY <2>1, Zenon
    <3> HIDE DEF new, old
    <3> QED
      BY <1>2, <2>1, <3>2, <3>3, Zenon DEF MotorStates
  <2>2. CASE w.param = "deadband"
    <3>1. w.value \in Int
      <4>1. w.value \in Deadbands
        <5>1. w \notin [id : {"DEVICE_WRITE"}, motor : Motors, param : {"invert", "pid"},
                        value : BOOLEAN]
          BY <2>2, Zenon
        <5>2. w \notin [id : {"DEVICE_WRITE"}, motor : Motors, param : {"velocity"},
                        value : Commands]
          BY <2>2, Zenon
        <5>3. w \in [id : {"DEVICE_WRITE"}, motor : Motors, param : {"deadband"},
                     value : Deadbands]
          BY <5>1, <5>2, Zenon DEF Writes
        <5> QED
          BY <5>3, Zenon
      <4>2. Deadbands \subseteq Nat
        BY ActuatorConstants, Zenon
      <4>3. \A x \in Nat : x \in Int
        OBVIOUS
      <4> QED
        BY <4>1, <4>2, <4>3, Zenon
    <3>2. new = [old EXCEPT !.deadband = w.value]
      BY <2>2, Zenon
    <3> HIDE DEF new, old
    <3> QED
      BY <1>2, <3>1, <3>2, Zenon DEF MotorStates
  <2>3. CASE w.param = "invert"
    <3>1. w.value \in BOOLEAN
      BY <2>3, Zenon DEF Writes
    <3>2. new = [old EXCEPT !.invert = w.value]
      BY <2>3, Zenon
    <3> HIDE DEF new, old
    <3> QED
      BY <1>2, <3>1, <3>2, Zenon DEF MotorStates
  <2>4. CASE w.param = "pid"
    <3>1. w.value \in BOOLEAN
      BY <2>4, Zenon DEF Writes
    <3>2. new = [old EXCEPT !.pid = w.value]
      BY <2>4, Zenon
    <3> HIDE DEF new, old
    <3> QED
      BY <1>2, <3>1, <3>2, Zenon DEF MotorStates
  <2> QED
    BY <2>1, <2>2, <2>3, <2>4, Zenon DEF Writes
<1> HIDE DEF e, new
<1> QED
  BY <1>1, <1>2, <1>3, MotorReplaced DEF e

\* What a loop of a KoalaBear does to its motors: offline it only takes the time;
\* online it moves each velocity by the time since the last loop.
LEMMA KoalaActed ==
  ASSUME NEW d \in Devices, NEW e \in KoalaActions(d)
  PROVE  /\ e.online /\ e.idle = 0 /\ e \in Devices
         /\ \A m \in Motors :
              /\ e.motor[m].velocity = d.motor[m].velocity
              /\ e.motor[m].deadband = d.motor[m].deadband
              /\ d.online => e.motor[m].curr = IF Stops(d, m) THEN 0 ELSE Ramped(d, m)
              /\ d.online /\ Stops(d, m) => e.pwm[m] = 0
              /\ ~d.online => e.motor[m].curr = d.motor[m].curr /\ e.pwm[m] = d.pwm[m]
<1>1. CASE ~d.online
  <2>1. e = [d EXCEPT !.online = TRUE, !.idle = 0]
    BY <1>1, Zenon DEF KoalaActions
  <2> QED
    BY <1>1, <2>1, Zenon DEF Devices
<1>2. CASE d.online
  <2> DEFINE mot == [m \in Motors |->
                       [d.motor[m] EXCEPT !.curr = IF Stops(d, m) THEN 0 ELSE Ramped(d, m)]]
  <2>1. PICK duty \in [Motors -> UNION {Duties(d, m) : m \in Motors}] :
          /\ \A m \in Motors : duty[m] \in Duties(d, m)
          /\ e = [d EXCEPT !.idle = 0, !.motor = mot,
                           !.pwm = [m \in Motors |-> Clamped(duty[m], 4 * FULL)]]
    BY <1>2, Zenon DEF KoalaActions
  <2>2. \A m \in Motors : Ramped(d, m) \in Int /\ Adjusted(d, m) \in Int
    BY DEF Devices, MotorStates, Ramped, Adjusted
  <2>3. \A m \in Motors :
          /\ duty[m] \in Int
          /\ Stops(d, m) => duty[m] = 0
    BY <2>1, <2>2, ActuatorConstants DEF Duties
  <2>4. \A m \in Motors :
          /\ Clamped(duty[m], 4 * FULL) \in Int
          /\ Stops(d, m) => Clamped(duty[m], 4 * FULL) = 0
    <3>1. 4 * FULL \in Nat
      BY ActuatorConstants
    <3> QED
      BY <2>3, <3>1, ClampedNumber, Zenon
  <2>5. \A m \in Motors :
          /\ mot[m] \in MotorStates
          /\ mot[m].velocity = d.motor[m].velocity /\ mot[m].deadband = d.motor[m].deadband
          /\ mot[m].curr = IF Stops(d, m) THEN 0 ELSE Ramped(d, m)
    BY <2>2 DEF Devices, MotorStates
  <2>6. mot \in [Motors -> MotorStates]
    BY <2>5, Zenon
  <2> DEFINE pins == [m \in Motors |-> Clamped(duty[m], 4 * FULL)]
  <2>7. pins \in [Motors -> Int] /\ \A m \in Motors : Stops(d, m) => pins[m] = 0
    BY <2>4, Zenon
  <2>8. e = [d EXCEPT !.idle = 0, !.motor = mot, !.pwm = pins]
    BY <2>1, Zenon
  <2> HIDE DEF mot, pins
  <2>9. e \in Devices /\ e.motor = mot /\ e.pwm = pins /\ e.idle = 0 /\ e.online = d.online
    BY <2>6, <2>7, <2>8, Zenon DEF Devices
  <2> QED
    BY <1>2, <2>5, <2>7, <2>9, Zenon
<1> QED
  BY <1>1, <1>2, Zenon DEF Devices

\* A motor at rest that nothing was asked of swings within one step, and a deadband
\* of more than one step stops it.
LEMMA SwingsAroundRest ==
  ASSUME NEW d \in Devices, NEW m \in Motors, d.idle <= 1,
         d.motor[m].velocity = 0, d.motor[m].curr \in {-1, 0}
  PROVE  Ramped(d, m) \in {-1, 0} /\ (d.motor[m].deadband > 3 => Stops(d, m))
<1>1. d.idle \in {0, 1} /\ d.motor[m].deadband \in Int
  BY DEF Devices, MotorStates
<1>2. Ramped(d, m) \in {-1, 0}
  BY <1>1 DEF Ramped
<1>3. Adjusted(d, m) \in {-3, 0, 3}
  BY <1>2 DEF Adjusted
<1> QED
  BY <1>1, <1>2, <1>3 DEF Stops

\* The device after the message of a loop: d has the pins, the times and the
\* current velocities of dev.
Receives(d) ==
  /\ d \in Devices /\ d.online = dev.online /\ d.idle = dev.idle /\ d.pwm = dev.pwm
  /\ \A m \in Motors : d.motor[m].curr = dev.motor[m].curr

\* device_enable of a KoalaBear.
LEMMA KoalaEnabled ==
  ASSUME kind = "koala", dev \in Devices
  PROVE  /\ Receives(device_enable(dev))
         /\ \A m \in Motors : device_enable(dev).motor[m].velocity = dev.motor[m].velocity
<1> DEFINE mot == [m \in Motors |-> [dev.motor[m] EXCEPT !.pid = TRUE]]
<1>1. device_enable(dev) = [dev EXCEPT !.motor = mot]
  BY Zenon DEF device_enable
<1>2. \A m \in Motors : /\ mot[m] \in MotorStates /\ mot[m].curr = dev.motor[m].curr
                        /\ mot[m].velocity = dev.motor[m].velocity
  BY Zenon DEF Devices, MotorStates
<1>3. mot \in [Motors -> MotorStates]
  BY <1>2, Zenon
<1> HIDE DEF mot
<1>4. LET e == [dev EXCEPT !.motor = mot]
      IN  e \in Devices /\ e.online = dev.online /\ e.idle = dev.idle /\ e.pwm = dev.pwm /\ e.motor = mot
  BY <1>3, Zenon DEF Devices
<1> QED
  BY <1>1, <1>2, <1>4, Zenon DEF Receives

\* device_reset of a KoalaBear.
LEMMA KoalaIsReset ==
  ASSUME NEW d \in Devices
  PROVE  LET e == KoalaReset(d)
         IN  /\ e \in Devices /\ ~e.online /\ e.pwm = d.pwm
             /\ \A m \in Motors : e.motor[m].velocity = 0 /\ e.motor[m].curr = 0
<1> DEFINE mot == Stopped(d.motor)
<1>1. KoalaReset(d) = [d EXCEPT !.motor = mot, !.online = FALSE]
  BY Zenon DEF KoalaReset
<1>2. ASSUME NEW m \in Motors
      PROVE  mot[m] \in MotorStates /\ mot[m].curr = 0 /\ mot[m].velocity = 0
  <2>1. PICK s \in MotorStates : s = d.motor[m]
    BY Zenon DEF Devices
  <2> DEFINE a == [s EXCEPT !.velocity = 0]
             b == [a EXCEPT !.curr = 0]
             c == [b EXCEPT !.pid = TRUE]
  <2>2. a \in MotorStates /\ a.velocity = 0
    BY DEF MotorStates
  <2> HIDE DEF a
  <2>3. b \in MotorStates /\ b.velocity = 0 /\ b.curr = 0
    BY <2>2, Zenon DEF MotorStates
  <2> HIDE DEF b
  <2>4. c \in MotorStates /\ c.velocity = 0 /\ c.curr = 0
    BY <2>3, Zenon DEF MotorStates
  <2>5. mot[m] = c
    BY <2>1, Zenon DEF Stopped, a, b
  <2> QED
    BY <2>4, <2>5, Zenon
<1>3. mot \in [Motors -> MotorStates]
  BY <1>2, Zenon DEF Stopped
<1> HIDE DEF mot
<1>4. LET e == [d EXCEPT !.motor = mot, !.online = FALSE]
      IN  e \in Devices /\ ~e.online /\ e.pwm = d.pwm /\ e.motor = mot
  BY <1>3, Zenon DEF Devices
<1> QED
  BY <1>1, <1>2, <1>4, Zenon

\* The three ways a loop of a KoalaBear ends, after a message that asks something
\* of a motor or leaves its velocity at 0 where it was.
LoopEnds(d) ==
  \/ dev' = KoalaReset(d) /\ asked' = {}
  \/ /\ \/ dev' \in KoalaActions(d) /\ core'.enabled
        \/ dev' = d /\ ~core.enabled
     /\ asked \subseteq asked'
     /\ \A m \in Motors \ asked' : dev.motor[m].velocity = 0 => d.motor[m].velocity = 0

\* Every loop of a KoalaBear, whatever message it finds, ends in one of these ways.
LEMMA KoalaLoops ==
  ASSUME kind = "koala", core \in Cores, dev \in Devices, asked \subseteq Motors, LoopStep
  PROVE  /\ \E d : Receives(d) /\ LoopEnds(d)
         /\ core' \in Cores /\ looped' = TRUE /\ asked' \subseteq Motors /\ kind' = kind
<1>1. PICK msg \in {Silence, Ping} \cup Writes : Loop(msg)
  BY Zenon DEF LoopStep
<1>2. Silence \notin Writes /\ Ping \notin Writes /\ Silence # Ping
  BY Zenon DEF Silence, Ping, Writes
<1> DEFINE enables  == msg = Ping /\ Acknowledges(core)
           received == IF msg = Ping THEN Pinged(core) ELSE core
           written  == CASE enables -> device_enable(dev)
                         [] msg \in Writes -> device_write(dev, msg)
                         [] OTHER -> dev
<1>3. received \in Cores /\ (received.enabled <=> core.enabled \/ msg = Ping)
  <2>1. CASE msg = Ping
    BY <2>1, Zenon DEF Cores, Pinged, Acknowledges
  <2>2. CASE msg # Ping
    BY <2>2, Zenon
  <2> QED
    BY <2>1, <2>2, Zenon
<1>4. core' \in Cores /\ (~TimedOut(received) => core'.enabled = received.enabled)
  <2>1. CASE enables
    <3>1. core' = [received EXCEPT !.pingAge = Min({TIMEOUT, EnableTime[kind]})]
      BY <1>1, <2>1, Zenon DEF Loop
    <3>2. Min({TIMEOUT, EnableTime[kind]}) \in Nat
      <4>1. PICK span \in Nat : span = EnableTime[kind]
        BY ActuatorConstants, Zenon
      <4>2. span \in Int /\ TIMEOUT \in Int /\ TIMEOUT \in Nat
        BY LowcarConstants
      <4>3. Min({TIMEOUT, span}) \in {TIMEOUT, span}
        BY <4>2, Least, Zenon
      <4> QED
        BY <4>1, <4>2, <4>3, Zenon
    <3> HIDE DEF received
    <3> QED
      BY <1>3, <3>1, <3>2, Zenon DEF Cores
  <2>2. CASE ~enables
    <3>1. core' = Checked(received)
      BY <1>1, <2>2, Zenon DEF Loop
    <3> HIDE DEF received
    <3> QED
      BY <1>3, <3>1, Zenon DEF Cores, Checked
  <2> QED
    BY <2>1, <2>2, Zenon
<1>5. /\ Receives(written)
      /\ \A m \in Motors : \/ dev.motor[m].velocity = 0 => written.motor[m].velocity = 0
                           \/ msg \in Writes /\ msg.motor = m /\ msg.param = "velocity" /\ msg.value # 0
  <2>1. CASE enables
    <3>1. written = device_enable(dev)
      BY <1>2, <2>1, Zenon
    <3> QED
      BY <3>1, KoalaEnabled, Zenon
  <2>2. CASE msg \in Writes
    <3>1. written = KoalaWrite(dev, msg)
      BY <1>2, <2>2, Zenon DEF device_write
    <3> HIDE DEF written
    <3> QED
      BY <2>2, <3>1, KoalaWritten, Zenon DEF Receives
  <2>3. CASE ~enables /\ msg \notin Writes
    <3>1. written = dev
      BY <2>3, Zenon
    <3> QED
      BY <3>1, Zenon DEF Receives
  <2> QED
    BY <2>1, <2>2, <2>3, Zenon
<1>6. /\ TimedOut(received) => dev' = KoalaReset(written) /\ asked' = {}
      /\ ~TimedOut(received) /\ received.enabled => dev' \in KoalaActions(written)
      /\ ~TimedOut(received) /\ ~received.enabled => dev' = written
  BY <1>1, Zenon DEF Loop, device_reset, device_actions
<1>7. ~TimedOut(received) =>
        /\ asked \subseteq asked'
        /\ msg \in Writes /\ msg.param = "velocity" /\ msg.value # 0 => msg.motor \in asked'
  BY <1>1, Zenon DEF Loop
<1>8. asked' \subseteq Motors /\ looped' = TRUE /\ kind' = kind
  BY <1>1, Zenon DEF Loop, Writes
<1> HIDE DEF enables, received, written
<1> QED
  BY <1>3, <1>4, <1>5, <1>6, <1>7, <1>8, Zenon DEF LoopEnds

\* A KoalaBear boots offline and at rest.
LEMMA KoalaStart == AInit => KoalaInv
<1> SUFFICES ASSUME AInit PROVE KoalaInv
  BY Zenon
<1>1. looped \in BOOLEAN /\ asked \subseteq Motors
  BY Zenon DEF AInit
<1>2. core \in Cores
  BY Zenon DEF AInit, Booted, Cores
<1>3. dev.motor \in [Motors -> MotorStates]
      /\ \A m \in Motors : dev.motor[m].velocity = 0 /\ dev.motor[m].curr = 0
  BY ActuatorConstants DEF AInit, MotorStates
<1>4. /\ dev = [motor |-> dev.motor, online |-> FALSE, idle |-> 0, pwm |-> [m \in Motors |-> 0],
                attached |-> {}]
      /\ ~dev.online
  BY Zenon DEF AInit
<1>5. dev \in Devices
  <2>1. [m \in Motors |-> 0] \in [Motors -> Int]
    OBVIOUS
  <2>2. \A mot \in [Motors -> MotorStates], pins \in [Motors -> Int] :
          [motor |-> mot, online |-> FALSE, idle |-> 0, pwm |-> pins, attached |-> {}] \in Devices
    BY Zenon DEF Devices
  <2> QED
    BY <1>3, <1>4, <2>1, <2>2, Zenon
<1> QED
  BY <1>1, <1>2, <1>3, <1>4, <1>5, Zenon DEF KoalaInv

\* A loop and the passing of time preserve the invariant.
LEMMA KoalaKeepsInv ==
  ASSUME KoalaInv, [ANext]_avars
  PROVE  KoalaInv'
<1>1. kind' = kind
  BY Zenon DEF ANext, LoopStep, Loop, ATick, avars
<1> SUFFICES ASSUME kind = "koala" PROVE KoalaInv'
  BY <1>1, Zenon DEF KoalaInv
<1> USE DEF KoalaInv
<1>2. CASE LoopStep
  <2>1. PICK d : Receives(d) /\ LoopEnds(d)
    BY <1>2, KoalaLoops, Zenon
  <2>2. core' \in Cores /\ looped' = TRUE /\ asked' \subseteq Motors
    BY <1>2, KoalaLoops, Zenon
  <2>3. looped' \in BOOLEAN
    BY <2>2, Zenon
  <2>4. CASE dev' = KoalaReset(d) /\ asked' = {}
    BY <2>1, <2>2, <2>3, <2>4, KoalaIsReset, Zenon DEF Receives
  <2>5. CASE dev' \in KoalaActions(d) /\ core'.enabled /\ asked \subseteq asked'
             /\ \A m \in Motors \ asked' : dev.motor[m].velocity = 0 => d.motor[m].velocity = 0
    <3>1. dev' \in Devices /\ dev'.idle = 0
      BY <2>1, <2>5, KoalaActed, Zenon DEF Receives
    <3>2. ASSUME NEW m \in Motors \ asked'
          PROVE  dev'.motor[m].velocity = 0 /\ dev'.motor[m].curr \in {-1, 0}
      <4>1. d.motor[m].velocity = 0 /\ d.motor[m].curr \in {-1, 0}
        BY <2>1, <2>5, Zenon DEF Receives
      <4>2. d.online => d.idle <= 1
        BY <2>1, Zenon DEF Receives
      <4>3. d.online => Ramped(d, m) \in {-1, 0}
        BY <2>1, <4>1, <4>2, SwingsAroundRest, Zenon DEF Receives
      <4> QED
        BY <2>1, <2>5, <4>1, <4>3, KoalaActed, SMTT(30) DEF Receives
    <3> QED
      BY <2>2, <2>3, <2>5, <3>1, <3>2
  <2>6. CASE dev' = d /\ ~core.enabled /\ asked \subseteq asked'
             /\ \A m \in Motors \ asked' : dev.motor[m].velocity = 0 => d.motor[m].velocity = 0
    BY <2>1, <2>2, <2>3, <2>6, Zenon DEF Receives
  <2> QED
    BY <2>1, <2>4, <2>5, <2>6, Zenon DEF LoopEnds
<1>3. CASE ATick
  <2>1. looped' \in BOOLEAN /\ ~looped' /\ looped /\ asked' = asked /\ kind' = kind
    BY <1>3, Zenon DEF ATick
  <2>2. core' \in Cores /\ core'.enabled = core.enabled
    <3>1. Older(core.pingAge, TIMEOUT) \in Nat /\ Older(core.dataAge, MAX_SUB_INTERVAL) \in Nat
      BY DEF Cores, Older
    <3>2. core' = [core EXCEPT !.pingAge = Older(core.pingAge, TIMEOUT),
                               !.dataAge = Older(core.dataAge, MAX_SUB_INTERVAL)]
      BY <1>3, Zenon DEF ATick, Aged
    <3> QED
      BY <3>1, <3>2, Zenon DEF Cores
  <2>3. /\ dev' \in Devices /\ dev'.online = dev.online /\ dev'.motor = dev.motor
        /\ dev.idle = 0 => dev'.idle <= 1
    <3>1. Older(dev.idle, MaxIdle) \in Nat /\ (dev.idle = 0 => Older(dev.idle, MaxIdle) <= 1)
      BY DEF Devices, Older
    <3>2. dev' = [dev EXCEPT !.idle = Older(dev.idle, MaxIdle)]
      BY <1>3, Zenon DEF ATick
    <3> QED
      BY <3>1, <3>2, Zenon DEF Devices
  <2> QED
    BY <2>1, <2>2, <2>3, Zenon
<1>4. CASE UNCHANGED avars
  BY <1>4, Zenon DEF avars
<1> QED
  BY <1>2, <1>3, <1>4, Zenon DEF ANext

\* Every reachable state has the invariant.
LEMMA KoalaInvariant == ASpec => []KoalaInv
<1> QED
  BY KoalaStart, KoalaKeepsInv, PTL DEF ASpec

\* For every acceleration, deadband and timeout: a KoalaBear never makes more of
\* a jump than one loop's time allows, however long it was idle or disconnected.
THEOREM KoalaRampsSlowly == ASpec => RampsSlowly
<1>1. KoalaInv /\ [ANext]_avars =>
        [kind = "koala" =>
           \A m \in Motors : \/ dev'.motor[m].curr = 0
                             \/ dev'.motor[m].curr - dev.motor[m].curr \in -1 .. 1]_avars
  <2> SUFFICES ASSUME KoalaInv, ANext, kind = "koala", NEW m \in Motors
               PROVE  \/ dev'.motor[m].curr = 0
                      \/ dev'.motor[m].curr - dev.motor[m].curr \in -1 .. 1
    BY Zenon
  <2> USE DEF KoalaInv
  <2>1. dev.motor[m].curr \in Int
    BY Zenon DEF Devices, MotorStates
  <2>2. CASE LoopStep
    <3>1. PICK d : Receives(d) /\ LoopEnds(d)
      BY <2>2, KoalaLoops, Zenon
    <3>2. CASE dev' = KoalaReset(d)
      BY <3>1, <3>2, KoalaIsReset, Zenon DEF Receives
    <3>3. CASE dev' \in KoalaActions(d)
      <4>1. d.online => d.idle \in {0, 1}
        BY <3>1 DEF Receives, Devices
      <4>2. d.online => Ramped(d, m) - dev.motor[m].curr \in -1 .. 1
        BY <2>1, <3>1, <4>1, SMTT(30) DEF Receives, Ramped
      <4> QED
        BY <2>1, <3>1, <3>3, <4>2, KoalaActed, SMTT(30) DEF Receives
    <3>4. CASE dev' = d
      BY <2>1, <3>1, <3>4 DEF Receives
    <3> QED
      BY <3>1, <3>2, <3>3, <3>4, Zenon DEF LoopEnds
  <2>3. CASE ATick
    <3>1. dev'.motor = dev.motor
      BY <2>3, Zenon DEF ATick, Devices
    <3> QED
      BY <2>1, <3>1
  <2> QED
    BY <2>2, <2>3, Zenon DEF ANext
<1> QED
  BY <1>1, KoalaInvariant, PTL DEF ASpec, RampsSlowly

\* For every number of motors: a KoalaBear whose deadband is more than one tick's
\* step starts to drive a motor only when a velocity came in since the last reset.
THEOREM KoalaForgetsThePast == ASpec => NoMotionFromThePast
<1>1. KoalaInv /\ [ANext]_avars =>
        [kind = "koala" =>
           \A m \in Motors : \/ dev'.pwm[m] \in {0, dev.pwm[m]}
                             \/ m \in asked'
                             \/ dev'.motor[m].deadband <= 3]_avars
  <2> SUFFICES ASSUME KoalaInv, ANext, kind = "koala", NEW m \in Motors,
                      m \notin asked', ~(dev'.motor[m].deadband <= 3)
               PROVE  dev'.pwm[m] \in {0, dev.pwm[m]}
    BY Zenon
  <2> USE DEF KoalaInv
  <2>1. CASE LoopStep
    <3>1. PICK d : Receives(d) /\ LoopEnds(d)
      BY <2>1, KoalaLoops, Zenon
    <3>2. CASE dev' = KoalaReset(d)
      BY <3>1, <3>2, KoalaIsReset, Zenon DEF Receives
    <3>3. CASE dev' \in KoalaActions(d) /\ asked \subseteq asked'
               /\ \A k \in Motors \ asked' : dev.motor[k].velocity = 0 => d.motor[k].velocity = 0
      <4>1. d \in Devices /\ d.motor[m].velocity = 0 /\ d.motor[m].curr \in {-1, 0}
        BY <3>1, <3>3, Zenon DEF Receives
      <4>2. d.motor[m].deadband \in Int /\ d.motor[m].deadband = dev'.motor[m].deadband
        BY <3>3, <4>1, KoalaActed, SMTT(30) DEF Devices, MotorStates
      <4>3. d.online => Stops(d, m)
        <5> SUFFICES ASSUME d.online PROVE Stops(d, m)
          BY Zenon
        <5>1. d.idle <= 1
          BY <3>1, Zenon DEF Receives
        <5>2. d.motor[m].deadband > 3
          BY <4>2
        <5> QED
          BY <4>1, <5>1, <5>2, SwingsAroundRest, Zenon
      <4> QED
        BY <3>1, <3>3, <4>1, <4>3, KoalaActed, SMTT(30) DEF Receives
    <3>4. CASE dev' = d
      BY <3>1, <3>4, Zenon DEF Receives
    <3> QED
      BY <3>1, <3>2, <3>3, <3>4, Zenon DEF LoopEnds
  <2>2. CASE ATick
    BY <2>2, Zenon DEF ATick, Devices
  <2> QED
    BY <2>1, <2>2, Zenon DEF ANext
<1> QED
  BY <1>1, KoalaInvariant, PTL DEF ASpec, NoMotionFromThePast

-----------------------------------------------------------------------------
(* Servo: the pulses. *)

\* The time up to which the pulses of c channels may last, one after the other.
Turn(c) == c * Max(Pulses)

Sketches ==
  [at : {"loop", "attach", "initISR", "activate", "write", "detach"},
   servo : Channels, width : Widths \cup {0}]

ServoTypeOK ==
  /\ tcnt \in 0 .. COUNTS - 1 /\ ocr \in Nat /\ ocf \in BOOLEAN
  /\ channel \in -1 .. NUM_SERVOS - 1
  /\ ticks \in [Channels -> Pulses] /\ isActive \subseteq Channels
  /\ sketch \in Sketches
  /\ sketch.at \in {"attach", "initISR", "activate", "write"} => sketch.width \in Widths
  /\ train \in [Channels -> [on : BOOLEAN, age : Nat, width : Nat]]

\* Where the compare value is in a round, and that the timer is not beyond it
\* when the interrupt comes, although attach may have set it back to 0.
RoundInv ==
  /\ IF channel = -1 THEN ocr = REFRESH_INTERVAL ELSE ocr <= Turn(channel + 1)
  /\ ocf => tcnt <= ocr

\* A servo with a train of pulses: it is attached, so nobody sets the timer up,
\* and the timer is on its way to the compare value or has just reached it.
\* During its own pulse the rest of it is what the timer has still to count; in
\* the rest of the round the timer has counted from its start at least, and in
\* the next round besides that a refresh interval.
TrainInv(s) ==
  train[s].on =>
    /\ s \in isActive
    /\ IF ocf THEN tcnt = ocr ELSE tcnt < ocr
    /\ s = channel => s \in high /\ train[s].age + ocr = train[s].width + tcnt
    /\ s # channel => s \notin high /\ train[s].age >= train[s].width
    /\ IF channel = -1 \/ channel >= s
       THEN train[s].age <= tcnt ELSE train[s].age <= REFRESH_INTERVAL + tcnt

\* The inductive invariant.
ServoInv ==
  /\ ServoTypeOK /\ RoundInv
  /\ sketch.at = "initISR" => isActive = {}
  /\ \A s \in Channels : TrainInv(s)

\* A set of numbers from 1 to a bound has a largest one.
LEMMA Largest ==
  ASSUME NEW top \in Nat, NEW S, S \subseteq 1 .. top, S # {}
  PROVE  Max(S) \in S /\ \A x \in S : x <= Max(S)
<1> DEFINE R == {ss \in Nat \X Nat : ss[1] < ss[2]}
           T == {top - x : x \in S}
<1>1. IsWellFoundedOn(R, Nat)
  BY NatLessThanWellFounded, Zenon DEF OpToRel
<1>2. T \subseteq Nat /\ T # {}
  <2>1. PICK x \in S : TRUE
    BY Zenon
  <2>2. top - x \in T
    BY <2>1, Zenon
  <2>3. \A y \in S : top - y \in Nat
    OBVIOUS
  <2> QED
    BY <2>2, <2>3, Zenon
<1>3. \A x, y \in T : ~(<<y, x>> \in R) => x <= y
  BY <1>2
<1> HIDE DEF R
<1>4. \E x \in T : \A y \in T : ~(<<y, x>> \in R)
  <2> HIDE DEF T
  <2> QED
    BY <1>1, <1>2, WFMin, Zenon
<1>5. PICK t \in T : \A y \in T : t <= y
  BY <1>3, <1>4, Zenon
<1>6. PICK x \in S : t = top - x
  BY Zenon
<1>7. \A y \in S : top - y \in T
  BY Zenon
<1> HIDE DEF T
<1>8. \E z \in S : \A y \in S : z >= y
  <2>1. \A y \in S : top - x <= top - y
    BY <1>5, <1>6, <1>7, Zenon
  <2> QED
    BY <2>1
<1>9. /\ Max(S) \in S
      /\ \A y \in S : Max(S) >= y
  BY <1>8, Zenon DEF Max
<1> QED
  BY <1>9, Zenon

\* The turns of all channels end before the refresh interval does.
LEMMA Turns ==
  /\ \A w \in Pulses : w \in Nat /\ 0 < w /\ w <= Max(Pulses)
  /\ Max(Pulses) \in Nat
  /\ \A c \in 0 .. NUM_SERVOS : Turn(c) \in Nat /\ Turn(c) + SLACK < REFRESH_INTERVAL
  /\ \A c \in 0 .. NUM_SERVOS - 1 : Turn(c + 1) = Turn(c) + Max(Pulses)
  /\ \A c, d \in 0 .. NUM_SERVOS : c <= d => Turn(c) <= Turn(d)
  /\ Turn(0) = 0
<1> DEFINE M == Max(Pulses)
<1>1. /\ M \in Nat /\ \A w \in Pulses : w \in Nat /\ 0 < w /\ w <= M
  BY ServoConstants, Largest DEF Pulses
<1>2. /\ NUM_SERVOS \in Nat /\ SLACK \in Nat /\ REFRESH_INTERVAL \in Nat
      /\ NUM_SERVOS * M + SLACK < REFRESH_INTERVAL
  BY ServoConstants
<1> HIDE DEF M
<1>3. \A c, d \in 0 .. NUM_SERVOS : c <= d => c * M <= d * M
  BY <1>1, <1>2
<1>4. \A c \in 0 .. NUM_SERVOS : c * M \in Nat /\ c * M + SLACK < REFRESH_INTERVAL
  BY <1>1, <1>2, <1>3
<1>5. \A c \in 0 .. NUM_SERVOS - 1 : (c + 1) * M = c * M + M
  BY <1>1, <1>2
<1>6. 0 * M = 0
  BY <1>1
<1> QED
  BY <1>1, <1>3, <1>4, <1>5, <1>6, Zenon DEF Turn, M

\* Counting modulo COUNTS.
LEMMA Counts ==
  ASSUME NEW x \in Nat
  PROVE  x % COUNTS \in 0 .. COUNTS - 1 /\ (x < COUNTS => x % COUNTS = x)
  BY ServoConstants

\* Before the first attach, the timer's flag may be on, at 0.
LEMMA ServoStart == SInit => ServoInv
<1> SUFFICES ASSUME SInit PROVE ServoInv
  BY Zenon
<1>1. 0 \in Channels /\ DEFAULT_PULSE_WIDTH \in Pulses /\ COUNTS \in Nat \ {0}
  BY ServoConstants DEF Channels, Pulses
<1>2. train \in [Channels -> [on : BOOLEAN, age : Nat, width : Nat]]
      /\ \A s \in Channels : ~train[s].on
  BY Zenon DEF SInit
<1>3. ocf \in BOOLEAN /\ tcnt <= ocr
  BY DEF SInit
<1>4. ServoTypeOK
  BY <1>1, <1>2, <1>3, ServoConstants DEF SInit, ServoTypeOK, InLoop, Sketches
<1>5. RoundInv
  BY <1>3, Turns, ServoConstants DEF SInit, RoundInv
<1> QED
  BY <1>2, <1>4, <1>5, Zenon DEF SInit, InLoop, ServoInv, TrainInv

\* While a train is on, the timer counts up to the compare value and does not
\* wrap around.
LEMMA CountKeepsServo ==
  ASSUME ServoInv, Count
  PROVE  ServoInv'
<1> USE DEF ServoInv, ServoTypeOK
<1>1. tcnt' \in 0 .. COUNTS - 1 /\ (tcnt + 1 < COUNTS => tcnt' = tcnt + 1)
  <2>1. tcnt' = (tcnt + 1) % COUNTS
    BY Zenon DEF Count
  <2>2. tcnt + 1 \in Nat
    BY ServoConstants
  <2> QED
    BY <2>1, <2>2, Counts, Zenon
<1>2. ocf' \in BOOLEAN /\ (ocf' => tcnt' = ocr') /\ ~ocf
  BY Zenon DEF Count
<1>3. train' \in [Channels -> [on : BOOLEAN, age : Nat, width : Nat]]
  BY DEF Count
<1>4. UNCHANGED <<ocr, channel, ticks, isActive, high, sketch>>
  BY Zenon DEF Count
<1>5. RoundInv'
  BY <1>1, <1>2, <1>4 DEF RoundInv
<1>6. ASSUME NEW s \in Channels, train'[s].on PROVE TrainInv(s)'
  <2>1. train[s].on /\ train'[s].age = train[s].age + 1 /\ train'[s].width = train[s].width
    BY <1>6, Zenon DEF Count
  <2>2. tcnt < ocr /\ ocr < COUNTS
    BY <1>2, <2>1, Turns, ServoConstants, SMTT(30) DEF TrainInv, RoundInv
  <2>3. tcnt' = tcnt + 1 /\ tcnt \in Nat /\ ocr \in Nat
    BY <1>1, <2>2, ServoConstants, SMTT(30)
  <2>0. ocf' <=> tcnt' = ocr
    BY Zenon DEF Count
  <2>4. train[s].age \in Nat /\ train[s].width \in Nat
    BY Zenon
  <2>5. s # channel => s \notin high /\ train'[s].age >= train'[s].width
    BY <2>1, <2>4, SMTT(30) DEF TrainInv
  <2>6. s = channel => s \in high /\ train'[s].age + ocr = train'[s].width + tcnt'
    BY <2>1, <2>3, <2>4, SMTT(30) DEF TrainInv
  <2>7. IF channel = -1 \/ channel >= s
        THEN train'[s].age <= tcnt' ELSE train'[s].age <= REFRESH_INTERVAL + tcnt'
    BY <2>1, <2>3, <2>4, ServoConstants, SMTT(30) DEF TrainInv
  <2>8. IF ocf' THEN tcnt' = ocr ELSE tcnt' < ocr
    BY <2>0, <2>2, <2>3
  <2>9. s \in isActive
    BY <2>1, Zenon DEF TrainInv
  <2> QED
    BY <1>4, <2>5, <2>6, <2>7, <2>8, <2>9, Zenon DEF TrainInv
<1> QED
  BY <1>1, <1>2, <1>3, <1>4, <1>5, <1>6, Zenon DEF TrainInv

\* The interrupt finds the timer where the round should be, so that the compare
\* value it sets lies ahead: within the turn of the next channel, or at the
\* refresh interval.
LEMMA InterruptKeepsServo ==
  ASSUME ServoInv, handle_interrupts
  PROVE  ServoInv'
<1> USE DEF ServoInv, ServoTypeOK
<1> DEFINE now == IF channel < 0 THEN 0 ELSE tcnt
           next == channel + 1
           low == IF channel \in isActive THEN high \ {channel} ELSE high
<1>1. /\ ocf /\ tcnt' = now /\ ~ocf' /\ UNCHANGED <<ticks, isActive, sketch>>
      /\ now \in Nat /\ now <= Turn(next) /\ next \in 0 .. NUM_SERVOS
  BY Turns, ServoConstants, SMTT(30) DEF handle_interrupts, RoundInv
<1>2. ocf' \in BOOLEAN
  BY Zenon DEF handle_interrupts
<1>3. ASSUME NEW s \in Channels, train[s].on
      PROVE  /\ s \in isActive /\ s \notin low
             /\ train[s].age \in Nat /\ train[s].width \in Nat
             /\ train[s].age >= train[s].width
             /\ train[s].age <= IF channel >= s THEN now ELSE REFRESH_INTERVAL + now
  <2>1. train[s].age \in Nat /\ train[s].width \in Nat /\ s \in 0 .. NUM_SERVOS - 1
    BY Zenon DEF Channels
  <2>2. s \in isActive /\ tcnt = ocr /\ (channel = -1 => ocr = REFRESH_INTERVAL)
    BY <1>1, <1>3, Zenon DEF TrainInv, RoundInv
  <2>3. s \notin low
    BY <1>3, <2>2, Zenon DEF TrainInv
  <2>4. train[s].age >= train[s].width
    BY <1>3, <2>1, <2>2 DEF TrainInv
  <2>5. train[s].age <= IF channel >= s THEN now ELSE REFRESH_INTERVAL + now
    BY <1>3, <2>1, <2>2, ServoConstants DEF TrainInv
  <2> QED
    BY <2>1, <2>2, <2>3, <2>4, <2>5, Zenon
<1>4. CASE next < NUM_SERVOS
  <2>1. next \in Channels /\ ticks[next] \in Pulses /\ channel' = next
    BY <1>1, <1>4, ServoConstants, SMTT(30) DEF Channels, handle_interrupts
  <2>2. /\ now + ticks[next] \in Nat /\ ticks[next] \in Nat /\ ticks[next] > 0
        /\ now + ticks[next] <= Turn(next + 1) /\ now + ticks[next] < COUNTS
    <3>1. ticks[next] \in Nat /\ ticks[next] > 0 /\ ticks[next] <= Max(Pulses)
      BY <2>1, Turns, Zenon
    <3>2. /\ next \in 0 .. NUM_SERVOS - 1 /\ next + 1 \in 0 .. NUM_SERVOS
      BY <2>1, ServoConstants DEF Channels
    <3> HIDE DEF next, now
    <3>3. /\ Turn(next + 1) = Turn(next) + Max(Pulses) /\ Turn(next) \in Nat
          /\ Turn(next + 1) + SLACK < REFRESH_INTERVAL /\ Max(Pulses) \in Nat
      BY <1>1, <3>2, Turns, Zenon
    <3> QED
      BY <1>1, <3>1, <3>3, ServoConstants
  <2>3. ocr' = now + ticks[next]
    <3>1. ocr' = (now + ticks[next]) % COUNTS
      BY <1>4, ServoConstants DEF handle_interrupts
    <3> QED
      BY <2>2, <3>1, Counts, Zenon
  <2>4. high' = low \cup ({next} \cap isActive)
    BY <1>4, ServoConstants DEF handle_interrupts
  <2>5. train' = IF next \in isActive
                 THEN [train EXCEPT ![next] = [on |-> TRUE, age |-> 0, width |-> ticks[next]]]
                 ELSE train
    BY <1>4, ServoConstants DEF handle_interrupts
  <2>6. train' \in [Channels -> [on : BOOLEAN, age : Nat, width : Nat]]
    BY <2>1, <2>2, <2>5, Zenon
  <2>7. ServoTypeOK' /\ RoundInv'
    <3>1. tcnt' \in 0 .. COUNTS - 1 /\ ocr' \in Nat
      BY <1>1, <2>2, <2>3, ServoConstants
    <3>2. channel' \in -1 .. NUM_SERVOS - 1 /\ channel' # -1
      BY <2>1 DEF Channels
    <3>3. RoundInv'
      BY <1>1, <2>1, <2>2, <2>3, <3>2, Zenon DEF RoundInv
    <3> QED
      BY <1>1, <1>2, <2>6, <3>1, <3>2, <3>3, Zenon
  <2>8. ASSUME NEW s \in Channels, train'[s].on, s = next PROVE TrainInv(s)'
    <3>1. next \in isActive
      BY <1>3, <2>5, <2>8, Zenon
    <3>2. train'[s].age = 0 /\ train'[s].width = ticks[next]
      BY <2>1, <2>5, <2>8, <3>1, Zenon
    <3> QED
      BY <1>1, <2>1, <2>2, <2>3, <2>4, <2>8, <3>1, <3>2, SMTT(30) DEF TrainInv
  <2>9. ASSUME NEW s \in Channels, train'[s].on, s # next PROVE TrainInv(s)'
    <3>1. train'[s] = train[s]
      BY <2>1, <2>5, <2>9, Zenon
    <3>2. train[s].on
      BY <2>9, <3>1, Zenon
    <3>3. s \in Int /\ channel \in Int /\ (next >= s => channel >= s)
      BY <2>9 DEF Channels
    <3>4. s \notin high'
      BY <1>3, <2>4, <2>9, <3>2, Zenon
    <3> QED
      BY <1>1, <1>3, <2>1, <2>2, <2>3, <2>9, <3>1, <3>2, <3>3, <3>4, SMTT(30) DEF TrainInv
  <2> QED
    BY <1>1, <2>7, <2>8, <2>9, Zenon DEF TrainInv
<1>5. CASE ~(next < NUM_SERVOS)
  <2>1. next = NUM_SERVOS /\ channel' = -1 /\ train' = train /\ high' = low
    BY <1>1, <1>5, ServoConstants, SMTT(30) DEF handle_interrupts
  <2>2. now + SLACK \in Nat /\ now + SLACK < REFRESH_INTERVAL /\ now + SLACK < COUNTS /\ now < REFRESH_INTERVAL
    BY <1>1, <2>1, Turns, ServoConstants
  <2>3. ocr' = REFRESH_INTERVAL
    BY <1>5, <2>2, ServoConstants, SMTT(30) DEF handle_interrupts
  <2>4. ServoTypeOK' /\ RoundInv'
    BY <1>1, <1>2, <2>1, <2>2, <2>3, ServoConstants, SMTT(30) DEF RoundInv
  <2>5. ASSUME NEW s \in Channels, train'[s].on PROVE TrainInv(s)'
    <3>1. s \in Nat /\ s <= channel
      BY <2>1, ServoConstants DEF Channels
    <3> QED
      BY <1>1, <1>3, <2>1, <2>2, <2>3, <2>5, <3>1, SMTT(30) DEF TrainInv
  <2> QED
    BY <1>1, <2>4, <2>5, Zenon DEF TrainInv
<1> QED
  BY <1>1, <1>4, <1>5, ServoConstants, Zenon

\* The sketch between two calls, and where it begins to detach.
LEMMA LoopSketch ==
  /\ InLoop \in Sketches /\ InLoop.at = "loop"
  /\ [InLoop EXCEPT !.at = "detach"] \in Sketches
  /\ [InLoop EXCEPT !.at = "detach"].at = "detach"
<1>1. 0 \in Channels
  BY ServoConstants DEF Channels
<1> QED
  BY <1>1, Zenon DEF InLoop, Sketches

\* The sketch touches the timer only when no servo is attached.
LEMMA SketchKeepsServo ==
  ASSUME ServoInv, Sketch \/ UNCHANGED svars
  PROVE  ServoInv'
<1> USE DEF ServoInv, ServoTypeOK
<1>1. ASSUME NEW s \in Channels, NEW w \in Widths, device_write_servo(s, w) PROVE ServoInv'
  BY <1>1, Zenon DEF device_write_servo, Sketches, timer, RoundInv, TrainInv
<1>2. CASE attach
  <2>1. CASE isTimerActive
    BY <1>2, <2>1, Zenon DEF attach, Goes, Sketches, RoundInv, TrainInv
  <2>2. CASE ~isTimerActive
    <3>1. \A s \in Channels : ~train[s].on
      BY <2>2, Zenon DEF isTimerActive, TrainInv
    <3>2. /\ tcnt' = 0 /\ sketch' = [sketch EXCEPT !.at = "initISR"] /\ sketch.at = "attach"
          /\ UNCHANGED <<ocr, ocf, channel, ticks, isActive, high, train>>
      BY <1>2, <2>2, Zenon DEF attach, Goes
    <3>3. ServoTypeOK'
      BY <3>2, ServoConstants DEF Sketches
    <3>4. RoundInv'
      BY <3>2 DEF RoundInv
    <3>5. isActive \cap Channels = {}
      BY <2>2, Zenon DEF isTimerActive
    <3> QED
      BY <3>1, <3>2, <3>3, <3>4, <3>5, Zenon DEF TrainInv
  <2> QED
    BY <2>1, <2>2, Zenon
<1>3. CASE initISR
  <2>1. ocf' \in BOOLEAN /\ ~ocf'
    BY <1>3, Zenon DEF initISR
  <2>2. \A s \in Channels : ~train[s].on
    BY <1>3, Zenon DEF initISR, TrainInv
  <2> QED
    BY <1>3, <2>1, <2>2, Zenon DEF initISR, Goes, Sketches, RoundInv, TrainInv
<1>4. CASE Activate
  BY <1>4, Zenon DEF Activate, Goes, Sketches, timer, RoundInv, TrainInv
<1>5. CASE writeMicroseconds
  <2>1. /\ ticks' = [ticks EXCEPT ![sketch.servo] = sketch.width]
        /\ sketch' = InLoop /\ UNCHANGED <<timer, channel, isActive, high, train>>
        /\ sketch.servo \in Channels /\ sketch.width \in Pulses
    BY <1>5, Zenon DEF writeMicroseconds, Sketches, Pulses
  <2>2. ticks' \in [Channels -> Pulses]
    BY <2>1, Zenon
  <2> QED
    BY <2>1, <2>2, LoopSketch, Zenon DEF timer, RoundInv, TrainInv
<1>6. CASE device_reset_servo
  <2>1. sketch' = [InLoop EXCEPT !.at = "detach"] /\ UNCHANGED <<timer, channel, ticks, isActive, high, train>>
    BY <1>6, Zenon DEF device_reset_servo
  <2> QED
    BY <2>1, LoopSketch, Zenon DEF timer, RoundInv, TrainInv
<1>7. CASE detach
  <2>1. sketch' \in Sketches /\ sketch'.at \in {"loop", "detach"}
    <3>1. CASE sketch.servo + 1 < NUM_SERVOS
      <4>1. sketch.servo + 1 \in Channels
        <5>1. sketch.servo \in Channels
          BY Zenon DEF Sketches
        <5>2. NUM_SERVOS \in Nat
          BY ServoConstants
        <5> HIDE DEF ServoInv, ServoTypeOK
        <5> QED
          BY <3>1, <5>1, <5>2 DEF Channels
      <4> QED
        BY <1>7, <3>1, <4>1, Zenon DEF detach, Sketches
    <3>2. CASE ~(sketch.servo + 1 < NUM_SERVOS)
      BY <1>7, <3>2, LoopSketch, Zenon DEF detach
    <3> QED
      BY <3>1, <3>2, Zenon
  <2>2. sketch.servo \in Channels
    BY Zenon DEF Sketches
  <2>3. /\ train' \in [Channels -> [on : BOOLEAN, age : Nat, width : Nat]]
        /\ ~train'[sketch.servo].on
        /\ \A s \in Channels \ {sketch.servo} : train'[s] = train[s] /\ (s \in isActive => s \in isActive')
    BY <1>7, <2>2, Zenon DEF detach
  <2> QED
    BY <1>7, <2>1, <2>3, Zenon DEF detach, timer, RoundInv, TrainInv
<1>8. CASE UNCHANGED svars
  BY <1>8, Zenon DEF svars, timer, RoundInv, TrainInv
<1> QED
  BY <1>1, <1>2, <1>3, <1>4, <1>5, <1>6, <1>7, <1>8, Zenon DEF Sketch

\* Every reachable state has the invariant.
LEMMA ServoInvariant == SSpec => []ServoInv
<1>1. ServoInv /\ [SNext]_svars => ServoInv'
  BY CountKeepsServo, InterruptKeepsServo, SketchKeepsServo, Zenon DEF SNext
<1> QED
  BY <1>1, ServoStart, PTL DEF SSpec

\* For any number of servos whose pulses fit into the refresh interval, and any
\* timer that counts beyond it: pulses last as long as they should and come in
\* time, whatever the sketch does between two interrupts.
THEOREM PulsesComeInTime == SSpec => []PulsesInTime
<1>1. ServoInv => PulsesInTime
  <2> SUFFICES ASSUME ServoInv, NEW s \in Channels, train[s].on
               PROVE  /\ IF s \in high THEN train[s].age <= train[s].width
                                       ELSE train[s].age >= train[s].width
                      /\ train[s].age <= REFRESH_INTERVAL + s * Max(Pulses)
    BY Zenon DEF PulsesInTime
  <2> USE DEF ServoInv, ServoTypeOK
  <2>1. /\ train[s].age \in Nat /\ train[s].width \in Nat
        /\ s \in 0 .. NUM_SERVOS - 1 /\ s \in 0 .. NUM_SERVOS /\ tcnt <= ocr
    BY ServoConstants DEF TrainInv, Channels
  <2>2. IF s \in high THEN train[s].age <= train[s].width ELSE train[s].age >= train[s].width
    BY <2>1 DEF TrainInv
  <2>3. train[s].age <= REFRESH_INTERVAL + Turn(s)
    <3>1. CASE channel = -1
      BY <2>1, <3>1, Turns, ServoConstants DEF TrainInv, RoundInv
    <3>2. CASE channel >= s
      BY <2>1, <3>2, Turns, ServoConstants, SMTT(30) DEF TrainInv, RoundInv
    <3>3. CASE channel # -1 /\ channel < s
      <4>1. channel + 1 \in 0 .. NUM_SERVOS /\ channel + 1 <= s
        BY <2>1, <3>3, ServoConstants
      <4>2. tcnt <= Turn(s)
        BY <2>1, <3>3, <4>1, Turns DEF RoundInv
      <4> QED
        BY <2>1, <3>3, <4>2, Turns, ServoConstants DEF TrainInv
    <3> QED
      BY <2>1, <3>1, <3>2, <3>3
  <2> QED
    BY <2>2, <2>3, Zenon DEF Turn
<1> QED
  BY <1>1, ServoInvariant, PTL

-----------------------------------------------------------------------------
(* RunMode: who commands the robot. *)

KidStates == {"none", "init", "run", "recv", "solve", "send", "disarm", "return",
              "finish", "dead"}

RunModeTypeOK ==
  /\ thread \in [Clients -> {"none", "select", "recv", "sendto", "write", "sending", "cleanup",
                             "close", "goodbye"}]
  /\ kid \in [Kids -> KidStates]
  /\ kid_mode \in [Kids -> Modes] /\ new_mode \in Modes /\ run_mode \in Modes
  /\ want \in [Clients -> Modes] /\ client \in Clients
  /\ pid \in Kids \union {NoKid}

\* What executor knows of its child at each place of its main loop.
ExecutorInv ==
  /\ exec \in {"poll", "kill", "wait", "reset", "start"}
  /\ exec = "start" => new_mode # "IDLE" /\ mode = "IDLE"
  /\ exec \in {"kill", "wait"} => mode # "IDLE" /\ pid # NoKid
  /\ exec = "reset" => pid = NoKid /\ mode # "IDLE"
  /\ exec = "poll" /\ mode # "IDLE" => pid # NoKid
  /\ mode = "IDLE" => pid = NoKid

\* There is no child but executor's, it runs executor's mode, and only it is ever
\* asked to end.
KidsInv ==
  /\ \A k \in Kids : kid[k] # "none" <=> k = pid
  /\ pid # NoKid => kid_mode[pid] = mode
  /\ \A k \in Kids : kid[k] = "run" => kid_mode[k] # "CHALLENGE"
  /\ sigterm \subseteq {pid} /\ sigterm \subseteq Kids

\* Only AUTO and TELEOP move the KoalaBears.
MotorsInv == "KoalaBear" \in moving => mode \notin {"IDLE", "CHALLENGE"}

\* The inductive invariant.
RunModeInv == RunModeTypeOK /\ ExecutorInv /\ KidsInv /\ MotorsInv /\ IdleWithoutClients

\* Executor starts in IDLE, without child and clients.
LEMMA RunModeStart == RInit => RunModeInv
<1> SUFFICES ASSUME RInit PROVE RunModeInv
  BY Zenon
<1>1. "KoalaBear" \notin moving
  BY Zenon DEF RInit
<1>2. RunModeTypeOK
  BY Zenon DEF RInit, RunModeTypeOK, Clients, Modes, KidStates
<1>3. ExecutorInv /\ KidsInv
  BY DEF RInit, ExecutorInv, KidsInv, Kids, NoKid
<1>4. MotorsInv /\ IdleWithoutClients
  BY <1>1, Zenon DEF RInit, MotorsInv, IdleWithoutClients
<1> QED
  BY <1>2, <1>3, <1>4, Zenon DEF RunModeInv

\* What the TCP threads and the accept loop do to executor is to write RUN_MODE;
\* a thread leaves the places from which it may do so by writing IDLE.
LEMMA NetKeepsInv ==
  ASSUME RunModeInv,
         \/ \E c \in Clients :
              \/ Accept(c) \/ Hangup(c) \/ parse_msg(c) \/ RecvChallenge(c) \/ SendFails(c)
              \/ send_log_msg(c) \/ Sent(c) \/ TcpStep(c)
              \/ \E m \in Modes : RecvRunMode(c, m)
              \/ \E answered \in BOOLEAN : RecvOther(c, answered)
         \/ stop_tcp_conn \/ start_tcp_conn \/ StartFails \/ Announce
  PROVE  RunModeInv'
<1> USE DEF RunModeInv, RunModeTypeOK, ThreadOnly, IdleWithoutClients, InCommand
<1>1. UNCHANGED <<executor, kid, kid_mode, sigterm, moving>>
  BY Zenon DEF Accept, Hangup, Leave, parse_msg, RecvChallenge, SendFails, send_log_msg, Sent,
         TcpStep, RecvRunMode, RecvOther, stop_tcp_conn, start_tcp_conn, StartFails, Announce, SendInputs, WriteRunMode, send_challenge_results,
         Cancelled, CleanupMode, CleanupSockets, CleanupDesc, Sending, kids, executor
<1>2. ExecutorInv' /\ KidsInv' /\ MotorsInv'
  BY <1>1, Zenon DEF executor, ExecutorInv, KidsInv, MotorsInv
<1>3. RunModeTypeOK' /\ IdleWithoutClients'
  <2>1. ASSUME NEW c \in Clients, Accept(c) PROVE RunModeTypeOK' /\ IdleWithoutClients'
    BY <1>1, <2>1, Zenon DEF Accept, executor
  <2>2. CASE stop_tcp_conn \/ Announce
    BY <1>1, <2>2, Zenon DEF stop_tcp_conn, Announce, executor, Clients
  <2>3. CASE start_tcp_conn
    BY <1>1, <2>3, Zenon DEF start_tcp_conn, executor
  <2>4. CASE StartFails
    BY <1>1, <2>4, Zenon DEF StartFails, executor, Clients
  <2>5. ASSUME NEW c \in Clients, NEW m \in Modes, RecvRunMode(c, m) PROVE RunModeTypeOK' /\ IdleWithoutClients'
    BY <1>1, <2>5, Zenon DEF RecvRunMode, executor
  <2>6. ASSUME NEW c \in Clients, Hangup(c) \/ Sent(c) \/ SendInputs(c) \/ Cancelled(c)
        PROVE  RunModeTypeOK' /\ IdleWithoutClients'
    BY <1>1, <2>6, Zenon DEF Hangup, Leave, Sent, SendInputs, Cancelled, executor
  <2>7. ASSUME NEW c \in Clients, RecvChallenge(c) \/ SendFails(c)
        PROVE  RunModeTypeOK' /\ IdleWithoutClients'
    BY <1>1, <2>7, Zenon DEF RecvChallenge, SendFails, Modes, executor
  <2>8. ASSUME NEW c \in Clients, send_log_msg(c) \/ send_challenge_results(c)
        PROVE  RunModeTypeOK' /\ IdleWithoutClients'
    BY <1>1, <2>8, Zenon DEF send_log_msg, send_challenge_results, Serving, Sending, executor
  <2>9. ASSUME NEW c \in Clients, WriteRunMode(c) \/ CleanupMode(c) PROVE RunModeTypeOK' /\ IdleWithoutClients'
    BY <1>1, <2>9, Zenon DEF WriteRunMode, CleanupMode, Modes, executor
  <2>10. ASSUME NEW c \in Clients, CleanupSockets(c) \/ CleanupDesc(c) PROVE RunModeTypeOK' /\ IdleWithoutClients'
    BY <1>1, <2>10, Zenon DEF CleanupSockets, CleanupDesc, executor
  <2>11. ASSUME NEW c \in Clients, parse_msg(c) PROVE RunModeTypeOK' /\ IdleWithoutClients'
    BY <1>1, <2>11, Zenon DEF parse_msg, Serving, executor
  <2>12. ASSUME NEW c \in Clients, NEW answered \in BOOLEAN, RecvOther(c, answered)
         PROVE  RunModeTypeOK' /\ IdleWithoutClients'
    BY <1>1, <2>12, Zenon DEF RecvOther, executor
  <2> QED
    BY <2>1, <2>2, <2>3, <2>4, <2>5, <2>6, <2>7, <2>8, <2>9, <2>10, <2>11, <2>12, Zenon DEF TcpStep
<1> QED
  BY <1>2, <1>3, Zenon

\* A turn of executor's main loop: it forks when it has no child, and comes to IDLE
\* by way of kill_subprocess, which has waited for the child and, unless the mode
\* was CHALLENGE, stopped the motors.
LEMMA ExecutorKeepsInv ==
  ASSUME RunModeInv, ExecStep \/ ForkFails
  PROVE  RunModeInv'
<1> USE DEF RunModeInv, RunModeTypeOK, ExecutorInv, KidsInv, MotorsInv, ExecutorOnly, net
<1>1. UNCHANGED <<run_mode, thread, want, client>>
  BY Zenon DEF ExecStep, ForkFails, Poll, Kill, Wait, reset_params, Fork
<1>2. IdleWithoutClients'
  BY <1>1, Zenon DEF IdleWithoutClients, InCommand
<1>3. RunModeTypeOK' /\ ExecutorInv' /\ KidsInv' /\ MotorsInv'
  <2>1. CASE Poll
    BY <1>1, <2>1, Zenon DEF Poll, kids
  <2>2. CASE Kill
    BY <1>1, <2>2, Zenon DEF Kill, kids
  <2>3. CASE Wait
    <3>1. /\ kid' = [kid EXCEPT ![pid] = "none"] /\ kid_mode' = [kid_mode EXCEPT ![pid] = "IDLE"]
          /\ pid \in Kids /\ pid' = NoKid /\ sigterm' = sigterm \ {pid}
          /\ UNCHANGED <<new_mode, moving>>
      BY <2>3, Zenon DEF Wait
    <3>2. NoKid \notin Kids
      BY DEF NoKid, Kids
    <3>3. RunModeTypeOK'
      BY <1>1, <3>1, Zenon DEF KidStates, Modes
    <3>4. KidsInv'
      BY <3>1, <3>2, Zenon
    <3>5. ExecutorInv' /\ MotorsInv'
      BY <2>3, <3>1 DEF Wait, AfterKill
    <3> QED
      BY <3>3, <3>4, <3>5, Zenon
  <2>4. CASE reset_params
    BY <1>1, <2>4, Zenon DEF reset_params, AfterKill, kids
  <2>5. ASSUME NEW k \in Kids, Fork(k)
        PROVE  RunModeTypeOK' /\ ExecutorInv' /\ KidsInv' /\ MotorsInv'
    <3>1. /\ kid' = [kid EXCEPT ![k] = "init"] /\ kid_mode' = [kid_mode EXCEPT ![k] = new_mode]
          /\ exec = "start" /\ exec' = "poll" /\ pid' = k /\ mode' = new_mode /\ new_mode' = "IDLE"
          /\ UNCHANGED <<sigterm, moving>>
      BY <2>5, Zenon DEF Fork
    <3>2. k # NoKid /\ pid = NoKid /\ NoKid \notin Kids
      BY <3>1 DEF NoKid, Kids
    <3>3. RunModeTypeOK'
      BY <1>1, <3>1, Zenon DEF KidStates, Modes
    <3>4. \A j \in Kids : kid[j] = "none"
      BY <3>2, Zenon
    <3>5. sigterm' = {}
      BY <3>1, <3>2, Zenon
    <3>6. KidsInv'
      BY <3>1, <3>4, <3>5, Zenon
    <3>7. ExecutorInv' /\ MotorsInv'
      BY <3>1, <3>2, Zenon
    <3> QED
      BY <3>3, <3>6, <3>7, Zenon
  <2>6. CASE ForkFails
    BY <1>1, <2>6, Zenon DEF ForkFails, kids, Modes
  <2> QED
    BY <2>1, <2>2, <2>3, <2>4, <2>5, <2>6, Zenon DEF ExecStep
<1> QED
  BY <1>2, <1>3, Zenon

\* The child moves within its mode, and writes no RUN_MODE but IDLE, however it
\* ends.
LEMMA ChildKeepsInv ==
  ASSUME RunModeInv, NEW k \in Kids,
         \/ ChildStep(k) \/ InitChild(k, FALSE) \/ RecvInputs(k, FALSE)
         \/ \E d \in Movers, zero \in BOOLEAN : StudentWrite(k, d, zero)
         \/ StudentEnds(k) \/ NoChallenges(k) \/ Solve(k) \/ Alarm(k)
  PROVE  RunModeInv'
<1> USE DEF RunModeInv, RunModeTypeOK, ExecutorInv, KidsInv, MotorsInv, Goto, net, executor
<1>1. /\ UNCHANGED <<thread, want, client, exec, mode, new_mode, pid, kid_mode, sigterm>>
      /\ run_mode' \in {run_mode, "IDLE"}
  BY Zenon DEF ChildStep, InitChild, RecvInputs, StudentWrite, StudentEnds, NoChallenges, Solve, Alarm,
         SendResults, Disarm, WriteIdle, Terminate, Die
<1>2. IdleWithoutClients' /\ run_mode' \in Modes
  BY <1>1, Zenon DEF IdleWithoutClients, InCommand, Modes
<1> DEFINE Moves(to) == kid' = [kid EXCEPT ![k] = to]
<1>3. PICK to \in KidStates \ {"none"} :
        Moves(to) /\ (to = "run" => kid[k] = "run" \/ kid_mode[k] # "CHALLENGE")
  <2>1. ASSUME NEW ok \in BOOLEAN, InitChild(k, ok)
        PROVE  \E to \in KidStates \ {"none"} :
                 Moves(to) /\ (to = "run" => kid_mode[k] # "CHALLENGE")
    <3>1. CASE ok /\ kid_mode[k] # "CHALLENGE"
      BY <2>1, <3>1, Zenon DEF InitChild, KidStates
    <3>2. CASE ok /\ kid_mode[k] = "CHALLENGE"
      <4>1. Moves("recv")
        BY <2>1, <3>2, Zenon DEF InitChild
      <4>2. "recv" \in KidStates \ {"none"} /\ "recv" # "run"
        BY Zenon DEF KidStates
      <4> HIDE DEF Moves
      <4> QED
        BY <4>1, <4>2, Zenon
    <3>3. CASE ~ok
      <4>1. Moves("dead")
        BY <2>1, <3>3, Zenon DEF InitChild
      <4>2. "dead" \in KidStates \ {"none"} /\ "dead" # "run"
        BY Zenon DEF KidStates
      <4> HIDE DEF Moves
      <4> QED
        BY <4>1, <4>2, Zenon
    <3> QED
      BY <3>1, <3>2, <3>3, Zenon
  <2>2. ASSUME NEW d \in Movers, NEW zero \in BOOLEAN, StudentWrite(k, d, zero)
        PROVE  Moves("run") /\ kid[k] = "run" /\ "run" \in KidStates \ {"none"}
    BY <2>2, Zenon DEF StudentWrite, KidStates
  <2>3. ASSUME NEW ok \in BOOLEAN, RecvInputs(k, ok)
        PROVE  \E to \in KidStates \ {"none", "run"} : Moves(to)
    BY <2>3, Zenon DEF RecvInputs, KidStates
  <2>4. ASSUME \/ SendResults(k) \/ Disarm(k) \/ WriteIdle(k) \/ Terminate(k)
               \/ StudentEnds(k) \/ NoChallenges(k) \/ Solve(k) \/ Alarm(k)
        PROVE  \E to \in KidStates \ {"none", "run"} : Moves(to)
    BY <2>4, Zenon DEF StudentEnds, NoChallenges, Solve, Alarm, SendResults, Disarm, WriteIdle,
       Terminate, Die, KidStates
  <2> HIDE DEF Moves
  <2> QED
    BY <2>1, <2>2, <2>3, <2>4, Zenon DEF ChildStep
<1>4. k = pid
  BY Zenon DEF ChildStep, InitChild, RecvInputs, StudentWrite, StudentEnds, NoChallenges, Solve, Alarm,
         SendResults, Disarm, WriteIdle, Terminate
<1>5. moving' = moving \/ kid[k] = "run"
  BY Zenon DEF ChildStep, InitChild, RecvInputs, StudentWrite, StudentEnds, NoChallenges, Solve, Alarm,
         SendResults, Disarm, WriteIdle, Terminate, Die
<1>6. MotorsInv'
  <2>1. CASE moving' = moving
    BY <1>1, <2>1, Zenon
  <2>2. CASE kid[k] = "run"
    <3>1. pid # NoKid
      BY <1>4 DEF Kids, NoKid
    <3>2. mode # "IDLE" /\ mode # "CHALLENGE"
      BY <1>4, <2>2, <3>1, Zenon
    <3> QED
      BY <1>1, <3>2, Zenon
  <2> QED
    BY <1>5, <2>1, <2>2, Zenon
<1>7. RunModeTypeOK'
  BY <1>1, <1>2, <1>3, Zenon
<1>8. ExecutorInv'
  BY <1>1, Zenon
<1>9. KidsInv'
  BY <1>1, <1>3, <1>4, Zenon
<1> QED
  BY <1>2, <1>6, <1>7, <1>8, <1>9, Zenon

\* net_handler, executor and its children keep the invariant for ever.
THEOREM RunModeInvariant == RSpec => []RunModeInv
<1>1. RunModeInv /\ [RNext]_rvars => RunModeInv'
  <2>1. ASSUME RunModeInv, UNCHANGED rvars PROVE RunModeInv'
    BY <2>1, Zenon DEF rvars, net, executor, kids, RunModeInv, RunModeTypeOK, ExecutorInv, KidsInv,
       MotorsInv, IdleWithoutClients, InCommand
  <2> QED
    BY <2>1, NetKeepsInv, ExecutorKeepsInv, ChildKeepsInv, Zenon DEF RNext
<1> QED
  BY <1>1, RunModeStart, PTL DEF RSpec

\* Whatever the clients asked for, RUN_MODE is IDLE when none of them is left.
THEOREM NobodyCommands == RSpec => []IdleWithoutClients
<1>1. RunModeInv => IdleWithoutClients
  BY Zenon DEF RunModeInv
<1> QED
  BY <1>1, RunModeInvariant, PTL

\* When executor is in IDLE no child is left and the KoalaBears were told to stop.
THEOREM IdleIsStill == RSpec => []StoppedWhenIdle
<1>1. RunModeInv => StoppedWhenIdle
  BY DEF RunModeInv, ExecutorInv, KidsInv, MotorsInv, StoppedWhenIdle, Live, NoKid, Kids
<1> QED
  BY <1>1, RunModeInvariant, PTL

-----------------------------------------------------------------------------
(* Readn: whole messages. *)

\* The inductive invariant: the types, what remains of a call no system call of
\* which has failed, and how a finished call was left.
NInv ==
  /\ op \in {"readn", "writen"}
  /\ n \in Uint16 /\ n_remain \in Uint16
  /\ curr \in Nat /\ moved \in Nat /\ failures \in Nat
  /\ ended \in BOOLEAN
  /\ pc \in {"loop", "done"}
  /\ failures = 0 => curr = moved /\ moved + n_remain = n
  /\ pc = "loop" => ~ended
  /\ pc = "done" /\ ~ended => n_remain = 0 /\ ret = n
  /\ pc = "done" /\ ended => ret = IF op = "readn" THEN 0 ELSE -1

\* Arithmetic modulo MODULUS stays in the range of a uint16_t and leaves values
\* of the range alone: n_remain -= n_read for n_read <= n_remain.
LEMMA Wrap ==
  ASSUME NEW x \in Int
  PROVE  /\ x % MODULUS \in Uint16
         /\ x \in Uint16 => x % MODULUS = x
  BY ReadnConstants DEF Uint16

\* The loop of readn and writen preserves the invariant.
THEOREM ReadnInvariant == NSpec => []NInv
<1>1. NInit => NInv
  <2> SUFFICES ASSUME NInit PROVE NInv
    BY Zenon
  <2>1. ended \in BOOLEAN /\ ~ended
    BY Zenon DEF NInit
  <2>2. curr = moved /\ moved + n_remain = n
    BY ReadnConstants DEF NInit, Uint16
  <2>3. pc = "loop" /\ pc # "done"
    BY Zenon DEF NInit
  <2> QED
    BY <2>1, <2>2, <2>3 DEF NInit, NInv
<1>2. NInv /\ [NNext]_nvars => NInv'
  <2> SUFFICES ASSUME NInv, [NNext]_nvars PROVE NInv'
    BY Zenon
  <2>1. ASSUME NEW k \in Uint16 \ {0}, Transfer(k) PROVE NInv'
    <3>1. n_remain - k \in Uint16
      BY <2>1, ReadnConstants DEF NInv, Transfer, Uint16
    <3>2. n_remain' = n_remain - k
      BY <2>1, <3>1, Wrap DEF Transfer, Advance, Uint16
    <3> QED
      BY <2>1, <3>1, <3>2, ReadnConstants DEF NInv, Transfer, Advance, Uint16
  <2>2. CASE Fail
    <3>1. n_remain' \in Uint16
      BY <2>2, Wrap, ReadnConstants DEF NInv, Fail, Advance, Uint16
    <3> QED
      BY <2>2, <3>1, ReadnConstants DEF NInv, Fail, Advance, Uint16
  <2>3. CASE Nothing
    BY <2>3, Zenon DEF NInv, Nothing, Return
  <2>4. CASE Finish
    BY <2>4, ReadnConstants DEF NInv, Finish, Return, Uint16
  <2>5. CASE UNCHANGED nvars
    BY <2>5, Zenon DEF NInv, nvars
  <2> QED
    BY <2>1, <2>2, <2>3, <2>4, <2>5, Zenon DEF NNext
<1> QED
  BY <1>1, <1>2, PTL DEF NSpec

\* While no system call fails, every byte lands in its place and a caller that
\* is told n has n bytes, however the transfers are cut up.
THEOREM ExactWithoutFailures == NSpec => []MovesExactly
<1>1. NInv => MovesExactly
  BY ReadnConstants DEF NInv, MovesExactly, Uint16
<1> QED
  BY <1>1, ReadnInvariant, PTL

\* Even when system calls fail, the result is n or that of an end of file: no
\* failure is ever reported as one.
THEOREM NothingElseIsReturned == NSpec => []AllOrNothing
<1>1. NInv => AllOrNothing
  BY Zenon DEF NInv, AllOrNothing
<1> QED
  BY <1>1, ReadnInvariant, PTL
=============================================================================
