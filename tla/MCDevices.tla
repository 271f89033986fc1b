------------------------------ MODULE MCDevices ------------------------------
(***************************************************************************)
(* The firmware of the devices, each for itself: `device` says which one is *)
(* looked at, the others stay as they were built.                           *)
(***************************************************************************)
EXTENDS Actuators, Rfid, BatteryBuzzer, Servo

VARIABLE device

mcvars == <<device, avars, fvars, bvars, svars>>

MCCommands == {-2, 0, 3}
MCPidOutputs == {-9, 0, 6}
MCEnableTime == [koala |-> 2, polar |-> 2, servo |-> 0]

\* Cards that collide on each bit of a level, on the first bit of a byte with
\* both values of the bit before, and two with two cascade levels.
MCCT == <<1, 1, 1>>
MCCards ==
  {<<[i \in 1 .. 6 |-> IF i = k THEN 1 ELSE 0]>> : k \in 0 .. 6}
  \cup {<<<<1, 0, 0, 1, 0, 0>>>>}
  \cup {<<<<1, 1, 1, 0, 0, 0>>, <<0, b, 0, 0, 0, 0>>>> : b \in {0, 1}}

\* All is well, undervolt, hovering, imbalance, back to normal.
MCReadings == {<<40, 40, 40>>, <<32, 40, 40>>, <<35, 35, 35>>, <<40, 40, 44>>, <<41, 40, 41>>}

MCInit ==
  /\ AInit /\ RInit /\ BInit /\ SInit
  /\ \/ device = "actuators"
     \/ device \in {"rfid", "buzzer", "pulses"} /\ kind = "servo"
  /\ device # "rfid" => field = {}
  /\ device # "buzzer" => ~under_volt /\ ~imbalance /\ ~unsafe_status
  /\ device # "pulses" => ~ocf

MCNext ==
  /\ \/ device = "actuators" /\ ANext /\ UNCHANGED <<fvars, bvars, svars>>
     \/ device = "rfid" /\ RNext /\ UNCHANGED <<avars, bvars, svars>>
     \/ device = "buzzer" /\ BNext /\ UNCHANGED <<avars, fvars, svars>>
     \/ device = "pulses" /\ SNext /\ UNCHANGED <<avars, fvars, bvars>>
  /\ UNCHANGED device

MCSpec ==
  /\ MCInit /\ [][MCNext]_mcvars
  /\ \/ device = "actuators" /\ AFairness
     \/ device = "rfid" /\ RFairness
     \/ device \in {"buzzer", "pulses"}
=============================================================================
