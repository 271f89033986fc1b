---------------------------- MODULE BatteryBuzzer ----------------------------
(***************************************************************************)
(* The BatteryBuzzer device: the calibration of its three cells, which it   *)
(* keeps in the EEPROM over a loss of power, and its judgement of the       *)
(* battery (lowcar/devices/BatteryBuzzer/BatteryBuzzer.cpp, in the triple   *)
(* calibration mode, the only one the constructor sets).                    *)
(*                                                                          *)
(* A calibration value is the number of the calibrate() that computed it;   *)
(* EEPROM writes take effect one field after the other, and the power may   *)
(* be lost between any two.  Voltages are in tenths of a volt.              *)
(***************************************************************************)
EXTENDS Integers, Sequences

CONSTANTS
  MaxCalibrations,  \* how often calibrate() runs
  Readings          \* the voltages of the three cells that may be measured

ASSUME BuzzerConstants ==
  MaxCalibrations \in Nat /\ Readings \subseteq [1 .. 3 -> Nat]

NOMINAL == 0     \* ADC_REF_NOM
CLEARED == -1    \* what is read from an EEPROM that was cleared
TORN == -2       \* a float of which some bytes are new and some old

VARIABLES
  doing,       \* what the device is doing: "off", "loop", "calibrate", "write",
               \* "clear", or "sense", the end of a loop
  entry, part, \* the next field of the EEPROM to write or to clear
  button,      \* CALIB_BUTTON is pressed
  calib,       \* the calibration in use
  eeprom,      \* per cell: is the tag "CALi:" there, and the value behind it
  count,       \* calibrations so far
  lost,        \* history: the power was lost inside write_triple_eeprom
  cells, under_volt, imbalance, unsafe_status

bvars == <<doing, entry, part, button, calib, eeprom, count, lost, cells, under_volt,
           imbalance, unsafe_status>>
safety == <<cells, under_volt, imbalance, unsafe_status>>

Nominal == [i \in 1 .. 3 |-> NOMINAL]

BInit ==
  /\ doing = "off" /\ entry = 1 /\ part = "tag" /\ button = FALSE
  /\ calib = Nominal /\ count = 0 /\ lost = FALSE
  /\ eeprom = [i \in 1 .. 3 |-> [tag |-> FALSE, value |-> CLEARED]]
  /\ cells = <<0, 0, 0>> /\ under_volt \in BOOLEAN /\ imbalance \in BOOLEAN
  /\ unsafe_status \in BOOLEAN

-----------------------------------------------------------------------------
\* setup_sensing, update_triple_calibration: entries of the EEPROM are taken over
\* up to the first one without its tag.
Updated(old) ==
  [i \in 1 .. 3 |-> IF \A j \in 1 .. i : eeprom[j].tag THEN eeprom[i].value ELSE old[i]]

Press == ~button /\ button' = TRUE
         /\ UNCHANGED <<doing, entry, part, calib, eeprom, count, lost, safety>>
Release == button /\ button' = FALSE
           /\ UNCHANGED <<doing, entry, part, calib, eeprom, count, lost, safety>>

\* The power is lost, RAM is gone.  The constructor leaves the flags of
\* compute_safety uninitialized.
PowerLoss ==
  /\ doing # "off" /\ doing' = "off"
  /\ lost' = (lost \/ doing = "write")
  /\ entry' = 1 /\ part' = "tag" /\ calib' = Nominal
  /\ cells' = <<0, 0, 0>> /\ under_volt' \in BOOLEAN /\ imbalance' \in BOOLEAN
  /\ unsafe_status' \in BOOLEAN
  /\ UNCHANGED <<button, eeprom, count>>

\* device_enable, after boot and after every reconnection.
Enable ==
  /\ doing \in {"off", "loop"} /\ doing' = "loop"
  /\ calib' = Updated(Nominal)
  /\ UNCHANGED <<entry, part, button, eeprom, count, lost, safety>>

Distance(x, y) == IF x > y THEN x - y ELSE y - x
Apart(v, limit) == \E i, j \in 1 .. 3 : Distance(v[i], v[j]) > limit

\* compute_safety: min_cell 3.3, max_cell 4.4, d_cell 0.3, end_undervolt 3.6,
\* end_d_cell 0.1.  The later cases only change the flags.
compute_safety(v) ==
  LET low  == \E i \in 1 .. 3 : v[i] < 33
      high == \E i \in 1 .. 3 : v[i] > 44
      bad  == low \/ high \/ Apart(v, 3)
      over == \A i \in 1 .. 3 : v[i] > 36
  IN  /\ unsafe_status' = bad
      /\ under_volt' = (low \/ (under_volt /\ (bad \/ ~over)))
      /\ imbalance' = (\/ ~low /\ ~high /\ Apart(v, 3)
                       \/ imbalance /\ (bad \/ (under_volt /\ over) \/ Apart(v, 0)))

\* The end of device_actions: the EEPROM is looked at in every loop, the cells
\* every 250 ms.
Sense ==
  /\ calib' = Updated(calib)
  /\ \/ UNCHANGED safety
     \/ \E v \in Readings : cells' = v /\ compute_safety(v)

\* A loop in which the button is not pressed, and the end of any other.
LoopSense ==
  /\ (doing = "loop" /\ ~button) \/ doing = "sense"
  /\ doing' = "loop"
  /\ Sense
  /\ UNCHANGED <<entry, part, button, eeprom, count, lost>>

\* A loop that finds the button pressed and no calibration: calibrate, which
\* waits until the button is released.
BeginCalibration ==
  /\ doing = "loop" /\ button /\ calib = Nominal /\ count < MaxCalibrations
  /\ doing' = "calibrate"
  /\ UNCHANGED <<entry, part, button, calib, eeprom, count, lost, safety>>

Calibrate ==
  /\ doing = "calibrate" /\ ~button
  /\ count' = count + 1
  /\ calib' = [i \in 1 .. 3 |-> count + 1]
  /\ doing' = "write" /\ entry' = 1 /\ part' = "tag"
  /\ UNCHANGED <<button, eeprom, lost, safety>>

\* One field of an entry after the other, the value in two steps.
Advance(last) ==
  \/ /\ part = "tag" /\ part' = "first_bytes" /\ UNCHANGED <<doing, entry>>
  \/ /\ part = "first_bytes" /\ part' = "last_bytes" /\ UNCHANGED <<doing, entry>>
  \/ /\ part = "last_bytes" /\ entry < last /\ part' = "tag" /\ entry' = entry + 1
     /\ UNCHANGED doing
  \/ /\ part = "last_bytes" /\ entry = last /\ part' = "tag" /\ entry' = 1 /\ doing' = "sense"

Stored(value) ==
  [tag   |-> IF part = "tag" THEN doing = "write" ELSE eeprom[entry].tag,
   value |-> IF part = "first_bytes" THEN TORN
             ELSE IF part = "last_bytes" THEN value ELSE eeprom[entry].value]

\* write_triple_eeprom.
WriteEeprom ==
  /\ doing = "write"
  /\ eeprom' = [eeprom EXCEPT ![entry] = Stored(calib[entry])]
  /\ Advance(3)
  /\ lost' = (lost /\ doing' = "write")
  /\ UNCHANGED <<button, calib, count, safety>>

\* A loop that finds the button pressed and a calibration: it is reset.  The
\* code does not wait for the button to be released.
BeginClear ==
  /\ doing = "loop" /\ button /\ calib # Nominal
  /\ calib' = Nominal
  /\ doing' = "clear" /\ entry' = 1 /\ part' = "tag"
  /\ UNCHANGED <<button, eeprom, count, lost, safety>>

\* Fault: the EEPROM is cleared from its end.
ClearEeprom_Backwards ==
  /\ doing = "clear"
  /\ eeprom' = [eeprom EXCEPT ![4 - entry] = [tag |-> FALSE, value |-> CLEARED]]
  /\ entry' = (entry % 3) + 1
  /\ doing' = IF entry = 3 THEN "sense" ELSE doing
  /\ lost' = (lost /\ entry # 3)
  /\ UNCHANGED <<part, button, calib, count, safety>>

\* clear_eeprom, from its start.
ClearEeprom ==
  /\ doing = "clear"
  /\ eeprom' = [eeprom EXCEPT ![entry] = Stored(CLEARED)]
  /\ Advance(3)
  /\ lost' = FALSE
  /\ UNCHANGED <<button, calib, count, safety>>

BNext ==
  \/ Press \/ Release \/ PowerLoss \/ Enable \/ LoopSense
  \/ BeginCalibration \/ Calibrate \/ WriteEeprom \/ BeginClear \/ ClearEeprom

BSpec == BInit /\ [][BNext]_bvars

-----------------------------------------------------------------------------
\* Between two loops the calibration in use is what the EEPROM holds, nominal
\* where it holds nothing: "my calibration values that i'm using are in lockstep
\* with the EEPROM" (BatteryBuzzer.cpp:313).  And the three cells are never
\* measured with values of different calibrations, or with a value that no
\* calibration computed, unless the power was lost inside write_triple_eeprom,
\* which writes a tag before its value.  A loss of power while the EEPROM is
\* cleared does no harm.
OneCalibration ==
  doing = "loop" =>
    /\ calib = Updated(Nominal)
    /\ lost \/ \E n \in 0 .. count : calib = [i \in 1 .. 3 |-> n]
=============================================================================
