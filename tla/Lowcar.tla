-------------------------------- MODULE Lowcar --------------------------------
(***************************************************************************)
(* The part of the firmware all lowcar devices share: the state Device::loop *)
(* keeps of its connection with dev_handler, and what each part of the loop *)
(* makes of it (lowcar/devices/Device/Device.cpp).  Times are ages in ticks *)
(* of a clock that the modules using this one advance, cut off where       *)
(* nothing depends on them any more.                                       *)
(***************************************************************************)
EXTENDS Integers, FiniteSetsExt

CONSTANTS
  TIMEOUT,           \* both dev_handler's and the firmware's, 1000 ms
  MIN_SUB_INTERVAL,  \* bounds of the interval between two DEVICE_DATA
  MAX_SUB_INTERVAL

ASSUME LowcarConstants ==
  /\ TIMEOUT \in Nat \ {0}
  /\ MIN_SUB_INTERVAL \in 1 .. MAX_SUB_INTERVAL
  /\ MAX_SUB_INTERVAL \in 1 .. TIMEOUT

Older(age, limit) == IF age < limit THEN age + 1 ELSE age

\* Device::Device.  params is the set of subscribed parameters, interval 0 says
\* that there is no subscription, logs that lowcar_printf has queued something.
Booted ==
  [enabled |-> FALSE, params |-> {}, interval |-> 0, pingAge |-> 0, dataAge |-> 0,
   logs |-> FALSE]

\* Time passes.
Aged(core) ==
  [core EXCEPT !.pingAge = Older(@, TIMEOUT), !.dataAge = Older(@, MAX_SUB_INTERVAL)]

\* DEVICE_PING.  A device that is not enabled sends an ACKNOWLEDGEMENT, logs
\* that it did, and runs device_enable before it goes on.
Acknowledges(core) == ~core.enabled

Pinged(core) ==
  [core EXCEPT !.pingAge = 0, !.logs = @ \/ Acknowledges(core), !.enabled = TRUE]

\* SUBSCRIPTION_REQUEST.
Subscribed(core, params, interval) ==
  [core EXCEPT !.params = params,
               !.interval = Max({MIN_SUB_INTERVAL, Min({MAX_SUB_INTERVAL, interval})})]

\* Too long without a DEVICE_PING: device_reset, and the device is disabled.
TimedOut(core) == core.pingAge >= TIMEOUT

Checked(core) == [core EXCEPT !.enabled = @ /\ ~TimedOut(core)]

\* The end of the loop of an enabled device: DEVICE_DATA if it is due, which
\* needs no subscribed parameter, then the queued logs.
SendsData(core) == core.interval > 0 /\ core.dataAge >= core.interval

Flushed(core) ==
  [core EXCEPT !.dataAge = IF SendsData(core) THEN 0 ELSE @, !.logs = FALSE]
=============================================================================
