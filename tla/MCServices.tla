------------------------------ MODULE MCServices ------------------------------
(* Instances for TLC of what ties the services together, each explored by     *)
(* itself: the units that start and stop them, the FIFO they log to, and the  *)
(* converter between net_handler and a distant Dawn.                          *)
EXTENDS Lifecycle, Logger, Converter

VARIABLE side

\* Both threads that log belong to one process.
MCProcess(t) == "net_handler"

MCInit ==
  /\ side \in {"units", "logs", "converter"}
  /\ VInit /\ OInit /\ CInit

MCNext ==
  /\ UNCHANGED side
  /\ \/ side = "units" /\ VNext /\ UNCHANGED <<ovars, cvars>>
     \/ side = "logs" /\ ONext /\ UNCHANGED <<vvars, cvars>>
     \/ side = "converter" /\ CNext /\ UNCHANGED <<vvars, ovars>>

MCSpec ==
  /\ MCInit /\ [][MCNext]_<<side, vvars, ovars, cvars>>
  /\ \/ side = "units" /\ VFairness
     \/ side = "logs" /\ OFairness
     \/ side = "converter" /\ CFairness

\* One of them alone.
ConverterSpec == MCSpec /\ side = "converter"
=============================================================================
