------------------------------ MODULE MCStudent ------------------------------
(* Instances for TLC of what student code meets, each explored by itself: the *)
(* gamepad it reads, the filter its velocities pass, the actions it starts    *)
(* and the data it logs.                                                      *)
EXTENDS Inputs, GameState, Actions, LogData

CONSTANTS v0, v1, r1, udpt, w1, w2, net, a, b, c, long

VARIABLE part

MCInit ==
  /\ part \in {"inputs", "filter", "actions", "log"}
  /\ IInit /\ SInit /\ KInit /\ GInit

MCNext ==
  /\ UNCHANGED part
  /\ \/ part = "inputs" /\ INext /\ UNCHANGED <<svars, kvars, gvars>>
     \/ part = "filter" /\ SNext /\ UNCHANGED <<ivars, kvars, gvars>>
     \/ part = "actions" /\ KNext /\ UNCHANGED <<ivars, svars, gvars>>
     \/ part = "log" /\ GNext /\ UNCHANGED <<ivars, svars, kvars>>

MCSpec ==
  /\ MCInit /\ [][MCNext]_<<part, ivars, svars, kvars, gvars>>
  /\ \/ part = "inputs" /\ IFairness
     \/ part = "filter" /\ SFairness
     \/ part = "actions"
     \/ part = "log" /\ GFairness
=============================================================================
