------------------------------ MODULE MCRunMode ------------------------------
(* Instances of RunMode for TLC: who asks for which mode. *)
EXTENDS RunMode

DawnChallenges == (Clients \X {"AUTO"}) \union ({"DAWN"} \X {"IDLE", "CHALLENGE"})
=============================================================================
