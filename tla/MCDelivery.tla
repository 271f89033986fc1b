------------------------------ MODULE MCDelivery ------------------------------
(* Instances of Delivery for TLC. *)
EXTENDS Delivery

CONSTANTS s0, s1, e1, n1

MCSender == [ix \in Ix |-> IF ix = 0 THEN s0 ELSE s1]
MCProcess ==
  [t \in Threads |-> IF t \in {s0, s1} THEN "DEV_HANDLER"
                     ELSE IF t = n1 THEN "NET_HANDLER" ELSE "EXECUTOR"]
=============================================================================
