-------------------------------- MODULE MCShm --------------------------------
(* Instances of ShmWrapper for TLC: which threads run which calls.          *)
EXTENDS ShmWrapper, TLC

CONSTANTS r1, r2, e1, n1

Relays == {r1, r2} \intersect Threads
Clients == Threads \ Relays
MCProcess ==
  [t \in Threads |-> IF t \in {r1, r2} THEN "DEV_HANDLER"
                     ELSE IF t = n1 THEN "NET_HANDLER" ELSE "EXECUTOR"]

Life == Relays \X {"device_connect", "device_disconnect"}
RowWork == Life \union (Relays \X {"get_cmd_map", "device_read", "device_write"})
                \union (Clients \X {"device_write", "device_read"})
SubWork == Life \union (Relays \X {"get_sub_requests"})
                \union (Clients \X {"place_sub_request"})

\* Commands for parameter 0 or for all parameters, data for all.
MCMasks == [s \in Streams |-> IF s = "DATA" THEN {Params} ELSE {{0}, Params}]
Ones == {[p \in Params |-> 1]}
Sym == Permutations({r1, r2}) \union Permutations(Uids)
=============================================================================
