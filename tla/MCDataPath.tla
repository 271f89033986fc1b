------------------------------ MODULE MCDataPath ------------------------------
(* Instances for TLC of the way from a device to Dawn, each part explored by  *)
(* itself: the relays of dev_handler and their threads, the three layers a    *)
(* message passes (the payload, the frame, the calls that move bytes), and    *)
(* the datagrams of net_handler.  layer says which one a behaviour is about;  *)
(* the others stay in one state.                                              *)
EXTENDS MCWire, Readn, Payload, Relay, Telemetry

VARIABLE layer

\* Up to three parameters of a device, or all but those, and one it has not.
MCBitmaps(count) ==
  LET few == UNION {kSubset(k, 0 .. count) : k \in 0 .. 3}
  IN  few \cup {(0 .. count) \ s : s \in few}

Chosen(l, init, resting) == IF layer = l THEN init ELSE resting

MCInit ==
  /\ layer \in {"relay", "frame", "bytes", "payload", "datagram"}
  /\ LInit /\ TInit
  /\ Chosen("frame", XInit, XInit /\ dir = "up")
  /\ Chosen("bytes", NInit, NInit /\ op = "readn" /\ n = 0)
  /\ Chosen("payload", PInit, PInit /\ dev = "LimitSwitch" /\ message = "DEVICE_DATA" /\ pmap = {})

MCNext ==
  /\ UNCHANGED layer
  /\ \/ layer = "relay" /\ LNext /\ UNCHANGED <<xvars, nvars, pvars, tvars>>
     \/ layer = "frame" /\ XNext /\ UNCHANGED <<nvars, pvars, lvars, tvars>>
     \/ layer = "bytes" /\ NNext /\ UNCHANGED <<xvars, pvars, lvars, tvars>>
     \/ layer = "payload" /\ PNext /\ UNCHANGED <<xvars, nvars, lvars, tvars>>
     \/ layer = "datagram" /\ TNext /\ UNCHANGED <<xvars, nvars, pvars, lvars>>

MCSpec == MCInit /\ [][MCNext]_<<layer, xvars, nvars, pvars, lvars, tvars>>
=============================================================================
