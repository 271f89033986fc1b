-------------------------------- MODULE MCWire --------------------------------
(* Instances of Wire for TLC: bytes of four bits, packets with and without   *)
(* zeroes, and a payload byte that, taken for a length, makes dev_handler    *)
(* swallow more than a whole frame.                                          *)
EXTENDS Wire, Bitwise

MCXor(a, b) == a ^^ b
Payloads == {<<>>, <<8>>}
MCMessages == {[id |-> 5, payload |-> p] : p \in Payloads}
=============================================================================
