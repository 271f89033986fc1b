-------------------------------- MODULE Readn --------------------------------
(***************************************************************************)
(* readn and writen (runtime_util.c), through which dev_handler, the TCP   *)
(* connections and the logger move every byte.  They call read() or        *)
(* write() until n bytes are moved, with n, the bytes remaining and the    *)
(* result of the system call in 16 bit unsigned variables: MODULUS is      *)
(* 2^16 in the code.  A call that fails returns -1, stored as MODULUS - 1. *)
(*                                                                         *)
(* Byte i of the stream is stored at, or taken from, offset i of the       *)
(* buffer exactly when curr = moved.                                       *)
(***************************************************************************)
EXTENDS Integers

CONSTANTS
  MODULUS,      \* number of values of a uint16_t
  MaxFailures   \* system calls that may fail in one call

ASSUME ReadnConstants == MODULUS \in Nat \ {0, 1} /\ MaxFailures \in Nat

VARIABLES
  op,           \* "readn" or "writen"
  n,            \* bytes asked for
  n_remain,     \* bytes that remain, modulo MODULUS
  curr,         \* offset into the buffer
  moved,        \* bytes the system calls really moved
  failures,     \* system calls that failed
  ended,        \* read() met the end of file, or write() took nothing
  pc, ret

nvars == <<op, n, n_remain, curr, moved, failures, ended, pc, ret>>

Uint16 == 0 .. MODULUS - 1

NInit ==
  /\ op \in {"readn", "writen"}
  /\ n \in Uint16
  /\ n_remain = n
  /\ curr = 0 /\ moved = 0 /\ failures = 0 /\ ended = FALSE
  /\ pc = "loop" /\ ret = 0

\* Fault: the position in the buffer is not advanced.
Advance_KeepCurr(result) ==
  /\ n_remain' = (n_remain - result) % MODULUS
  /\ curr' = curr

\* n_remain -= result; curr += result.
Advance(result) ==
  /\ n_remain' = (n_remain - result) % MODULUS
  /\ curr' = curr + result

\* The system call moves k bytes.
Transfer(k) ==
  /\ pc = "loop" /\ k <= n_remain
  /\ moved' = moved + k
  /\ Advance(k)
  /\ UNCHANGED <<op, n, failures, ended, pc, ret>>

\* The system call fails: the result is neither negative nor zero.
Fail ==
  /\ pc = "loop" /\ n_remain > 0 /\ failures < MaxFailures
  /\ failures' = failures + 1
  /\ Advance(MODULUS - 1)
  /\ UNCHANGED <<op, n, moved, ended, pc, ret>>

Return(value) ==
  /\ pc = "loop"
  /\ pc' = "done"
  /\ ret' = value
  /\ UNCHANGED <<op, n, n_remain, curr, moved, failures>>

\* The system call returns 0.
Nothing ==
  /\ n_remain > 0
  /\ ended' = TRUE
  /\ Return(IF op = "readn" THEN 0 ELSE -1)

Finish ==
  /\ n_remain = 0
  /\ Return(n - n_remain)
  /\ UNCHANGED ended

NNext == (\E k \in Uint16 \ {0} : Transfer(k)) \/ Fail \/ Nothing \/ Finish

NSpec == NInit /\ [][NNext]_nvars

-----------------------------------------------------------------------------
(* Properties.                                                             *)

\* While no system call fails, every byte moves between its place in the
\* stream and its place in the buffer, inside the buffer, and the caller that
\* is told n has n bytes.
MovesExactly ==
  failures = 0 =>
    /\ curr = moved /\ moved + n_remain = n
    /\ pc = "done" /\ ~ended => ret = n /\ moved = n

\* A call returns n, or what it returns at the end of the file: callers that
\* compare the result with n learn of nothing else.
AllOrNothing == pc = "done" => ret = IF ended THEN (IF op = "readn" THEN 0 ELSE -1) ELSE n
=============================================================================
