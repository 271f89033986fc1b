-------------------------------- MODULE Inputs --------------------------------
(***************************************************************************)
(* From Dawn's gamepad to student code: Dawn's datagrams, update_inputs of *)
(* net_handler (udp_conn.c), the GAMEPAD and DAWN fields of robot_desc, the *)
(* clean-up of Dawn's TCP thread (tcp_conn.c), and input_read and          *)
(* input_write (shm_wrapper.c).                                            *)
(*                                                                         *)
(* One source, GAMEPAD: KEYBOARD takes the same path without joysticks.    *)
(* Dawn presses buttons and moves joysticks together, so one value stands  *)
(* for both in a datagram; shared memory keeps them apart, and they are    *)
(* copied one after the other.  Readers are threads of executor's child,   *)
(* which ends, by SIGTERM when the mode changes or by itself, wherever its  *)
(* threads are; the next child has threads of the same names.              *)
(***************************************************************************)
EXTENDS Integers, FiniteSets

CONSTANTS
  Vals,         \* states of the gamepad
  Zero,         \* the state shared memory starts with
  Unplugged,    \* what a datagram says when there is no gamepad,
  Malformed,    \*   or one without 4 axes
  Readers,      \* threads of student code
  NoOne,
  UdpThread,    \* the update_inputs thread
  MaxDatagrams  \* datagrams in flight

ASSUME InputsConstants ==
  /\ Zero \in Vals /\ Unplugged # Malformed /\ {Unplugged, Malformed} \intersect Vals = {}
  /\ UdpThread \notin Readers /\ NoOne \notin Readers \union {UdpThread}
  /\ MaxDatagrams \in Nat \ {0}

VARIABLES
  pad,          \* Dawn's gamepad
  datagrams,    \* in flight
  gamepad,      \* robot_desc GAMEPAD: TRUE when CONNECTED
  dawn,         \* robot_desc DAWN
  tcp,          \* Dawn's TCP thread: where it stands
  udp, input,   \* update_inputs: where it stands and the input it works on
  input_sem,    \* who holds the semaphore of the input block
  rd_lost,      \* a child ended with the semaphore of robot_desc, which stays taken
  buttons, joysticks,   \* the input block
  reader,       \* each reader: where it stands
  got           \*   the buttons and joysticks it has copied

shm == <<gamepad, dawn, rd_lost, input_sem, buttons, joysticks>>
ivars == <<pad, datagrams, shm, tcp, udp, input, reader, got>>

Says == Vals \union {Unplugged, Malformed}

IInit ==
  /\ pad = Unplugged /\ datagrams = {}
  /\ gamepad = FALSE /\ dawn = FALSE /\ tcp = "none"
  /\ udp = "recvfrom" /\ input = Unplugged
  /\ input_sem = NoOne /\ rd_lost = FALSE
  /\ buttons = Zero /\ joysticks = Zero
  /\ reader = [r \in Readers |-> "idle"]
  /\ got = [r \in Readers |-> <<Zero, Zero>>]

-----------------------------------------------------------------------------
(* Dawn and the network: datagrams are lost, delayed and reordered.        *)

Press(v) ==
  /\ pad' = v
  /\ UNCHANGED <<datagrams, shm, tcp, udp, input, reader, got>>

Send ==
  /\ Cardinality(datagrams) < MaxDatagrams
  /\ datagrams' = datagrams \union {pad}
  /\ UNCHANGED <<pad, shm, tcp, udp, input, reader, got>>

Lose(d) ==
  /\ d \in datagrams
  /\ datagrams' = datagrams \ {d}
  /\ UNCHANGED <<pad, shm, tcp, udp, input, reader, got>>

-----------------------------------------------------------------------------
(* The TCP thread: start_tcp_conn announces Dawn, tcp_conn_cleanup reports *)
(* it gone and then its inputs.                                            *)

start_tcp_conn ==
  /\ tcp = "none" /\ ~rd_lost
  /\ tcp' = "running" /\ dawn' = TRUE
  /\ UNCHANGED <<pad, datagrams, gamepad, rd_lost, udp, input, input_sem, buttons, joysticks,
                 reader, got>>

CleanupDawn ==
  /\ tcp = "running" /\ ~rd_lost
  /\ tcp' = "leaving" /\ dawn' = FALSE
  /\ UNCHANGED <<pad, datagrams, gamepad, rd_lost, udp, input, input_sem, buttons, joysticks,
                 reader, got>>

CleanupInputs ==
  /\ tcp = "leaving" /\ ~rd_lost
  /\ tcp' = "none"
  /\ gamepad' = FALSE
  /\ UNCHANGED <<pad, datagrams, dawn, rd_lost, udp, input, input_sem, buttons, joysticks,
                 reader, got>>

-----------------------------------------------------------------------------
(* update_inputs.                                                          *)

Recvfrom(d) ==
  /\ udp = "recvfrom" /\ d \in datagrams
  /\ datagrams' = datagrams \ {d}
  /\ input' = d
  /\ udp' = "set"
  /\ UNCHANGED <<pad, shm, tcp, reader, got>>

\* robot_desc_write(source, ..) comes first; only a connected source is stored.
SetField ==
  /\ udp = "set" /\ ~rd_lost
  /\ gamepad' = (input # Unplugged)
  /\ udp' = IF input = Unplugged THEN "recvfrom" ELSE "check"
  /\ UNCHANGED <<pad, datagrams, dawn, rd_lost, tcp, input, input_sem, buttons, joysticks,
                 reader, got>>

\* "Cannot update gamepad state".
WrongAxes ==
  /\ udp = "check" /\ input = Malformed
  /\ udp' = "recvfrom"
  /\ input' = Unplugged
  /\ UNCHANGED <<pad, datagrams, shm, tcp, reader, got>>

\* Fault: an input is dropped when a reader is busy.
input_write_TryLock ==
  /\ udp = "check" /\ input # Malformed /\ ~rd_lost
  /\ udp' = IF gamepad /\ input_sem = NoOne THEN "wait" ELSE "recvfrom"
  /\ UNCHANGED <<pad, datagrams, shm, tcp, input, reader, got>>

\* input_write: checked under rd_sem, returns -1 when it is not connected.
input_write ==
  /\ udp = "check" /\ input # Malformed /\ ~rd_lost
  /\ udp' = IF gamepad THEN "wait" ELSE "recvfrom"
  /\ UNCHANGED <<pad, datagrams, shm, tcp, input, reader, got>>

WriteButtons ==
  /\ udp = "wait" /\ input_sem = NoOne
  /\ input_sem' = UdpThread
  /\ buttons' = input
  /\ udp' = "joysticks"
  /\ UNCHANGED <<pad, datagrams, gamepad, dawn, rd_lost, tcp, input, joysticks, reader, got>>

WriteJoysticks ==
  /\ udp = "joysticks"
  /\ joysticks' = input
  /\ input_sem' = NoOne
  /\ input' = Unplugged
  /\ udp' = "recvfrom"
  /\ UNCHANGED <<pad, datagrams, gamepad, dawn, rd_lost, tcp, buttons, reader, got>>

-----------------------------------------------------------------------------
(* input_read, called by Gamepad.get_value of student code.                *)

Read(r, from, to) ==
  /\ reader[r] = from
  /\ reader' = [reader EXCEPT ![r] = to]
  /\ UNCHANGED <<pad, datagrams, gamepad, dawn, rd_lost, tcp, udp, input, buttons, joysticks>>

\* The GAMEPAD field is checked under rd_sem.
input_read(r) ==
  /\ ~rd_lost
  /\ Read(r, "idle", IF gamepad THEN "wait" ELSE "idle")
  /\ UNCHANGED <<input_sem, got>>

\* Fault: the reader does not take the semaphore.
ReadButtons_NoSem(r) ==
  /\ Read(r, "wait", "joysticks")
  /\ got' = [got EXCEPT ![r] = <<buttons, Zero>>]
  /\ UNCHANGED input_sem

ReadButtons(r) ==
  /\ input_sem = NoOne
  /\ input_sem' = r
  /\ Read(r, "wait", "joysticks")
  /\ got' = [got EXCEPT ![r] = <<buttons, Zero>>]

ReadJoysticks(r) ==
  /\ Read(r, "joysticks", "got")
  /\ got' = [got EXCEPT ![r][2] = joysticks]
  /\ input_sem' = NoOne

Use(r) ==
  /\ Read(r, "got", "idle")
  /\ got' = [got EXCEPT ![r] = <<Zero, Zero>>]
  /\ UNCHANGED input_sem

\* The child ends.  A reader between sem_wait and sem_post of input_sem leaves it
\* taken; rd_sem may have been taken by a reader or by gamestate_handler.
EndReaders ==
  /\ rd_lost' \in {rd_lost, TRUE}
  /\ reader' = [r \in Readers |-> "idle"]
  /\ got' = [r \in Readers |-> <<Zero, Zero>>]
  /\ UNCHANGED <<pad, datagrams, gamepad, dawn, input_sem, buttons, joysticks, tcp, udp, input>>

UdpStep == SetField \/ WrongAxes \/ input_write \/ WriteButtons \/ WriteJoysticks
ReaderStep(r) == ReadButtons(r) \/ ReadJoysticks(r)

INext ==
  \/ \E v \in Says : Press(v)
  \/ Send \/ start_tcp_conn \/ CleanupDawn \/ CleanupInputs
  \/ \E d \in datagrams : Lose(d) \/ Recvfrom(d)
  \/ UdpStep
  \/ \E r \in Readers : input_read(r) \/ ReaderStep(r) \/ Use(r)
  \/ EndReaders

ISpec == IInit /\ [][INext]_ivars

\* Threads run, as long as their process does, and semaphores that are posted are
\* handed out; Dawn keeps sending, and of the datagrams it keeps sending some
\* arrive.
IFairness ==
  /\ WF_ivars(Send) /\ \A d \in Says : SF_ivars(Recvfrom(d))
  /\ WF_ivars(UdpStep) /\ SF_ivars(WriteButtons)
  /\ WF_ivars(CleanupInputs)
  /\ \A r \in Readers : WF_ivars(ReaderStep(r)) /\ SF_ivars(ReadButtons(r))

-----------------------------------------------------------------------------
(* Properties.                                                             *)

\* Student code gets the buttons and the joysticks of one datagram, never half
\* of one and half of the next.
WholeInput == \A r \in Readers : reader[r] = "got" => got[r][1] = got[r][2]

\* A child ended with a semaphore that update_inputs needs.
InputsAreBlocked ==
  rd_lost \/ \E r \in Readers : input_sem = r /\ reader[r] # "joysticks"

\* If the gamepad comes to rest and Dawn stays connected, what student code
\* reads comes to rest with it, whatever was lost or reordered before.  The
\* exception is a child that ended inside input_read: update_inputs then waits
\* for its semaphore, and no input reaches student code any more.
SettledInputIsSeen ==
  \A v \in Vals :
    <>[](pad = v /\ tcp = "running") =>
      <>[](InputsAreBlocked \/ (gamepad /\ buttons = v /\ joysticks = v))
=============================================================================
