------------------------------ MODULE Converter ------------------------------
(***************************************************************************)
(* udp_tcp_converter.c, through which a Dawn that can only reach the robot *)
(* by TCP exchanges inputs and device data with the UDP socket of          *)
(* net_handler (udp_conn.c), and parse_msg (net_util.c).                   *)
(*                                                                         *)
(* net_handler sends device data to the address it last got a datagram     *)
(* from.  The converter makes itself known with one datagram when it       *)
(* starts; systemd starts it once net_handler has been started, which need *)
(* not have opened its socket by then.  A message of Dawn is three pieces, *)
(* read one after the other.  A datagram of device data fits into the      *)
(* converter's buffer, which has room for BUF_SIZE - BUFFER_OFFSET - 1     *)
(* bytes of it, or does not.                                               *)
(***************************************************************************)
EXTENDS Integers, Sequences

CONSTANTS
  MaxSessions,  \* bound on Dawn's connections
  MaxOut,       \* datagrams the converter's socket holds
  MaxIn         \* pieces and datagrams on their way from Dawn

VARIABLES
  bound,        \* net_handler has opened its socket
  known,        \* dawn_addr is the converter's
  inbox,        \* datagrams at net_handler's socket: "whole" or "cut" inputs
  fits,         \* device data of the devices now connected fit into its buffer
  outbox,       \* device data at the converter's socket: whether each fits
  conv,         \* the converter: "start", "accept", "select", in parse_msg or "writen"
  session,      \* the connection the converter serves: "none", "open", "closed" by Dawn
  next,         \* Dawn's next connection: "none", it "waits" to be accepted, or has "left"
  pieces,       \* what Dawn has sent on this connection
  sending,      \* the piece it sends next
  sessions,     \* its connections so far
  arrived       \* history: device data reached Dawn since the last were sent

cvars == <<bound, known, inbox, fits, outbox, conv, session, next, pieces, sending, sessions, arrived>>

Pieces == <<"type", "len", "payload">>

CInit ==
  /\ bound = FALSE /\ known = FALSE
  /\ inbox = <<>> /\ fits = TRUE /\ outbox = <<>>
  /\ conv = "start"
  /\ session = "none" /\ next = "none" /\ pieces = <<>> /\ sending = 1 /\ sessions = 0
  /\ arrived = FALSE

-----------------------------------------------------------------------------
(* net_handler.                                                            *)

start_udp_conn ==
  /\ ~bound /\ bound' = TRUE
  /\ UNCHANGED <<known, fits, inbox, outbox, conv, session, next, pieces, sending, sessions, arrived>>

\* recvfrom in update_inputs stores the address, whatever the datagram holds.
update_inputs ==
  /\ inbox # <<>> /\ inbox' = Tail(inbox)
  /\ known' = TRUE
  /\ UNCHANGED <<bound, fits, outbox, conv, session, next, pieces, sending, sessions, arrived>>

\* dev_handler finds other devices, or they are subscribed to differently.
Devices(f) ==
  /\ fits' = f
  /\ UNCHANGED <<bound, known, inbox, outbox, conv, session, next, pieces, sending, sessions, arrived>>

\* Dawn's own TCP connection to net_handler is up: it is not modelled here.
send_device_data ==
  /\ known /\ arrived' = FALSE
  /\ outbox' = IF Len(outbox) < MaxOut THEN Append(outbox, fits) ELSE outbox
  /\ UNCHANGED <<bound, known, inbox, fits, conv, session, next, pieces, sending, sessions>>

-----------------------------------------------------------------------------
(* The converter.                                                          *)

\* sendto: nothing tells the sender that nobody has the port open.
Datagram(kind) == inbox' = IF bound /\ Len(inbox) < MaxIn THEN Append(inbox, kind) ELSE inbox

send_gamepad_disconnected ==
  /\ conv = "start" /\ conv' = "accept"
  /\ Datagram("whole")
  /\ UNCHANGED <<bound, fits, known, outbox, session, next, pieces, sending, sessions, arrived>>

Accept ==
  /\ conv = "accept" /\ conv' = "select"
  /\ next # "none" /\ next' = "none"
  /\ session' = IF next = "waits" THEN "open" ELSE "closed"
  /\ sending' = 1
  /\ UNCHANGED <<bound, fits, known, inbox, outbox, pieces, sessions, arrived>>

\* What waited for the last connection goes to this one.  A datagram as large as
\* the buffer is given up; an error of recvfrom changes nothing.
udp_to_tcp ==
  /\ conv = "select" /\ outbox # <<>>
  /\ outbox' = Tail(outbox)
  /\ conv' = IF Head(outbox) THEN "writen" ELSE "select"
  /\ UNCHANGED <<bound, known, inbox, fits, session, next, pieces, sending, sessions, arrived>>

\* writen waits for room while Dawn does not read, and fails unseen when Dawn
\* has closed.
Written(open) ==
  /\ conv = "writen" /\ conv' = "select"
  /\ open = (session = "open")
  /\ arrived' = (arrived \/ open)
  /\ UNCHANGED <<bound, known, inbox, fits, outbox, session, next, pieces, sending, sessions>>

\* tcp_to_udp is called when there is something to read, and parse_msg waits
\* for the rest.
Waits(k) == conv = IF k = 1 THEN "select" ELSE Pieces[k]

Piece(k) ==
  /\ Waits(k) /\ pieces # <<>>
  /\ pieces' = Tail(pieces)
  /\ IF k = 3 THEN conv' = "select" /\ Datagram("whole")
              ELSE conv' = Pieces[k + 1] /\ UNCHANGED inbox
  /\ UNCHANGED <<bound, fits, known, outbox, session, next, sending, sessions, arrived>>

\* Fault: the connection is only given up when it ends between two messages.
Eof_Between(k) ==
  /\ Waits(k) /\ k = 1 /\ pieces = <<>> /\ session = "closed"
  /\ conv' = "accept" /\ session' = "none" /\ UNCHANGED inbox
  /\ UNCHANGED <<bound, fits, known, outbox, next, pieces, sending, sessions, arrived>>

\* readn returns 0: the end of the connection, or, where the payload should be,
\* a message whose payload was not read.
Eof(k) ==
  /\ Waits(k) /\ pieces = <<>> /\ session = "closed"
  /\ IF k = 3 THEN conv' = "select" /\ Datagram("cut") /\ UNCHANGED session
              ELSE conv' = "accept" /\ session' = "none" /\ UNCHANGED inbox
  /\ UNCHANGED <<bound, fits, known, outbox, next, pieces, sending, sessions, arrived>>

-----------------------------------------------------------------------------
(* Dawn.                                                                   *)

Connect ==
  /\ session # "open" /\ next = "none" /\ sessions < MaxSessions
  /\ next' = "waits" /\ sessions' = sessions + 1
  /\ UNCHANGED <<bound, fits, known, inbox, outbox, conv, session, pieces, sending, arrived>>

SendPiece ==
  /\ session = "open" /\ Len(pieces) < MaxIn
  /\ pieces' = Append(pieces, Pieces[sending])
  /\ sending' = (sending % 3) + 1
  /\ UNCHANGED <<bound, fits, known, inbox, outbox, conv, session, next, sessions, arrived>>

\* Dawn ends its connection, in the middle of a message or not.
Close ==
  /\ \/ session = "open" /\ session' = "closed" /\ UNCHANGED next
     \/ next = "waits" /\ next' = "left" /\ UNCHANGED session
  /\ UNCHANGED <<bound, fits, known, inbox, outbox, conv, pieces, sending, sessions, arrived>>

tcp_to_udp == \E k \in 1 .. 3 : Piece(k) \/ Eof(k)
ConvStep == send_gamepad_disconnected \/ Accept \/ Written(FALSE)

CNext ==
  \/ start_udp_conn \/ update_inputs \/ send_device_data
  \/ \E f \in BOOLEAN : Devices(f)
  \/ ConvStep \/ udp_to_tcp \/ Written(TRUE) \/ tcp_to_udp
  \/ Connect \/ SendPiece \/ Close

CSpec == CInit /\ [][CNext]_cvars

\* Both processes run; the loop of forward serves both sockets in turn, and
\* recvfrom does not fail for ever.  Dawn promises nothing.
CFairness ==
  /\ WF_cvars(start_udp_conn) /\ WF_cvars(update_inputs) /\ WF_cvars(send_device_data)
  /\ WF_cvars(ConvStep) /\ SF_cvars(udp_to_tcp) /\ SF_cvars(tcp_to_udp)

-----------------------------------------------------------------------------

\* If device data come to fit into the converter's buffer, net_handler knows the
\* converter and Dawn comes to stay connected, or waits to be accepted, then
\* device data reach Dawn again and again, however its earlier connections ended
\* and whatever waited in the socket.  The exception is a Dawn that makes the
\* converter wait for ever: it stops in the middle of a message, or stops reading.
\* (Datagrams that do not fit are all given up, without end: a robot with enough
\* devices shows nothing to a Dawn behind the converter.)
DataReachDawn ==
  <>[](fits /\ known /\ (session = "open" \/ next = "waits")) =>
    []<>arrived \/ <>[](session = "open" /\ conv \in {"len", "payload", "writen"})

\* What arrives at net_handler as an input is a whole message of Dawn.
\* net_util.h says of parse_msg "-1: Error/EOF encountered when reading from fd".
EofIsAnError == "cut" \notin {inbox[i] : i \in DOMAIN inbox}
=============================================================================
