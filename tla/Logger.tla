-------------------------------- MODULE Logger --------------------------------
(***************************************************************************)
(* logger.c: threads of several processes write log messages to one FIFO   *)
(* that net_handler reads while Dawn is connected.  log_mutex orders the   *)
(* threads of a process; SIGPIPE, raised by the FIFO or by any socket of   *)
(* the process, clears fifo_up; SIGINT runs a handler that logs, in the    *)
(* thread it interrupts.                                                   *)
(*                                                                         *)
(* The FIFO is a sequence of messages, each named by its thread, or JUNK:  *)
(* writen, whose failures are not seen (module Readn), goes on beyond the  *)
(* end of the message until its counter wraps around.  Output to stdout    *)
(* and to the log file cannot fail here and is part of taking the mutex.   *)
(***************************************************************************)
EXTENDS Integers, Sequences, FiniteSets

CONSTANTS
  Loggers,       \* processes that called logger_init
  Writers,       \* their threads
  Process(_),    \* the process of a thread
  PIPE_SIZE,     \* messages the FIFO holds
  MAX_NUM_LOGS,  \* messages net_handler reads at once
  MaxLogs,       \* bound on the messages of a thread
  MaxVisits,     \* bound on the connections of Dawn
  MaxBroken      \* bound on the SIGPIPEs sockets raise

ASSUME LoggerConstants ==
  /\ {PIPE_SIZE, MAX_NUM_LOGS} \subseteq Nat \ {0}
  /\ \A t \in Writers : Process(t) \in Loggers

None == "none"
JUNK == "junk"

VARIABLES
  fifo_up,        \* of each process
  fds,            \* of each process: open descriptors of the write end
  log_mutex,      \* of each process: the thread that has it, or None
  pc,             \* of each thread, in log_printf
  handler,        \* the threads that run a SIGINT handler
  fifo,           \* what is in the FIFO
  reading,        \* Dawn's connection has the read end open
  logged,         \* messages of each thread
  visits, broken, \* connections of Dawn, SIGPIPEs from sockets
  call,           \* history, of each thread: what came between the two tests of fifo_up
  kept            \* history: the threads whose last message went into the FIFO

ovars == <<fifo_up, fds, log_mutex, pc, handler, fifo, reading, logged,
           visits, broken, call, kept>>
obounds == <<logged, visits, broken>>

OInit ==
  /\ fifo_up = [p \in Loggers |-> FALSE] /\ fds = [p \in Loggers |-> 0]
  /\ log_mutex = [p \in Loggers |-> None]
  /\ pc = [t \in Writers |-> "idle"] /\ handler = {}
  /\ fifo = <<>> /\ reading = FALSE
  /\ logged = [t \in Writers |-> 0] /\ visits = 0 /\ broken = 0
  /\ call = [t \in Writers |-> {}] /\ kept = {}

\* The threads of the processes ps between the two tests of fifo_up get to know.
Noted(event, ps) ==
  [t \in Writers |-> IF pc[t] = "write" /\ Process(t) \in ps THEN call[t] \cup {event} ELSE call[t]]

-----------------------------------------------------------------------------
(* log_printf.                                                             *)

Goto(t, from, to) == pc[t] = from /\ pc' = [pc EXCEPT ![t] = to]

\* A message whose level reaches that of the network (others change nothing here).
log_printf(t) ==
  /\ t \notin handler /\ logged[t] < MaxLogs
  /\ logged' = [logged EXCEPT ![t] = @ + 1]
  /\ Goto(t, "idle", "lock")
  /\ UNCHANGED <<fifo_up, fds, log_mutex, handler, fifo, reading, visits, broken, call, kept>>

Lock(t) ==
  /\ Goto(t, "lock", "fifo")
  /\ log_mutex[Process(t)] = None
  /\ log_mutex' = [log_mutex EXCEPT ![Process(t)] = t]
  /\ UNCHANGED <<fifo_up, fds, handler, fifo, reading, obounds, call, kept>>

\* Fault: the FIFO is only opened by logger_init.
open_fifo_Once(t) ==
  /\ Goto(t, "fifo", "write")
  /\ call' = [call EXCEPT ![t] = IF reading THEN {} ELSE {"closed"}]
  /\ UNCHANGED <<fifo_up, fds, log_mutex, handler, fifo, reading, obounds, kept>>

\* if (!fifo_up) open_fifo(): fails without a reader; the descriptor of a FIFO
\* that broke is overwritten and stays open.
open_fifo(t) ==
  LET p == Process(t) opens == ~fifo_up[p] /\ reading
  IN  /\ Goto(t, "fifo", "write")
      /\ fifo_up' = [fifo_up EXCEPT ![p] = @ \/ opens]
      /\ fds' = [fds EXCEPT ![p] = IF opens THEN @ + 1 ELSE @]
      /\ call' = [call EXCEPT ![t] = IF reading THEN {} ELSE {"closed"}]
      /\ UNCHANGED <<log_mutex, handler, fifo, reading, obounds, kept>>

\* if (fifo_up) writen(...): it succeeds, or fails for want of a reader (and the
\* SIGPIPE handler runs) or of room.
Write(t) ==
  LET p == Process(t)
      room == reading /\ Len(fifo) < PIPE_SIZE
  IN  /\ Goto(t, "write", IF fifo_up[p] /\ ~room THEN "wrap" ELSE "unlock")
      /\ fifo' = IF fifo_up[p] /\ room THEN Append(fifo, t) ELSE fifo
      /\ kept' = IF fifo_up[p] /\ room THEN kept \cup {t} ELSE kept
      /\ fifo_up' = [fifo_up EXCEPT ![p] = @ /\ reading]
      /\ call' = IF fifo_up[p] /\ reading /\ ~room THEN [call EXCEPT ![t] = @ \cup {"full"}] ELSE call
      /\ UNCHANGED <<fds, log_mutex, handler, reading, obounds>>

\* The rest of a failed writen: every further attempt fails, up to the wrap of
\* n_remain, or one of them finds room for bytes that are not of the message.
Wrap(t) ==
  /\ Goto(t, "wrap", "unlock")
  /\ \/ fifo' = fifo
     \/ reading /\ Len(fifo) < PIPE_SIZE /\ fifo' = Append(fifo, JUNK)
  /\ UNCHANGED <<fifo_up, fds, log_mutex, handler, reading, obounds, call, kept>>

\* Fault: a call that failed to write returns with the mutex.
Unlock_NotAfterFailure(t) ==
  /\ Goto(t, "unlock", IF t \in handler THEN "exit" ELSE "idle")
  /\ log_mutex' = [log_mutex EXCEPT ![Process(t)] = IF "full" \in call[t] THEN @ ELSE None]
  /\ call' = [call EXCEPT ![t] = {}] /\ kept' = kept \ {t}
  /\ UNCHANGED <<fifo_up, fds, handler, fifo, reading, obounds>>

Unlock(t) ==
  /\ Goto(t, "unlock", IF t \in handler THEN "exit" ELSE "idle")
  /\ log_mutex' = [log_mutex EXCEPT ![Process(t)] = None]
  /\ call' = [call EXCEPT ![t] = {}] /\ kept' = kept \ {t}
  /\ UNCHANGED <<fifo_up, fds, handler, fifo, reading, obounds>>

-----------------------------------------------------------------------------
(* Signals.                                                                *)

Alive(p) == \A t \in Writers : Process(t) = p => pc[t] # "gone"

\* SIGINT: stop() of dev_handler, sigint_handler of net_handler and
\* exit_handler of executor begin with a log message.
Interrupt(t) ==
  /\ Alive(Process(t)) /\ \A u \in handler : Process(u) # Process(t)
  /\ handler' = handler \cup {t}
  /\ pc' = [pc EXCEPT ![t] = "lock"]
  /\ kept' = kept \ {t}
  /\ UNCHANGED <<fifo_up, fds, log_mutex, fifo, reading, obounds, call>>

\* exit(): logger_exit closes the current descriptor and the end of the process
\* the others.
logger_exit(t) ==
  LET p == Process(t)
  IN  /\ pc[t] = "exit"
      /\ pc' = [u \in Writers |-> IF Process(u) = p THEN "gone" ELSE pc[u]]
      /\ fds' = [fds EXCEPT ![p] = 0] /\ fifo_up' = [fifo_up EXCEPT ![p] = FALSE]
      /\ fifo' = IF ~reading /\ \A q \in Loggers \ {p} : fds[q] = 0 THEN <<>> ELSE fifo
      /\ UNCHANGED <<log_mutex, handler, reading, obounds, call, kept>>

\* SIGPIPE raised by a socket of the process, in whatever thread.
sigpipe_handler(p) ==
  /\ Alive(p) /\ broken < MaxBroken
  /\ broken' = broken + 1
  /\ fifo_up' = [fifo_up EXCEPT ![p] = FALSE]
  /\ call' = Noted("broken", {p})
  /\ UNCHANGED <<fds, log_mutex, pc, handler, fifo, reading, logged, visits, kept>>

-----------------------------------------------------------------------------
(* net_handler: Dawn's connection reads the FIFO.                          *)

\* start_tcp_conn opens the read end.
start_tcp_conn ==
  /\ ~reading /\ visits < MaxVisits
  /\ reading' = TRUE /\ visits' = visits + 1
  /\ UNCHANGED <<fifo_up, fds, log_mutex, pc, handler, fifo, logged, broken, call, kept>>

\* tcp_conn_cleanup closes it; what is in a FIFO that nobody has open is gone.
tcp_conn_cleanup ==
  /\ reading /\ reading' = FALSE
  /\ fifo' = IF \A p \in Loggers : fds[p] = 0 THEN <<>> ELSE fifo
  /\ call' = Noted("closed", Loggers)
  /\ UNCHANGED <<fifo_up, fds, log_mutex, pc, handler, obounds, kept>>

send_log_msg ==
  /\ reading /\ fifo # <<>>
  /\ fifo' = SubSeq(fifo, MAX_NUM_LOGS + 1, Len(fifo))
  /\ UNCHANGED <<fifo_up, fds, log_mutex, pc, handler, reading, obounds, call, kept>>

-----------------------------------------------------------------------------

LogStep(t) == Lock(t) \/ open_fifo(t) \/ Write(t) \/ Wrap(t) \/ Unlock(t) \/ logger_exit(t)

ONext ==
  \/ \E t \in Writers : log_printf(t) \/ LogStep(t) \/ Interrupt(t)
  \/ \E p \in Loggers : sigpipe_handler(p)
  \/ start_tcp_conn \/ tcp_conn_cleanup \/ send_log_msg

OSpec == OInit /\ [][ONext]_ovars

\* A thread that is not blocked goes on, and a mutex that is free again and
\* again is given to each that waits for it.
OFairness == \A t \in Writers : WF_ovars(LogStep(t)) /\ SF_ovars(Lock(t))

-----------------------------------------------------------------------------

\* A message that may go to the network, that of a SIGINT handler included, is in
\* the FIFO when log_printf unlocks the mutex.  The exceptions are a read end that
\* was closed at the first test of fifo_up or between it and the write, a FIFO
\* that was full at the write, and a SIGPIPE from a socket of the process between
\* the two tests of fifo_up.
LogsAreKept ==
  \A t \in Writers : pc[t] = "unlock" /\ t \notin kept => call[t] # {}

\* Every call of log_printf returns, whatever the reader does, unless a SIGINT
\* handler waits for log_mutex in the very thread that holds it; then every
\* thread of that process that logs waits for ever.
LogCallsEnd ==
  \A t \in Writers :
    (pc[t] = "lock") ~>
      \/ pc[t] # "lock"
      \/ \E u \in handler : pc[u] = "lock" /\ log_mutex[Process(t)] = u
=============================================================================
