------------------------------- MODULE RunMode -------------------------------
(***************************************************************************)
(* Who decides what the robot runs: the TCP connections of net_handler     *)
(* (net_handler.c, tcp_conn.c), the RUN_MODE field they share with executor *)
(* through shared memory, executor's main loop and the child process it    *)
(* forks for each mode (executor.c).                                       *)
(*                                                                         *)
(* A call that takes a semaphore, works and posts it is one step (module    *)
(* ShmWrapper treats the calls), except that a child that ends inside one   *)
(* leaves the semaphore taken for good.  What student code computes is      *)
(* abstracted to: its threads may write to a device and read robot_desc,    *)
(* may end, may never end.  The devices stay connected.  A local variable   *)
(* that the code will assign before it reads it again is put back to its    *)
(* initial value.                                                           *)
(***************************************************************************)
EXTENDS Integers, Sequences

CONSTANTS
  MaxKids,        \* children that may exist at a time
  MaxInputs,      \* datagrams the challenge socket of executor can queue
  Asks,           \* who asks for which mode in this workload: <<client, mode>> pairs
  Written,        \* kinds of devices the student code of this workload writes to
  Logs            \* whether the processes of this workload log anything

Clients == {"DAWN", "SHEPHERD"}
Modes == {"IDLE", "AUTO", "TELEOP", "CHALLENGE"}

\* "KoalaBear" stands for all KoalaBears, "PolarBear" for all PolarBears and servos.
Movers == {"KoalaBear", "PolarBear"}

Kids == 1 .. MaxKids   \* a child is named by the first free number
NoKid == 0

ASSUME RunModeConstants ==
  /\ MaxKids \in Nat \ {0}
  /\ MaxInputs \in Nat \ {0}
  /\ Asks \subseteq Clients \X Modes
  /\ Written \subseteq Movers /\ Logs \in BOOLEAN

VARIABLES
  run_mode,     \* robot_desc RUN_MODE
  desc,         \* robot_desc DAWN and SHEPHERD: TRUE when CONNECTED
  main,         \* net_handler's accept loop: where it stands
  client,       \*   and the client it is serving
  thread,       \* the TCP thread of each client: where it stands
  cancelled,    \*   whether it has been asked to stop
  want,         \*   the mode it is about to write
  results,      \* challenge results queued for each client's thread
  chq,          \* challenge inputs queued for executor: who sent each
  exec,         \* executor's main loop: where it stands
  mode,         \*   its global mode
  new_mode,     \*   the mode it last read
  pid,          \*   its child
  kid,          \* the children: where each stands
  kid_mode,     \*   the mode it was forked for
  kid_client,   \*   whose challenge it is answering
  sigterm,      \*   whether SIGTERM is pending
  lost,         \* semaphores a child took and did not post before it ended: of
                \*   command_sem of the devices, "cmd_map" and "rd"
  moving        \* the devices whose last command was not zero

net == <<main, client, thread, cancelled, want>>
executor == <<exec, mode, new_mode, pid>>
kids == <<kid, kid_mode, kid_client>>
rvars == <<run_mode, desc, net, results, chq, executor, kids, sigterm, lost, moving>>

Gone == "gone"   \* the socket a challenge came from has been closed

RInit ==
  /\ run_mode = "IDLE"
  /\ desc = [c \in Clients |-> FALSE]
  /\ main = "accept"
  /\ client = "DAWN"
  /\ thread = [c \in Clients |-> "none"]
  /\ cancelled = [c \in Clients |-> FALSE]
  /\ want = [c \in Clients |-> "IDLE"]
  /\ results = {}
  /\ chq = <<>>
  /\ exec = "poll"
  /\ mode = "IDLE"
  /\ new_mode = "IDLE"
  /\ pid = NoKid
  /\ kid = [k \in Kids |-> "none"]
  /\ kid_mode = [k \in Kids |-> "IDLE"]
  /\ kid_client = [k \in Kids |-> Gone]
  /\ sigterm = {}
  /\ lost = {}
  /\ moving = {}

\* my_sem_wait returns: no child has kept the semaphore.
Posted(s) == s \notin lost

-----------------------------------------------------------------------------
(* net_handler: main loop, start_tcp_conn, stop_tcp_conn.                  *)

\* A client connects and names itself; if robot_desc says it is connected
\* already, its old thread is cancelled and joined first.
Accept(c) ==
  /\ main = "accept" /\ Posted("rd")
  /\ client' = c
  /\ main' = IF desc[c] THEN "join" ELSE "start"
  /\ cancelled' = [cancelled EXCEPT ![c] = desc[c]]
  /\ UNCHANGED <<run_mode, desc, thread, want, results, chq,
                 executor, kids, sigterm, lost, moving>>

stop_tcp_conn ==
  /\ main = "join"
  /\ thread[client] = "none"
  /\ main' = "start"
  /\ cancelled' = [cancelled EXCEPT ![client] = FALSE]
  /\ UNCHANGED <<run_mode, desc, client, thread, want,
                 results, chq, executor, kids, sigterm, lost, moving>>

\* pthread_create.
start_tcp_conn ==
  /\ main = "start"
  /\ thread' = [thread EXCEPT ![client] = "select"]
  /\ main' = "announce"
  /\ UNCHANGED <<run_mode, desc, client, cancelled, want, results, chq,
                 executor, kids, sigterm, lost, moving>>

\* A socket or thread that cannot be created ends start_tcp_conn early.
StartFails ==
  /\ main = "start"
  /\ main' = "accept"
  /\ client' = "DAWN"
  /\ UNCHANGED <<run_mode, desc, thread, cancelled, want,
                 results, chq, executor, kids, sigterm, lost, moving>>

\* The last line of start_tcp_conn, which the new thread does not wait for.
Announce ==
  /\ main = "announce" /\ Posted("rd")
  /\ desc' = [desc EXCEPT ![client] = TRUE]
  /\ main' = "accept"
  /\ client' = "DAWN"
  /\ UNCHANGED <<run_mode, thread, cancelled, want, results, chq,
                 executor, kids, sigterm, lost, moving>>

-----------------------------------------------------------------------------
(* tcp_process of client c.                                                *)

ThreadOnly == UNCHANGED <<main, client, executor, kids, sigterm, lost, moving>>

\* The thread is at select(), the only place where it can be cancelled.
Serving(c) == thread[c] = "select" /\ ~cancelled[c]

\* select() finds something to read.  parse_msg reads the message piece by
\* piece, and readn blocks until the client has sent the rest or closed the
\* connection; cancellation is disabled meanwhile.
parse_msg(c) ==
  /\ Serving(c)
  /\ thread' = [thread EXCEPT ![c] = "recv"]
  /\ ThreadOnly
  /\ UNCHANGED <<run_mode, desc, cancelled, want, results, chq>>

\* recv_new_msg, RUN_MODE_MSG up to the write: Dawn may not start AUTO or
\* TELEOP when robot_desc shows Shepherd connected.  ESTOP is IDLE.  (A payload
\* cut short by the end of the connection is taken for a message as well, see
\* module Converter: it may hold any mode.)
RecvRunMode(c, m) ==
  /\ thread[c] = "recv" /\ Posted("rd")
  /\ m # "CHALLENGE" /\ <<c, m>> \in Asks
  /\ ~(c = "DAWN" /\ desc["SHEPHERD"] /\ m \in {"AUTO", "TELEOP"})
  /\ thread' = [thread EXCEPT ![c] = "write"]
  /\ want' = [want EXCEPT ![c] = m]
  /\ ThreadOnly
  /\ UNCHANGED <<run_mode, desc, cancelled, results, chq>>

\* Every other message leaves RUN_MODE alone: one that is refused, cannot be
\* unpacked or has nothing to do with it.  A TIME_STAMP_MSG is answered.
RecvOther(c, answered) ==
  /\ thread[c] = "recv"
  /\ thread' = [thread EXCEPT ![c] = IF answered THEN "sending" ELSE "select"]
  /\ ThreadOnly
  /\ UNCHANGED <<run_mode, desc, cancelled, want, results, chq>>

\* recv_new_msg, CHALLENGE_DATA_MSG: the inputs are sent to executor first, and
\* sendto waits for room in its socket; then RUN_MODE is written.
RecvChallenge(c) ==
  /\ thread[c] = "recv"
  /\ <<c, "CHALLENGE">> \in Asks
  /\ thread' = [thread EXCEPT ![c] = "sendto"]
  /\ want' = [want EXCEPT ![c] = "CHALLENGE"]
  /\ ThreadOnly
  /\ UNCHANGED <<run_mode, desc, cancelled, results, chq>>

SendInputs(c) ==
  /\ thread[c] = "sendto"
  /\ Len(chq) < MaxInputs
  /\ chq' = Append(chq, c)
  /\ thread' = [thread EXCEPT ![c] = "write"]
  /\ ThreadOnly
  /\ UNCHANGED <<run_mode, desc, cancelled, want, results>>

\* sendto fails: recv_new_msg returns -2 and RUN_MODE stays as it is.
SendFails(c) ==
  /\ thread[c] = "sendto"
  /\ thread' = [thread EXCEPT ![c] = "select"]
  /\ want' = [want EXCEPT ![c] = "IDLE"]
  /\ ThreadOnly
  /\ UNCHANGED <<run_mode, desc, cancelled, results, chq>>

WriteRunMode(c) ==
  /\ thread[c] = "write" /\ Posted("rd")
  /\ run_mode' = want[c]
  /\ thread' = [thread EXCEPT ![c] = "select"]
  /\ want' = [want EXCEPT ![c] = "IDLE"]
  /\ ThreadOnly
  /\ UNCHANGED <<desc, cancelled, results, chq>>

\* writen on the connection blocks while the client does not read and the
\* socket buffer is full; cancellation is disabled meanwhile.
Sending(c) ==
  /\ thread' = [thread EXCEPT ![c] = "sending"]
  /\ ThreadOnly
  /\ UNCHANGED <<run_mode, desc, cancelled, want, chq>>

send_log_msg(c) ==
  /\ Serving(c)
  /\ Logs /\ c = "DAWN"
  /\ Sending(c)
  /\ UNCHANGED results

send_challenge_results(c) ==
  /\ Serving(c)
  /\ c \in results
  /\ results' = results \ {c}
  /\ Sending(c)

Sent(c) ==
  /\ thread[c] = "sending"
  /\ thread' = [thread EXCEPT ![c] = "select"]
  /\ ThreadOnly
  /\ UNCHANGED <<run_mode, desc, cancelled, want, results, chq>>

Leave(c, from) ==
  /\ thread[c] = from
  /\ thread' = [thread EXCEPT ![c] = "cleanup"]
  /\ ThreadOnly
  /\ UNCHANGED <<run_mode, desc, cancelled, want, results, chq>>

\* The client closed the connection, between two messages or inside one.
Hangup(c) == \E from \in {"select", "recv"} : Leave(c, from)

\* Fault: cancellation is left disabled until there is something to send.
Cancelled_WhenSending(c) == cancelled[c] /\ c \in results /\ Leave(c, "select")

\* select() meets the cancellation.
Cancelled(c) == cancelled[c] /\ Leave(c, "select")

\* Fault: the clean-up leaves RUN_MODE alone.
CleanupMode_KeepMode(c) ==
  /\ thread[c] = "cleanup" /\ Posted("rd")
  /\ thread' = [thread EXCEPT ![c] = "close"]
  /\ ThreadOnly
  /\ UNCHANGED <<run_mode, desc, cancelled, want, results, chq>>

\* tcp_conn_cleanup, first write; then its sockets are closed.
CleanupMode(c) ==
  /\ thread[c] = "cleanup" /\ Posted("rd")
  /\ run_mode' = "IDLE"
  /\ thread' = [thread EXCEPT ![c] = "close"]
  /\ ThreadOnly
  /\ UNCHANGED <<desc, cancelled, want, results, chq>>

CleanupSockets(c) ==
  /\ thread[c] = "close"
  /\ chq' = [i \in DOMAIN chq |-> IF chq[i] = c THEN Gone ELSE chq[i]]
  /\ kid_client' = [k \in Kids |-> IF kid_client[k] = c THEN Gone ELSE kid_client[k]]
  /\ results' = results \ {c}
  /\ thread' = [thread EXCEPT ![c] = "goodbye"]
  /\ UNCHANGED <<run_mode, desc, main, client, cancelled, want,
                 executor, kid, kid_mode, sigterm, lost, moving>>

\* The client is reported DISCONNECTED; all the thread does after that is to
\* report Dawn's inputs DISCONNECTED (module Inputs).
CleanupDesc(c) ==
  /\ thread[c] = "goodbye" /\ Posted("rd")
  /\ desc' = [desc EXCEPT ![c] = FALSE]
  /\ thread' = [thread EXCEPT ![c] = "none"]
  /\ ThreadOnly
  /\ UNCHANGED <<run_mode, cancelled, want, results, chq>>

TcpStep(c) ==
  \/ SendInputs(c) \/ WriteRunMode(c) \/ send_challenge_results(c) \/ Cancelled(c)
  \/ CleanupMode(c) \/ CleanupSockets(c) \/ CleanupDesc(c)

-----------------------------------------------------------------------------
(* executor: the main loop.                                                *)

ExecutorOnly == UNCHANGED <<run_mode, desc, net, results, chq, lost>>

\* Fault: IDLE is taken to need no action.
Poll_IgnoreIdle ==
  /\ exec = "poll" /\ Posted("rd")
  /\ run_mode # mode /\ run_mode # "IDLE"
  /\ new_mode' = run_mode
  /\ exec' = IF mode # "IDLE" THEN "kill" ELSE "start"
  /\ ExecutorOnly
  /\ UNCHANGED <<mode, pid, kids, sigterm, moving>>

\* robot_desc_read(RUN_MODE), and act only on a difference.
Poll ==
  /\ exec = "poll" /\ Posted("rd")
  /\ run_mode # mode
  /\ new_mode' = run_mode
  /\ exec' = IF mode # "IDLE" THEN "kill" ELSE "start"
  /\ ExecutorOnly
  /\ UNCHANGED <<mode, pid, kids, sigterm, moving>>

\* kill_subprocess: SIGTERM, then waitpid, then reset_params unless the mode
\* was CHALLENGE.
Kill ==
  /\ exec = "kill"
  /\ sigterm' = sigterm \union {pid}
  /\ exec' = "wait"
  /\ ExecutorOnly
  /\ UNCHANGED <<mode, new_mode, pid, kids, moving>>

AfterKill == IF new_mode = "IDLE" THEN "poll" ELSE "start"

\* Fault: the parameters are reset after a challenge only.
Wait_ResetChallenge ==
  /\ exec = "wait"
  /\ kid[pid] = "dead"
  /\ kid' = [kid EXCEPT ![pid] = "none"]
  /\ sigterm' = sigterm \ {pid}
  /\ exec' = IF mode # "CHALLENGE" THEN AfterKill ELSE "reset"
  /\ mode' = IF mode # "CHALLENGE" THEN "IDLE" ELSE mode
  /\ kid_mode' = [kid_mode EXCEPT ![pid] = "IDLE"]
  /\ pid' = NoKid
  /\ ExecutorOnly
  /\ UNCHANGED <<new_mode, kid_client, moving>>

Wait ==
  /\ exec = "wait"
  /\ kid[pid] = "dead"
  /\ kid' = [kid EXCEPT ![pid] = "none"]
  /\ sigterm' = sigterm \ {pid}
  /\ exec' = IF mode = "CHALLENGE" THEN AfterKill ELSE "reset"
  /\ mode' = IF mode = "CHALLENGE" THEN "IDLE" ELSE mode
  /\ kid_mode' = [kid_mode EXCEPT ![pid] = "IDLE"]
  /\ pid' = NoKid
  /\ ExecutorOnly
  /\ UNCHANGED <<new_mode, kid_client, moving>>

\* reset_params writes zero to velocity_a and velocity_b of the KoalaBears, with
\* device_write_uid; the other devices keep their last command.
reset_params ==
  /\ exec = "reset"
  /\ Posted("KoalaBear") /\ Posted("cmd_map")
  /\ moving' = moving \ {"KoalaBear"}
  /\ mode' = "IDLE"
  /\ exec' = AfterKill
  /\ ExecutorOnly
  /\ UNCHANGED <<new_mode, pid, kids, sigterm>>

\* start_mode_subprocess: fork the child, or fail to.
Fork(k) ==
  /\ exec = "start"
  /\ kid[k] = "none" /\ \A j \in 1 .. k - 1 : kid[j] # "none"
  /\ kid' = [kid EXCEPT ![k] = "init"]
  /\ kid_mode' = [kid_mode EXCEPT ![k] = new_mode]
  /\ pid' = k
  /\ mode' = new_mode
  /\ new_mode' = "IDLE"
  /\ exec' = "poll"
  /\ ExecutorOnly
  /\ UNCHANGED <<kid_client, sigterm, moving>>

ForkFails ==
  /\ exec = "start"
  /\ pid' = NoKid
  /\ mode' = "IDLE"
  /\ new_mode' = "IDLE"
  /\ exec' = "poll"
  /\ ExecutorOnly
  /\ UNCHANGED <<kids, sigterm, moving>>

ExecStep == Poll \/ Kill \/ Wait \/ reset_params \/ \E k \in Kids : Fork(k)

-----------------------------------------------------------------------------
(* The child.                                                              *)

Goto(k, from, to) ==
  /\ kid[k] = from
  /\ kid' = [kid EXCEPT ![k] = to]
  /\ UNCHANGED <<desc, net, executor, kid_mode>>

\* executor_init; a failing import or setup exits.
InitChild(k, ok) ==
  /\ Goto(k, "init", IF ~ok THEN "dead" ELSE IF kid_mode[k] = "CHALLENGE" THEN "recv" ELSE "run")
  /\ UNCHANGED <<run_mode, results, chq, kid_client, sigterm, lost, moving>>

\* run_mode: student code writes to a device (device_write_uid, under
\* command_sem and cmd_map_sem).
StudentWrite(k, d, zero) ==
  /\ d \in Written
  /\ Posted(d) /\ Posted("cmd_map")
  /\ Goto(k, "run", "run")
  /\ moving' = IF zero THEN moving \ {d} ELSE moving \union {d}
  /\ UNCHANGED <<run_mode, results, chq, kid_client, sigterm, lost>>

\* run_challenges: return at once when the student file has no CHALLENGES list;
\* receive the inputs; return at once when they cannot be used.
NoChallenges(k) ==
  /\ Goto(k, "recv", "return")
  /\ UNCHANGED <<run_mode, results, chq, kid_client, sigterm, lost, moving>>

RecvInputs(k, ok) ==
  /\ chq # <<>>
  /\ Goto(k, "recv", IF ok THEN "solve" ELSE "return")
  /\ kid_client' = [kid_client EXCEPT ![k] = Head(chq)]
  /\ chq' = Tail(chq)
  /\ UNCHANGED <<run_mode, results, sigterm, lost, moving>>

Solve(k) ==
  /\ Goto(k, "solve", "send")
  /\ UNCHANGED <<run_mode, results, chq, kid_client, sigterm, lost, moving>>

\* sendto the address the inputs came from; alarm(0) comes after it.
SendResults(k) ==
  /\ Goto(k, "send", "disarm")
  /\ results' = IF kid_client[k] = Gone THEN results ELSE results \union {kid_client[k]}
  /\ kid_client' = [kid_client EXCEPT ![k] = Gone]
  /\ UNCHANGED <<run_mode, chq, sigterm, lost, moving>>

Disarm(k) ==
  /\ Goto(k, "disarm", "finish")
  /\ UNCHANGED <<run_mode, results, chq, kid_client, sigterm, lost, moving>>

\* Back in start_mode_subprocess: robot_desc_write(RUN_MODE, IDLE), exit.
WriteIdle(k) ==
  /\ kid[k] \in {"return", "finish"} /\ Posted("rd")
  /\ Goto(k, kid[k], "dead")
  /\ run_mode' = "IDLE"
  /\ kid_client' = [kid_client EXCEPT ![k] = Gone]
  /\ UNCHANGED <<results, chq, sigterm, lost, moving>>

\* What a child may have taken: student code writes to devices and reads
\* robot_desc, the constructors of its API read robot_desc and the end of a
\* challenge writes it.  Threads of student code make these calls with Python's
\* global lock, one at a time; gamestate_handler polls robot_desc without it.
MayHold(k) ==
  LET fields == IF kid[k] \in {"init", "run", "return", "finish"} THEN {{}, {"rd"}} ELSE {{}}
      commands == UNION {{{d}, {d, "cmd_map"}} : d \in IF kid[k] = "run" THEN Written ELSE {}}
  IN  {f \union c : f \in fields, c \in {{}} \union commands}

\* The child exits wherever its threads are, and what they had taken stays taken.
\* If that is rd_sem in the last robot_desc_write, RUN_MODE may be written.
Die(k, taken) ==
  /\ \A s \in taken : Posted(s)
  /\ lost' = lost \union taken
  /\ run_mode' \in {run_mode} \union
       (IF "rd" \in taken /\ kid[k] \in {"return", "finish"} THEN {"IDLE"} ELSE {})
  /\ kid' = [kid EXCEPT ![k] = "dead"]
  /\ kid_client' = [kid_client EXCEPT ![k] = Gone]
  /\ UNCHANGED <<desc, net, results, chq, executor, kid_mode, sigterm, moving>>

\* The main thread of student code returns, or fails.
StudentEnds(k) == kid[k] = "run" /\ \E taken \in MayHold(k) : Die(k, taken)

\* SIGALRM, armed when run_challenges starts and disarmed when it has sent the
\* results: python_exit_handler.
Alarm(k) ==
  /\ kid[k] \in {"recv", "solve", "send", "disarm", "return"}
  /\ \E taken \in MayHold(k) : Die(k, taken)

\* SIGTERM.
Terminate(k) ==
  /\ k \in sigterm /\ kid[k] # "dead"
  /\ \E taken \in MayHold(k) : Die(k, taken)

ChildStep(k) ==
  \/ InitChild(k, TRUE) \/ RecvInputs(k, TRUE) \/ SendResults(k)
  \/ Disarm(k) \/ WriteIdle(k) \/ Terminate(k)

RNext ==
  \/ \E c \in Clients :
       \/ Accept(c) \/ Hangup(c) \/ parse_msg(c) \/ RecvChallenge(c) \/ SendFails(c)
       \/ send_log_msg(c) \/ Sent(c) \/ TcpStep(c)
       \/ \E m \in Modes : RecvRunMode(c, m)
       \/ \E answered \in BOOLEAN : RecvOther(c, answered)
  \/ stop_tcp_conn \/ start_tcp_conn \/ StartFails \/ Announce
  \/ ExecStep \/ ForkFails
  \/ \E k \in Kids :
       \/ ChildStep(k) \/ InitChild(k, FALSE) \/ RecvInputs(k, FALSE)
       \/ \E d \in Movers, zero \in BOOLEAN : StudentWrite(k, d, zero)
       \/ StudentEnds(k) \/ NoChallenges(k) \/ Solve(k) \/ Alarm(k)

RSpec == RInit /\ [][RNext]_rvars

\* What the scheduling of threads, processes and timers guarantees: a thread or
\* process that can take its next step takes it, a pending signal arrives and
\* an armed alarm rings.  Clients and student code promise nothing.
RFairness ==
  /\ WF_rvars(stop_tcp_conn) /\ WF_rvars(start_tcp_conn \/ StartFails) /\ WF_rvars(Announce)
  /\ \A c \in Clients : WF_rvars(TcpStep(c))
  /\ WF_rvars(ExecStep)
  /\ \A k \in Kids : WF_rvars(ChildStep(k)) /\ WF_rvars(Alarm(k)) /\ WF_rvars(Terminate(k))

RLiveSpec == RSpec /\ RFairness

-----------------------------------------------------------------------------
(* Properties.                                                             *)

\* A thread that may still write RUN_MODE.
InCommand(c) == thread[c] \in {"select", "recv", "sendto", "write", "sending", "cleanup"}

\* When no client has a thread that could command the robot, RUN_MODE is IDLE:
\* whatever a client asked for, the clean-up of its thread is the last word.
IdleWithoutClients == (\A c \in Clients : ~InCommand(c)) => run_mode = "IDLE"

Live(k) == kid[k] \notin {"none", "dead"}

\* When executor is in IDLE no student code runs and the KoalaBears were commanded
\* to stop after the last student write, however the mode before ended.  (It says
\* nothing of PolarBears and servos, which reset_params leaves as they are.)
StoppedWhenIdle == mode = "IDLE" => "KoalaBear" \notin moving /\ \A k \in Kids : ~Live(k)

\* A request to stop that stands stops the robot: executor comes to rest in IDLE
\* with the KoalaBears at zero.  The exception is a child that was killed, or
\* ended, with a semaphore that executor then waits for: rd_sem to read RUN_MODE,
\* command_sem or cmd_map_sem in reset_params.
StopStops ==
  <>[](run_mode = "IDLE") =>
    \/ <>[](mode = "IDLE" /\ "KoalaBear" \notin moving)
    \/ <>[](\E s \in {"rd", "KoalaBear", "cmd_map"} : ~Posted(s))

\* stop_tcp_conn returns ("May block briefly to allow main control thread to
\* finish what it's doing"), so that net_handler keeps accepting clients.  The
\* exceptions are a thread that stays blocked, with cancellation disabled, in
\* readn for the rest of a message that its old client began and neither finishes
\* nor gives up, in writen to that client or in sendto to the challenge socket,
\* and an rd_sem that a child ended with.
JoinReturns ==
  <>[](main = "join") =>
    <>[](thread[client] \in {"recv", "sending", "sendto"}) \/ <>[]~Posted("rd")
=============================================================================
