------------------------------ MODULE Lifecycle ------------------------------
(***************************************************************************)
(* How Runtime starts, fails and starts again: shm_start, shm_stop and     *)
(* shm_init (shm_wrapper), the main functions and SIGINT handlers of the   *)
(* three services, and the systemd units that tie them together.           *)
(*                                                                         *)
(* A unit that fails starts shm_stop (OnFailure), which conflicts with the *)
(* services: systemd stops them (SIGINT, then SIGKILL) before shm_stop     *)
(* runs.  shm_stop unlinks the names and exits with 1, so that its own     *)
(* OnFailure starts shm_start and the three services again.                *)
(*                                                                         *)
(* Blocks and semaphores are known by name; a process keeps what it opened *)
(* under a name after the name is unlinked.  Each creation is a            *)
(* generation, numbered from 1; 0 is none.  One block stands for the four, *)
(* one semaphore for all.  The child of executor, which ignores SIGINT, is *)
(* a process of its own in executor's control group.  The converter is     *)
(* bound to net_handler and does not use shared memory.                    *)
(***************************************************************************)
EXTENDS Integers, FiniteSets

CONSTANTS
  MaxFailures   \* bound on crashes

Services == {"dev_handler", "executor", "net_handler"}
Units == Services \cup {"converter"}
Child == "child"
Processes == Services \cup {Child}

VARIABLES
  unit,       \* of each unit: "waiting" to be started, "active", "stopping"
              \*   (its SIGINT handler runs), "leaving" (it calls exit), "inactive"
  alive,      \* the processes that run
  stuck,      \* the processes whose SIGINT handler waits for what it interrupted
  runtime,    \* what systemd is at: "up", "stop", the steps of shm_stop and shm_start
  name,       \* [block, sem]: the generation each name refers to
  created,    \* generations created
  opened,     \* of each process: [block, sem] as it opened them
  sem,        \* of each generation of the semaphore: who has it, or Nobody
  failures,   \* crashes so far
  cut         \* history: shm_stop was killed before it had unlinked the semaphores

vvars == <<unit, alive, stuck, runtime, name, created, opened, sem, failures, cut>>

Nobody == "nobody"
Dead == "dead"               \* who had it crashed, or was killed by systemd
Interrupted == "interrupted" \* who had it was a child that executor ended
Nothing == [block |-> 0, sem |-> 0]
Generations == 1 .. MaxFailures + 1

\* The machine boots: shm_start runs before the services.
VInit ==
  /\ unit = [u \in Units |-> "waiting"]
  /\ alive = {} /\ stuck = {} /\ runtime = "shm_start"
  /\ name = Nothing /\ created = 0
  /\ opened = [p \in Processes |-> Nothing]
  /\ sem = [g \in Generations |-> Nobody]
  /\ failures = 0 /\ cut = FALSE

\* What a process had when it ended stays taken.
Ends(ps, how) ==
  /\ alive' = alive \ ps /\ stuck' = stuck \ ps
  /\ sem' = [g \in Generations |-> IF sem[g] \in ps THEN how ELSE sem[g]]
  /\ opened' = [p \in Processes |-> IF p \in ps THEN Nothing ELSE opened[p]]

-----------------------------------------------------------------------------
(* shm_start and shm_stop.                                                 *)

\* sem_open with O_CREAT: an existing semaphore keeps its value.
CreateSems ==
  /\ runtime = "shm_start" /\ runtime' = "create"
  /\ name' = [name EXCEPT !.sem = IF @ = 0 THEN created + 1 ELSE @]
  /\ created' = created + 1
  /\ UNCHANGED <<unit, alive, stuck, opened, sem, failures, cut>>

\* The blocks are created and set to their defaults.
CreateBlocks ==
  /\ runtime = "create" /\ runtime' = "up"
  /\ name' = [name EXCEPT !.block = IF @ = 0 THEN created ELSE @]
  /\ UNCHANGED <<unit, alive, stuck, created, opened, sem, failures, cut>>

\* OnFailure of shm_stop: shm_start and the three services, not the converter.
Restarted == [u \in Units |-> IF u \in Services THEN "waiting" ELSE unit[u]]

\* Fault: shm_stop does not wait for the services to stop (no After=).
StopInit_AtOnce ==
  /\ runtime = "stop"
  /\ IF name.block = 0 THEN runtime' = "shm_start" /\ unit' = Restarted
                       ELSE runtime' = "unlink" /\ UNCHANGED unit
  /\ UNCHANGED <<alive, stuck, name, created, opened, sem, failures, cut>>

\* shm_stop begins when every service has stopped; without the block shm_init
\* exits, which is as good a failure as the one at the end.
StopInit ==
  /\ runtime = "stop" /\ \A s \in Services : unit[s] = "inactive"
  /\ IF name.block = 0 THEN runtime' = "shm_start" /\ unit' = Restarted
                       ELSE runtime' = "unlink" /\ UNCHANGED unit
  /\ UNCHANGED <<alive, stuck, name, created, opened, sem, failures, cut>>

UnlinkBlocks ==
  /\ runtime = "unlink" /\ runtime' = "unlink_sems"
  /\ name' = [name EXCEPT !.block = 0]
  /\ UNCHANGED <<unit, alive, stuck, created, opened, sem, failures, cut>>

\* Fault: the semaphores keep their names.
UnlinkSems_Keep ==
  /\ runtime = "unlink_sems" /\ runtime' = "shm_start" /\ cut' = FALSE
  /\ unit' = Restarted
  /\ UNCHANGED <<alive, stuck, name, created, opened, sem, failures>>

UnlinkSems ==
  /\ runtime = "unlink_sems" /\ runtime' = "shm_start" /\ cut' = FALSE
  /\ unit' = Restarted
  /\ name' = [name EXCEPT !.sem = 0]
  /\ UNCHANGED <<alive, stuck, created, opened, sem, failures>>

\* shm_stop is killed half way: a failure too.
ShmStopFails ==
  /\ runtime \in {"unlink", "unlink_sems"} /\ failures < MaxFailures
  /\ runtime' = "shm_start" /\ failures' = failures + 1 /\ cut' = TRUE
  /\ unit' = Restarted
  /\ UNCHANGED <<alive, stuck, name, created, opened, sem>>

-----------------------------------------------------------------------------
(* The services.                                                           *)

\* main: shm_init opens what the names refer to.
Start(s) ==
  /\ runtime = "up" /\ unit[s] = "waiting"
  /\ unit' = [unit EXCEPT ![s] = "active"]
  /\ alive' = alive \cup {s}
  /\ opened' = [opened EXCEPT ![s] = name]
  /\ UNCHANGED <<stuck, runtime, name, created, sem, failures, cut>>

\* The converter starts after net_handler.
StartConverter ==
  /\ runtime = "up" /\ unit["converter"] = "waiting" /\ unit["net_handler"] = "active"
  /\ unit' = [unit EXCEPT !["converter"] = "active"]
  /\ UNCHANGED <<alive, stuck, runtime, name, created, opened, sem, failures, cut>>

\* start_mode_subprocess: the child has what executor has.
Fork ==
  /\ unit["executor"] = "active" /\ Child \notin alive
  /\ alive' = alive \cup {Child}
  /\ opened' = [opened EXCEPT ![Child] = opened["executor"]]
  /\ UNCHANGED <<unit, stuck, runtime, name, created, sem, failures, cut>>

\* The child returns from the mode, or python_exit_handler ends it there and
\* then: SIGTERM from kill_subprocess, when the mode changes or executor stops,
\* or SIGALRM.
ChildEnds ==
  /\ Child \in alive
  /\ Ends({Child}, Interrupted)
  /\ UNCHANGED <<unit, runtime, name, created, failures, cut>>

SemWait(p) ==
  /\ p \in alive \ stuck /\ sem[opened[p].sem] = Nobody
  /\ sem' = [sem EXCEPT ![opened[p].sem] = p]
  /\ UNCHANGED <<unit, alive, stuck, runtime, name, created, opened, failures, cut>>

SemPost(p) ==
  /\ p \in alive \ stuck /\ sem[opened[p].sem] = p
  /\ sem' = [sem EXCEPT ![opened[p].sem] = Nobody]
  /\ UNCHANGED <<unit, alive, stuck, runtime, name, created, opened, failures, cut>>

\* A unit's process crashes, or returns an error from main: OnFailure starts
\* shm_stop.  What is left of its control group is killed later.
Crash(u) ==
  /\ unit[u] \in {"active", "stopping", "leaving"} /\ u \in alive \cup {"converter"}
  /\ failures < MaxFailures
  /\ failures' = failures + 1
  /\ unit' = [unit EXCEPT ![u] = IF u = "executor" /\ Child \in alive THEN "stopping" ELSE "inactive"]
  /\ Ends({u}, Dead)
  /\ runtime' = IF runtime = "up" THEN "stop" ELSE runtime
  /\ UNCHANGED <<name, created, cut>>

-----------------------------------------------------------------------------
(* systemd stops what conflicts with shm_stop.                             *)

\* A unit that waits is not started.
Cancel(u) ==
  /\ runtime = "stop" /\ unit[u] = "waiting"
  /\ unit' = [unit EXCEPT ![u] = "inactive"]
  /\ UNCHANGED <<alive, stuck, runtime, name, created, opened, sem, failures, cut>>

\* SIGINT; the thread the handler runs in may be one that has the semaphore, or
\* is inside log_printf.
Sigint(s) ==
  /\ runtime = "stop" /\ unit[s] = "active"
  /\ unit' = [unit EXCEPT ![s] = "stopping"]
  /\ stuck' \in {stuck, stuck \cup {s}}
  /\ UNCHANGED <<alive, runtime, name, created, opened, sem, failures, cut>>

\* SIGINT ends the converter, which has no handler.  shm_stop does not wait for
\* it.
SigintConverter ==
  /\ runtime # "up" /\ unit["converter"] = "active"
  /\ unit' = [unit EXCEPT !["converter"] = "inactive"]
  /\ UNCHANGED <<alive, stuck, runtime, name, created, opened, sem, failures, cut>>

\* The handler of a service, after executor's has ended the child, takes the
\* semaphore (device_disconnect, robot_desc_read; executor only after a mode
\* that is not CHALLENGE, for reset_params).
Handled(s) ==
  /\ unit[s] = "stopping" /\ s \in alive \ stuck
  /\ s = "executor" => Child \notin alive
  /\ s # "executor" => sem[opened[s].sem] = Nobody
  /\ unit' = [unit EXCEPT ![s] = "leaving"]
  /\ UNCHANGED <<alive, stuck, runtime, name, created, opened, sem, failures, cut>>

\* exit(0) takes the other threads of the process with it.
Exit(s) ==
  /\ unit[s] = "leaving"
  /\ unit' = [unit EXCEPT ![s] = "inactive"]
  /\ Ends({s}, Dead)
  /\ UNCHANGED <<runtime, name, created, failures, cut>>

Group(s) == IF s = "executor" THEN {s, Child} ELSE {s}

\* The time to stop is over: everything in the control group is killed.
Sigkill(s) ==
  /\ unit[s] \in {"stopping", "leaving"}
  /\ unit' = [unit EXCEPT ![s] = "inactive"]
  /\ Ends(Group(s), Dead)
  /\ UNCHANGED <<runtime, name, created, failures, cut>>

-----------------------------------------------------------------------------

Shm == CreateSems \/ CreateBlocks \/ StopInit \/ UnlinkBlocks \/ UnlinkSems

VNext ==
  \/ Shm \/ ShmStopFails \/ Fork \/ ChildEnds \/ StartConverter \/ SigintConverter
  \/ \E u \in Units : Crash(u) \/ Cancel(u)
  \/ \E s \in Services : Start(s) \/ Sigint(s) \/ Handled(s) \/ Exit(s) \/ Sigkill(s)
  \/ \E p \in Processes : SemWait(p) \/ SemPost(p)

VSpec == VInit /\ [][VNext]_vvars

\* systemd does what its units say.
VFairness ==
  /\ WF_vvars(Shm) /\ WF_vvars(StartConverter) /\ WF_vvars(SigintConverter)
  /\ \A u \in Units : WF_vvars(Cancel(u))
  /\ \A s \in Services : WF_vvars(Start(s)) /\ WF_vvars(Sigint(s)) /\ WF_vvars(Sigkill(s))

-----------------------------------------------------------------------------

\* Processes that run while Runtime is up share one block and one semaphore,
\* the ones the names refer to: no process of before a crash, such as a child
\* that outlived executor, works beside those started after it.
OneMemory ==
  runtime = "up" =>
    \A p \in alive : opened[p] = name /\ name.block # 0 /\ name.sem # 0

\* After a crash, and whatever crashes follow it, the three services come up,
\* and no semaphore they use is held by a process that crashed or was killed,
\* unless the last shm_stop was itself killed before it had unlinked them:
\* shm_start takes over a semaphore as it finds it.
Recovers ==
  (runtime = "stop") ~>
    (\A s \in Services : unit[s] = "active") /\ (sem[name.sem] = Dead => cut)
=============================================================================
