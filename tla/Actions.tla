------------------------------- MODULE Actions -------------------------------
(***************************************************************************)
(* Robot.run and Robot.is_running of the student API (studentapi.pyx), and *)
(* the loop of executor that calls a student's main function and looks for *)
(* an error in one of its actions (run_py_function and run_mode,           *)
(* executor.c).                                                            *)
(*                                                                         *)
(* An action is known by its name.  Any Python thread may call run: the    *)
(* main one or that of another action; between two statements of run the   *)
(* others go on.  Threads are numbered in the order they are created.      *)
(***************************************************************************)
EXTENDS Integers, FiniteSets

CONSTANTS
  ActionNames,  \* names of actions
  MAX_THREADS,
  MaxCreated    \* bound on the threads created

ASSUME ActionsConstants == MAX_THREADS \in Nat \ {0} /\ MaxCreated \in Nat

Main == 0
Thread == 1 .. MaxCreated
PyThreads == {Main} \cup Thread
NoThread == -1

VARIABLES
  running_actions, \* the thread last registered for each action
  thread,          \* of each: "none", "created", "alive", "over"
  action,          \* its action
  calling,         \* of each caller: where it stands in run, the action, the new thread
  error_event,
  mode,            \* run_mode: "setup", "main", or "over", the process with it
  raced            \* history: actions two callers were in run for at once

kvars == <<running_actions, thread, action, calling, error_event, mode, raced>>

NoAction == "none"
InCode == [at |-> "code", fn |-> NoAction, new |-> NoThread]

KInit ==
  /\ running_actions = [f \in ActionNames |-> NoThread]
  /\ thread = [t \in Thread |-> "none"]
  /\ action = [t \in Thread |-> NoAction]
  /\ calling = [c \in PyThreads |-> InCode]
  /\ error_event = FALSE
  /\ mode = "setup" /\ raced = {}

Runs(c) == mode # "over" /\ IF c = Main THEN TRUE ELSE thread[c] = "alive"
Goes(c, from, to) == Runs(c) /\ calling[c].at = from /\ calling' = [calling EXCEPT ![c] = to]
active_count == 1 + Cardinality({t \in Thread : thread[t] = "alive"})
is_running(f) == running_actions[f] # NoThread /\ thread[running_actions[f]] = "alive"

-----------------------------------------------------------------------------
(* Robot.run.                                                              *)

\* Fault: nothing stops a second run of an action.
Checked_Not(c, f) == TRUE

\* if self.is_running(action): return.
Checked(c, f) == ~is_running(f)

run(c, f) ==
  /\ Checked(c, f)
  /\ Goes(c, "code", [at |-> "count", fn |-> f, new |-> NoThread])
  /\ raced' = IF \E d \in PyThreads \ {c} : calling[d].fn = f THEN raced \cup {f} ELSE raced
  /\ UNCHANGED <<running_actions, thread, action, error_event, mode>>

\* if threading.active_count() > MAX_THREADS: return.
Count(c) ==
  /\ Goes(c, "count", IF active_count > MAX_THREADS THEN InCode ELSE [calling[c] EXCEPT !.at = "create"])
  /\ UNCHANGED <<running_actions, thread, action, error_event, mode, raced>>

\* The thread is created and registered.
Register(c) ==
  \E t \in Thread :
    /\ thread[t] = "none" /\ \A u \in 1 .. t - 1 : thread[u] # "none"
    /\ Goes(c, "create", [calling[c] EXCEPT !.at = "start", !.new = t])
    /\ thread' = [thread EXCEPT ![t] = "created"]
    /\ action' = [action EXCEPT ![t] = calling[c].fn]
    /\ running_actions' = [running_actions EXCEPT ![calling[c].fn] = t]
    /\ UNCHANGED <<error_event, mode, raced>>

\* thread.start() returns when the thread is alive.
StartThread(c) ==
  /\ Goes(c, "start", InCode)
  /\ thread' = [thread EXCEPT ![calling[c].new] = "alive"]
  /\ UNCHANGED <<running_actions, action, error_event, mode, raced>>

\* ThreadWrapper.run: the action returns, or raises an exception.
ActionEnds(t, failed) ==
  /\ Runs(t) /\ calling[t] = InCode
  /\ thread' = [thread EXCEPT ![t] = "over"]
  /\ error_event' = (error_event \/ failed)
  /\ UNCHANGED <<running_actions, action, calling, mode, raced>>

-----------------------------------------------------------------------------
(* run_mode and run_py_function.                                           *)

\* After a call that returned: setup is followed by main, main by itself, unless
\* an action has failed.  When run_mode returns, the process exits, and its
\* threads, being daemons, with it.
AfterCall == IF error_event THEN "over" ELSE "main"

CallReturns ==
  /\ mode # "over" /\ calling[Main] = InCode
  /\ mode' = AfterCall
  /\ UNCHANGED <<running_actions, thread, action, calling, error_event, raced>>

\* The call raises an exception.
CallFails ==
  /\ mode # "over" /\ calling[Main] = InCode
  /\ mode' = "over"
  /\ UNCHANGED <<running_actions, thread, action, calling, error_event, raced>>

KNext ==
  \/ \E c \in PyThreads : Count(c) \/ Register(c) \/ StartThread(c) \/ \E f \in ActionNames : run(c, f)
  \/ \E t \in Thread, failed \in BOOLEAN : ActionEnds(t, failed)
  \/ CallReturns \/ CallFails

KSpec == KInit /\ [][KNext]_kvars

-----------------------------------------------------------------------------

\* An action runs in one thread at a time, and is_running knows of it, unless
\* two threads were in Robot.run for it at once: the test and the start of the
\* thread are not one step.
OneThreadPerAction ==
  \A f \in ActionNames \ raced :
    \A t \in Thread : thread[t] = "alive" /\ action[t] = f => running_actions[f] = t
=============================================================================
