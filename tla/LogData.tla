------------------------------- MODULE LogData -------------------------------
(***************************************************************************)
(* The custom log data of student code: log_data_write, called by the      *)
(* threads of the executor child, and log_data_read, called by             *)
(* send_device_data of net_handler before each datagram to Dawn            *)
(* (shm_wrapper.c, udp_conn.c).  One semaphore guards a table of at most   *)
(* UCHAR_MAX keys; nothing ever removes a key.  The child ends, by SIGTERM  *)
(* when the mode changes or by itself, wherever its threads are; the next  *)
(* child has threads of the same names.                                    *)
(***************************************************************************)
EXTENDS Integers, Sequences, SequencesExt

CONSTANTS
  UCHAR_MAX,    \* capacity of the table
  Keys,         \* keys short enough for the table
  LongKeys,     \* keys of LOG_KEY_LENGTH characters or more
  LogVals,
  Writers,      \* threads of student code
  Sender,       \* the send_device_data thread
  Nobody

ASSUME LogDataConstants ==
  /\ UCHAR_MAX \in Nat \ {0}
  /\ Keys \intersect LongKeys = {}
  /\ Sender \notin Writers /\ Nobody \notin Writers \union {Sender}

VARIABLES
  log_data_sem, \* who holds the semaphore
  names,        \* names[1 .. num_params]
  values,       \* the value stored for each of them
  pc, key, value,   \* each caller: where it stands and its arguments
  idx,          \*   the index it is looking at
  copy          \* the names and values net_handler has copied so far

gvars == <<log_data_sem, names, values, pc, key, value, idx, copy>>

Callers == Writers \union {Sender}
NoKey == "none"
AllKeys == Keys \union LongKeys

GInit ==
  /\ log_data_sem = Nobody
  /\ names = <<>> /\ values = <<>>
  /\ pc = [t \in Callers |-> "idle"]
  /\ key = [t \in Writers |-> NoKey] /\ value = [t \in Writers |-> NoKey]
  /\ idx = [t \in Callers |-> 0]
  /\ copy = <<>>

Move(t, from, to) == pc[t] = from /\ pc' = [pc EXCEPT ![t] = to]

Take(t) == log_data_sem = Nobody /\ log_data_sem' = t

\* A call starts; the semaphore is taken.
log_data_write(t, k, v) ==
  /\ Move(t, "idle", "wait")
  /\ key' = [key EXCEPT ![t] = k] /\ value' = [value EXCEPT ![t] = v]
  /\ UNCHANGED <<log_data_sem, names, values, idx, copy>>

Enter(t) ==
  /\ Take(t)
  /\ Move(t, "wait", "find")
  /\ idx' = [idx EXCEPT ![t] = 1]
  /\ UNCHANGED <<names, values, key, value, copy>>

\* The search goes on while the name differs.
Search(t) ==
  /\ pc[t] = "find" /\ idx[t] <= Len(names) /\ names[idx[t]] # key[t]
  /\ idx' = [idx EXCEPT ![t] = @ + 1]
  /\ UNCHANGED <<log_data_sem, names, values, pc, key, value, copy>>

Found(t) == pc[t] = "find" /\ idx[t] \notin {i \in DOMAIN names : names[i] # key[t]}

Return(t) ==
  /\ pc' = [pc EXCEPT ![t] = "idle"]
  /\ key' = [key EXCEPT ![t] = NoKey] /\ value' = [value EXCEPT ![t] = NoKey]
  /\ idx' = [idx EXCEPT ![t] = 0]

Refused(t) == idx[t] = UCHAR_MAX + 1 \/ key[t] \in LongKeys

\* Returns -1 or -2 without posting the semaphore.
Refuse(t) ==
  /\ Found(t) /\ Refused(t)
  /\ Return(t)
  /\ UNCHANGED <<log_data_sem, names, values, copy>>

Store(t) ==
  /\ Found(t) /\ ~Refused(t)
  /\ IF idx[t] > Len(names)
     THEN names' = Append(names, key[t]) /\ values' = Append(values, value[t])
     ELSE names' = names /\ values' = [values EXCEPT ![idx[t]] = value[t]]
  /\ log_data_sem' = Nobody
  /\ Return(t)
  /\ UNCHANGED copy

\* Fault: the reader does not wait for the semaphore.
log_data_read_NoWait ==
  /\ Move(Sender, "idle", "copy")
  /\ copy' = <<>>
  /\ UNCHANGED <<log_data_sem, names, values, key, value, idx>>

\* log_data_read: num_params is read, then entry after entry is copied.
log_data_read ==
  /\ Take(Sender)
  /\ Move(Sender, "idle", "copy")
  /\ copy' = <<>>
  /\ UNCHANGED <<names, values, key, value, idx>>

CopyEntry ==
  /\ pc[Sender] = "copy" /\ Len(copy) < Len(names)
  /\ copy' = Append(copy, <<names[Len(copy) + 1], values[Len(copy) + 1]>>)
  /\ UNCHANGED <<log_data_sem, names, values, pc, key, value, idx>>

\* Fault: the semaphore is kept when there is nothing to send.
EndRead_NoPost ==
  /\ Move(Sender, "copy", "send")
  /\ Len(copy) = Len(names)
  /\ log_data_sem' = IF copy = <<>> THEN log_data_sem ELSE Nobody
  /\ copy' = <<>>
  /\ UNCHANGED <<names, values, key, value, idx>>

\* What is copied now belongs to the sender alone and is no longer followed.
EndRead ==
  /\ Move(Sender, "copy", "send")
  /\ Len(copy) = Len(names)
  /\ log_data_sem' = Nobody
  /\ copy' = <<>>
  /\ UNCHANGED <<names, values, key, value, idx>>

\* The datagram leaves.
Sendto ==
  /\ Move(Sender, "send", "idle")
  /\ UNCHANGED <<log_data_sem, names, values, key, value, idx, copy>>

\* The child ends.  A thread inside log_data_write leaves the semaphore taken, so
\* that an entry it has half stored is never read.
EndWriters ==
  /\ pc' = [t \in Callers |-> IF t \in Writers THEN "idle" ELSE pc[t]]
  /\ key' = [t \in Writers |-> NoKey] /\ value' = [t \in Writers |-> NoKey]
  /\ idx' = [t \in Callers |-> 0]
  /\ UNCHANGED <<log_data_sem, names, values, copy>>

WriterStep(t) == Enter(t) \/ Search(t) \/ Refuse(t) \/ Store(t)
NetStep == log_data_read \/ CopyEntry \/ EndRead \/ Sendto

GNext ==
  \/ \E t \in Writers : WriterStep(t) \/ \E k \in AllKeys, v \in LogVals : log_data_write(t, k, v)
  \/ EndWriters \/ NetStep

GSpec == GInit /\ [][GNext]_gvars

\* Threads run, as long as their process does, and a caller blocked in sem_wait gets the semaphore if it is
\* posted again and again; student code need not call.
GFairness ==
  /\ WF_gvars(NetStep) /\ SF_gvars(log_data_read)
  /\ \A t \in Writers : WF_gvars(WriterStep(t)) /\ SF_gvars(Enter(t))

-----------------------------------------------------------------------------
(* Properties.                                                             *)

\* What net_handler copies is the table as it stands: its entries and their
\* number do not change under the copy, no key has two entries, however many
\* threads write it first at once, and the table keeps within UCHAR_MAX.
CopyIsTable ==
  /\ IsInjective(names) /\ Len(names) <= UCHAR_MAX
  /\ pc[Sender] = "copy" =>
       \A i \in DOMAIN copy : i <= Len(names) /\ copy[i] = <<names[i], values[i]>>

\* A refused write (table full, key too long) returned without sem_post, or the
\* child ended inside log_data_write.
SemIsLost == \E t \in Writers : log_data_sem = t /\ pc[t] \in {"idle", "wait"}

\* net_handler keeps sending data to Dawn: when send_device_data finds the
\* semaphore held, it still passes log_data_read later, unless a refused write or
\* a child that ended inside log_data_write kept the semaphore.
DataKeepsFlowing ==
  (pc[Sender] = "idle" /\ log_data_sem # Nobody) ~> (pc[Sender] = "send" \/ SemIsLost)
=============================================================================
