-------------------------------- MODULE Ipc --------------------------------
(***************************************************************************)
(* Inter-processor calls, components/esp32/ipc.c.                          *)
(*                                                                         *)
(* esp_ipc_call_and_wait runs in the context of a calling task; ipc_task   *)
(* is the highest-priority task pinned to each CPU.  The caller publishes  *)
(* the function in the globals s_func, s_func_arg and s_ipc_wait, wakes    *)
(* the task of the target CPU and sleeps on s_ipc_ack.  This module holds  *)
(* the machinery only, as action fragments: who calls, what the function   *)
(* does and who may run on a CPU belong to the modules that extend it      *)
(* (IpcClient, FlashGuard).                                                *)
(***************************************************************************)
EXTENDS Naturals

CONSTANTS
  Tasks,    \* the tasks that call the IPC and flash APIs
  None      \* no task, no function

ASSUME TasksAssumption == None \notin Tasks

VARIABLES
  s_ipc_mutex,  \* the task that holds the mutex, or None
  s_ipc_sem,    \* one binary semaphore per CPU
  s_ipc_ack,    \* binary semaphore
  s_func,       \* s_func together with s_func_arg
  s_ipc_wait,   \* "start" or "end": when ipc_task acknowledges
  callPc,       \* control point of each task inside esp_ipc_call_and_wait
  ipcPc,        \* control point of each CPU's ipc_task
  ipcFunc       \* ipc_task's local copies func and arg

ipcShared == <<s_ipc_mutex, s_ipc_sem, s_ipc_ack, s_func, s_ipc_wait>>
ipcVars == <<ipcShared, callPc, ipcPc, ipcFunc>>

\* portNUM_PROCESSORS = 2: the PRO CPU and the APP CPU.
CPU == {0, 1}

\* Control points of a caller and of ipc_task, one per access to shared state.
CallPcs == {"out", "take_mutex", "publish", "give_sem", "take_ack", "give_mutex"}
IpcPcs == {"take_sem", "read", "ack_start", "run", "ack_end"}

IpcInit ==
  /\ s_ipc_mutex = None
  /\ s_ipc_sem = [c \in CPU |-> 0]
  /\ s_ipc_ack = 0
  /\ s_func = None
  /\ s_ipc_wait = "start"
  /\ callPc = [t \in Tasks |-> "out"]
  /\ ipcPc = [c \in CPU |-> "take_sem"]
  /\ ipcFunc = [c \in CPU |-> None]

CallStep(t, from, to) ==
  /\ callPc[t] = from
  /\ callPc' = [callPc EXCEPT ![t] = to]

IpcStep(c, from, to) ==
  /\ ipcPc[c] = from
  /\ ipcPc' = [ipcPc EXCEPT ![c] = to]

-----------------------------------------------------------------------------
(* The caller, esp_ipc_call_and_wait.  Both guards at its head, an existing *)
(* CPU and a running scheduler, are conditions of the module that calls it. *)

\* Mutant: a caller does not wait for the mutex.
CallTakeMutex_NoWait(t) ==
  /\ CallStep(t, "take_mutex", "publish")
  /\ s_ipc_mutex' = t
  /\ UNCHANGED <<s_ipc_sem, s_ipc_ack, s_func, s_ipc_wait, ipcPc, ipcFunc>>

CallTakeMutex(t) ==
  /\ CallStep(t, "take_mutex", "publish")
  /\ s_ipc_mutex = None
  /\ s_ipc_mutex' = t
  /\ UNCHANGED <<s_ipc_sem, s_ipc_ack, s_func, s_ipc_wait, ipcPc, ipcFunc>>

\* Mutant: the parameter is honoured, and IpcAckEnd's second look at
\* s_ipc_wait may then see the mode of a later call.
WaitMode_Parameter(wait_for) == wait_for

\* Mutant: a value that is neither mode.
WaitMode_Garbage(wait_for) == "never"

\* s_ipc_wait is set to IPC_WAIT_FOR_START whatever the parameter wait_for is.
WaitMode(wait_for) == "start"

CallPublish(t, f, wait_for) ==
  /\ CallStep(t, "publish", "give_sem")
  /\ s_func' = f
  /\ s_ipc_wait' = WaitMode(wait_for)
  /\ UNCHANGED <<s_ipc_mutex, s_ipc_sem, s_ipc_ack, ipcPc, ipcFunc>>

CallGiveSem(t, c) ==
  /\ CallStep(t, "give_sem", "take_ack")
  /\ s_ipc_sem' = [s_ipc_sem EXCEPT ![c] = 1]
  /\ UNCHANGED <<s_ipc_mutex, s_ipc_ack, s_func, s_ipc_wait, ipcPc, ipcFunc>>

CallTakeAck(t) ==
  /\ CallStep(t, "take_ack", "give_mutex")
  /\ s_ipc_ack = 1
  /\ s_ipc_ack' = 0
  /\ UNCHANGED <<s_ipc_mutex, s_ipc_sem, s_func, s_ipc_wait, ipcPc, ipcFunc>>

CallGiveMutex(t) ==
  /\ CallStep(t, "give_mutex", "out")
  /\ s_ipc_mutex' = None
  /\ UNCHANGED <<s_ipc_sem, s_ipc_ack, s_func, s_ipc_wait, ipcPc, ipcFunc>>

-----------------------------------------------------------------------------
(* ipc_task. *)

IpcTakeSem(c) ==
  /\ IpcStep(c, "take_sem", "read")
  /\ s_ipc_sem[c] = 1
  /\ s_ipc_sem' = [s_ipc_sem EXCEPT ![c] = 0]
  /\ UNCHANGED <<s_ipc_mutex, s_ipc_ack, s_func, s_ipc_wait, callPc, ipcFunc>>

IpcReadFunc(c) ==
  /\ IpcStep(c, "read", "ack_start")
  /\ ipcFunc' = [ipcFunc EXCEPT ![c] = s_func]
  /\ UNCHANGED <<ipcShared, callPc>>

\* Mutant: acknowledge only when the function has returned.
IpcAckStart_Skipped(c) ==
  /\ IpcStep(c, "ack_start", "run")
  /\ UNCHANGED <<ipcShared, callPc, ipcFunc>>

IpcAckStart(c) ==
  /\ IpcStep(c, "ack_start", "run")
  /\ s_ipc_ack' = IF s_ipc_wait = "start" THEN 1 ELSE s_ipc_ack
  /\ UNCHANGED <<s_ipc_mutex, s_ipc_sem, s_func, s_ipc_wait, callPc, ipcFunc>>

\* The function returned; s_ipc_wait is read a second time.
IpcAckEnd(c) ==
  /\ IpcStep(c, "ack_end", "take_sem")
  /\ s_ipc_ack' = IF s_ipc_wait = "end" THEN 1 ELSE s_ipc_ack
  /\ UNCHANGED <<s_ipc_mutex, s_ipc_sem, s_func, s_ipc_wait, callPc, ipcFunc>>

IpcTypeOK(Func) ==
  /\ s_ipc_mutex \in Tasks \cup {None}
  /\ s_ipc_sem \in [CPU -> {0, 1}]
  /\ s_ipc_ack \in {0, 1}
  /\ s_func \in Func \cup {None}
  /\ s_ipc_wait \in {"start", "end"}
  /\ callPc \in [Tasks -> CallPcs]
  /\ ipcPc \in [CPU -> IpcPcs]
  /\ ipcFunc \in [CPU -> Func \cup {None}]
=============================================================================
