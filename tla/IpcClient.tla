----------------------------- MODULE IpcClient -----------------------------
(***************************************************************************)
(* Tasks that call esp_ipc_call and esp_ipc_call_blocking, composed with   *)
(* the machinery of components/esp32/ipc.c (module Ipc).  Every call       *)
(* passes a function whose argument names the call, <<task, number>>, and  *)
(* running the function records that argument: what ran, where and how     *)
(* often can then be compared with what was asked for.                     *)
(*                                                                         *)
(* No scheduling restriction is placed on the callers: a caller preempted  *)
(* by the ipc task of its own CPU is one of the interleavings.             *)
(***************************************************************************)
EXTENDS Ipc, Sequences, FiniteSets

CONSTANT MaxCalls   \* bound: calls per task

ASSUME MaxCallsAssumption == MaxCalls \in Nat

VARIABLES
  schedState,  \* xTaskGetSchedulerState(): "not_started" or "running"
  asked,       \* per task, the calls it made: sequence of [cpu, wait_for]
  result,      \* per task, what its last call returned
  ran          \* per CPU, the arguments of the functions that have returned

clientVars == <<schedState, asked, result, ran>>
vars == <<ipcVars, clientVars>>

Arg == Tasks \X (1 .. MaxCalls)
CpuIds == CPU \cup {2}     \* cpu_id may be out of range
WaitFor == {"start", "end"}
Results == {"none", "ESP_OK", "ESP_ERR_INVALID_ARG", "ESP_ERR_INVALID_STATE"}

TypeOK ==
  /\ IpcTypeOK(Arg)
  /\ schedState \in {"not_started", "running"}
  /\ asked \in [Tasks -> Seq([cpu : CPU, wait_for : WaitFor])]
  /\ result \in [Tasks -> Results]
  /\ ran \in [CPU -> Seq(Arg)]

Init ==
  /\ IpcInit
  /\ schedState = "not_started"
  /\ asked = [t \in Tasks |-> <<>>]
  /\ result = [t \in Tasks |-> "none"]
  /\ ran = [c \in CPU |-> <<>>]

\* The call t is making.
Last(t) == asked[t][Len(asked[t])]
LastArg(t) == <<t, Len(asked[t])>>

-----------------------------------------------------------------------------
StartScheduler ==
  /\ schedState = "not_started"
  /\ schedState' = "running"
  /\ UNCHANGED <<ipcVars, asked, result, ran>>

\* esp_ipc_call or esp_ipc_call_blocking up to the mutex: two early returns.
Call(t, cpu_id, wait_for) ==
  /\ callPc[t] = "out"
  /\ Len(asked[t]) < MaxCalls
  /\ \/ /\ cpu_id \notin CPU
        /\ result' = [result EXCEPT ![t] = "ESP_ERR_INVALID_ARG"]
        /\ UNCHANGED <<callPc, asked>>
     \/ /\ cpu_id \in CPU
        /\ schedState # "running"
        /\ result' = [result EXCEPT ![t] = "ESP_ERR_INVALID_STATE"]
        /\ UNCHANGED <<callPc, asked>>
     \/ /\ cpu_id \in CPU
        /\ schedState = "running"
        /\ CallStep(t, "out", "take_mutex")
        /\ asked' = [asked EXCEPT ![t] = Append(@, [cpu |-> cpu_id, wait_for |-> wait_for])]
        /\ result' = [result EXCEPT ![t] = "none"]
  /\ UNCHANGED <<ipcShared, ipcPc, ipcFunc, schedState, ran>>

TakeMutex(t) == CallTakeMutex(t) /\ UNCHANGED clientVars

Publish(t) == CallPublish(t, LastArg(t), Last(t).wait_for) /\ UNCHANGED clientVars

GiveSem(t) == CallGiveSem(t, Last(t).cpu) /\ UNCHANGED clientVars

TakeAck(t) == CallTakeAck(t) /\ UNCHANGED clientVars

Return(t) ==
  /\ CallGiveMutex(t)
  /\ result' = [result EXCEPT ![t] = "ESP_OK"]
  /\ UNCHANGED <<schedState, asked, ran>>

TaskTakeSem(c) == IpcTakeSem(c) /\ UNCHANGED clientVars
TaskReadFunc(c) == IpcReadFunc(c) /\ UNCHANGED clientVars
TaskAckStart(c) == IpcAckStart(c) /\ UNCHANGED clientVars

\* (*func)(arg): from "run" to "ack_end" the function executes and returns.
TaskRunFunc(c) ==
  /\ IpcStep(c, "run", "ack_end")
  /\ ran' = [ran EXCEPT ![c] = Append(@, ipcFunc[c])]
  /\ UNCHANGED <<ipcShared, callPc, ipcFunc, schedState, asked, result>>

TaskAckEnd(c) == IpcAckEnd(c) /\ UNCHANGED clientVars

CallerNext(t) ==
  \/ TakeMutex(t) \/ Publish(t) \/ GiveSem(t) \/ TakeAck(t) \/ Return(t)
  \/ \E cpu_id \in CpuIds, w \in WaitFor : Call(t, cpu_id, w)

IpcTaskNext(c) ==
  TaskTakeSem(c) \/ TaskReadFunc(c) \/ TaskAckStart(c) \/ TaskRunFunc(c) \/ TaskAckEnd(c)

Next ==
  \/ StartScheduler
  \/ \E t \in Tasks : CallerNext(t)
  \/ \E c \in CPU : IpcTaskNext(c)

(* Each ipc task is the highest-priority task of its CPU and the functions *)
(* it is given return, so its steps are weakly fair, as are a caller's     *)
(* steps once it is inside the call.  s_ipc_mutex wakes its waiters in     *)
(* FIFO order within a priority: taking it is strongly fair.  Making       *)
(* another call is the client's choice, and is not fair.                   *)
Fairness ==
  /\ \A c \in CPU : WF_vars(IpcTaskNext(c))
  /\ \A t \in Tasks : SF_vars(TakeMutex(t))
  /\ \A t \in Tasks : WF_vars(Publish(t) \/ GiveSem(t) \/ TakeAck(t) \/ Return(t))

Spec == Init /\ [][Next]_vars /\ Fairness

-----------------------------------------------------------------------------
(* Arguments of the functions that have begun to run on c: those that      *)
(* returned and the one between "run" and its return.                      *)
Begun(c) == {ran[c][i] : i \in 1 .. Len(ran[c])}
            \cup (IF ipcPc[c] = "run" THEN {ipcFunc[c]} ELSE {})
Ended(c) == {ran[c][i] : i \in 1 .. Len(ran[c])}

(* The function of every call runs at most once, with its own argument and *)
(* on the CPU the call named, although every call hands it over through    *)
(* the same three globals (ipc.c:99-101, read back at 57-58).              *)
RunsOnceWhereAsked ==
  \A c \in CPU :
    /\ \A a \in Begun(c) : /\ a[2] \in 1 .. Len(asked[a[1]])
                           /\ asked[a[1]][a[2]].cpu = c
    /\ \A i, j \in 1 .. Len(ran[c]) : ran[c][i] = ran[c][j] => i = j
    /\ ipcPc[c] = "run" => ipcFunc[c] \notin Ended(c)

(* When esp_ipc_call has returned ESP_OK the function has at least begun:  *)
(* the acknowledgement a caller takes (ipc.c:103) is the one for its own   *)
(* call, not one left over from another caller's.                          *)
ReturnedMeansBegun ==
  \A t \in Tasks :
    (callPc[t] \in {"out", "give_mutex"} /\ Len(asked[t]) > 0)
      => LastArg(t) \in Begun(Last(t).cpu)

(* A call to an existing CPU with the scheduler running comes back, and    *)
(* its function returns: no caller sleeps forever on s_ipc_mutex or        *)
(* s_ipc_ack and no wake-up of an ipc task is lost.                        *)
CallsComplete ==
  \A t \in Tasks : \A n \in 1 .. MaxCalls :
    (Len(asked[t]) >= n) ~>
      /\ Len(asked[t]) >= n
      /\ <<t, n>> \in Ended(asked[t][n].cpu)
      /\ Len(asked[t]) > n \/ callPc[t] = "out"

(* esp_ipc.h:72 of esp_ipc_call_blocking: "This function waits for func to *)
(* return."  Line 101 of ipc.c ignores wait_for, so it does not.           *)
BlockingCallWaits ==
  \A t \in Tasks :
    (callPc[t] = "out" /\ Len(asked[t]) > 0 /\ Last(t).wait_for = "end")
      => LastArg(t) \in Ended(Last(t).cpu)
=============================================================================
