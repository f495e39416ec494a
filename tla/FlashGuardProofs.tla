-------------------------- MODULE FlashGuardProofs --------------------------
(***************************************************************************)
(* FlashSafe and the assertion of cache_utils.c:110, proved for every set  *)
(* of tasks, every placement of them on the CPUs and every choice of tasks *)
(* without affinity.                                                       *)
(*                                                                         *)
(* The argument: s_flash_op_mutex makes the task inside the guard unique   *)
(* (MutexInv), hence at most one IPC request is outstanding, and it is for *)
(* the CPU opposite to the one that task is on (PendingInv).  Because the  *)
(* task clears s_flash_op_complete before it publishes the request and is  *)
(* the only one to set it, a block function that has raised                *)
(* s_flash_op_can_start stays in its loop, with its CPU's scheduler,       *)
(* interrupts and cache off, until the operation is over (ReadyInv).       *)
(***************************************************************************)
EXTENDS FlashGuard, TLAPS

\* Control points at which the task holds s_flash_op_mutex.
HoldPcs == Pcs \ {"idle", "lock", "intr_on"}
\* Its own CPU is suspended.
OwnPcs == {"intr_off", "cache_off", "op", "cache_on", "complete", "resume"}
\* The other CPU is held by the block function.
BothPcs == {"suspend", "intr_off", "cache_off", "op", "cache_on", "complete"}
\* Block function: request picked up, s_flash_op_can_start not yet raised.
EarlyPcs == {"suspend", "intr_off", "cache_off", "start"}

\* Control points of the branch taken once the scheduler runs, and of the other.
StartedPcs == {"clear_start", "clear_complete", "ipc", "wait_start", "suspend",
               "complete", "resume"}
BootPcs == {"other_cache_off", "other_cache_on"}

MutexInv == \A t \in Tasks : pc[t] \in HoldPcs => s_flash_op_mutex = t

CallInv == \A t \in Tasks : callPc[t] # "out" <=> pc[t] = "ipc"

BootInv ==
  ~started =>
    /\ \A t \in Tasks : t # BootTask => pc[t] = "idle"
    /\ pc[BootTask] \notin StartedPcs
    /\ \A c \in CPU : ipcPc[c] = "take_sem" /\ s_ipc_sem[c] = 0 /\ suspended[c] = None
    /\ cpu[BootTask] = 0
    /\ pc[BootTask] \in HoldPcs \ {"get_cpu"} => cpuid[BootTask] = 0
    /\ pc[BootTask] \in {"intr_off", "cache_off", "op", "cache_on", "other_cache_on"} => ~cache[1]
    /\ pc[BootTask] \in {"op", "cache_on"} => ~cache[0]

StartedInv == started => \A t \in Tasks : pc[t] \notin BootPcs

OwnInv ==
  started => \A t \in Tasks :
    /\ pc[t] \in OwnPcs => suspended[cpu[t]] = t /\ cpuid[t] = cpu[t]
    /\ pc[t] \in OwnPcs \ {"intr_off"} => noniram[cpu[t]]
    /\ pc[t] \in {"op", "cache_on"} => ~cache[cpu[t]]

OwnerInv ==
  \A c \in CPU, t \in Tasks : suspended[c] = t =>
    /\ cpu[t] = c
    /\ s_flash_op_mutex = t
    /\ pc[t] \in OwnPcs \cup {"idle", "lock"}

BlkInv ==
  \A c \in CPU :
    /\ blkPc[c] # "out" <=> ipcPc[c] = "run"
    /\ blkPc[c] \in BlkPcs \ {"out", "suspend"} <=> suspended[c] = IpcTask
    /\ blkPc[c] \in {"cache_off", "start", "wait_complete", "cache_on", "intr_on"} => noniram[c]
    /\ blkPc[c] \in {"start", "wait_complete", "cache_on"} => ~cache[c]
    /\ ipcPc[c] \in {"ack_start", "run"} => ipcFunc[c] = c

Picked(c) == ipcPc[c] \in {"read", "ack_start"} \/ blkPc[c] \in EarlyPcs
Pending(c) == s_ipc_sem[c] = 1 \/ Picked(c)

\* t has published its request, and s_flash_op_can_start answers that request.
Published(t) == \/ pc[t] = "ipc" /\ callPc[t] \in {"take_ack", "give_mutex"}
                \/ pc[t] = "wait_start"

PendingInv ==
  \A c \in CPU :
    /\ Pending(c) => /\ ~s_flash_op_can_start
                     /\ s_flash_op_mutex \in Tasks
                     /\ Published(s_flash_op_mutex)
                     /\ cpuid[s_flash_op_mutex] = Other(c)
                     /\ s_func = c
    /\ Picked(c) => s_ipc_sem[c] = 0

FuncInv ==
  \A t \in Tasks :
    /\ pc[t] = "ipc" /\ callPc[t] \in {"give_sem", "take_ack", "give_mutex"}
          => s_func = Other(cpuid[t])
    /\ (\/ pc[t] = "clear_complete"
        \/ pc[t] = "ipc" /\ callPc[t] \in {"take_mutex", "publish", "give_sem"})
          => ~s_flash_op_can_start

ReadyInv ==
  started => \A t \in Tasks :
    /\ pc[t] \in {"ipc", "wait_start"} \cup BothPcs => ~s_flash_op_complete
    /\ (pc[t] \in BothPcs \/ (pc[t] \in {"ipc", "wait_start"} /\ s_flash_op_can_start))
          => blkPc[Other(cpuid[t])] = "wait_complete"

\* Whoever holds the mutex is inside the guard, waits for it again, or is back
\* from spi_flash_write_encrypted.
HoldInv ==
  \A t \in Tasks : s_flash_op_mutex = t =>
    pc[t] \in HoldPcs \cup {"lock"} \/ (pc[t] = "idle" /\ opKind[t] = "encrypted")

\* Who has switched a cache off, and has yet to switch it on again.
CacheInv ==
  ~Abandoned => \A c \in CPU : ~cache[c] =>
    IF started
    THEN \/ blkPc[c] \in {"start", "wait_complete", "cache_on"}
         \/ \E t \in Tasks : pc[t] \in {"op", "cache_on"} /\ cpuid[t] = c
    ELSE pc[BootTask] \in {"op", "cache_on"} \cup
           IF c = 0 THEN {} ELSE {"intr_off", "cache_off", "other_cache_on"}

Inv ==
  /\ TypeOK
  /\ MutexInv /\ CallInv /\ BootInv /\ StartedInv
  /\ OwnInv /\ OwnerInv /\ BlkInv
  /\ PendingInv /\ FuncInv /\ ReadyInv
  /\ HoldInv /\ CacheInv
  /\ CoreIdAssertHolds
-----------------------------------------------------------------------------
\* The sets of control points and the constants' assumptions are used by every leaf.
USE TasksAssumption, FlashAssumption
    DEF CPU, CallPcs, IpcPcs, DisablePcs, EnablePcs, Pcs, BlkPcs, Asserts,
        HoldPcs, OwnPcs, BothPcs, EarlyPcs, StartedPcs, BootPcs

(* The initial state satisfies the inductive invariant: no call in flight, *)
(* caches on, nothing suspended (cache_utils.c:38-48, ipc.c:76-86).        *)
LEMMA InitInv == Init => Inv
<1> SUFFICES ASSUME Init PROVE Inv
  OBVIOUS
<1>1. TypeOK
  BY DEF Init, IpcInit, TypeOK, IpcTypeOK
<1>2. MutexInv /\ CallInv /\ BootInv /\ StartedInv
  BY DEF Init, IpcInit, MutexInv, CallInv, BootInv, StartedInv
<1>3. OwnInv /\ OwnerInv
  BY DEF Init, IpcInit, OwnInv, OwnerInv
<1>4. BlkInv
  BY DEF Init, IpcInit, BlkInv
<1>5. PendingInv /\ FuncInv
  BY DEF Init, IpcInit, PendingInv, Pending, Picked, FuncInv
<1>6. ReadyInv /\ CoreIdAssertHolds
  BY DEF Init, IpcInit, ReadyInv, CoreIdAssertHolds
<1>7. HoldInv /\ CacheInv
  BY DEF Init, IpcInit, HoldInv, CacheInv
<1> QED
  BY <1>1, <1>2, <1>3, <1>4, <1>5, <1>6, <1>7 DEF Inv

\* What every step of the proofs below expands: the invariant and the groups of variables.
USE DEF Inv, TypeOK, IpcTypeOK, MutexInv, CallInv, BootInv, StartedInv, OwnInv,
        OwnerInv, BlkInv, Picked, Pending, Published, PendingInv, FuncInv,
        ReadyInv, HoldInv, CacheInv, Abandoned, CoreIdAssertHolds, Other, ipcVars, ipcShared, sched, flags, hw

(* Every step a task takes inside the flash API preserves the invariant:   *)
(* the lines of the disable and enable functions, the IPC call and the     *)
(* operation itself.                                                       *)
LEMMA ContinueInv == ASSUME Inv, NEW t \in Tasks, Continue(t) PROVE Inv'
<1> USE DEF Step, CanRun
<1>1. CASE Lock(t)
  BY <1>1, SMTT(30) DEF Lock
<1>2. CASE GetCpu(t)
  BY <1>2, SMTT(30) DEF GetCpu
<1>3. CASE OtherCacheOff(t)
  BY <1>3, SMTT(30) DEF OtherCacheOff
<1>4. CASE ClearStart(t)
  <2>1. s_flash_op_can_start' \in BOOLEAN
    BY <1>4, Zenon DEF ClearStart
  <2> QED
    BY <1>4, <2>1, SMTT(30) DEF ClearStart
<1>5. CASE ClearComplete(t)
  <2>1. s_flash_op_complete' \in BOOLEAN
    BY <1>5, Zenon DEF ClearComplete
  <2> QED
    BY <1>5, <2>1, SMTT(30) DEF ClearComplete, CallStep
<1>6. CASE IpcCall(t)
  <2>0. /\ CanRun(t)
        /\ pc[t] = "ipc"
        /\ UNCHANGED <<sched, cpuid, opKind, blkPc, flags, hw, panic>>
    BY <1>6 DEF IpcCall
  <2>1. CASE CallTakeMutex(t) /\ UNCHANGED pc
    BY <2>0, <2>1, SMTT(30) DEF CallTakeMutex, CallStep
  <2>2. CASE CallPublish(t, Other(cpuid[t]), "start") /\ UNCHANGED pc
    BY <2>0, <2>2, SMTT(30) DEF CallPublish, WaitMode, CallStep
  <2>3. CASE CallGiveSem(t, Other(cpuid[t])) /\ UNCHANGED pc
    BY <2>0, <2>3, SMTT(30) DEF CallGiveSem, CallStep
  <2>4. CASE CallTakeAck(t) /\ UNCHANGED pc
    BY <2>0, <2>4, SMTT(30) DEF CallTakeAck, CallStep
  <2>5. CASE CallGiveMutex(t) /\ pc' = [pc EXCEPT ![t] = "wait_start"]
    BY <2>0, <2>5, SMTT(30) DEF CallGiveMutex, CallStep
  <2> QED
    BY <1>6, <2>1, <2>2, <2>3, <2>4, <2>5 DEF IpcCall
<1>7. CASE WaitStart(t)
  BY <1>7, SMTT(30) DEF WaitStart
<1>8. CASE Suspend(t)
  BY <1>8, SMTT(30) DEF Suspend
<1>9. CASE IntrOff(t)
  BY <1>9, SMTT(30) DEF IntrOff, NoniramDisable
<1>10. CASE CacheOff(t)
  BY <1>10, SMTT(30) DEF CacheOff
<1>11. CASE FlashOp(t)
  BY <1>11, SMTT(30) DEF FlashOp
<1>12. CASE EncryptedOp(t)
  BY <1>12, SMTT(30) DEF EncryptedOp
<1>13. CASE CacheOn(t)
  BY <1>13, SMTT(30) DEF CacheOn
<1>14. CASE OtherCacheOn(t)
  BY <1>14, SMTT(30) DEF OtherCacheOn
<1>15. CASE SetComplete(t)
  BY <1>15, SMTT(30) DEF SetComplete
<1>16. CASE Resume(t)
  BY <1>16, SMTT(30) DEF Resume
<1>17. CASE Unlock(t)
  BY <1>17, SMTT(30) DEF Unlock
<1>18. CASE IntrOn(t)
  BY <1>18, SMTT(30) DEF IntrOn, NoniramEnable
<1> QED
  BY <1>1, <1>2, <1>3, <1>4, <1>5, <1>6, <1>7, <1>8, <1>9, <1>10, <1>11, <1>12, <1>13, <1>14, <1>15, <1>16, <1>17, <1>18 DEF Continue

(* Every step of an ipc task, and of the block function it runs, preserves *)
(* the invariant.                                                          *)
LEMMA IpcTaskInv == ASSUME Inv, NEW c \in CPU, IpcTaskNext(c) PROVE Inv'
<1> USE DEF BlkStep, IpcCanRun
<1>1. CASE IpcTaskHead(c)
  <2>0. IpcCanRun(c) /\ UNCHANGED <<sched, pc, cpuid, opKind, flags, hw, panic>>
    BY <1>1 DEF IpcTaskHead
  <2>1. CASE IpcTakeSem(c) /\ UNCHANGED blkPc
    BY <2>0, <2>1, SMTT(30) DEF IpcTakeSem, IpcStep
  <2>2. CASE IpcReadFunc(c) /\ UNCHANGED blkPc
    BY <2>0, <2>2, SMTT(30) DEF IpcReadFunc, IpcStep
  <2>3. CASE IpcAckStart(c) /\ blkPc' = [blkPc EXCEPT ![c] = "suspend"]
    BY <2>0, <2>3, SMTT(30) DEF IpcAckStart, IpcStep
  <2> QED
    BY <1>1, <2>1, <2>2, <2>3 DEF IpcTaskHead
<1>2. CASE BlkSuspend(c)
  BY <1>2, SMTT(30) DEF BlkSuspend
<1>3. CASE BlkIntrOff(c)
  BY <1>3, SMTT(30) DEF BlkIntrOff, NoniramDisable
<1>4. CASE BlkCacheOff(c)
  BY <1>4, SMTT(30) DEF BlkCacheOff
<1>5. CASE BlkSetStart(c)
  BY <1>5, SMTT(30) DEF BlkSetStart
<1>6. CASE BlkWaitComplete(c)
  BY <1>6, SMTT(30) DEF BlkWaitComplete
<1>7. CASE BlkCacheOn(c)
  BY <1>7, SMTT(30) DEF BlkCacheOn
<1>8. CASE BlkIntrOn(c)
  BY <1>8, SMTT(30) DEF BlkIntrOn, NoniramEnable
<1>9. CASE BlkResume(c)
  BY <1>9, SMTT(30) DEF BlkResume, IpcStep
<1>10. CASE IpcTaskTail(c)
  BY <1>10, SMTT(30) DEF IpcTaskTail, IpcAckEnd, IpcStep
<1> QED
  BY <1>1, <1>2, <1>3, <1>4, <1>5, <1>6, <1>7, <1>8, <1>9, <1>10 DEF IpcTaskNext

(* The inductive step: a task entering the API, migrating or continuing,   *)
(* the ipc tasks, and the start of the scheduler.                          *)
LEMMA NextInv == Inv /\ [Next]_vars => Inv'
<1> SUFFICES ASSUME Inv, [Next]_vars PROVE Inv'
  OBVIOUS
<1>1. CASE StartScheduler
  BY <1>1, SMTT(30) DEF StartScheduler
<1>2. ASSUME NEW t \in Tasks, NEW k \in OpKinds, Begin(t, k) PROVE Inv'
  BY <1>2, SMTT(30) DEF Begin, Step, CanRun
<1>3. ASSUME NEW t \in Tasks, Migrate(t) PROVE Inv'
  BY <1>3, SMTT(30) DEF Migrate
<1>4. CASE UNCHANGED vars
  BY <1>4, SMTT(30) DEF vars
<1> QED
  BY <1>1, <1>2, <1>3, <1>4, ContinueInv, IpcTaskInv DEF Next, TaskNext

(* The invariant implies that an operation finds both CPUs quiet.          *)
LEMMA InvFlashSafe == Inv => FlashSafe
  BY SMTT(30) DEF FlashSafe

(* A CPU whose cache is off is in the block function's loop, with its      *)
(* scheduler suspended, or runs the one task at the operation.             *)
LEMMA InvNoFetch == Inv => NoFetchWhileCacheOff
<1> SUFFICES ASSUME Inv, ~Abandoned, started, NEW c \in CPU, ~cache[c]
             PROVE  /\ noniram[c]
                    /\ \A t \in Tasks : cpu[t] = c /\ CanRun(t) => pc[t] \in IramPcs
  BY DEF NoFetchWhileCacheOff
<1>1. CASE blkPc[c] \in {"start", "wait_complete", "cache_on"}
  BY <1>1 DEF CanRun
<1>2. ASSUME NEW u \in Tasks, pc[u] \in {"op", "cache_on"}, cpuid[u] = c
      PROVE  /\ noniram[c]
             /\ \A t \in Tasks : cpu[t] = c /\ CanRun(t) => pc[t] \in IramPcs
  BY <1>2 DEF CanRun, IramPcs
<1> QED
  BY <1>1, <1>2

(* A task that holds the mutex outside the guard has come back from an     *)
(* encrypted write, and only such a task can still have a CPU suspended.   *)
LEMMA InvReturnReleases == Inv => ReturnReleases
  BY DEF ReturnReleases

\* The temporal steps need none of the definitions.
HIDE DEF Inv, TypeOK, CoreIdAssertHolds

(* For every set of tasks: while any of them operates on the flash chip,   *)
(* both caches and the non-IRAM interrupts are off, both schedulers are    *)
(* suspended and no other task operates (cache_utils.c:82-142).            *)
THEOREM FlashSafety == Spec => []FlashSafe
<1>1. Inv /\ [Next]_vars => Inv'
  BY NextInv
<1> QED
  BY InitInv, <1>1, InvFlashSafe, PTL DEF Spec

(* For every set of tasks and through every window of the two functions: a *)
(* CPU whose cache is off runs nothing from flash, unless an encrypted     *)
(* write has abandoned the guard (cache_utils.c:52-142, flash_ops.c:258).  *)
THEOREM NoFetch == Spec => []NoFetchWhileCacheOff
<1>1. Inv /\ [Next]_vars => Inv'
  BY NextInv
<1> QED
  BY InitInv, <1>1, InvNoFetch, PTL DEF Spec

(* Whoever is back from a guarded operation has given back the mutex and   *)
(* both schedulers (cache_utils.c:118-142).                                *)
THEOREM Releases == Spec => []ReturnReleases
<1>1. Inv /\ [Next]_vars => Inv'
  BY NextInv
<1> QED
  BY InitInv, <1>1, InvReturnReleases, PTL DEF Spec

(* Type correctness for every set of tasks.                                *)
THEOREM TypeCorrect == Spec => []TypeOK
<1>1. Inv => TypeOK
  BY DEF Inv
<1> QED
  BY InitInv, NextInv, <1>1, PTL DEF Spec

(* The assertion of cache_utils.c:110 never fails, migration included.     *)
THEOREM CoreIdAssertion == Spec => []CoreIdAssertHolds
<1>1. Inv => CoreIdAssertHolds
  BY DEF Inv
<1> QED
  BY InitInv, NextInv, <1>1, PTL DEF Spec
=============================================================================
