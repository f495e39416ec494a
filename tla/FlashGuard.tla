----------------------------- MODULE FlashGuard -----------------------------
(***************************************************************************)
(* The dual-core guard around SPI flash operations:                        *)
(* components/spi_flash/cache_utils.c, the callers in flash_ops.c, the     *)
(* non-IRAM interrupt mask of esp32/intr_alloc.c and, through module Ipc,  *)
(* the IPC task that runs spi_flash_op_block_func on the other CPU.        *)
(*                                                                         *)
(* While the flash chip is erased, written or read by command, code cannot *)
(* be fetched from it: both caches are off, no task and no interrupt       *)
(* handler located in flash may run on either CPU.                         *)
(*                                                                         *)
(* Scheduling (FreeRTOS, external): a task runs on its CPU unless that     *)
(* CPU's ipc task is active, which has the highest priority, or the CPU's  *)
(* scheduler was suspended by somebody else.  Any ready task of a CPU may  *)
(* be the one that runs: preemption happens between any two steps.         *)
(***************************************************************************)
EXTENDS Ipc

CONSTANTS
  Unpinned,    \* tasks created without core affinity
  Home,        \* the CPU each task starts on
  BootTask,    \* the context that runs before the scheduler is started
  OpKinds,     \* which spi_flash operations the tasks use
  IpcTask      \* owner of a CPU whose scheduler the ipc task suspended

ASSUME FlashAssumption ==
  /\ Unpinned \subseteq Tasks
  /\ Home \in [Tasks -> CPU]
  /\ BootTask \in Tasks
  /\ Home[BootTask] = 0
  /\ BootTask \notin Unpinned
  /\ OpKinds \subseteq {"guarded", "encrypted"}
  /\ IpcTask \notin Tasks \cup {None}

VARIABLES
  started,           \* the scheduler runs (xTaskGetSchedulerState)
  cpu,               \* the CPU each task is on (xPortGetCoreID)
  pc,                \* control point of each task in the flash API
  cpuid,             \* the local constant of the disable function
  opKind,            \* which operation the task performs
  blkPc,             \* control point of spi_flash_op_block_func on each CPU
  suspended,         \* per CPU: who called vTaskSuspendAll, or None
  s_flash_op_mutex,
  s_flash_op_can_start,
  s_flash_op_complete,
  noniram,           \* non_iram_int_disabled_flag, and INTENABLE masked with it
  cache,             \* DPORT_xxx_CACHE_ENABLE of each CPU
  panic              \* the assertion that failed, "none" while all hold

sched == <<started, cpu, suspended>>
flags == <<s_flash_op_mutex, s_flash_op_can_start, s_flash_op_complete>>
hw == <<noniram, cache>>
vars == <<ipcVars, sched, pc, cpuid, opKind, blkPc, flags, hw, panic>>

Other(c) == 1 - c

\* Lines of disable_interrupts_caches_and_other_cpu, the operation itself,
\* and lines of enable_interrupts_caches_and_other_cpu.
DisablePcs == {"lock", "get_cpu", "clear_start", "clear_complete", "ipc",
               "wait_start", "suspend", "other_cache_off", "intr_off", "cache_off"}
EnablePcs == {"cache_on", "other_cache_on", "complete", "resume", "unlock", "intr_on"}
Pcs == {"idle", "op"} \cup DisablePcs \cup EnablePcs
BlkPcs == {"out", "suspend", "intr_off", "cache_off", "start", "wait_complete",
           "cache_on", "intr_on", "resume"}
Asserts == {"none", "core_id", "noniram_disable", "noniram_enable"}

TypeOK ==
  /\ IpcTypeOK(CPU)
  /\ started \in BOOLEAN
  /\ cpu \in [Tasks -> CPU]
  /\ pc \in [Tasks -> Pcs]
  /\ cpuid \in [Tasks -> CPU]
  /\ opKind \in [Tasks -> {"guarded", "encrypted"}]
  /\ blkPc \in [CPU -> BlkPcs]
  /\ suspended \in [CPU -> Tasks \cup {None, IpcTask}]
  /\ s_flash_op_mutex \in Tasks \cup {None}
  /\ s_flash_op_can_start \in BOOLEAN
  /\ s_flash_op_complete \in BOOLEAN
  /\ noniram \in [CPU -> BOOLEAN]
  /\ cache \in [CPU -> BOOLEAN]
  /\ panic \in Asserts

Init ==
  /\ IpcInit
  /\ started = FALSE
  /\ cpu = Home
  /\ pc = [t \in Tasks |-> "idle"]
  /\ cpuid = Home
  /\ opKind = [t \in Tasks |-> "guarded"]
  /\ blkPc = [c \in CPU |-> "out"]
  /\ suspended = [c \in CPU |-> None]
  /\ s_flash_op_mutex = None
  /\ s_flash_op_can_start = FALSE
  /\ s_flash_op_complete = FALSE
  /\ noniram = [c \in CPU |-> FALSE]
  /\ cache = [c \in CPU |-> TRUE]
  /\ panic = "none"

-----------------------------------------------------------------------------
(* FreeRTOS. *)

\* t is, or can be switched in as, the running task of its CPU.
CanRun(t) ==
  /\ panic = "none"
  /\ IF started
     THEN \/ suspended[cpu[t]] = t
          \/ suspended[cpu[t]] = None /\ ipcPc[cpu[t]] = "take_sem"
     ELSE t = BootTask

\* The ipc task of c runs: it preempts every task that did not suspend c.
IpcCanRun(c) ==
  /\ panic = "none"
  /\ started
  /\ suspended[c] \in {None, IpcTask}

Step(t, from, to) ==
  /\ CanRun(t)
  /\ pc[t] = from
  /\ pc' = [pc EXCEPT ![t] = to]

BlkStep(c, from, to) ==
  /\ IpcCanRun(c)
  /\ ipcPc[c] = "run"
  /\ blkPc[c] = from
  /\ blkPc' = [blkPc EXCEPT ![c] = to]

\* A task without affinity is switched out on one CPU and in on the other.
Migrate(t) ==
  /\ panic = "none"
  /\ started
  /\ t \in Unpinned
  /\ suspended[cpu[t]] # t
  /\ suspended[Other(cpu[t])] = None
  /\ ipcPc[Other(cpu[t])] = "take_sem"
  /\ cpu' = [cpu EXCEPT ![t] = Other(@)]
  /\ UNCHANGED <<ipcVars, started, suspended, pc, cpuid, opKind, blkPc, flags, hw, panic>>

\* vTaskStartScheduler: what the boot context did is over.
StartScheduler ==
  /\ ~started
  /\ panic = "none"
  /\ pc[BootTask] = "idle"
  /\ started' = TRUE
  /\ UNCHANGED <<ipcVars, cpu, suspended, pc, cpuid, opKind, blkPc, flags, hw, panic>>

-----------------------------------------------------------------------------
(* spi_flash_disable_interrupts_caches_and_other_cpu. *)

\* A spi_flash_* function is called; its argument checks passed.
Begin(t, kind) ==
  /\ Step(t, "idle", "lock")
  /\ opKind' = [opKind EXCEPT ![t] = kind]
  /\ UNCHANGED <<ipcVars, sched, cpuid, blkPc, flags, hw, panic>>

Lock(t) ==
  /\ Step(t, "lock", "get_cpu")
  /\ s_flash_op_mutex = None
  /\ s_flash_op_mutex' = t
  /\ UNCHANGED <<ipcVars, sched, cpuid, opKind, blkPc, hw, panic,
                 s_flash_op_can_start, s_flash_op_complete>>

GetCpu(t) ==
  /\ Step(t, "get_cpu", IF started THEN "clear_start" ELSE "other_cache_off")
  /\ cpuid' = [cpuid EXCEPT ![t] = cpu[t]]
  /\ UNCHANGED <<ipcVars, sched, opKind, blkPc, flags, hw, panic>>

\* Scheduler not started: the APP CPU is in reset or spins in IRAM.
OtherCacheOff(t) ==
  /\ Step(t, "other_cache_off", "intr_off")
  /\ cache' = [cache EXCEPT ![Other(cpuid[t])] = FALSE]
  /\ UNCHANGED <<ipcVars, sched, cpuid, opKind, blkPc, flags, noniram, panic>>

\* Mutant: the flag of the previous operation is not reset.
ClearStart_Missing(t) ==
  /\ Step(t, "clear_start", "clear_complete")
  /\ UNCHANGED <<ipcVars, sched, cpuid, opKind, blkPc, flags, hw, panic>>

ClearStart(t) ==
  /\ Step(t, "clear_start", "clear_complete")
  /\ s_flash_op_can_start' = FALSE
  /\ UNCHANGED <<ipcVars, sched, cpuid, opKind, blkPc, hw, panic,
                 s_flash_op_mutex, s_flash_op_complete>>

ClearComplete(t) ==
  /\ Step(t, "clear_complete", "ipc")
  /\ CallStep(t, "out", "take_mutex")
  /\ s_flash_op_complete' = FALSE
  /\ UNCHANGED <<ipcShared, ipcPc, ipcFunc, sched, cpuid, opKind, blkPc, hw, panic,
                 s_flash_op_mutex, s_flash_op_can_start>>

\* esp_ipc_call(other_cpuid, &spi_flash_op_block_func, other_cpuid).
IpcCall(t) ==
  /\ CanRun(t)
  /\ pc[t] = "ipc"
  /\ \/ CallTakeMutex(t) /\ UNCHANGED pc
     \/ CallPublish(t, Other(cpuid[t]), "start") /\ UNCHANGED pc
     \/ CallGiveSem(t, Other(cpuid[t])) /\ UNCHANGED pc
     \/ CallTakeAck(t) /\ UNCHANGED pc
     \/ CallGiveMutex(t) /\ pc' = [pc EXCEPT ![t] = "wait_start"]
  /\ UNCHANGED <<sched, cpuid, opKind, blkPc, flags, hw, panic>>

WaitStart(t) ==
  /\ Step(t, "wait_start", "suspend")
  /\ s_flash_op_can_start
  /\ UNCHANGED <<ipcVars, sched, cpuid, opKind, blkPc, flags, hw, panic>>

\* Mutant: the scheduler of the caller's own CPU keeps running.
Suspend_Missing(t) ==
  /\ Step(t, "suspend", "intr_off")
  /\ panic' = IF cpu[t] = cpuid[t] THEN panic ELSE "core_id"
  /\ UNCHANGED <<ipcVars, sched, cpuid, opKind, blkPc, flags, hw>>

\* vTaskSuspendAll, then assert(xPortGetCoreID() == cpuid).
Suspend(t) ==
  /\ Step(t, "suspend", "intr_off")
  /\ suspended' = [suspended EXCEPT ![cpu[t]] = t]
  /\ panic' = IF cpu[t] = cpuid[t] THEN panic ELSE "core_id"
  /\ UNCHANGED <<ipcVars, started, cpu, cpuid, opKind, blkPc, flags, hw>>

\* esp_intr_noniram_disable on the CPU that executes it.
NoniramDisable(c) ==
  /\ panic' = IF noniram[c] THEN "noniram_disable" ELSE panic
  /\ noniram' = [noniram EXCEPT ![c] = TRUE]

IntrOff(t) ==
  /\ Step(t, "intr_off", "cache_off")
  /\ NoniramDisable(cpu[t])
  /\ UNCHANGED <<ipcVars, sched, cpuid, opKind, blkPc, flags, cache>>

CacheOff(t) ==
  /\ Step(t, "cache_off", "op")
  /\ cache' = [cache EXCEPT ![cpuid[t]] = FALSE]
  /\ UNCHANGED <<ipcVars, sched, cpuid, opKind, blkPc, flags, noniram, panic>>

-----------------------------------------------------------------------------
(* The operation, and spi_flash_enable_interrupts_caches_and_other_cpu. *)

\* Mutant: an error of the ROM routine returns past the enable function.
FlashOp_EarlyReturn(t) ==
  /\ CanRun(t)
  /\ pc[t] = "op"
  /\ opKind[t] = "guarded"
  /\ \E to \in {"cache_on", "idle"} : pc' = [pc EXCEPT ![t] = to]
  /\ cpuid' = [cpuid EXCEPT ![t] = cpu[t]]
  /\ UNCHANGED <<ipcVars, sched, opKind, blkPc, flags, hw, panic>>

\* The ROM routine returns; cpuid is read again by the enable function.
FlashOp(t) ==
  /\ Step(t, "op", "cache_on")
  /\ opKind[t] = "guarded"
  /\ cpuid' = [cpuid EXCEPT ![t] = cpu[t]]
  /\ UNCHANGED <<ipcVars, sched, opKind, blkPc, flags, hw, panic>>

\* spi_flash_write_encrypted returns to its caller without the enable call.
EncryptedOp(t) ==
  /\ Step(t, "op", "idle")
  /\ opKind[t] = "encrypted"
  /\ UNCHANGED <<ipcVars, sched, cpuid, opKind, blkPc, flags, hw, panic>>

CacheOn(t) ==
  /\ Step(t, "cache_on", IF started THEN "complete" ELSE "other_cache_on")
  /\ cache' = [cache EXCEPT ![cpuid[t]] = TRUE]
  /\ UNCHANGED <<ipcVars, sched, cpuid, opKind, blkPc, flags, noniram, panic>>

OtherCacheOn(t) ==
  /\ Step(t, "other_cache_on", "unlock")
  /\ cache' = [cache EXCEPT ![Other(cpuid[t])] = TRUE]
  /\ UNCHANGED <<ipcVars, sched, cpuid, opKind, blkPc, flags, noniram, panic>>

\* Mutant: wait for the other CPU to take back its flag, which it never does.
SetComplete_Handshake(t) ==
  /\ Step(t, "complete", "resume")
  /\ ~s_flash_op_can_start
  /\ s_flash_op_complete' = TRUE
  /\ UNCHANGED <<ipcVars, sched, cpuid, opKind, blkPc, hw, panic,
                 s_flash_op_mutex, s_flash_op_can_start>>

SetComplete(t) ==
  /\ Step(t, "complete", "resume")
  /\ s_flash_op_complete' = TRUE
  /\ UNCHANGED <<ipcVars, sched, cpuid, opKind, blkPc, hw, panic,
                 s_flash_op_mutex, s_flash_op_can_start>>

Resume(t) ==
  /\ Step(t, "resume", "unlock")
  /\ suspended' = [suspended EXCEPT ![cpu[t]] = None]
  /\ UNCHANGED <<ipcVars, started, cpu, cpuid, opKind, blkPc, flags, hw, panic>>

Unlock(t) ==
  /\ Step(t, "unlock", "intr_on")
  /\ s_flash_op_mutex' = None
  /\ UNCHANGED <<ipcVars, sched, cpuid, opKind, blkPc, hw, panic,
                 s_flash_op_can_start, s_flash_op_complete>>

\* esp_intr_noniram_enable on the CPU that executes it.
NoniramEnable(c) ==
  /\ panic' = IF noniram[c] THEN panic ELSE "noniram_enable"
  /\ noniram' = [noniram EXCEPT ![c] = FALSE]

IntrOn(t) ==
  /\ Step(t, "intr_on", "idle")
  /\ NoniramEnable(cpu[t])
  /\ UNCHANGED <<ipcVars, sched, cpuid, opKind, blkPc, flags, cache>>

-----------------------------------------------------------------------------
(* The ipc task of CPU c; the function it is given is always               *)
(* spi_flash_op_block_func, its argument ipcFunc[c] the CPU to block.      *)

IpcTaskHead(c) ==
  /\ IpcCanRun(c)
  /\ \/ IpcTakeSem(c) /\ UNCHANGED blkPc
     \/ IpcReadFunc(c) /\ UNCHANGED blkPc
     \/ IpcAckStart(c) /\ blkPc' = [blkPc EXCEPT ![c] = "suspend"]
  /\ UNCHANGED <<sched, pc, cpuid, opKind, flags, hw, panic>>

BlkSuspend(c) ==
  /\ BlkStep(c, "suspend", "intr_off")
  /\ suspended' = [suspended EXCEPT ![c] = IpcTask]
  /\ UNCHANGED <<ipcVars, started, cpu, pc, cpuid, opKind, flags, hw, panic>>

BlkIntrOff(c) ==
  /\ BlkStep(c, "intr_off", "cache_off")
  /\ NoniramDisable(c)
  /\ UNCHANGED <<ipcVars, sched, pc, cpuid, opKind, flags, cache>>

BlkCacheOff(c) ==
  /\ BlkStep(c, "cache_off", "start")
  /\ cache' = [cache EXCEPT ![ipcFunc[c]] = FALSE]
  /\ UNCHANGED <<ipcVars, sched, pc, cpuid, opKind, flags, noniram, panic>>

BlkSetStart(c) ==
  /\ BlkStep(c, "start", "wait_complete")
  /\ s_flash_op_can_start' = TRUE
  /\ UNCHANGED <<ipcVars, sched, pc, cpuid, opKind, hw, panic,
                 s_flash_op_mutex, s_flash_op_complete>>

\* Mutant: the block function does not wait for the operation to complete.
BlkWaitComplete_Missing(c) ==
  /\ BlkStep(c, "wait_complete", "cache_on")
  /\ UNCHANGED <<ipcVars, sched, pc, cpuid, opKind, flags, hw, panic>>

BlkWaitComplete(c) ==
  /\ BlkStep(c, "wait_complete", "cache_on")
  /\ s_flash_op_complete
  /\ UNCHANGED <<ipcVars, sched, pc, cpuid, opKind, flags, hw, panic>>

BlkCacheOn(c) ==
  /\ BlkStep(c, "cache_on", "intr_on")
  /\ cache' = [cache EXCEPT ![ipcFunc[c]] = TRUE]
  /\ UNCHANGED <<ipcVars, sched, pc, cpuid, opKind, flags, noniram, panic>>

BlkIntrOn(c) ==
  /\ BlkStep(c, "intr_on", "resume")
  /\ NoniramEnable(c)
  /\ UNCHANGED <<ipcVars, sched, pc, cpuid, opKind, flags, cache>>

BlkResume(c) ==
  /\ BlkStep(c, "resume", "out")
  /\ IpcStep(c, "run", "ack_end")
  /\ suspended' = [suspended EXCEPT ![c] = None]
  /\ UNCHANGED <<ipcShared, callPc, ipcFunc, started, cpu, pc, cpuid, opKind, flags, hw, panic>>

IpcTaskTail(c) ==
  /\ IpcCanRun(c)
  /\ IpcAckEnd(c)
  /\ UNCHANGED <<sched, pc, cpuid, opKind, blkPc, flags, hw, panic>>

-----------------------------------------------------------------------------
\* A task's steps inside the API, and entering it.
Continue(t) ==
  \/ Lock(t) \/ GetCpu(t) \/ OtherCacheOff(t) \/ ClearStart(t) \/ ClearComplete(t)
  \/ IpcCall(t) \/ WaitStart(t) \/ Suspend(t) \/ IntrOff(t) \/ CacheOff(t)
  \/ FlashOp(t) \/ EncryptedOp(t)
  \/ CacheOn(t) \/ OtherCacheOn(t) \/ SetComplete(t) \/ Resume(t) \/ Unlock(t) \/ IntrOn(t)

TaskNext(t) == Continue(t) \/ (\E k \in OpKinds : Begin(t, k)) \/ Migrate(t)

IpcTaskNext(c) ==
  \/ IpcTaskHead(c) \/ BlkSuspend(c) \/ BlkIntrOff(c) \/ BlkCacheOff(c) \/ BlkSetStart(c)
  \/ BlkWaitComplete(c) \/ BlkCacheOn(c) \/ BlkIntrOn(c) \/ BlkResume(c) \/ IpcTaskTail(c)

Next ==
  \/ StartScheduler
  \/ \E t \in Tasks : TaskNext(t)
  \/ \E c \in CPU : IpcTaskNext(c)

(* The ipc tasks have the highest priority and never sleep in a call; the  *)
(* tasks are scheduled often enough (round robin within a priority), and   *)
(* s_flash_op_mutex serves its waiters.  A task that is preempted and      *)
(* resumed again and again still advances: strong fairness.                *)
Fairness ==
  /\ \A c \in CPU : WF_vars(IpcTaskNext(c))
  /\ \A t \in Tasks : SF_vars(Continue(t))

Spec == Init /\ [][Next]_vars /\ Fairness

-----------------------------------------------------------------------------
(* While a task operates on the flash chip nothing can fetch from it:      *)
(* both caches are off; once the scheduler runs, non-IRAM interrupts are   *)
(* off on both CPUs, its own CPU's scheduler is suspended by the task and  *)
(* the other's by the ipc task; and no second task is in an operation      *)
(* (cache_utils.c:82-116).                                                 *)
FlashSafe ==
  \A t \in Tasks : pc[t] = "op" =>
    /\ \A c \in CPU : ~cache[c]
    /\ started => /\ \A c \in CPU : noniram[c]
                  /\ suspended[cpu[t]] = t
                  /\ suspended[Other(cpu[t])] = IpcTask
    /\ \A u \in Tasks : pc[u] = "op" => u = t

(* A CPU whose cache is off executes nothing located in flash: neither a   *)
(* task outside the IRAM part of the guard nor, once the scheduler runs, a *)
(* non-IRAM interrupt handler.  Holds through every window of the two      *)
(* functions, not just during the operation; only a return from            *)
(* spi_flash_write_encrypted, which abandons the guard (flash_ops.c:258),  *)
(* is excepted.                                                            *)
IramPcs == {"op", "cache_on", "intr_off", "cache_off"}
Abandoned == \E t \in Tasks : s_flash_op_mutex = t /\ pc[t] \in {"idle", "lock"}

NoFetchWhileCacheOff ==
  panic = "none" /\ ~Abandoned =>
    \A c \in CPU : ~cache[c] /\ started =>
      /\ noniram[c]
      /\ \A t \in Tasks : cpu[t] = c /\ CanRun(t) => pc[t] \in IramPcs

(* The assertion of cache_utils.c:110, "guaranteed to run on CPU <cpuid>   *)
(* because the other CPU is now occupied by highest priority task": true   *)
(* although the task may migrate between reading cpuid and suspending.     *)
CoreIdAssertHolds == panic # "core_id"

(* A task that reached the flash operation returns from the API call, or   *)
(* an assertion fails: nothing after the operation can block it for good.  *)
OpReturns ==
  \A t \in Tasks : pc[t] = "op" ~> (pc[t] = "idle" \/ panic # "none")

(* Once an API call has returned its task does not hold s_flash_op_mutex   *)
(* and has no CPU suspended; spi_flash_write_encrypted does not do this.   *)
ReturnReleases ==
  \A t \in Tasks : pc[t] = "idle" /\ opKind[t] = "guarded" =>
    /\ s_flash_op_mutex # t
    /\ \A c \in CPU : suspended[c] # t

(* The assertions of intr_alloc.c:694 and 712, and cache_utils.c:110.      *)
NoAssertFails == panic = "none"

(* README.rst of spi_flash: s_flash_op_complete is set "to let the task on *)
(* CPU B know that it can re-enable cache and release the CPU".            *)
OtherCpuReleased ==
  \A c \in CPU :
    (blkPc[c] = "wait_complete" /\ s_flash_op_complete) ~> (blkPc[c] # "wait_complete")
=============================================================================
