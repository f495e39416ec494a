-------------------------------- MODULE Locks --------------------------------
(***************************************************************************)
(* The locks of components/newlib/locks.c that do not nest.  A lock is a   *)
(* FreeRTOS mutex that the first acquirer creates; until the scheduler     *)
(* runs, locks do nothing.  Module Sha uses them.                          *)
(*                                                                         *)
(* lock_init_generic runs in a critical section and is one step; the read  *)
(* of *lock before it, the wait for the mutex and its callers are others.  *)
(***************************************************************************)
EXTENDS Naturals, Sequences

CONSTANTS
  Tasks,
  BootTask,   \* the one that runs until the scheduler starts, and no longer
  LockNames,
  NOBODY

ASSUME LocksAssumption == BootTask \in Tasks /\ NOBODY \notin Tasks

VARIABLES
  started,    \* xTaskGetSchedulerState() # taskSCHEDULER_NOT_STARTED
  lock,       \* *lock: 0 or the number of one of its mutexes
  mutex,      \* per lock the holders of all mutexes created for it
  call        \* per task the call of lock_acquire_generic it is in

lockVars == <<started, lock, mutex, call>>

Runs(t) == started <=> t # BootTask
FOREVER == 1      \* portMAX_DELAY; the other delay in use is 0
NoCall == [lock |-> CHOOSE l \in LockNames : TRUE, delay |-> 0, h |-> 0, step |-> "none"]

LocksTypeOK ==
  /\ started \in BOOLEAN
  /\ lock \in [LockNames -> {0, 1}]
  /\ mutex \in [LockNames -> Seq(Tasks \cup {NOBODY})]
  /\ \A l \in LockNames : Len(mutex[l]) = lock[l]
  /\ call \in [Tasks -> [lock : LockNames, delay : {0, FOREVER}, h : {0, 1},
                         step : {"none", "init", "take", "success", "failure"}]]

LocksInit ==
  /\ started = FALSE
  /\ lock = [l \in LockNames |-> 0]
  /\ mutex = [l \in LockNames |-> <<>>]
  /\ call = [t \in Tasks |-> NoCall]

\* vTaskStartScheduler
SchedulerStarts ==
  /\ ~ started
  /\ started' = TRUE
  /\ UNCHANGED <<lock, mutex, call>>

\* The first lines of lock_acquire_generic, up to the lazy initialisation.
lock_acquire(t, l, delay) ==
  /\ call' = [call EXCEPT ![t] =
                [lock |-> l, delay |-> delay, h |-> lock[l],
                 step |-> CASE lock[l] # 0 -> "take"
                            [] lock[l] = 0 /\ started -> "init"
                            [] OTHER -> "success"]]
  /\ UNCHANGED <<started, lock, mutex>>

\* Mutant: the lock is not looked at again under lock_init_spinlock.
lock_init_generic_NoRecheck(t) ==
  LET l == call[t].lock IN
  /\ call[t].step = "init"
  /\ mutex' = [mutex EXCEPT ![l] = Append(@, NOBODY)]
  /\ lock' = [lock EXCEPT ![l] = Len(mutex[l]) + 1]
  /\ call' = [call EXCEPT ![t].h = lock'[l], ![t].step = "take"]
  /\ UNCHANGED started

\* Another task may have created the mutex meanwhile.
lock_init_generic(t) ==
  LET l == call[t].lock IN
  /\ call[t].step = "init"
  /\ mutex' = IF lock[l] = 0 THEN [mutex EXCEPT ![l] = Append(@, NOBODY)] ELSE mutex
  /\ lock' = IF lock[l] = 0 THEN [lock EXCEPT ![l] = Len(mutex[l]) + 1] ELSE lock
  /\ call' = [call EXCEPT ![t].h = lock'[l], ![t].step = "take"]
  /\ UNCHANGED started

\* xSemaphoreTake succeeds when the mutex is free, and fails at once only
\* when it may not wait.
SemaphoreTake(t) ==
  LET l == call[t].lock
      h == call[t].h IN
  /\ call[t].step = "take"
  /\ \/ /\ mutex[l][h] = NOBODY
        /\ mutex' = [mutex EXCEPT ![l][h] = t]
        /\ call' = [call EXCEPT ![t].step = "success"]
     \/ /\ mutex[l][h] # NOBODY /\ call[t].delay = 0
        /\ call' = [call EXCEPT ![t].step = "failure"]
        /\ UNCHANGED mutex
  /\ UNCHANGED <<started, lock>>

\* Nothing happens to a lock without a mutex.
lock_release(l) ==
  /\ mutex' = IF lock[l] = 0 THEN mutex ELSE [mutex EXCEPT ![l][lock[l]] = NOBODY]
  /\ UNCHANGED <<started, lock, call>>

\* The call has returned to its caller.
Return(t) == call' = [call EXCEPT ![t] = NoCall] /\ UNCHANGED <<started, lock, mutex>>

Acquired(t, l) == call[t].lock = l /\ call[t].step = "success"
Refused(t, l) == call[t].lock = l /\ call[t].step = "failure"
=============================================================================
