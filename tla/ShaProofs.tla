----------------------------- MODULE ShaProofs -----------------------------
(***************************************************************************)
(* Proofs about Sha, for every set of tasks and of engines and messages of *)
(* any length.                                                             *)
(*                                                                         *)
(* The argument: a task that has a lock is the holder of the one mutex     *)
(* that was ever created for it, or the boot task before the scheduler     *)
(* runs (HoldInv, BootInv), so no two have the same one.  Hence the flag   *)
(* of an engine tells whether its one user uses it (InUseInv), the block a *)
(* task put into the memory is still there when its engine is started and  *)
(* until it was read (TextInv), and an engine that kept its power has read *)
(* the blocks of its user (DigestInv).                                     *)
(***************************************************************************)
EXTENDS Sha, SequenceTheorems, TLAPS

\* The calls of lock_acquire_generic and the control points around them.
Waiting == {"engine", "state", "b_memory", "r_memory", "u_state"}

\* A task is in a call where it waits for a lock, and for that lock.
CallInv ==
  \A t \in Tasks :
    /\ call[t].step = "none" <=> pc[t] \notin Waiting
    /\ pc[t] = "engine" => call[t].lock = engine[t]
    /\ pc[t] \in {"state", "u_state"} => call[t].lock = "state_change_lock"
    /\ pc[t] \in {"b_memory", "r_memory"} => call[t].lock = "memory_block_lock"
    /\ call[t].step = "take" => call[t].h = 1 /\ lock[call[t].lock] = 1

\* Only the boot task runs before the scheduler, and only then.
BootInv == \A t \in Tasks : Runs(t) \/ pc[t] = "idle"

Has(t, l) == \/ HasEngine(t) /\ engine[t] = l
             \/ HasState(t) /\ l = "state_change_lock"
             \/ HasMemory(t) /\ l = "memory_block_lock"
             \/ call[t].step = "success" /\ call[t].lock = l

\* A task that has a lock holds its one mutex.
HoldInv ==
  started => \A t \in Tasks, l \in LockNames : Has(t, l) => lock[l] = 1 /\ mutex[l][1] = t

Using == Owning \cup {"u_state"}

\* in_use is set for the engines in use, and for no other.
InUseInv ==
  /\ \A t \in Tasks : HasEngine(t) => (in_use[engine[t]] <=> pc[t] \in Using)
  /\ \A e \in Engines : in_use[e] => \E t \in Tasks : pc[t] \in Using /\ engine[t] = e

\* The block in the shared memory is not touched before it is read.
TextInv ==
  \A t \in Tasks :
    /\ pc[t] = "b_start" => busy = {} /\ text = <<t, sent[t] + 1>>
    /\ pc[t] \in {"b_memory", "b_start"} => sent[t] < MaxBlocks
    /\ pc[t] \in {"r_memory", "r_release"} => sent[t] > 0

\* An engine that kept its power has read the blocks its task sent, but for
\* the one it is reading.
DigestInv ==
  \A t \in Tasks :
    pc[t] \in Owning /\ engine[t] \notin cut =>
      /\ powered
      /\ sent[t] > 0 /\ engine[t] \in busy
           => text = <<t, sent[t]>> /\ digest[engine[t]] = Blocks(t, sent[t] - 1)
      /\ sent[t] > 0 /\ engine[t] \notin busy => digest[engine[t]] = Blocks(t, sent[t])
      /\ pc[t] = "r_release" => seen[t] = Blocks(t, sent[t])

LockInv == TypeOK /\ CallInv /\ BootInv /\ HoldInv

Inv == LockInv /\ InUseInv /\ TextInv /\ DigestInv
-----------------------------------------------------------------------------
USE LocksAssumption, ShaAssumption
    DEF FOREVER, Waiting, Inner, Owning, Unlocking, Using, HasEngine, HasState, HasMemory

(* The call record outside of a call, and the engine of a task without one *)
(* are well-formed.                                                        *)
LEMMA Defaults == /\ NoCall.lock \in LockNames /\ NoCall.step = "none" /\ NoEngine \in Engines
                  /\ NoCall \in [lock : LockNames, delay : {0, FOREVER}, h : {0, 1},
                                 step : {"none", "init", "take", "success", "failure"}]
  BY DEF NoCall, NoEngine

(* What one entry of a lock holds is what a task that has it put there, so *)
(* two tasks never have the same lock.                                     *)
LEMMA HasUnique ==
  ASSUME LockInv, NEW t \in Tasks, NEW u \in Tasks, NEW l \in LockNames, Has(t, l), Has(u, l)
  PROVE  t = u
<1>1. \A v \in Tasks : Has(v, l) => Runs(v)
  BY DEF LockInv, BootInv, CallInv, Has
<1> QED
  BY <1>1 DEF LockInv, HoldInv, Runs

(* What a call of lock_acquire_generic leaves in the record of the call:   *)
(* the lock is obtained at once only before the scheduler runs.            *)
LEMMA AcquireEffect ==
  ASSUME TypeOK, NEW t \in Tasks, NEW l \in LockNames, NEW d \in {0, FOREVER}, lock_acquire(t, l, d)
  PROVE  /\ LocksTypeOK' /\ started' = started /\ lock' = lock /\ mutex' = mutex
         /\ call'[t].lock = l /\ call'[t].step \in {"init", "take", "success"}
         /\ started => call'[t].step # "success"
         /\ call'[t].step = "take" => call'[t].h = 1 /\ lock[l] = 1
         /\ \A u \in Tasks \ {t} : call'[u] = call[u]
<1> DEFINE s == CASE lock[l] # 0 -> "take"
                  [] lock[l] = 0 /\ started -> "init"
                  [] OTHER -> "success"
           r == [lock |-> l, delay |-> d, h |-> lock[l], step |-> s]
<1>1. /\ s \in {"init", "take", "success"} /\ (started => s # "success") /\ (s = "take" => lock[l] = 1)
      /\ lock[l] \in {0, 1}
  BY DEF TypeOK, LocksTypeOK
<1> HIDE DEF s
<1>2. r \in [lock : LockNames, delay : {0, FOREVER}, h : {0, 1},
             step : {"none", "init", "take", "success", "failure"}]
  BY <1>1
<1>3. call' = [call EXCEPT ![t] = r] /\ started' = started /\ lock' = lock /\ mutex' = mutex
  BY DEF lock_acquire, s
<1>4. r.lock = l /\ r.step = s /\ r.h = lock[l]
  OBVIOUS
<1> HIDE DEF r
<1>5. call'[t] = r /\ \A u \in Tasks \ {t} : call'[u] = call[u]
  BY <1>3 DEF TypeOK, LocksTypeOK
<1> QED
  BY <1>1, <1>2, <1>3, <1>4, <1>5 DEF TypeOK, LocksTypeOK

(* The return of a call.                                                   *)
LEMMA ReturnEffect ==
  ASSUME TypeOK, NEW t \in Tasks, Return(t)
  PROVE  /\ LocksTypeOK' /\ started' = started /\ lock' = lock /\ mutex' = mutex
         /\ call'[t].step = "none" /\ \A u \in Tasks \ {t} : call'[u] = call[u]
  BY Defaults DEF TypeOK, LocksTypeOK, Return

(* A release frees the one mutex of the lock, and no other.                *)
LEMMA ReleaseEffect ==
  ASSUME TypeOK, NEW l \in LockNames, lock_release(l)
  PROVE  /\ LocksTypeOK' /\ started' = started /\ lock' = lock /\ call' = call
         /\ \A k \in LockNames \ {l} : mutex'[k] = mutex[k]
<1> DEFINE S == Tasks \cup {NOBODY}
<1>1. mutex \in [LockNames -> Seq(S)] /\ NOBODY \in S /\ \A k \in LockNames : Len(mutex[k]) = lock[k]
  BY DEF TypeOK, LocksTypeOK
<1>2. started' = started /\ lock' = lock /\ call' = call
  BY DEF lock_release
<1>3. CASE lock[l] = 0
  BY <1>1, <1>2, <1>3 DEF lock_release, TypeOK, LocksTypeOK
<1>4. CASE lock[l] = 1
  <2> DEFINE m == [mutex[l] EXCEPT ![1] = NOBODY]
  <2>1. m \in Seq(S) /\ Len(m) = 1
    <3> HIDE DEF S
    <3>1. mutex[l] \in Seq(S) /\ Len(mutex[l]) = 1
      BY <1>1, <1>4
    <3>2. 1 \in 1 .. Len(mutex[l])
      BY <3>1
    <3> QED
      BY <1>1, <3>1, <3>2, ExceptSeq
  <2>2. mutex' = [mutex EXCEPT ![l] = m]
    BY <1>4 DEF lock_release
  <2> HIDE DEF m
  <2> QED
    BY <1>1, <1>2, <1>4, <2>1, <2>2 DEF TypeOK, LocksTypeOK
<1> QED
  BY <1>3, <1>4 DEF TypeOK, LocksTypeOK

(* What a task has depends on its own state.                               *)
LEMMA OtherHas ==
  ASSUME NEW u \in Tasks, pc'[u] = pc[u], engine'[u] = engine[u], call'[u] = call[u]
  PROVE  \A l \in LockNames : Has(u, l)' <=> Has(u, l)
  BY DEF Has

(* A step that takes no lock and gives none back keeps every mutex with    *)
(* the task that has it.                                                   *)
LEMMA HoldKept ==
  ASSUME LockInv, started' = started, lock' = lock, mutex' = mutex,
         started => \A u \in Tasks, l \in LockNames : Has(u, l)' => Has(u, l)
  PROVE  HoldInv'
  BY DEF LockInv, HoldInv

(* So does a step by which the task that has a lock gives it back.         *)
LEMMA HoldReleased ==
  ASSUME LockInv, NEW t \in Tasks, NEW k \in LockNames, Has(t, k), lock_release(k),
         \A l \in LockNames : Has(t, l)' => Has(t, l) /\ l # k,
         \A u \in Tasks \ {t}, l \in LockNames : Has(u, l)' => Has(u, l)
  PROVE  HoldInv'
<1>1. \A u \in Tasks, l \in LockNames : Has(u, l)' => Has(u, l) /\ l # k
  BY HasUnique
<1>2. started' = started /\ lock' = lock /\ \A l \in LockNames \ {k} : mutex'[l] = mutex[l]
  BY ReleaseEffect DEF LockInv
<1> QED
  BY <1>1, <1>2 DEF LockInv, HoldInv

(* The steps that call lock_acquire_generic.                               *)
LEMMA AcquireInv ==
  ASSUME LockInv, NEW t \in Tasks, Decide(t) \/ LockInner(t)
  PROVE  LockInv'
<1> DEFINE Acq(l, d, there, e) ==
      /\ lock_acquire(t, l, d) /\ Runs(t) /\ pc' = [pc EXCEPT ![t] = there]
      /\ engine' = [engine EXCEPT ![t] = e]
      /\ UNCHANGED <<in_use, hwVars, sent, seen, cut>>
<1>1. ASSUME NEW l \in LockNames, NEW d \in {0, FOREVER}, NEW there \in Waiting, NEW e \in Engines,
             Acq(l, d, there, e),
             there = "engine" => l = e,
             there \in {"state", "u_state"} => l = "state_change_lock",
             there \in {"b_memory", "r_memory"} => l = "memory_block_lock",
             there # "engine" => Has(t, e)
      PROVE  LockInv'
  <2>1. /\ LocksTypeOK' /\ started' = started /\ lock' = lock /\ mutex' = mutex
        /\ call'[t].lock = l /\ call'[t].step \in {"init", "take", "success"}
        /\ started => call'[t].step # "success"
        /\ call'[t].step = "take" => call'[t].h = 1 /\ lock[l] = 1
        /\ \A u \in Tasks \ {t} : call'[u] = call[u]
    BY <1>1, AcquireEffect DEF LockInv
  <2>2. /\ pc'[t] = there /\ engine'[t] = e /\ \A u \in Tasks \ {t} : pc'[u] = pc[u] /\ engine'[u] = engine[u]
        /\ TypeOK'
    BY <1>1, <2>1 DEF LockInv, TypeOK, hwVars
  <2>3. CallInv'
    BY <2>1, <2>2, <1>1 DEF LockInv, CallInv
  <2>4. BootInv'
    BY <2>1, <2>2, <1>1 DEF LockInv, BootInv, Runs
  <2>5. \A u \in Tasks \ {t}, k \in LockNames : Has(u, k)' <=> Has(u, k)
    BY <2>1, <2>2, OtherHas
  <2>6. started => \A k \in LockNames : Has(t, k)' => Has(t, k)
    BY <2>1, <2>2, <1>1 DEF Has
  <2>7. HoldInv'
    BY <2>1, <2>5, <2>6, HoldKept
  <2> QED
    BY <2>2, <2>3, <2>4, <2>7 DEF LockInv
<1>2. engine = [engine EXCEPT ![t] = engine[t]] /\ engine[t] \in Engines
  BY DEF LockInv, TypeOK
<1>3. ASSUME NEW e \in Engines, NEW d \in {0, FOREVER}, esp_sha_lock_engine(t, e, d) PROVE LockInv'
  <2>1. Acq(e, d, "engine", e)
    BY <1>3 DEF esp_sha_lock_engine, At
  <2> QED
    BY <1>1, <2>1
<1>4. CASE LockInner(t)
  <2>1. Acq("state_change_lock", FOREVER, "state", engine[t]) /\ Has(t, engine[t])
    BY <1>4, <1>2 DEF LockInner, At, taskVars, Acquired, Has
  <2> QED
    BY <1>1, <1>2, <2>1
<1>5. CASE esp_sha_block(t)
  <2>1. Acq("memory_block_lock", FOREVER, "b_memory", engine[t]) /\ Has(t, engine[t])
    BY <1>5, <1>2 DEF esp_sha_block, At, taskVars, Has
  <2> QED
    BY <1>1, <1>2, <2>1
<1>6. CASE esp_sha_read_digest_state(t)
  <2>1. Acq("memory_block_lock", FOREVER, "r_memory", engine[t]) /\ Has(t, engine[t])
    BY <1>6, <1>2 DEF esp_sha_read_digest_state, At, taskVars, Has
  <2> QED
    BY <1>1, <1>2, <2>1
<1>7. CASE esp_sha_unlock_engine(t)
  <2>1. Acq("state_change_lock", FOREVER, "u_state", engine[t]) /\ Has(t, engine[t])
    BY <1>7, <1>2 DEF esp_sha_unlock_engine, At, taskVars, Has
  <2> QED
    BY <1>1, <1>2, <2>1
<1> QED
  BY <1>3, <1>4, <1>5, <1>6, <1>7 DEF Decide

(* The steps by which such a call returns, with the lock or without.       *)
LEMMA ReturnInv ==
  ASSUME Inv, NEW t \in Tasks,
         TryFails(t) \/ EnableHardware(t) \/ FillBlock(t) \/ LoadDigest(t) \/ ClearInUse(t)
  PROVE  LockInv'
<1>1. Return(t) /\ Runs(t) /\ TypeOK
  BY DEF TryFails, EnableHardware, FillBlock, LoadDigest, ClearInUse, At, Inv, LockInv
<1>2. /\ LocksTypeOK' /\ started' = started /\ lock' = lock /\ mutex' = mutex
      /\ call'[t].step = "none" /\ \A u \in Tasks \ {t} : call'[u] = call[u]
  BY <1>1, ReturnEffect
<1>3. ASSUME NEW there \in {"idle", "enabled", "b_start", "r_release", "u_release"}, pc' = [pc EXCEPT ![t] = there],
             \A u \in Tasks \ {t} : engine'[u] = engine[u], TypeOK',
             \A k \in LockNames : Has(t, k)' => Has(t, k)
      PROVE  LockInv'
  <2>1. pc'[t] = there /\ \A u \in Tasks \ {t} : pc'[u] = pc[u]
    BY <1>1, <1>3 DEF TypeOK
  <2>2. CallInv'
    BY <1>2, <1>3, <2>1 DEF Inv, LockInv, CallInv
  <2>3. BootInv'
    BY <1>1, <1>2, <2>1 DEF Inv, LockInv, BootInv, Runs
  <2>4. \A u \in Tasks \ {t}, k \in LockNames : Has(u, k)' <=> Has(u, k)
    BY <1>2, <1>3, <2>1, OtherHas
  <2>5. HoldInv'
    BY <1>2, <1>3, <2>4, HoldKept DEF Inv
  <2> QED
    BY <1>3, <2>2, <2>3, <2>5 DEF LockInv
<1>4. CASE TryFails(t)
  <2>1. TypeOK'
    BY <1>1, <1>2, <1>4, Defaults DEF TryFails, At, TypeOK, hwVars
  <2>2. \A k \in LockNames : ~ Has(t, k)'
    BY <1>1, <1>2, <1>4 DEF TryFails, At, TypeOK, Has
  <2> QED
    BY <1>1, <1>3, <1>4, <2>1, <2>2 DEF TryFails, At, TypeOK
<1>5. CASE EnableHardware(t)
  <2>1. TypeOK'
    BY <1>1, <1>2, <1>5 DEF EnableHardware, At, TypeOK, taskVars, sha_engines_all_idle
  <2>2. \A k \in LockNames : Has(t, k)' => Has(t, k)
    BY <1>1, <1>2, <1>5 DEF EnableHardware, At, TypeOK, Has, Acquired, taskVars
  <2> QED
    BY <1>1, <1>3, <1>5, <2>1, <2>2 DEF EnableHardware, At, TypeOK, taskVars
<1>6. CASE FillBlock(t)
  <2>1. text' \in Text
    BY <1>1, <1>6 DEF FillBlock, At, Text, TypeOK, Inv, TextInv
  <2>2. TypeOK'
    BY <1>1, <1>2, <1>6, <2>1 DEF FillBlock, At, TypeOK, taskVars
  <2>3. \A k \in LockNames : Has(t, k)' => Has(t, k)
    BY <1>1, <1>2, <1>6 DEF FillBlock, At, TypeOK, Has, Acquired, taskVars
  <2> QED
    BY <1>1, <1>3, <1>6, <2>2, <2>3 DEF FillBlock, At, TypeOK, taskVars
<1>7. CASE LoadDigest(t)
  <2>1. text' \in Text /\ seen' \in [Tasks -> Seq(Text)]
    <3>1. text' \in Text
      BY <1>7 DEF LoadDigest, Text
    <3>2. seen' = [seen EXCEPT ![t] = digest[engine[t]]] /\ engine[t] \in Engines
      BY <1>1, <1>7 DEF LoadDigest, TypeOK
    <3> HIDE DEF Text
    <3> QED
      BY <1>1, <3>1, <3>2 DEF TypeOK
  <2>2. TypeOK'
    BY <1>1, <1>2, <1>7, <2>1 DEF LoadDigest, At, TypeOK
  <2>3. \A k \in LockNames : Has(t, k)' => Has(t, k)
    BY <1>1, <1>2, <1>7 DEF LoadDigest, At, TypeOK, Has, Acquired
  <2> QED
    BY <1>1, <1>3, <1>7, <2>2, <2>3 DEF LoadDigest, At, TypeOK
<1>8. CASE ClearInUse(t)
  <2>1. engine' = engine /\ sent' = sent /\ seen' = seen /\ text' = text /\ pc' = [pc EXCEPT ![t] = "u_release"]
        /\ in_use' \in [Engines -> BOOLEAN] /\ pc[t] = "u_state"
    BY <1>1, <1>8 DEF ClearInUse, At, TypeOK, taskVars, PowerOff, hwVars
  <2>2. powered' \in BOOLEAN /\ busy' \subseteq Engines /\ digest' \in [Engines -> Seq(Text)]
    <3>1. CASE PowerOff
      <4>1. <<>> \in Seq(Text)
        OBVIOUS
      <4>2. digest' = [e \in Engines |-> <<>>] /\ powered' = FALSE /\ busy' = {}
        BY <3>1 DEF PowerOff
      <4> QED
        BY <4>1, <4>2
    <3>2. CASE UNCHANGED <<hwVars, cut>>
      BY <1>1, <3>2 DEF TypeOK, hwVars
    <3> QED
      BY <1>8, <3>1, <3>2 DEF ClearInUse
  <2>3. cut' \subseteq Engines
    BY <1>1, <1>8 DEF ClearInUse, TypeOK, PowerOff
  <2>4. TypeOK'
    BY <1>1, <1>2, <2>1, <2>2, <2>3 DEF TypeOK
  <2>5. \A k \in LockNames : Has(t, k)' => Has(t, k)
    BY <1>1, <1>2, <1>8, <2>1 DEF ClearInUse, TypeOK, Has, Acquired
  <2> QED
    BY <1>3, <2>1, <2>4, <2>5
<1> QED
  BY <1>4, <1>5, <1>6, <1>7, <1>8

(* The steps that give a lock back.                                        *)
LEMMA ReleaseInv ==
  ASSUME Inv, NEW t \in Tasks,
         \/ LockInnerRelease(t) \/ BlockRelease(t) \/ ReadRelease(t)
         \/ UnlockRelease(t) \/ UnlockEngine(t)
  PROVE  LockInv'
<1>1. TypeOK /\ LockInv
  BY DEF Inv, LockInv
<1>2. ASSUME NEW k \in LockNames, lock_release(k), Has(t, k), Runs(t), call[t].step = "none",
             NEW there \in {"mark", "locked", "u_engine", "idle"}, pc' = [pc EXCEPT ![t] = there],
             \A u \in Tasks \ {t} : engine'[u] = engine[u],
             LocksTypeOK' => TypeOK',
             \A l \in LockNames : Has(t, l)' => Has(t, l) /\ l # k
      PROVE  LockInv'
  <2>1. /\ LocksTypeOK' /\ started' = started /\ lock' = lock /\ call' = call
    BY <1>1, <1>2, ReleaseEffect
  <2>2. pc'[t] = there /\ \A u \in Tasks \ {t} : pc'[u] = pc[u]
    BY <1>1, <1>2 DEF TypeOK
  <2>3. CallInv'
    BY <1>1, <1>2, <2>1, <2>2 DEF LockInv, CallInv
  <2>4. BootInv'
    BY <1>1, <1>2, <2>1, <2>2 DEF LockInv, BootInv, Runs
  <2>5. \A u \in Tasks \ {t}, l \in LockNames : Has(u, l)' => Has(u, l)
    BY <1>2, <2>1, <2>2, OtherHas
  <2>6. HoldInv'
    BY <1>1, <1>2, <2>5, HoldReleased
  <2> QED
    BY <1>2, <2>1, <2>3, <2>4, <2>6 DEF LockInv
<1>3. pc[t] \in {"enabled", "b_release", "r_release", "u_release", "u_engine"} /\ Runs(t)
  BY DEF LockInnerRelease, BlockRelease, ReadRelease, UnlockRelease, UnlockEngine, At
<1>4. call[t].step = "none" /\ engine[t] \in Engines /\ call' = call
  BY <1>1, <1>3 DEF LockInv, CallInv, TypeOK, LockInnerRelease, BlockRelease, ReadRelease,
                    UnlockRelease, UnlockEngine, lock_release
<1>5. CASE LockInnerRelease(t)
  <2>1. LocksTypeOK' => TypeOK'
    BY <1>1, <1>5 DEF LockInnerRelease, At, TypeOK, hwVars, taskVars
  <2>2. Has(t, "state_change_lock") /\ \A l \in LockNames : Has(t, l)' => Has(t, l) /\ l # "state_change_lock"
    BY <1>1, <1>4, <1>5 DEF LockInnerRelease, At, TypeOK, Has, taskVars
  <2> QED
    BY <1>2, <1>3, <1>4, <1>5, <2>1, <2>2 DEF LockInnerRelease, At, taskVars
<1>6. CASE BlockRelease(t)
  <2>1. LocksTypeOK' => TypeOK'
    BY <1>1, <1>6 DEF BlockRelease, At, TypeOK, hwVars, taskVars
  <2>2. Has(t, "memory_block_lock") /\ \A l \in LockNames : Has(t, l)' => Has(t, l) /\ l # "memory_block_lock"
    BY <1>1, <1>4, <1>6 DEF BlockRelease, At, TypeOK, Has, taskVars
  <2> QED
    BY <1>2, <1>3, <1>4, <1>6, <2>1, <2>2 DEF BlockRelease, At, taskVars
<1>7. CASE ReadRelease(t)
  <2>1. LocksTypeOK' => TypeOK'
    <3>1. <<>> \in Seq(Text)
      OBVIOUS
    <3>2. seen' \in [Tasks -> Seq(Text)]
      BY <1>1, <1>7, <3>1 DEF ReadRelease, TypeOK
    <3> QED
      BY <1>1, <1>7, <3>2 DEF ReadRelease, At, TypeOK, hwVars
  <2>2. Has(t, "memory_block_lock") /\ \A l \in LockNames : Has(t, l)' => Has(t, l) /\ l # "memory_block_lock"
    BY <1>1, <1>4, <1>7 DEF ReadRelease, At, TypeOK, Has
  <2> QED
    BY <1>2, <1>3, <1>4, <1>7, <2>1, <2>2 DEF ReadRelease, At
<1>8. CASE UnlockRelease(t)
  <2>1. LocksTypeOK' => TypeOK'
    BY <1>1, <1>8 DEF UnlockRelease, At, TypeOK, hwVars, taskVars
  <2>2. Has(t, "state_change_lock") /\ \A l \in LockNames : Has(t, l)' => Has(t, l) /\ l # "state_change_lock"
    BY <1>1, <1>4, <1>8 DEF UnlockRelease, At, TypeOK, Has, taskVars
  <2> QED
    BY <1>2, <1>3, <1>4, <1>8, <2>1, <2>2 DEF UnlockRelease, At, taskVars
<1>9. CASE UnlockEngine(t)
  <2>1. LocksTypeOK' => TypeOK'
    BY <1>1, <1>9, Defaults DEF UnlockEngine, At, TypeOK, hwVars
  <2>2. Has(t, engine[t]) /\ \A l \in LockNames : ~ Has(t, l)'
    BY <1>1, <1>4, <1>9 DEF UnlockEngine, At, TypeOK, Has
  <2> QED
    BY <1>1, <1>2, <1>3, <1>4, <1>9, <2>1, <2>2 DEF UnlockEngine, At, TypeOK
<1> QED
  BY <1>5, <1>6, <1>7, <1>8, <1>9

(* The steps that use no lock.                                             *)
LEMMA PlainInv ==
  ASSUME Inv, NEW t \in Tasks, MarkInUse(t) \/ StartBlock(t)
  PROVE  LockInv'
<1>1. TypeOK /\ LockInv /\ Runs(t) /\ pc[t] \in {"mark", "b_start"} /\ engine' = engine /\ seen' = seen
      /\ UNCHANGED lockVars /\ engine[t] \in Engines
  BY DEF Inv, LockInv, TypeOK, MarkInUse, StartBlock, At
<1>2. PICK there \in {"locked", "b_release"} : pc' = [pc EXCEPT ![t] = there]
                                              /\ (there = "b_release" => pc[t] = "b_start")
  BY DEF MarkInUse, StartBlock, At
<1>3. pc'[t] = there /\ \A u \in Tasks \ {t} : pc'[u] = pc[u]
  BY <1>1, <1>2 DEF TypeOK
<1>4. TypeOK'
  <2>1. CASE MarkInUse(t)
    BY <1>1, <1>2, <2>1 DEF MarkInUse, TypeOK, LocksTypeOK, lockVars, hwVars
  <2>2. CASE StartBlock(t)
    <3>1. <<>> \in Seq(Text)
      OBVIOUS
    <3>2. digest' \in [Engines -> Seq(Text)]
      BY <1>1, <2>2, <3>1 DEF StartBlock, TypeOK
    <3>3. sent' \in [Tasks -> 0 .. MaxBlocks]
      BY <1>1, <2>2 DEF StartBlock, TypeOK, Inv, TextInv, At
    <3> QED
      BY <1>1, <1>2, <2>2, <3>2, <3>3 DEF StartBlock, TypeOK, LocksTypeOK, lockVars
  <2> QED
    BY <2>1, <2>2
<1>5. CallInv'
  BY <1>1, <1>2, <1>3 DEF LockInv, CallInv, lockVars
<1>6. BootInv'
  BY <1>1, <1>2, <1>3 DEF LockInv, BootInv, Runs, lockVars
<1>7. \A u \in Tasks, l \in LockNames : Has(u, l)' => Has(u, l)
  BY <1>1, <1>2, <1>3 DEF lockVars, Has
<1>8. HoldInv'
  BY <1>1, <1>7, HoldKept DEF lockVars
<1> QED
  BY <1>4, <1>5, <1>6, <1>8 DEF LockInv

(* The steps inside lock_acquire_generic: the creation of the mutex, and   *)
(* the wait for it.                                                        *)
LEMMA LockStepInv ==
  ASSUME LockInv, NEW t \in Tasks, LockStep(t)
  PROVE  LockInv'
<1> DEFINE k == call[t].lock
           S == Tasks \cup {NOBODY}
<1>1. /\ UNCHANGED <<in_use, hwVars, pc, taskVars, cut>> /\ started' = started /\ TypeOK /\ k \in LockNames
      /\ call[t].step \in {"init", "take"} /\ Runs(t)
  BY DEF LockStep, LockInv, TypeOK, LocksTypeOK, lock_init_generic, SemaphoreTake
<1>2. LocksTypeOK' => TypeOK'
  BY <1>1 DEF TypeOK, hwVars, taskVars
<1>3. BootInv'
  BY <1>1 DEF LockInv, BootInv, Runs
<1>4. /\ call \in [Tasks -> [lock : LockNames, delay : {0, FOREVER}, h : {0, 1},
                              step : {"none", "init", "take", "success", "failure"}]]
      /\ mutex \in [LockNames -> Seq(S)] /\ lock \in [LockNames -> {0, 1}]
      /\ NOBODY \in S /\ t \in S /\ \A l \in LockNames : Len(mutex[l]) = lock[l]
  BY <1>1 DEF TypeOK, LocksTypeOK
<1>5. CASE lock_init_generic(t)
  <2>1. /\ LocksTypeOK' /\ lock'[k] = 1 /\ \A l \in LockNames : lock[l] = 1 => lock'[l] = 1 /\ mutex'[l] = mutex[l]
    <3>1. CASE lock[k] = 0
      <4> DEFINE m == Append(mutex[k], NOBODY)
      <4>1. m \in Seq(S) /\ Len(m) = 1 /\ Len(mutex[k]) = 0
        <5> HIDE DEF S, k
        <5>1. mutex[k] \in Seq(S) /\ Len(mutex[k]) = 0
          BY <1>1, <1>4, <3>1
        <5> QED
          BY <1>4, <5>1
      <4>2. mutex' = [mutex EXCEPT ![k] = m] /\ lock' = [lock EXCEPT ![k] = 1]
        BY <1>5, <3>1, <4>1 DEF lock_init_generic
      <4>3. call' \in [Tasks -> [lock : LockNames, delay : {0, FOREVER}, h : {0, 1},
                                  step : {"none", "init", "take", "success", "failure"}]]
        BY <1>1, <1>4, <1>5, <4>2 DEF lock_init_generic
      <4> HIDE DEF m, k
      <4>4. lock' \in [LockNames -> {0, 1}] /\ lock'[k] = 1 /\ mutex'[k] = m
            /\ \A l \in LockNames \ {k} : lock'[l] = lock[l] /\ mutex'[l] = mutex[l]
        BY <1>1, <1>4, <4>2
      <4>5. mutex' \in [LockNames -> Seq(S)]
        <5> HIDE DEF S
        <5> QED
          BY <1>1, <1>4, <4>1, <4>2
      <4>6. \A l \in LockNames : Len(mutex'[l]) = lock'[l]
        BY <1>4, <4>1, <4>4
      <4>7. \A l \in LockNames : lock[l] = 1 => l # k
        BY <3>1
      <4> QED
        BY <1>1, <4>3, <4>4, <4>5, <4>6, <4>7 DEF LocksTypeOK, TypeOK
    <3>2. CASE lock[k] = 1
      <4>1. mutex' = mutex /\ lock' = lock
        BY <1>5, <3>2 DEF lock_init_generic
      <4>2. call' \in [Tasks -> [lock : LockNames, delay : {0, FOREVER}, h : {0, 1},
                                  step : {"none", "init", "take", "success", "failure"}]]
        BY <1>1, <1>4, <1>5, <3>2, <4>1 DEF lock_init_generic
      <4> QED
        BY <1>1, <3>2, <4>1, <4>2 DEF LocksTypeOK, TypeOK
    <3> QED
      BY <1>1, <1>4, <3>1, <3>2
  <2>2. /\ call'[t].lock = k /\ call'[t].h = 1 /\ call'[t].step = "take"
        /\ \A u \in Tasks \ {t} : call'[u] = call[u]
    BY <1>4, <1>5, <2>1 DEF lock_init_generic
  <2>3. CallInv'
    <3>1. \A u \in Tasks : call[u].lock \in LockNames
      BY <1>4
    <3>2. \A u \in Tasks : call'[u].step = "take" => call'[u].h = 1 /\ lock'[call'[u].lock] = 1
      BY <1>1, <2>1, <2>2, <3>1 DEF LockInv, CallInv
    <3> QED
      BY <1>1, <2>2, <3>2 DEF LockInv, CallInv, taskVars
  <2>4. \A u \in Tasks, l \in LockNames : Has(u, l)' => Has(u, l)
    BY <1>1, <2>2 DEF Has, taskVars
  <2>5. HoldInv'
    BY <1>1, <2>1, <2>4 DEF LockInv, HoldInv
  <2> QED
    BY <1>2, <1>3, <2>1, <2>3, <2>5 DEF LockInv
<1>6. CASE SemaphoreTake(t)
  <2>1. call[t].step = "take" /\ call[t].h = 1 /\ lock[k] = 1 /\ lock' = lock
    BY <1>6 DEF SemaphoreTake, LockInv, CallInv
  <2>2. CASE mutex[k][1] = NOBODY /\ mutex' = [mutex EXCEPT ![k][1] = t] /\ call' = [call EXCEPT ![t].step = "success"]
    <3> DEFINE m == [mutex[k] EXCEPT ![1] = t]
    <3>1. m \in Seq(S) /\ Len(m) = 1 /\ m[1] = t
      <4> HIDE DEF S, k
      <4>1. mutex[k] \in Seq(S) /\ Len(mutex[k]) = 1
        BY <1>1, <1>4, <2>1
      <4>2. 1 \in 1 .. Len(mutex[k])
        BY <4>1
      <4> QED
        BY <1>4, <4>1, <4>2, ExceptSeq
    <3>2. mutex' = [mutex EXCEPT ![k] = m]
      BY <2>2
    <3>3. /\ call'[t].lock = k /\ call'[t].h = 1 /\ call'[t].step = "success"
          /\ \A u \in Tasks \ {t} : call'[u] = call[u]
          /\ call' \in [Tasks -> [lock : LockNames, delay : {0, FOREVER}, h : {0, 1},
                                  step : {"none", "init", "take", "success", "failure"}]]
      <4>1. call' = [call EXCEPT ![t].step = "success"]
        BY <2>2
      <4>2. /\ call'[t].lock = k /\ call'[t].h = 1 /\ call'[t].step = "success"
            /\ \A u \in Tasks \ {t} : call'[u] = call[u]
        BY <1>4, <2>1, <4>1
      <4>3. call' \in [Tasks -> [lock : LockNames, delay : {0, FOREVER}, h : {0, 1},
                                  step : {"none", "init", "take", "success", "failure"}]]
        <5>1. call \in [Tasks -> [lock : LockNames, delay : {0, FOREVER}, h : {0, 1},
                                   step : {"none", "init", "take", "success", "failure"}]]
          BY <1>4
        <5> QED
          BY ONLY <4>1, <5>1
      <4> QED
        BY <4>2, <4>3
    <3> HIDE DEF m
    <3>4. LocksTypeOK'
      BY <1>1, <1>4, <2>1, <3>1, <3>2, <3>3 DEF LocksTypeOK, TypeOK
    <3>5. CallInv'
      BY <1>1, <2>1, <3>3 DEF LockInv, CallInv, taskVars
    <3>6. \A u \in Tasks, l \in LockNames : Has(u, l)' => Has(u, l) \/ (u = t /\ l = k)
      BY <1>1, <3>3 DEF Has, taskVars
    <3>7. \A u \in Tasks : started => ~ Has(u, k)
      BY <1>1, <2>2 DEF LockInv, HoldInv
    <3>8. HoldInv'
      BY <1>1, <1>4, <2>1, <3>1, <3>2, <3>6, <3>7 DEF LockInv, HoldInv
    <3> QED
      BY <1>2, <1>3, <3>4, <3>5, <3>8 DEF LockInv
  <2>3. CASE mutex' = mutex /\ call' = [call EXCEPT ![t].step = "failure"]
    <3>1. /\ call'[t].lock = k /\ call'[t].h = 1 /\ call'[t].step = "failure"
          /\ \A u \in Tasks \ {t} : call'[u] = call[u]
          /\ call' \in [Tasks -> [lock : LockNames, delay : {0, FOREVER}, h : {0, 1},
                                  step : {"none", "init", "take", "success", "failure"}]]
      BY <1>4, <2>1, <2>3
    <3>2. LocksTypeOK'
      BY <1>1, <1>4, <2>1, <2>3, <3>1 DEF LocksTypeOK, TypeOK
    <3>3. CallInv'
      BY <1>1, <2>1, <3>1 DEF LockInv, CallInv, taskVars
    <3>4. \A u \in Tasks, l \in LockNames : Has(u, l)' => Has(u, l)
      BY <1>1, <3>1 DEF Has, taskVars
    <3>5. HoldInv'
      BY <1>1, <2>1, <2>3, <3>4, HoldKept
    <3> QED
      BY <1>2, <1>3, <3>2, <3>3, <3>5 DEF LockInv
  <2> QED
    BY <1>6, <2>1, <2>2, <2>3 DEF SemaphoreTake
<1> QED
  BY <1>5, <1>6 DEF LockStep

(* The start of the scheduler, the end of a block and a step that changes  *)
(* nothing.                                                                *)
LEMMA HardwareInv ==
  ASSUME Inv, StartScheduler \/ (\E e \in Engines : EngineDone(e)) \/ UNCHANGED vars
  PROVE  LockInv'
<1>1. TypeOK /\ LockInv
  BY DEF Inv, LockInv
<1>2. pc' = pc /\ engine' = engine /\ lock' = lock /\ mutex' = mutex /\ call' = call
  BY DEF StartScheduler, SchedulerStarts, EngineDone, vars, lockVars, taskVars
<1>3. \A u \in Tasks, l \in LockNames : Has(u, l)' <=> Has(u, l)
  BY <1>2 DEF Has
<1>4. CallInv'
  BY <1>1, <1>2 DEF LockInv, CallInv
<1>5. CASE StartScheduler
  <2>1. TypeOK'
    BY <1>1, <1>2, <1>5 DEF StartScheduler, SchedulerStarts, TypeOK, LocksTypeOK, hwVars, taskVars
  <2>2. \A u \in Tasks : pc[u] = "idle"
    BY <1>1, <1>5 DEF StartScheduler, SchedulerStarts, LockInv, BootInv, Runs
  <2>3. \A u \in Tasks, l \in LockNames : ~ Has(u, l)
    BY <1>1, <2>2 DEF Has, LockInv, CallInv
  <2> QED
    BY <1>2, <1>3, <1>4, <2>1, <2>2, <2>3 DEF LockInv, BootInv, HoldInv
<1>6. ASSUME started' = started, TypeOK' PROVE LockInv'
  BY <1>1, <1>2, <1>3, <1>4, <1>6 DEF LockInv, BootInv, HoldInv, Runs
<1>7. ASSUME NEW e \in Engines, EngineDone(e) PROVE LockInv'
  <2>1. digest' \in [Engines -> Seq(Text)]
    <3>1. text \in Text /\ digest[e] \in Seq(Text) /\ digest' = [digest EXCEPT ![e] = Append(digest[e], text)]
      BY <1>1, <1>7 DEF EngineDone, TypeOK
    <3>2. Append(digest[e], text) \in Seq(Text)
      BY <3>1
    <3> QED
      BY <1>1, <3>1, <3>2 DEF TypeOK
  <2>2. TypeOK' /\ started' = started
    BY <1>1, <1>2, <1>7, <2>1 DEF EngineDone, TypeOK, LocksTypeOK, lockVars, taskVars
  <2> QED
    BY <1>6, <2>2
<1>8. CASE UNCHANGED vars
  <2>1. TypeOK' /\ started' = started
    BY <1>1, <1>8 DEF vars, TypeOK, LocksTypeOK, lockVars, hwVars, taskVars
  <2> QED
    BY <1>6, <2>1
<1> QED
  BY <1>5, <1>7, <1>8

(* Every step preserves the invariant of the locks.                        *)
LEMMA NextLockInv == ASSUME Inv, [Next]_vars PROVE LockInv'
<1>1. ASSUME NEW t \in Tasks, Decide(t) \/ LockStep(t) \/ Proceed(t) PROVE LockInv'
  BY <1>1, AcquireInv, LockStepInv, ReturnInv, ReleaseInv, PlainInv DEF Inv, Proceed
<1> QED
  BY <1>1, HardwareInv DEF Next
-----------------------------------------------------------------------------
(* A block sent after n others makes the digest of n + 1.                  *)
LEMMA BlocksAppend ==
  ASSUME NEW t, NEW n \in Nat
  PROVE  Append(Blocks(t, n), <<t, n + 1>>) = Blocks(t, n + 1)
<1> DEFINE S == {<<t, k>> : k \in Nat}
           s == Append(Blocks(t, n), <<t, n + 1>>)
<1>1. Blocks(t, n) \in Seq(S) /\ Len(Blocks(t, n)) = n
  BY DEF Blocks
<1>2. Blocks(t, n + 1) \in Seq(S) /\ Len(Blocks(t, n + 1)) = n + 1
  BY DEF Blocks
<1>3. <<t, n + 1>> \in S
  OBVIOUS
<1>4. \A k \in 1 .. n + 1 : Blocks(t, n + 1)[k] = <<t, k>>
  BY DEF Blocks
<1>5. \A k \in 1 .. n : Blocks(t, n)[k] = <<t, k>>
  BY DEF Blocks
<1>6. s \in Seq(S) /\ Len(s) = n + 1 /\ \A k \in 1 .. n + 1 : s[k] = <<t, k>>
  <2> HIDE DEF S
  <2> QED
    BY <1>1, <1>3, <1>5
<1> HIDE DEF S, s
<1>7. s = Blocks(t, n + 1)
  BY <1>2, <1>4, <1>6, SeqEqual
<1> QED
  BY <1>7 DEF s

DataInv == InUseInv /\ TextInv /\ DigestInv

(* Uniqueness in terms of the control points: engines and the memory.      *)
LEMMA UniqueUse ==
  ASSUME LockInv
  PROVE  /\ \A t, u \in Tasks : /\ HasEngine(t) \/ (pc[t] = "engine" /\ Acquired(t, engine[t]))
                                /\ HasEngine(u) /\ engine[t] = engine[u]
                                => t = u
         /\ \A t, u \in Tasks : /\ HasMemory(t) \/ Acquired(t, "memory_block_lock")
                                /\ HasMemory(u)
                                => t = u
<1>1. \A t \in Tasks : engine[t] \in LockNames
  BY DEF LockInv, TypeOK
<1>2. ASSUME NEW t \in Tasks, NEW u \in Tasks,
             HasEngine(t) \/ (pc[t] = "engine" /\ Acquired(t, engine[t])), HasEngine(u), engine[t] = engine[u]
      PROVE  t = u
  <2>1. Has(t, engine[t]) /\ Has(u, engine[t])
    BY <1>2 DEF Has, Acquired
  <2> QED
    BY <1>1, <2>1, HasUnique
<1>3. ASSUME NEW t \in Tasks, NEW u \in Tasks,
             HasMemory(t) \/ Acquired(t, "memory_block_lock"), HasMemory(u)
      PROVE  t = u
  <2>1. Has(t, "memory_block_lock") /\ Has(u, "memory_block_lock")
    BY <1>3 DEF Has, Acquired
  <2> QED
    BY <2>1, HasUnique
<1> QED
  BY <1>2, <1>3

(* A step of a task that leaves the flags, the memory and the engines      *)
(* alone.                                                                  *)
LEMMA QuietData ==
  ASSUME Inv, NEW t \in Tasks,
         UNCHANGED <<in_use, busy, text, digest>>, powered => powered',
         \A u \in Tasks \ {t} : /\ pc'[u] = pc[u] /\ engine'[u] = engine[u]
                                /\ sent'[u] = sent[u] /\ seen'[u] = seen[u]
                                /\ (pc[u] \in Owning /\ engine[u] \notin cut' => engine[u] \notin cut),
         pc'[t] \notin {"b_start", "r_release"},
         pc'[t] = "b_memory" => sent'[t] < MaxBlocks,
         pc'[t] = "r_memory" => sent'[t] > 0,
         HasEngine(t)' => engine'[t] = engine[t] /\ (HasEngine(t) \/ ~ in_use[engine[t]]),
         pc'[t] \in Using <=> pc[t] \in Using,
         pc'[t] \in Owning => /\ pc[t] \in Owning /\ sent'[t] = sent[t]
                              /\ (engine[t] \notin cut' => engine[t] \notin cut)
  PROVE  DataInv'
<1>1. InUseInv'
  <2>1. \A u \in Tasks : pc'[u] \in Using <=> pc[u] \in Using
    OBVIOUS
  <2>2. \A u \in Tasks : pc'[u] \in Using => engine'[u] = engine[u]
    OBVIOUS
  <2>3. \A u \in Tasks : HasEngine(u)' => engine'[u] = engine[u] /\ (HasEngine(u) \/ ~ in_use[engine[u]])
    OBVIOUS
  <2> QED
    BY <2>1, <2>2, <2>3 DEF Inv, InUseInv
<1>2. TextInv'
  BY DEF Inv, TextInv
<1>3. DigestInv'
  <2> SUFFICES ASSUME NEW u \in Tasks, pc'[u] \in Owning, engine'[u] \notin cut'
               PROVE  /\ powered'
                      /\ sent'[u] > 0 /\ engine'[u] \in busy'
                           => text' = <<u, sent'[u]>> /\ digest'[engine'[u]] = Blocks(u, sent'[u] - 1)
                      /\ sent'[u] > 0 /\ engine'[u] \notin busy' => digest'[engine'[u]] = Blocks(u, sent'[u])
                      /\ pc'[u] = "r_release" => seen'[u] = Blocks(u, sent'[u])
    BY DEF DigestInv, Blocks
  <2>1. engine'[u] = engine[u] /\ sent'[u] = sent[u] /\ pc[u] \in Owning /\ engine[u] \notin cut
    OBVIOUS
  <2>2. CASE u = t
    BY <2>1, <2>2 DEF Inv, DigestInv
  <2>3. CASE u # t
    BY <2>1, <2>3 DEF Inv, DigestInv
  <2> QED
    BY <2>2, <2>3
<1> QED
  BY <1>1, <1>2, <1>3 DEF DataInv

(* The steps of tasks it applies to.                                       *)
LEMMA QuietStep ==
  ASSUME Inv, NEW t \in Tasks,
         \/ Decide(t) \/ LockStep(t)
         \/ TryFails(t) \/ LockInner(t) \/ EnableHardware(t) \/ LockInnerRelease(t)
         \/ BlockRelease(t) \/ ReadRelease(t) \/ UnlockRelease(t) \/ UnlockEngine(t)
  PROVE  DataInv'
<1>1. TypeOK /\ LockInv
  BY DEF Inv, LockInv
<1>2. ASSUME NEW e \in Engines, NEW d \in {0, FOREVER}, esp_sha_lock_engine(t, e, d) PROVE DataInv'
  BY <1>1, <1>2, QuietData DEF esp_sha_lock_engine, At, TypeOK, hwVars
<1>3. CASE esp_sha_block(t)
  BY <1>1, <1>3, QuietData DEF esp_sha_block, At, TypeOK, hwVars, taskVars
<1>4. CASE esp_sha_read_digest_state(t)
  BY <1>1, <1>4, QuietData DEF esp_sha_read_digest_state, At, TypeOK, hwVars, taskVars
<1>5. CASE esp_sha_unlock_engine(t)
  BY <1>1, <1>5, QuietData DEF esp_sha_unlock_engine, At, TypeOK, hwVars, taskVars
<1>6. CASE LockStep(t)
  <2>1. pc[t] \in Waiting
    BY <1>1, <1>6 DEF LockStep, lock_init_generic, SemaphoreTake, LockInv, CallInv
  <2>2. (pc[t] = "b_memory" => sent[t] < MaxBlocks) /\ (pc[t] = "r_memory" => sent[t] > 0)
    BY DEF Inv, TextInv
  <2>3. UNCHANGED <<in_use, hwVars, pc, taskVars, cut>>
    BY <1>6 DEF LockStep
  <2> QED
    BY <1>1, <2>1, <2>2, <2>3, QuietData DEF hwVars, taskVars
<1>7. CASE TryFails(t)
  BY <1>1, <1>7, QuietData DEF TryFails, At, TypeOK, hwVars
<1>8. CASE LockInner(t)
  <2>1. ~ in_use[engine[t]]
    <3> SUFFICES ASSUME in_use[engine[t]] PROVE FALSE
      OBVIOUS
    <3>1. PICK u \in Tasks : pc[u] \in Using /\ engine[u] = engine[t]
      BY <1>1 DEF Inv, InUseInv, TypeOK
    <3>2. t = u
      BY <1>1, <1>8, <3>1, UniqueUse DEF LockInner, At
    <3> QED
      BY <1>8, <3>1, <3>2 DEF LockInner, At
  <2> QED
    BY <1>1, <1>8, <2>1, QuietData DEF LockInner, At, TypeOK, hwVars, taskVars
<1>9. CASE EnableHardware(t)
  BY <1>1, <1>9, QuietData DEF EnableHardware, At, TypeOK, taskVars
<1>10. CASE LockInnerRelease(t)
  BY <1>1, <1>10, QuietData DEF LockInnerRelease, At, TypeOK, hwVars, taskVars
<1>11. CASE BlockRelease(t)
  BY <1>1, <1>11, QuietData DEF BlockRelease, At, TypeOK, hwVars, taskVars
<1>12. CASE ReadRelease(t)
  BY <1>1, <1>12, QuietData DEF ReadRelease, At, TypeOK, hwVars
<1>13. CASE UnlockRelease(t)
  BY <1>1, <1>13, QuietData DEF UnlockRelease, At, TypeOK, hwVars, taskVars
<1>14. CASE UnlockEngine(t)
  <2>1. \A u \in Tasks \ {t} : pc[u] \in Owning => engine[u] # engine[t]
    BY <1>1, <1>14, UniqueUse DEF UnlockEngine, At
  <2> QED
    BY <1>1, <1>14, <2>1, QuietData DEF UnlockEngine, At, TypeOK, hwVars
<1> QED
  BY <1>2, <1>3, <1>4, <1>5, <1>6, <1>7, <1>8, <1>9, <1>10, <1>11, <1>12, <1>13, <1>14 DEF Decide

(* esp_sha_lock_engine marks the engine (sha.c:173-175).                   *)
LEMMA MarkData == ASSUME Inv, NEW t \in Tasks, MarkInUse(t) PROVE DataInv'
<1>1. TypeOK /\ LockInv /\ pc[t] = "mark" /\ engine[t] \in Engines
  BY DEF Inv, LockInv, TypeOK, MarkInUse, At
<1>2. /\ pc'[t] = "locked" /\ \A u \in Tasks \ {t} : pc'[u] = pc[u] /\ sent'[u] = sent[u]
      /\ sent'[t] = 0 /\ engine' = engine /\ seen' = seen /\ UNCHANGED <<powered, busy, text, digest>>
      /\ in_use' = [in_use EXCEPT ![engine[t]] = TRUE]
      /\ cut' = IF powered THEN cut \ {engine[t]} ELSE cut \cup {engine[t]}
  BY <1>1 DEF MarkInUse, At, TypeOK, hwVars
<1>3. \A u \in Tasks \ {t} : HasEngine(u) => engine[u] # engine[t]
  BY <1>1, UniqueUse
<1>4. InUseInv'
  <2>1. \A u \in Tasks : HasEngine(u)' => (in_use'[engine'[u]] <=> pc'[u] \in Using)
    BY <1>1, <1>2, <1>3 DEF Inv, InUseInv, TypeOK
  <2>2. \A e \in Engines : in_use'[e] => \E u \in Tasks : pc'[u] \in Using /\ engine'[u] = e
    BY <1>1, <1>2 DEF Inv, InUseInv, TypeOK
  <2> QED
    BY <2>1, <2>2 DEF InUseInv
<1>5. TextInv'
  BY <1>1, <1>2 DEF Inv, TextInv
<1>6. DigestInv'
  <2>1. \A u \in Tasks : pc'[u] \in Owning /\ engine[u] \notin cut' =>
          /\ powered
          /\ u # t => pc[u] \in Owning /\ engine[u] \notin cut
    BY <1>1, <1>2, <1>3 DEF Inv, DigestInv
  <2> QED
    BY <1>1, <1>2, <2>1 DEF Inv, DigestInv
<1> QED
  BY <1>4, <1>5, <1>6 DEF DataInv

(* A step of a task that has the memory and leaves the flags alone: what   *)
(* it does to them is its own.                                             *)
LEMMA FillData == ASSUME Inv, NEW t \in Tasks, FillBlock(t) \/ LoadDigest(t) PROVE DataInv'
<1>1. TypeOK /\ LockInv /\ pc[t] \in {"b_memory", "r_memory"} /\ Acquired(t, "memory_block_lock") /\ busy = {}
  BY DEF Inv, LockInv, FillBlock, LoadDigest, At
<1>2. /\ pc'[t] \in {"b_start", "r_release"} /\ \A u \in Tasks \ {t} : pc'[u] = pc[u] /\ seen'[u] = seen[u]
      /\ UNCHANGED <<engine, sent, in_use, powered, busy, digest, cut>>
  BY <1>1 DEF FillBlock, LoadDigest, At, TypeOK, taskVars
<1>3. \A u \in Tasks \ {t} : ~ HasMemory(u)
  BY <1>1, UniqueUse
<1>4. InUseInv'
  BY <1>1, <1>2 DEF Inv, InUseInv
<1>5. CASE FillBlock(t)
  <2>1. pc[t] = "b_memory" /\ pc'[t] = "b_start" /\ text' = <<t, sent[t] + 1>>
    BY <1>1, <1>5 DEF FillBlock, At, TypeOK
  <2>2. TextInv'
    BY <1>1, <1>2, <1>3, <2>1 DEF Inv, TextInv
  <2>3. DigestInv'
    BY <1>1, <1>2, <2>1 DEF Inv, DigestInv
  <2> QED
    BY <1>4, <2>2, <2>3 DEF DataInv
<1>6. CASE LoadDigest(t)
  <2>1. pc[t] = "r_memory" /\ pc'[t] = "r_release" /\ seen'[t] = digest[engine[t]]
    BY <1>1, <1>6 DEF LoadDigest, At, TypeOK
  <2>2. TextInv'
    BY <1>1, <1>2, <1>3, <2>1 DEF Inv, TextInv
  <2>3. sent[t] > 0
    BY <2>1 DEF Inv, TextInv
  <2>4. DigestInv'
    BY <1>1, <1>2, <2>1, <2>3 DEF Inv, DigestInv
  <2> QED
    BY <1>4, <2>2, <2>4 DEF DataInv
<1> QED
  BY <1>5, <1>6

(* An engine is started on the block in the memory (sha.c:251-257).        *)
LEMMA StartData == ASSUME Inv, NEW t \in Tasks, StartBlock(t) PROVE DataInv'
<1>1. TypeOK /\ LockInv /\ pc[t] = "b_start" /\ engine[t] \in Engines /\ sent[t] \in Nat
  BY DEF Inv, LockInv, TypeOK, StartBlock, At
<1>2. /\ pc'[t] = "b_release" /\ \A u \in Tasks \ {t} : pc'[u] = pc[u] /\ sent'[u] = sent[u]
      /\ sent'[t] = sent[t] + 1 /\ UNCHANGED <<engine, seen, in_use, powered, text, cut>>
      /\ busy' = (IF powered THEN busy \cup {engine[t]} ELSE busy)
      /\ digest' = IF powered /\ sent[t] = 0 THEN [digest EXCEPT ![engine[t]] = <<>>] ELSE digest
  BY <1>1 DEF StartBlock, At, TypeOK
<1>3. busy = {} /\ text = <<t, sent[t] + 1>> /\ sent[t] < MaxBlocks
  BY <1>1 DEF Inv, TextInv
<1>4. \A u \in Tasks \ {t} : ~ HasMemory(u) /\ (HasEngine(u) => engine[u] # engine[t])
  BY <1>1, UniqueUse
<1>5. InUseInv'
  BY <1>1, <1>2 DEF Inv, InUseInv
<1>6. TextInv'
  BY <1>1, <1>2, <1>4 DEF Inv, TextInv
<1>7. DigestInv'
  <2>1. ASSUME engine[t] \notin cut
        PROVE  powered /\ digest'[engine[t]] = Blocks(t, sent[t])
    <3>1. powered /\ (sent[t] > 0 => digest[engine[t]] = Blocks(t, sent[t]))
      BY <1>1, <1>3, <2>1 DEF Inv, DigestInv
    <3>2. CASE sent[t] = 0
      <4>1. Blocks(t, 0) = <<>>
        BY DEF Blocks
      <4> QED
        BY <1>1, <1>2, <3>1, <3>2, <4>1 DEF TypeOK
    <3>3. CASE sent[t] > 0
      BY <1>1, <1>2, <3>1, <3>3
    <3> QED
      BY <1>1, <3>2, <3>3
  <2>2. sent'[t] - 1 = sent[t]
    BY <1>1, <1>2
  <2>3. \A u \in Tasks \ {t} : pc[u] \in Owning =>
          digest'[engine[u]] = digest[engine[u]] /\ engine[u] \notin busy'
    BY <1>1, <1>2, <1>3, <1>4 DEF TypeOK
  <2> QED
    BY <1>1, <1>2, <1>3, <2>1, <2>2, <2>3 DEF Inv, DigestInv
<1> QED
  BY <1>5, <1>6, <1>7 DEF DataInv

(* An engine has read its block.                                           *)
LEMMA DoneData == ASSUME Inv, NEW e \in Engines, EngineDone(e) PROVE DataInv'
<1>1. TypeOK /\ LockInv /\ e \in busy
  BY DEF Inv, LockInv, EngineDone
<1>2. /\ UNCHANGED <<pc, engine, sent, seen, in_use, powered, text, cut>> /\ busy' = busy \ {e}
      /\ digest'[e] = Append(digest[e], text) /\ \A f \in Engines \ {e} : digest'[f] = digest[f]
  BY <1>1 DEF EngineDone, taskVars, TypeOK
<1>3. InUseInv' /\ TextInv'
  BY <1>1, <1>2 DEF Inv, InUseInv, TextInv
<1>4. DigestInv'
  <2> SUFFICES ASSUME NEW u \in Tasks, pc[u] \in Owning, engine[u] \notin cut
               PROVE  /\ powered
                      /\ sent[u] > 0 /\ engine[u] \in busy'
                           => text = <<u, sent[u]>> /\ digest'[engine[u]] = Blocks(u, sent[u] - 1)
                      /\ sent[u] > 0 /\ engine[u] \notin busy' => digest'[engine[u]] = Blocks(u, sent[u])
                      /\ pc[u] = "r_release" => seen[u] = Blocks(u, sent[u])
    BY <1>2 DEF DigestInv, Blocks
  <2>1. CASE engine[u] # e
    BY <1>1, <1>2, <2>1 DEF Inv, DigestInv, TypeOK
  <2>2. CASE engine[u] = e /\ sent[u] > 0
    <3>1. sent[u] - 1 \in Nat /\ (sent[u] - 1) + 1 = sent[u]
      BY <1>1, <2>2 DEF TypeOK
    <3>2. text = <<u, sent[u]>> /\ digest[e] = Blocks(u, sent[u] - 1)
      BY <1>1, <2>2 DEF Inv, DigestInv
    <3>3. digest'[e] = Blocks(u, sent[u])
      BY <1>2, <3>1, <3>2, BlocksAppend
    <3> QED
      BY <1>1, <1>2, <2>2, <3>3 DEF Inv, DigestInv
  <2>3. CASE engine[u] = e /\ ~ (sent[u] > 0)
    BY <1>1, <1>2, <2>3 DEF Inv, DigestInv
  <2> QED
    BY <2>1, <2>2, <2>3
<1> QED
  BY <1>3, <1>4 DEF DataInv

(* esp_sha_unlock_engine gives its engine up, and the power with the last  *)
(* one (sha.c:182-193).                                                    *)
LEMMA ClearData == ASSUME Inv, NEW t \in Tasks, ClearInUse(t) PROVE DataInv'
<1>1. TypeOK /\ LockInv /\ pc[t] = "u_state" /\ engine[t] \in Engines
  BY DEF Inv, LockInv, TypeOK, ClearInUse, At
<1>2. /\ pc'[t] = "u_release" /\ \A u \in Tasks \ {t} : pc'[u] = pc[u]
      /\ UNCHANGED <<engine, sent, seen>> /\ in_use' = [in_use EXCEPT ![engine[t]] = FALSE]
      /\ PowerOff \/ UNCHANGED <<hwVars, cut>>
  BY <1>1 DEF ClearInUse, At, taskVars, TypeOK
<1>3. \A u \in Tasks \ {t} : HasEngine(u) => engine[u] # engine[t]
  BY <1>1, UniqueUse
<1>4. InUseInv'
  <2>1. \A u \in Tasks : HasEngine(u)' => (in_use'[engine'[u]] <=> pc'[u] \in Using)
    BY <1>1, <1>2, <1>3 DEF Inv, InUseInv, TypeOK
  <2>2. \A e \in Engines : in_use'[e] => \E u \in Tasks : pc'[u] \in Using /\ engine'[u] = e
    <3> SUFFICES ASSUME NEW e \in Engines, in_use'[e] PROVE \E u \in Tasks : pc'[u] \in Using /\ engine'[u] = e
      OBVIOUS
    <3>1. e # engine[t] /\ in_use[e]
      BY <1>1, <1>2 DEF TypeOK
    <3>2. PICK u \in Tasks : pc[u] \in Using /\ engine[u] = e
      BY <3>1 DEF Inv, InUseInv
    <3> QED
      BY <1>2, <3>1, <3>2
  <2> QED
    BY <2>1, <2>2 DEF InUseInv
<1>5. CASE PowerOff
  <2>1. \A u \in Tasks : pc[u] \in Owning => engine[u] \in cut'
    BY <1>5 DEF PowerOff
  <2>2. DigestInv'
    BY <1>1, <1>2, <2>1 DEF DigestInv
  <2>3. TextInv'
    BY <1>1, <1>2, <1>5 DEF PowerOff, Inv, TextInv
  <2> QED
    BY <1>4, <2>2, <2>3 DEF DataInv
<1>6. CASE UNCHANGED <<hwVars, cut>>
  <2>1. TextInv'
    BY <1>1, <1>2, <1>6 DEF Inv, TextInv, hwVars
  <2>2. DigestInv'
    BY <1>1, <1>2, <1>6 DEF Inv, DigestInv, hwVars
  <2> QED
    BY <1>4, <2>1, <2>2 DEF DataInv
<1> QED
  BY <1>2, <1>5, <1>6

(* Nothing is taken, used or powered at the start.                         *)
LEMMA InitInv == Init => Inv
<1> SUFFICES ASSUME Init PROVE Inv
  OBVIOUS
<1> USE DEF Init, LocksInit
<1>1. <<>> \in Seq(Text) /\ <<>> \in Seq(Tasks \cup {NOBODY})
  OBVIOUS
<1>2. TypeOK
  <2>1. <<>> \in Text
    BY DEF Text
  <2>2. LocksTypeOK
    BY <1>1, Defaults DEF LocksTypeOK
  <2>3. digest \in [Engines -> Seq(Text)] /\ seen \in [Tasks -> Seq(Text)]
    BY <1>1
  <2>4. text \in Text
    BY <2>1
  <2>5. /\ in_use \in [Engines -> BOOLEAN] /\ powered \in BOOLEAN /\ busy \subseteq Engines
        /\ cut \subseteq Engines
    OBVIOUS
  <2>6. engine \in [Tasks -> Engines]
    BY Defaults
  <2>7. sent \in [Tasks -> 0 .. MaxBlocks]
    OBVIOUS
  <2>8. pc \in [Tasks -> {"idle"} \cup Inner \cup Owning \cup Unlocking]
    OBVIOUS
  <2> HIDE DEF Init
  <2> QED
    BY <2>2, <2>3, <2>4, <2>5, <2>6, <2>7, <2>8 DEF TypeOK
<1>3. CallInv /\ BootInv
  BY Defaults DEF CallInv, BootInv
<1>4. HoldInv /\ InUseInv /\ TextInv /\ DigestInv
  BY DEF HoldInv, InUseInv, TextInv, DigestInv
<1> QED
  BY <1>2, <1>3, <1>4 DEF Inv, LockInv

(* Every step preserves the invariant.                                     *)
LEMMA NextInv == Inv /\ [Next]_vars => Inv'
<1> SUFFICES ASSUME Inv, [Next]_vars PROVE DataInv'
  BY NextLockInv DEF Inv, DataInv
<1>1. ASSUME NEW t \in Tasks, Decide(t) \/ LockStep(t) \/ Proceed(t) PROVE DataInv'
  BY <1>1, QuietStep, MarkData, FillData, StartData, ClearData DEF Proceed
<1>2. CASE StartScheduler \/ UNCHANGED vars
  BY <1>2 DEF StartScheduler, vars, hwVars, taskVars, Inv, DataInv, InUseInv, TextInv, DigestInv
<1> QED
  BY <1>1, <1>2, DoneData DEF Next

(* What the invariant says of the properties.                              *)
LEMMA InvProperties == Inv => Exclusive /\ AssertsHold /\ DigestRight
<1> SUFFICES ASSUME Inv PROVE Exclusive /\ AssertsHold /\ DigestRight
  OBVIOUS
<1>1. ASSUME NEW t \in Tasks, NEW u \in Tasks, HasState(t), HasState(u) PROVE t = u
  BY <1>1, HasUnique DEF Inv, Has
<1>2. Exclusive
  BY <1>1, UniqueUse DEF Exclusive, Inv
<1>3. AssertsHold
  BY DEF AssertsHold, Inv, InUseInv
<1>4. DigestRight
  BY DEF DigestRight, Inv, DigestInv
<1> QED
  BY <1>2, <1>3, <1>4

HIDE DEF Inv, Exclusive, AssertsHold, DigestRight

(* For any number of tasks and engines: two tasks never have one engine,   *)
(* the state of engines or the shared memory together, although the mutex  *)
(* of a lock is made by whichever comes first (locks.c:46-83).             *)
THEOREM MutualExclusion == Spec => []Exclusive
  BY InitInv, NextInv, InvProperties, PTL DEF Spec

(* The assertions on in_use never fail (sha.c:173, 184, 210, 238).         *)
THEOREM Asserts == Spec => []AssertsHold
  BY InitInv, NextInv, InvProperties, PTL DEF Spec

(* A digest that a task reads has the blocks that task sent, in order,     *)
(* although all engines read their blocks from one memory, as long as the  *)
(* engine kept its power (sha.c:207-259).                                  *)
THEOREM Digests == Spec => []DigestRight
  BY InitInv, NextInv, InvProperties, PTL DEF Spec
=============================================================================
