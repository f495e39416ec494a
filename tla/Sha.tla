--------------------------------- MODULE Sha ---------------------------------
(***************************************************************************)
(* components/esp32/hwcrypto/sha.c: tasks take a SHA engine, waiting       *)
(* (esp_sha) or not (mbedtls/port/esp_sha256.c, which falls back to        *)
(* software), feed it blocks through a memory all engines share, read the  *)
(* digest and give the engine back.  The hardware is powered while an      *)
(* engine is in use.                                                       *)
(*                                                                         *)
(* A block is the pair of its task and its number; a digest is the         *)
(* sequence of the blocks an engine has read.                              *)
(***************************************************************************)
EXTENDS Locks

CONSTANTS
  Engines,      \* indexes of engine_states
  MaxBlocks     \* bound: blocks of a message

ASSUME ShaAssumption ==
  /\ LockNames = Engines \cup {"state_change_lock", "memory_block_lock"}
  /\ Engines # {} /\ Engines \cap {"state_change_lock", "memory_block_lock"} = {}
  /\ MaxBlocks \in Nat

VARIABLES
  in_use,       \* of engine_states
  powered,      \* clock on, not in reset
  busy,         \* the BUSY registers
  text,         \* the memory at SHA_TEXT_BASE
  digest,       \* per engine the blocks it has read
  pc, engine,   \* per task where it is and its engine
  sent, seen,   \* per task: blocks started, the digest it read last
  cut           \* history: engines that lost power while a task had them

hwVars == <<powered, busy, text, digest>>
taskVars == <<engine, sent, seen>>
vars == <<lockVars, in_use, hwVars, pc, taskVars, cut>>

Inner == {"engine", "state", "enabled", "mark"}             \* esp_sha_lock_engine
Owning == {"locked", "b_memory", "b_start", "b_release", "r_memory", "r_release"}
Unlocking == {"u_state", "u_release", "u_engine"}           \* esp_sha_unlock_engine

NoEngine == CHOOSE e \in Engines : TRUE     \* of a task without one, never looked at

Text == (Tasks \X (1 .. MaxBlocks)) \cup {<<>>}    \* a block, or something else
Blocks(t, n) == [k \in 1 .. n |-> <<t, k>>]

TypeOK ==
  /\ LocksTypeOK
  /\ in_use \in [Engines -> BOOLEAN] /\ powered \in BOOLEAN /\ busy \subseteq Engines
  /\ text \in Text /\ digest \in [Engines -> Seq(Text)] /\ seen \in [Tasks -> Seq(Text)]
  /\ pc \in [Tasks -> {"idle"} \cup Inner \cup Owning \cup Unlocking]
  /\ engine \in [Tasks -> Engines]
  /\ sent \in [Tasks -> 0 .. MaxBlocks]
  /\ cut \subseteq Engines

Init ==
  /\ LocksInit
  /\ in_use = [e \in Engines |-> FALSE] /\ powered = FALSE /\ busy = {}
  /\ text = <<>> /\ digest = [e \in Engines |-> <<>>]
  /\ pc = [t \in Tasks |-> "idle"] /\ engine = [t \in Tasks |-> NoEngine]
  /\ sent = [t \in Tasks |-> 0] /\ seen = [t \in Tasks |-> <<>>] /\ cut = {}

At(t, here, there) == Runs(t) /\ pc[t] = here /\ pc' = [pc EXCEPT ![t] = there]

\* Flags are set by their owners without the lock but cleared under it, so
\* that reading them one by one amounts to reading them at once.
sha_engines_all_idle == \A e \in Engines : ~ in_use[e]

StartScheduler ==
  /\ pc[BootTask] = "idle"
  /\ SchedulerStarts
  /\ UNCHANGED <<in_use, hwVars, pc, taskVars, cut>>

-----------------------------------------------------------------------------
(* esp_sha_lock_engine, esp_sha_try_lock_engine                            *)

esp_sha_lock_engine(t, e, delay) ==
  /\ At(t, "idle", "engine")
  /\ engine' = [engine EXCEPT ![t] = e]
  /\ lock_acquire(t, e, delay)
  /\ UNCHANGED <<in_use, hwVars, sent, seen, cut>>

\* The digest is computed in software.
TryFails(t) ==
  /\ At(t, "engine", "idle")
  /\ Refused(t, engine[t])
  /\ engine' = [engine EXCEPT ![t] = NoEngine]
  /\ Return(t)
  /\ UNCHANGED <<in_use, hwVars, sent, seen, cut>>

LockInner(t) ==
  /\ At(t, "engine", "state")
  /\ Acquired(t, engine[t])
  /\ lock_acquire(t, "state_change_lock", FOREVER)
  /\ UNCHANGED <<in_use, hwVars, taskVars, cut>>

\* Mutant: only the first user gets in, others look again and again.
EnableHardware_Poll(t) ==
  /\ Acquired(t, "state_change_lock") /\ Runs(t) /\ pc[t] = "state"
  /\ IF sha_engines_all_idle
     THEN powered' = TRUE /\ pc' = [pc EXCEPT ![t] = "enabled"] /\ Return(t)
     ELSE /\ mutex' = [mutex EXCEPT !["state_change_lock"] = <<NOBODY>>]
          /\ call' = [call EXCEPT ![t].step = "take"]
          /\ UNCHANGED <<started, lock, powered, pc>>
  /\ UNCHANGED <<in_use, busy, text, digest, taskVars, cut>>

EnableHardware(t) ==
  /\ At(t, "state", "enabled")
  /\ Acquired(t, "state_change_lock")
  /\ powered' = (powered \/ sha_engines_all_idle)
  /\ Return(t)
  /\ UNCHANGED <<in_use, busy, text, digest, taskVars, cut>>

LockInnerRelease(t) ==
  /\ At(t, "enabled", "mark")
  /\ lock_release("state_change_lock")
  /\ UNCHANGED <<in_use, hwVars, taskVars, cut>>

\* in_use is set after state_change_lock was released.
MarkInUse(t) ==
  /\ At(t, "mark", "locked")
  /\ in_use' = [in_use EXCEPT ![engine[t]] = TRUE]
  /\ sent' = [sent EXCEPT ![t] = 0]
  /\ cut' = IF powered THEN cut \ {engine[t]} ELSE cut \cup {engine[t]}
  /\ UNCHANGED <<lockVars, hwVars, engine, seen>>

-----------------------------------------------------------------------------
(* esp_sha_block                                                           *)

esp_sha_block(t) ==
  /\ At(t, "locked", "b_memory")
  /\ sent[t] < MaxBlocks
  /\ lock_acquire(t, "memory_block_lock", FOREVER)
  /\ UNCHANGED <<in_use, hwVars, taskVars, cut>>

\* Mutant: esp_sha_wait_idle is not called.
FillBlock_NoWait(t) ==
  /\ At(t, "b_memory", "b_start")
  /\ Acquired(t, "memory_block_lock")
  /\ text' = <<t, sent[t] + 1>>
  /\ Return(t)
  /\ UNCHANGED <<in_use, powered, busy, digest, taskVars, cut>>

\* esp_sha_wait_idle, then the block is copied.
FillBlock(t) ==
  /\ At(t, "b_memory", "b_start")
  /\ Acquired(t, "memory_block_lock")
  /\ busy = {}
  /\ text' = <<t, sent[t] + 1>>
  /\ Return(t)
  /\ UNCHANGED <<in_use, powered, busy, digest, taskVars, cut>>

\* START for the first block, CONTINUE for others; without power, nothing.
StartBlock(t) ==
  /\ At(t, "b_start", "b_release")
  /\ busy' = IF powered THEN busy \cup {engine[t]} ELSE busy
  /\ digest' = IF powered /\ sent[t] = 0 THEN [digest EXCEPT ![engine[t]] = <<>>] ELSE digest
  /\ sent' = [sent EXCEPT ![t] = @ + 1]
  /\ UNCHANGED <<lockVars, in_use, powered, text, engine, seen, cut>>

BlockRelease(t) ==
  /\ At(t, "b_release", "locked")
  /\ lock_release("memory_block_lock")
  /\ UNCHANGED <<in_use, hwVars, taskVars, cut>>

\* The hardware has read the memory while it was busy.
EngineDone(e) ==
  /\ e \in busy
  /\ busy' = busy \ {e}
  /\ digest' = [digest EXCEPT ![e] = Append(@, text)]
  /\ UNCHANGED <<lockVars, in_use, powered, text, pc, taskVars, cut>>

-----------------------------------------------------------------------------
(* esp_sha_read_digest_state                                               *)

esp_sha_read_digest_state(t) ==
  /\ At(t, "locked", "r_memory")
  /\ sent[t] > 0
  /\ lock_acquire(t, "memory_block_lock", FOREVER)
  /\ UNCHANGED <<in_use, hwVars, taskVars, cut>>

\* esp_sha_wait_idle, LOAD, a wait for it, the copy.
LoadDigest(t) ==
  /\ At(t, "r_memory", "r_release")
  /\ Acquired(t, "memory_block_lock")
  /\ busy = {}
  /\ text' = <<>>       \* the digest instead of a block
  /\ seen' = [seen EXCEPT ![t] = digest[engine[t]]]
  /\ Return(t)
  /\ UNCHANGED <<in_use, powered, busy, digest, engine, sent, cut>>

ReadRelease(t) ==
  /\ At(t, "r_release", "locked")
  /\ lock_release("memory_block_lock")
  /\ seen' = [seen EXCEPT ![t] = <<>>]
  /\ UNCHANGED <<in_use, hwVars, engine, sent, cut>>

-----------------------------------------------------------------------------
(* esp_sha_unlock_engine                                                   *)

esp_sha_unlock_engine(t) ==
  /\ At(t, "locked", "u_state")
  /\ lock_acquire(t, "state_change_lock", FOREVER)
  /\ UNCHANGED <<in_use, hwVars, taskVars, cut>>

\* Without power the hardware forgets; tasks that have an engine lose it.
PowerOff ==
  /\ powered' = FALSE /\ busy' = {} /\ digest' = [e \in Engines |-> <<>>]
  /\ cut' = cut \cup {engine[t] : t \in {u \in Tasks : pc[u] \in Owning}}
  /\ UNCHANGED text

\* Mutant: in_use is not cleared.
ClearInUse_Keep(t) ==
  /\ At(t, "u_state", "u_release")
  /\ Acquired(t, "state_change_lock")
  /\ Return(t)
  /\ UNCHANGED <<in_use, hwVars, taskVars, cut>>

ClearInUse(t) ==
  /\ At(t, "u_state", "u_release")
  /\ Acquired(t, "state_change_lock")
  /\ in_use' = [in_use EXCEPT ![engine[t]] = FALSE]
  /\ IF sha_engines_all_idle' THEN PowerOff ELSE UNCHANGED <<hwVars, cut>>
  /\ Return(t)
  /\ UNCHANGED <<taskVars>>

UnlockRelease(t) ==
  /\ At(t, "u_release", "u_engine")
  /\ lock_release("state_change_lock")
  /\ UNCHANGED <<in_use, hwVars, taskVars, cut>>

UnlockEngine(t) ==
  /\ At(t, "u_engine", "idle")
  /\ lock_release(engine[t])
  /\ engine' = [engine EXCEPT ![t] = NoEngine]
  /\ sent' = [sent EXCEPT ![t] = 0]
  /\ cut' = cut \ {engine[t]}
  /\ UNCHANGED <<in_use, hwVars, seen>>

-----------------------------------------------------------------------------

\* What a task decides.
Decide(t) ==
  \/ \E e \in Engines, delay \in {0, FOREVER} : esp_sha_lock_engine(t, e, delay)
  \/ esp_sha_block(t) \/ esp_sha_read_digest_state(t) \/ esp_sha_unlock_engine(t)

LockStep(t) ==
  /\ Runs(t)
  /\ lock_init_generic(t) \/ SemaphoreTake(t)
  /\ UNCHANGED <<in_use, hwVars, pc, taskVars, cut>>

\* What it does without a decision.
Proceed(t) ==
  \/ TryFails(t) \/ LockInner(t) \/ EnableHardware(t) \/ LockInnerRelease(t) \/ MarkInUse(t)
  \/ FillBlock(t) \/ StartBlock(t) \/ BlockRelease(t)
  \/ LoadDigest(t) \/ ReadRelease(t)
  \/ ClearInUse(t) \/ UnlockRelease(t) \/ UnlockEngine(t)

Next ==
  \/ StartScheduler
  \/ \E t \in Tasks : Decide(t) \/ LockStep(t) \/ Proceed(t)
  \/ \E e \in Engines : EngineDone(e)

Spec == Init /\ [][Next]_vars

\* Tasks are scheduled and the hardware finishes; a mutex goes to the waiter
\* of highest priority that waited longest.  Nobody has to give an engine back.
Fairness ==
  /\ \A t \in Tasks : WF_vars(Proceed(t)) /\ SF_vars(LockStep(t))
  /\ \A e \in Engines : WF_vars(EngineDone(e))

FairSpec == Spec /\ Fairness

-----------------------------------------------------------------------------
(* Properties                                                              *)

HasEngine(t) == pc[t] \in {"state", "enabled", "mark"} \cup Owning \cup Unlocking
HasState(t) == pc[t] \in {"enabled", "u_release"}
HasMemory(t) == pc[t] \in {"b_start", "b_release", "r_release"}

\* Two tasks never have the same engine, never change the state of engines
\* together and never use the shared memory together, although each lock's
\* mutex is created by whichever of them comes first.
Exclusive ==
  \A t, u \in Tasks : t # u =>
    /\ ~ (HasEngine(t) /\ HasEngine(u) /\ engine[t] = engine[u])
    /\ ~ (HasState(t) /\ HasState(u))
    /\ ~ (HasMemory(t) /\ HasMemory(u))

\* The assertions on in_use hold: clear when an engine was just taken, set when
\* it is used or given back.
AssertsHold ==
  \A t \in Tasks :
    /\ pc[t] = "mark" => ~ in_use[engine[t]]
    /\ pc[t] \in Owning \cup {"u_state"} => in_use[engine[t]]

\* A digest that a task reads has exactly the blocks it sent, in order, also
\* when other engines work through the same memory, unless the hardware was
\* without power while the task had the engine.
DigestRight ==
  \A t \in Tasks : pc[t] = "r_release" /\ engine[t] \notin cut => seen[t] = Blocks(t, sent[t])

\* Whatever holds an engine for ever, a task that has its own always gets
\* through a call: it is back with its engine, or has given it back.
CallsReturn ==
  \A t \in Tasks : pc[t] \notin {"idle", "engine", "locked"} ~> pc[t] \in {"idle", "locked"}

\* An engine that a task has locked is powered.
EnginePowered == \A t \in Tasks : pc[t] \in Owning => powered
=============================================================================
