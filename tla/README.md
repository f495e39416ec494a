# A TLA+ development for the ESP32 development framework (pycom-esp-idf)

This directory holds specifications of the parts of `src/components` whose
correctness depends on interleaving, on power failures or on the order of steps:
the inter-processor calls, the guard around SPI flash operations, the mapping of
flash into the address space, the interrupt allocator, the task watchdog, the ring
buffer, the receiving side of the UART driver, the newlib locks with the SHA
accelerator that uses them, the non-volatile storage library (NVS) and the
over-the-air update logic with its bootloader. Each module names the C or C++
functions it models, and `PROJECT.json` maps every definition to the lines it stands
for.

    tlc -workers 2 -config nvs_blobs.cfg MCNvs    # one run; PROJECT.json lists them
    tlapm FlashGuardProofs.tla                    # the proofs, one module for each component

## 1. The system and its parts

ESP-IDF runs one application on two CPUs (PRO = 0, APP = 1) under FreeRTOS.
Code and constants are fetched from an SPI flash chip through one cache per CPU.

| component | state it keeps | operations | talks to |
|---|---|---|---|
| IPC (`esp32/ipc.c`) | `s_ipc_mutex`, `s_ipc_ack`, one semaphore per CPU, `s_func`, `s_func_arg`, `s_ipc_wait` | `esp_ipc_call`, `esp_ipc_call_blocking`, one `ipc_task` per CPU | FreeRTOS semaphores; called by the flash guard |
| flash guard (`spi_flash/cache_utils.c`) | `s_flash_op_mutex`, `s_flash_op_can_start`, `s_flash_op_complete`, saved cache state, interrupt masks of `intr_alloc.c` | disable/enable caches, interrupts and the other CPU; `spi_flash_op_block_func` on the other CPU | IPC, scheduler suspension, interrupt allocator |
| flash operations (`spi_flash/flash_ops.c`) | none | erase, write, encrypted write, read | every one between disable and enable |
| NVS pages (`nvs_page.cpp`, hash list) | header, entry state table and entries in flash; counters, find cache and hash list in RAM | load, write, read, find, erase, move an item; mark full / freeing; erase the page | flash operations |
| NVS page manager and storage | list of pages by sequence number, list of free pages | load with recovery, request a new page, find/read/write/erase over all pages | pages; called by `nvs_api.cpp` |
| OTA (`app_update`) and bootloader | two selection sectors, open handles, images | begin, write, end, set and get the boot partition; the bootloader's choice | flash operations, partition table |
| interrupt allocator (`esp32/intr_alloc.c`) | sorted list of descriptors, chains of shared handlers, masks of interrupts to disable during flash operations; interrupt matrix, `INTENABLE`, handler table | allocate, free, enable, disable, mark shared, reserve; `esp_intr_noniram_disable` and `_enable` | called by drivers and the flash guard |
| ring buffer (`freertos/ringbuf.c`) | storage, three pointers, two binary semaphores | send, receive, return, each from a task or an interrupt handler, with timeouts | FreeRTOS semaphores; used by the UART driver |
| UART driver, receiving (`driver/uart.c`) | hardware FIFO, stash, ring buffer, the piece being read, counts and flags | interrupt handler, `uart_read_bytes`, `uart_flush` | ring buffer |
| newlib locks (`newlib/locks.c`) | one lazily created mutex per lock | acquire, try, release | FreeRTOS mutexes; used by the SHA driver |
| SHA accelerator (`esp32/hwcrypto/sha.c`) | three engines with a lock and a flag, one shared text memory, power | lock, try, unlock an engine; block, read digest | locks; called by mbedTLS |
| flash mapping (`spi_flash/flash_mmap.c`) | MMU table of each CPU, a reference count per page, list of mappings | map, unmap, dump | inside the flash guard |
| task watchdog (`esp32/task_wdt.c`) | list of tasks with a flag, hardware timer | feed, delete; interrupt, reset | called by tasks and the idle hook |
| event loop, VFS, NVS handles | tables, lists, buffers | see `PROJECT.json` | left out so far, section 7 |
| drivers, network glue, start-up, logging, vendored libraries | | | not modelled, section 8 |

What is hard about it, and what each part must guarantee:

* **Two CPUs and no coherent place to stand.** Any instruction of either CPU can
  come between two of the other, a task without affinity changes CPU, an ipc task
  preempts everything on its CPU. The guard must leave no window in which a CPU
  with its cache off runs code from flash, the hand-over through shared globals
  must give every function to the right CPU once, and nobody may wait for ever.
* **Power may fail at every flash write.** A page, an item, a move of items from
  one page to another, a boot selection: all are several writes. What was stored
  before must be there afterwards, and the recovery code must cope with every
  state it can find, also when its own work is interrupted.
* **Two programs read one structure.** Application and bootloader each have their
  own code for the selection sectors and must agree.
* **Handlers and tasks share structures.** The ring buffer looks at its pointers
  without its lock and counts wake-ups with semaphores that hold one; the UART
  handler and a reader on the other CPU hand a stash to each other through a flag;
  locks come into being when first used. No wake-up, byte or exclusion may be lost.
* **Long sequences of calls.** The interrupt allocator must still be right after any
  order of allocating, sharing, freeing and masking, and the reference counts of mapped
  flash after any order of overlapping mappings.
* **The watcher.** The task watchdog must notice a stuck task however busy the others
  are, and whoever registers and leaves.
* **Cached values.** NVS keeps counters, a find cache and a hash list beside what
  is in flash; the guard keeps a CPU number across a window for migration.

The full list of hazards, with their lines and properties, is in `PROJECT.json`.

## 2. Modules

| module | models | style |
|---|---|---|
| `Ipc` | the shared globals of `ipc.c`, the steps of a caller and of an ipc task | actions on part of a state, composed by the next two |
| `IpcClient` | `Ipc` with tasks that make arbitrary calls | complete specification |
| `FlashGuard` | `Ipc` with the guard, its callers, migration and the boot phase | complete specification |
| `MCFlashGuard` | instances of `FlashGuard` | constants only |
| `NvsPage`, `NvsStorage` | methods of `Page`, `HashList`, `PageManager`, `Storage` | operators from a storage state to the state after the call |
| `Nvs` | API calls, power-on, power failures | one action per call |
| `DurableMap` | what NVS promises: a map that power failures leave alone | abstract specification |
| `MCNvs` | instances of `Nvs` with one and two keys | constants only |
| `Ota` | update calls, boot selection, bootloader, power failures | complete specification |
| `Ringbuf` | the data structure of `ringbuf.c`, byte by byte | operators on a record, one per function |
| `RingbufTasks` | tasks and handlers using one ring buffer | complete specification |
| `RingFifo` | what a ring buffer promises: a FIFO queue whose lent pieces stay intact | abstract specification |
| `UartRx` | receiving side of the UART driver | complete specification |
| `IntrAlloc` | interrupt allocator of both CPUs | complete specification |
| `Locks` | `locks.c` | actions on part of a state, composed by `Sha` |
| `Sha` | SHA driver and hardware, over `Locks` | complete specification |
| `FlashMmap` | flash mapping | complete specification |
| `TaskWdt` | task watchdog, with its hardware and tasks that get stuck | complete specification |
| `IpcClientProofs`, `FlashGuardProofs`, `OtaProofs`, `UartRxProofs`, `ShaProofs`, `FlashMmapProofs`, `TaskWdtProofs`, `IntrAllocProofs` | inductive invariant and theorems about the module named | TLAPS |
| `MCRingbuf`, `MCUartRx`, `MCIntrAlloc`, `MCSha`, `MCTaskWdt` | instances | constants only |

### Ipc, IpcClient

`callPc[t]` is the line of `esp_ipc_call_and_wait` the task is at, `ipcPc[c]` that
of `ipc_task` on CPU `c`. Every access to a shared global is a step, except that
the three assignments of lines 99-101, made under `s_ipc_mutex` before the ipc
task is woken, are one. Semaphores are counters with FreeRTOS's meaning
(external). In `IpcClient` a function is identified by the call it was passed in,
`<<task, number>>`, so that properties can compare what ran with what was asked.

### FlashGuard

`pc[t]` names the line of the disable or enable function a task is at; `blkPc[c]`
the line of the block function. The variables keep their C names. `noniram[c]`
is `non_iram_int_disabled_flag[c]`, `cache[c]` the cache enable bit,
`suspended[c]` who called `vTaskSuspendAll` on `c`. `CanRun` and `IpcCanRun` are
FreeRTOS (external): a task runs on its CPU unless the ipc task is active there or
somebody else suspended that CPU's scheduler; which ready task runs is open.
`Migrate` moves a task without affinity. Before `StartScheduler` only `BootTask`
runs and the other branch of both functions is taken. `panic` records the first
assertion that failed; nothing runs after it. `spi_flash_write_encrypted` returns
without the enable function (`EncryptedOp`), as the code does. The saved cache
control mask is constant and abstracted to the enable bit.

### NvsPage, NvsStorage, Nvs

A storage state `s` is a record: the flash image `fl`, the `Page` objects `pg`, the
two page lists, the next sequence number, the return code, and scratch fields for
out parameters. A method is an operator from `s` to the state in which it
returns. `Flash` is the only operator that changes the flash image, and it adds to
`s.cuts` every image a power failure could leave at that point: before the write
and, for writes of several words, with the write begun (a *torn* entry has a wrong
CRC). `Assert_` models `assert`: afterwards nothing more is written. `Then` and
`IfOk` sequence the steps of a method; `IfOk` is the code's
`if (err != ESP_OK) return err;`.

In `Nvs` a call is one action: it ends as the operator says, or in an assertion,
or in one of the images of `cuts`. NVS has no concurrency of its own (one lock in
`nvs_api.cpp`), so calls are atomic but for power failures. `map` is what a
power-on from the present flash would read back, computed with the recovery code;
`DurableMap` is checked against it.

Abstractions: an item is type, key, span and value; the namespace is part of the
key; `CrcOk` stands for the CRC; sector erase is atomic; flash write errors are not
modelled. Entries per page and states per word of the table are constants.

### Ota

`sel` are the two selection structures (`seq`, and whether the CRC matches). A call
that writes them leaves its flash operations in `job`; `FlashStep` performs one,
`PowerOff` may come between any two and in the middle of a write. Sequence numbers
are unsigned with wrap-around at `UINT_MAX`; `SlotOf(n)` is `(n - 1) % app_count` as
the hardware computes it. `OtaBegin` is taken only for a partition that neither
runs nor is named by `esp_ota_get_boot_partition`, and `SetBoot` for an image that
has been written in full: this is what the documentation asks of applications.
`cut` remembers whether a selection was ever interrupted.

### Ringbuf, RingbufTasks, RingFifo

`Ringbuf` has the storage as an array of words (of bytes for a byte buffer) with
headers, dummies and split items where the code writes them, and the pointers as
offsets. `ok` turns false when a `configASSERT` fails or a copy leaves the storage.
(The assertion at lines 96 and 161 compares a negative difference as unsigned and
always holds.) `RingbufTasks` has a step per look at the pointers, per critical
section and per semaphore operation. A time is one of "forever", "some", "zero" and
"under", the last for the underflow of `ticks_remaining`. `RF == INSTANCE RingFifo`
maps the storage between `read_ptr` and `write_ptr` to a queue and each receiver's
pointer to the bytes it points at, so that `Fifo` also says that lent memory is not
overwritten.

### UartRx

The ring is a FIFO of bytes with the room the code asks for (`Room`), which is what
`RingbufTasks` shows of a byte buffer written under that check; a received piece ends
anywhere, as it would at the end of the storage. `Written` is what a write without
room does. Bytes are numbered in the order of the line. The handler's loop is a
chain of steps `Isr...`; with `sameCpu` no task step comes between them. The timeout
and full interrupts are one: data in the FIFO raises it sooner or later. The receive
timeout of `uart_read_bytes` is `ReadLeave`.

### IntrAlloc

Every operation is one critical section and one action. `vectors` is the linked list,
`crashed` that `insert_vector_desc` wrote through its null predecessor. `matrix` and
`intenable` are the hardware. `Init` is the state in which the scheduler starts, with
the interrupt of the task watchdog allocated on CPU 0 (`cpu_start.c`, `task_wdt.c:205`);
because of it the list never has to be extended before its head. The environment
follows the documentation: tasks that handle interrupts are pinned
(`docs/api/intr_alloc.rst:55-58`), a CPU gives a source to one handle at a time, unused
interrupts only are marked or reserved, and internal sources are switched on their own
CPU outside a flash operation. `asked`, `off` and `marked` are history variables for
the properties. `shared_intr_isr`, `Called` and `Arriving` say what would run.
`Look` is one round of the loop of `get_free_int`, which is a function of the number of
rounds.

### Locks, Sha

A lock is 0 or the number of a mutex. `call[t]` is the activation of
`lock_acquire_generic` a task is in: the read of `*lock`, `lock_init_generic` (a critical
section) and the wait are separate steps. `Sha` composes these with the control flow of
`sha.c`. An engine reads the text memory when it finishes, so a block that is
overwritten too early shows in the digest. `cut` is a history variable: engines that
were without power while a task had them.

### FlashMmap

`spi_flash_mmap` and `spi_flash_munmap` are one step each: they work between the disable
and enable functions, and `FlashSafe` of `FlashGuard` says that nobody else does then.
`spi_flash_mmap_dump` initialises the counts without the guard and is a step per page.
`Start` is the value of the loop variable after the search, for any region and size.
`failed` is a failed assertion, or an index outside the tables. `Init` is what the
bootloader leaves: the application mapped on both CPUs, and perhaps a page of its own on
one. `booted` (what the application runs from), `raced` (a call met an initialising
dump) and the flash page of each mapping are history.

### TaskWdt

The bodies of feed and delete, and the walk of the interrupt, are under one spinlock and
are one step each; the interrupt feeds the hardware before it takes the lock. The timer
has two stages: interrupt and reset. `Hang` makes a task call no more. `since` and
`skipped` are history: who called since the hardware was last fed, and who was then the
last of the list, whose flag is not reset.

## 3. Runs

| run | instance | what it shows |
|---|---|---|
| `ipc_calls` | 2 tasks, 2 calls each, either CPU or an invalid one | each function runs at most once, with its argument, where asked (`RunsOnceWhereAsked`); an acknowledgement reaches its own caller (`ReturnedMeansBegun`); every call completes (`CallsComplete`) |
| `flash_guard` | 3 tasks: one per CPU and one that migrates; both kinds of operation; boot phase | `FlashSafe`, `NoFetchWhileCacheOff`, `CoreIdAssertHolds`, `ReturnReleases`, `OpReturns` |
| `nvs_blobs` | 2 keys, three-entry blobs, 3 pages of 6 entries, one power failure anywhere | `Durable`, `DebugCheck` |
| `nvs_repeated` | 1 key, one-entry items, 2 pages of 4 entries, three power failures anywhere | `Durable`, `BootSucceeds`, `NoFreeingAtRest`, with the recovery at power-on itself cut short, repeatedly |
| `ota` | 2 OTA partitions, with or without a factory app, power failures anywhere | `SetBootSelects`, `GetBootAgrees`, `UpdatesAreSafe`, `StaysBootable` |
| `ringbuf` | one task and one handler sending, one of each receiving; a buffer of each type of 40, 48 and 13 bytes | the refinement `Fifo`; `NoAssertFails`; no lost wake-up of a sender (`SenderWakes`); the largest item fits (`MaxItemFits`); `UnreadIsReceived` |
| `uart_rx` | two tasks that read 1 or 3 bytes or flush, on either CPU; 5 bytes, FIFO of 2, ring of 12 | `EveryByteOnce`, `BufferedLenIsExact`, `StashIsSent` |
| `intr_alloc` | 2 handles, interrupts 2, 7, 12, 28 of both CPUs, 2 sources, 9 kinds of request | `HandlersReached`, `OnlyLiveHandlersRun`, `NoFlashHandlerInWindow`, `ListInOrder`, `FlagsTellUse` |
| `sha` | a start-up task and two later ones, 2 engines, messages of up to 2 blocks | `Exclusive`, `AssertsHold`, `DigestRight`, `CallsReturn` |
| `flash_mmap` | tables of 5 entries, 4 of them for data; mappings of 1, 2 and 5 pages of a chip of 5 | `MappingsHold`, `RefcntExact` |
| `task_wdt` | 3 tasks that register, feed, leave and get stuck | `FlagsAreTrue`, `StuckTaskBarks` |

Each module also defines a `TypeOK`. It is among the properties of `flash_guard`, and
`IpcClient`, `Ota`, `Sha` and `TaskWdt` have it in the proved invariant; for the others it
documents the state.

One run shows a disagreement between the code and what the repository says of it
(`findings` in `PROJECT.json` quotes both); section 6 has the others:

| run | what happens |
|---|---|
| `nvs_recovery` | an interrupted move of a blob wastes the entries of the half-copied blob; completing it at power-on can run off the end of the page, at every power-on |

### Bounds and why they are enough

* `MaxCalls = 2`, two tasks: a call can meet another task's call before, during and
  after it, and a task's own earlier call; a third caller only queues on the mutex. The
  proofs lift both bounds for the two invariants.
* Three tasks in `flash_guard` cover every way two others can be on a CPU with the
  operating task: same CPU, other CPU, migrating. The proofs lift the bound for all the
  invariants. There is no bound on the number of operations.
* NVS: 6 entries and 3-entry blobs with 3 states per word: a page holds two blobs, each
  within one word, and a blob's write, move and erase are each cut at every point; items
  that lie in two words are left out, because the code fails an assertion on them (section 6). `Durable` admits no outcome of a call
  but those of `DurableMap`, so in both passing runs it also says that no assertion fails.
  `MaxSeq` lets pages be started beyond the first: every page is freed and reused.
  `MaxLosses` is 1 in `nvs_blobs`: one power failure, and a recovery that runs to
  its end. With two keys a second failure reaches the state that `nvs_recovery` shows
  (section 6). `nvs_repeated` has one key, pages of 4 one-entry items, which fill up
  with live, stale and torn items in every combination, and three failures, so that a
  recovery is interrupted, and the recovery from that interruption too. Its properties
  hold only while the failures are fewer than the entries of a page: every interrupted
  copy wastes an entry of the active page, so with pages of 3 entries the same three
  failures leave no room for the item and `BootSucceeds` and `Durable` fail, as in
  `nvs_recovery`. With the 126 entries of a real page and one-entry items that takes
  as many interrupted recoveries in a row as the page has entries left.
* OTA: `MaxSeq = 6` lets the two sectors alternate several times with every pattern
  of torn and erased sectors; larger numbers repeat modulo `AppCount`. `UINT_MAX = 255`
  keeps the wrap-around of `0 - 1` (255 and 2^32 - 1 have the same residue modulo 2,
  and modulo 3). The number of power failures and updates is unbounded. The proofs are
  for every `AppCount`, `UINT_MAX`, `MaxSeq` and `Chunks` within `OtaAssumption`.
* Ring buffer: the smallest buffers that hold two entries, split one and need a dummy;
  pointers go round without bound. Entries are multiples of 8 bytes, as are the item
  buffers: otherwise the buffer loses its items (section 6). The byte buffer has one
  sending task that waits for ever (see section 6), items are not empty, and the timed
  waits are exercised on the buffer that does not split.
* UART: 5 bytes fill FIFO, stash and ring at once, since `Room` asks for 8 bytes more
  than are written. All 5 fit into the ring of 12 together, so that a write without room
  destroys nothing here; section 6 has the instance in which it does. The proofs are for
  any sizes, and say what holds in either case.
* Interrupts: two handles share an interrupt, take turns on one and sit on different
  CPUs; the four interrupts cover level, edge, special and high-level ones. A third
  handle of a chain behaves as the second. States are identified by `MCView` (values
  nothing reads) and up to permutation of handles; no temporal property is checked. The
  proofs are for any handles, interrupts, sources and requests.
* SHA: two tasks can hold both engines, wait for one and race for every lock. A third
  engine would add nothing that two do not show of the shared memory and the power; the
  proofs are for any number of tasks, engines and blocks.
* Flash mapping: 3 mappings (`MaxHandle`) overlap each other and the application's pages
  in every way, fill the region, and are released in every order; size 5 is larger than
  the data region. A count is at most 4 here: that it wraps at 256 is in section 6. The
  proofs lift the bounds up to that.
* Task watchdog: of three tasks one can be first, in the middle and last of the list,
  and move between these places. `TIMEOUT = 2` lets tasks call between the ticks before
  the first stage and between the first and the second; the proof lifts both bounds for
  `FlagsAreTrue`.

`CHECK_DEADLOCK FALSE` is set for IPC (all calls made), for the flash guard (a failed
assertion stops the device, and there is a real deadlock, section 6) and for the flash
mapping (a failed assertion; all mappings made).

### Fairness

* ipc tasks: weak fairness. They have the highest priority and the functions they
  run return, as `esp_ipc.h` demands.
* A task inside an IPC call: weak fairness, and strong fairness for taking
  `s_ipc_mutex`, whose waiters FreeRTOS wakes in priority and FIFO order.
* A task inside a flash operation: strong fairness. It is preempted and resumed any
  number of times, but time slicing among equal priorities lets it run again.
  A lower-priority task starved by a busy higher-priority one is outside this.
* Ring buffer: weak fairness for the steps of a call in progress and for receivers to
  return what they got and to call again. Senders need not send.
* UART: weak fairness for the handler and for calls in progress; strong fairness for
  tasks to call `uart_read_bytes` again, since `rx_mux` goes to its waiters in turn.
* SHA: weak fairness for tasks and for the hardware to finish, strong fairness for a
  waiter of a mutex. Nobody has to give an engine back.
* Task watchdog: weak fairness for the clock, the interrupt and the reset. Nothing is
  asked of the tasks.
* Making a call, starting an operation, migrating, starting the scheduler: not fair.
* NVS, OTA, the interrupt allocator and the flash mapping state no liveness.

### Mutants

Every property of a passing run has a mutant in `PROJECT.json`: a variant of one
definition, with a plausible bug (a dropped guard, a swapped order, a missing reset),
under which TLC finds that property violated.

## 4. What is proved

TLAPS checks the theorems below, for every value of the constants that satisfies the
named assumptions of the modules. Each module has one inductive invariant; TLC checked
each on the instance of the component's run before it was proved.

| module | theorem | statement | obligations |
|---|---|---|---|
| `FlashGuardProofs` | `FlashSafety`, `NoFetch`, `Releases`, `CoreIdAssertion`, `TypeCorrect` | `[]` of `FlashSafe`, `NoFetchWhileCacheOff`, `ReturnReleases`, `CoreIdAssertHolds`, `TypeOK` | 244 |
| `IpcClientProofs` | `RunsOnce`, `ReturnedBegun` | `[]RunsOnceWhereAsked`, `[]ReturnedMeansBegun` | 647 |
| `OtaProofs` | `Selects` (if `Divides`), `GetBoot_Agrees`, `UpdateSafety`, `Bootable` | `[]SetBootSelects`, `[]GetBootAgrees`, `[]UpdatesAreSafe`, `StaysBootable` | 809 |
| `ShaProofs` | `MutualExclusion`, `Asserts`, `Digests` | `[]Exclusive`, `[]AssertsHold`, `[]DigestRight` | 1138 |
| `FlashMmapProofs` | `Mappings`, `Refcnt` (if `CountsFit`) | `[]MappingsHold`, `[]RefcntExact` | 445 |
| `UartRxProofs` | `Order`; `Delivery`, `Count` (if `[][StashFits]_vars`) | `[]InOrder(Line, lost, next)`; `[]EveryByteOnce`, `[]BufferedLenIsExact` | 2378 |
| `TaskWdtProofs` | `FlagsTheorem` | `[]FlagsAreTrue` | 207 |
| `IntrAllocProofs` | `Reached`, `LiveOnly`, `FlashWindow` (if `HandlersGiven`); `Sorted` (if `MarkedLater`); `Flags` | `[]HandlersReached`, `[]OnlyLiveHandlersRun`, `[]NoFlashHandlerInWindow`; `[]ListInOrder`; `[]FlagsTellUse` | 2382 |

### FlashGuardProofs

For every finite or infinite set of tasks, every placement and every choice of tasks
without affinity. Assumptions: `TasksAssumption` (module `Ipc`) and `FlashAssumption`: the
boot task is pinned to CPU 0, tasks start on some CPU, `None` and `IpcTask` are not tasks.

`FlashSafe` alone is not inductive: it speaks of the operation only, and says nothing
of how the other CPU got where it is. `Inv` adds, along the order of the code:
`MutexInv` (inside the guard means holding the mutex, hence at most one task is),
`CallInv` and `FuncInv` (what that task has published), `PendingInv` (an IPC request
that has not been answered is for the CPU opposite to it, and `can_start` is still
false), `ReadyInv` (from `can_start` until the end of the operation the other CPU is
in the block function's loop, because `complete` was cleared before the request),
`OwnInv`, `OwnerInv` and `BlkInv` (what each of the two CPUs has switched off at which
line), and `BootInv`, `StartedInv` for the phase before the scheduler. The critical
step is `ClearComplete`: it is safe only because no earlier block function can have
answered `can_start`, which `PendingInv` and `FuncInv` give. `NoFetch` needs `CacheInv`
besides, who has switched a cache off and has yet to switch it on again, and `Releases`
`HoldInv`, where the holder of the mutex can be.

### IpcClientProofs

For every set of tasks and every `MaxCalls`. `s_ipc_mutex` makes the caller that has
published unique (`MutexInv`), so at most one request is on its way and it is that
caller's (`RequestInv`, `FuncInv`); an acknowledgement is given only for a request that
was on its way, so it is taken by the caller of that request (`AckInv`); and a call whose
request was not picked up has not begun (`FreshInv`), which makes "at most once" inductive.

### OtaProofs

For every number of OTA apps up to the 16 there are subtypes for, every width of the
sequence number (`UINT_MAX`), every `MaxSeq` and every length of an image
(`OtaAssumption`). The invariant says where the call in progress stands: nothing is in
progress (`Rest`), `esp_ota_set_boot_partition` is rewriting one sector (`SetJob`) or
erasing both (`FactoryJob`), or the bootloader writes a first selection (`BootJob`), each
with the operations left and with what the bootloader would choose once they are done.
What holds only on a device where no selection was ever cut short is guarded by `~ cut`:
the sectors of the others may hold the number 0, and then `Selects` needs `Divides`, that
the number of apps divides `UINT_MAX + 1`. This is not a convenience: with three apps
the property fails (section 6). The other three theorems do not have it.

### ShaProofs

For every set of tasks and engines and every length of messages. `ShaAssumption` says
that the locks are those of `sha.c`. `HoldInv` is the core: a task that has a lock is the
holder of the one mutex ever created for it. For that `CallInv` follows each activation
of `lock_acquire_generic` from its unprotected read of `*lock`: a handle read as zero is
read again inside the critical section, so two first users get the same mutex.
`BootInv` covers the time before the scheduler, when the lock functions do nothing and
one task runs. `InUseInv` then ties `in_use` to the one user of an engine, `TextInv`
says that the block in the shared memory is untouched until its engine has read it, and
`DigestInv` that an engine that kept its power has read the blocks of its user.

### FlashMmapProofs

For tables, regions and chips of any size. `CountsFit`: no more mappings are made than a
reference count can hold (`MaxHandle + 1 < REFCNT_MOD`, 254 of them with the 8 bits of the
code); without it `RefcntExact` fails (section 6). The invariant has two phases. Until
the counts are initialised, by the first call or page by page by a dump, nothing is mapped
but the application (`Pristine`); from then on the count of a page is the cardinality of
the set of its users (`Good`), so a page that has one is never set up anew nor disabled. A
call that comes while a dump initialises the counts ends both (`raced`), and the
properties except it.

### UartRxProofs

For any number of tasks, sizes of the FIFO and the ring, lengths and bytes, and both
placements of the tasks. `UartAssumption` has what `uart_driver_install` checks, and the
8 bytes of section 6. `Ctl` says who may be where: a call has `rx_mux` up to its last step
(`MuxInv`), and `rx_buffer_full_flg` decides whether the handler or a call may touch
`rx_data_buf` (`StashInv`: the flag is clear while the handler is between reading the FIFO
and the end, so a call cannot send half a stash, and it stays set until a call that sent
the stash has counted it, so the handler cannot overwrite `rx_stash_len`). With `Ctl`, every
step keeps the line `got \o rest \o ring \o stash \o rxfifo`, cuts a stretch out of it, or
appends the next byte; the lemmas on sequences (`Middle`, `CutRing` and others) say what
that does to order and contents.

A stretch that is cut out is recorded as dropped, except when a call writes a stash over
unread bytes (the timeout of section 6). So `Order` holds whatever the timing, and
`Delivery` and `Count` hold of behaviours in which every stash that a call sends fits
(`StashFits`, an action formula about the two places of the code that send it): it is met
when `xRingbufferSend` sends after finding room, and the code gives no other guarantee of
it. For `Count`, `LenInv` is a balance:
`rx_buffered_len` plus what was sent and not counted equals what is in ring and piece plus
what calls have copied or dropped and not taken off. Any number of calls can be between
giving back `rx_mux` and the subtraction, hence the cardinality of `CopiedBytes`, the set
of the bytes they have copied.

### TaskWdtProofs

For every set of tasks and every timeout (`TimeoutAssumption`: it is positive). The
invariant is `TypeOK /\ FlagsAreTrue`, which is inductive. The lemmas say what the walk,
the appending of a task, the reset of the flags and the unlinking make of the list,
position by position; the case that needs care is a feed of the hardware, after which
only the last position may be marked, and `skipped` is the task there.

### IntrAllocProofs

For any handles, any sources, any subset of the 32 interrupts that has number 2 and not
number 6, any set of requests and whatever is marked or reserved (`IntrAssumption`). What
an allocation does is right because `get_free_int` returns -1 or an interrupt that the
request may have (`FreeInt`). That is proved of the loop without induction: a least number
of rounds after which it has no value, or an unacceptable one, would follow a number of
rounds after which it has a good one.

None of the five properties is inductive, since each says what is so and not who made it
so. `Inv` adds that. A descriptor is in one of three states (`VectorInv`): `Idle`; `Own`,
with one user, whose source it has; or `Chain`, whose entries are its users and agree on
IRAM. `HandleInv` ties a handle to the request it came from: its entry in the chain says
what the caller last asked (enabled or disabled), its interrupt has a level the request
allows, and it is number 7 exactly for the internal source. `WiredInv` says that its source
is connected exactly while it is not disabled, that the bit of `non_iram_int_mask` is that
of the request, and that `INTENABLE`, or what a flash operation saved of it, has the
interrupt. `SourceInv` is the converse: what is connected, or an internal interrupt that is
enabled, has a live handle, and handles of one CPU have different sources, which is why
freeing one leaves the others connected. `ListInv` is independent of these: the list starts
with the interrupt of the task watchdog, and the place at which the loop stops keeps it
sorted (`ListStep`).

Two conditions on the calls are needed, both of which the run's instance meets.
`HandlersGiven`: a request that may get an interrupt of level 1 to 3 names a handler; the
code does not check it, and without a handler `xt_unhandled_interrupt` runs. `MarkedLater`:
interrupts 0 and 1 of CPU 0 are neither marked nor reserved (section 6); no allocation gets
them, since `int_desc` reserves them.

## 5. What is only model-checked

* Liveness (`CallsComplete`, `OpReturns`, `UnreadIsReceived`, `StashIsSent`,
  `CallsReturn`, `StuckTaskBarks`): TLAPS here has no reasoning about `ENABLED` and
  fairness.
* All of NVS: its methods are loops over pages and entries, written as `RECURSIVE`
  operators, which the prover cannot use, and what a recursive definition computes
  needs induction over data.
* The ring buffer. `Fifo` maps the storage to a queue by walking it. `NoAssertFails`,
  `MaxItemFits` and `SenderWakes` depend on where `free_ptr` can come to stand, hence on
  the headers it walks over: an invariant would have to describe the chain of headers in
  the storage, with splits, dummies and the pieces given back out of order.

## 6. Known divergences

Met while modelling, besides the run `nvs_recovery` of section 3. Where a definition is named it
states what the repository says and TLC refutes it on a small instance.

* IPC: `esp_ipc_call_blocking` returns while its function runs, since `ipc.c:101` stores
  `IPC_WAIT_FOR_START` whatever `wait_for` is (`BlockingCallWaits` of `IpcClient`;
  `esp_ipc.h:72` "This function waits for func to return").
* Flash guard: the enable function gives the mutex (`cache_utils.c:139`) before it
  re-enables non-IRAM interrupts (141); another task's operation then fails the assertion
  at `intr_alloc.c:694` (`NoAssertFails` of `FlashGuard`). The next operation clears
  `s_flash_op_complete` (100) before the other CPU saw it set, and the block function
  spins for ever (`OtherCpuReleased`).
* `esp_ipc.h:51` says a second call waits for the first function to finish; since
  `wait_for` is ignored, functions on the two CPUs overlap (`ipc.c:104`).
* `spi_flash_write_encrypted` (`flash_ops.c:258`) returns with the guard held;
  `spi_flash/README.rst:152` describes the enable function as the end of every
  operation. `ReturnReleases` and `NoFetchWhileCacheOff` except that operation.
* Ring buffer: `ringbufferFreeMem` reserves one byte (`ringbuf.c:80-82` says why), but
  `write_ptr` is forwarded to the start when fewer than eight bytes are left. An entry
  that ends four bytes before the end fills the buffer, `write_ptr = read_ptr = free_ptr`,
  and its items are lost (`Fifo` fails with `TightSizeOf` and `TightSends` of `MCRingbuf`,
  one sender and one receiver).
* Ring buffer: a byte buffer is filled without a check under the lock (`ringbuf.c:234`), so
  two senders that both saw room, or one whose timeout passed, overwrite unread data.
  `xRingbufferSend` asks for the room of a header that a byte buffer does not have: items
  longer than `size - 9` are accepted by `xRingbufferGetMaxItemSize` and wait for ever.
  `ringbuf.h:33-37` gives larger maxima than the code (`MaxItemFits` fails with them). An
  empty item in the last 8 bytes trips the assertion on its return. When the total space
  suffices but not in one place, a sender spins without looking at its timeout; when the
  time is up and it has to wait again, it waits for about 2^32 ticks (498).
* UART: `uart_flush` returns a partly read piece (`uart.c:918`) without trying the stash; if
  the ring is empty then, `rx_buffer_full_flg` stays set and nothing is received any more
  (`StashIsAlwaysSent` of `UartRx`; `uart.c:605` "we will have to stash the data, and send
  next time"). The same happens when a reader on the other CPU returns the last piece
  between the failed send (607) and the flag (612). The stash is sent with a timeout of
  one tick: if it passes before `xRingbufferSend` looks again, unread bytes are
  overwritten (`EveryByteOnce` fails with `UART_FIFO_LEN = 10`, `RxBufferSize = 19`). A
  buffer of 129 to 136 bytes is accepted and never takes a full FIFO. On the other CPU
  `rx_buffered_len` may be negative for a moment. Frame and parity errors clear each
  other's interrupt (642, 645), and `tx_waiting_brk` makes the handler loop (491).
* Interrupt allocator: `esp_intr_enable` returns with the spinlock held for an internal
  source of the other CPU (655). Disabling or freeing one of two handles of a source
  disconnects the other (675). `&=!` (609) clears all flags, also SHARED set by
  `esp_intr_mark_shared`; the narrower mask that seems to be meant would leave SHARED and
  INIRAM behind (`FlagsTellUse`). A request for an interrupt of level 1 to 3 without a
  handler is accepted (444 checks the other direction of `esp_intr_alloc.h:136` only), and
  the interrupt is then connected and enabled with `xt_unhandled_interrupt`. Marking or
  reserving interrupt 0 or 1 of CPU 0 after start-up inserts before the head of the list
  and writes through a null pointer (198). A task that migrates between the check at 574 and the
  critical section resets a handler of the other CPU.
* SHA: `in_use` is set (`sha.c:174`) after `state_change_lock` was released (171). A task
  that takes a second engine finds the hardware on; before it sets its flag the task with
  the first one gives it back, finds all engines idle and switches the hardware off
  (`EnginePowered` of `Sha`, on the instance of the run `sha`; `sha.c:125` says what the
  lock is for).
* Task watchdog: the loop that resets the flags stops at the entry without a successor
  (`task_wdt.c:134`), so the last task of the list counts as fed for ever, and when it is
  stuck nothing barks (`AnyStuckTaskBarks` of `TaskWdt`, two tasks; `esp_task_wdt.h:33`
  "the watchdog will bark if one or more tasks haven't fed the watchdog").
* Flash mapping: for instruction memory the first page is taken from an address
  (`flash_mmap.c:109`): the search is skipped and the mapping is set up and counted at index
  0x400D0000 of tables with 256 entries (`CallsAnswer` of `FlashMmap` on the instance of
  the run; `esp_spi_flash.h:150` "ESP_OK on success, ESP_ERR_NO_MEM if pages can not be
  allocated"). The search stops before the last position at which the pages fit (121), so
  a mapping is refused although there is room (`NoMemMeansNoRoom` with
  `Memories = {"DATA"}`; the same line).
* Flash mapping: a data mapping larger than the region skips the search and fails the
  assertion at `flash_mmap.c:146` (`CallsAnswer` with `Memories = {"DATA"}`, `Counts = {5}`).
  A dump that initialises the counts while another task maps or unmaps (202) breaks
  `MappingsHold` and `RefcntExact`, which except it. The 256th mapping of a page makes its
  count 0 (`RefcntExact` fails with `REFCNT_MOD = 2`). The entry allocated at line 84 is
  not freed when the arguments are refused (88-93). The sum at line 91 is of 32 bits: a
  size close to 2^32 passes the check; the model's sizes stay below that.
* Not modelled, but seen: the event loop's callback and its context are replaced in two
  assignments (`event_loop.c:68`), between which the event task may call the new callback
  with the old context; `esp_vfs_unregister` (`vfs.c:96`) leaves an empty
  slot, which the loops over `s_vfs` dereference (94, 128).
* NVS: power-on erases the older of two items with one 24-bit hash on the active page as a
  duplicate (`nvs_page.cpp:548`; `Durable` fails with keys of one hash, `Same` in `MCNvs`;
  `nvs_flash/README.rst:223` says collisions are handled).
* NVS: writing a key with another type is not refused (`nvs_storage.cpp:83` drops the
  type-mismatch error; `nvs_flash/README.rst:27-30`). The find cache compares the
  *address* of the key string (`nvs_page.hpp:44`), so a key passed in a reused buffer
  may not be found. The states of an item are written word by word (`nvs_page.cpp:643`): a
  power failure between two words of an erasure on a full page leaves an item that nothing
  repairs, that is moved whole and counted in part, and the assertion at
  `nvs_pagemanager.cpp:166` fails in the next write that needs a new page
  (`UsedEntriesMoved` of `Nvs` fails with the constants of `nvs_recovery.cfg` and
  `ITEMS_PER_WORD = 2`). With two power failures one-entry items can
  overflow the recovery move too. `nvs_set_str` and `nvs_set_blob` do not check for a
  read-only handle (`nvs_api.cpp:229-251`).
* OTA: a first selection on blank data, torn by a power failure, leaves neither a
  valid sector nor the blank state, and the bootloader gives up. With two valid
  sectors the *current* one is rewritten (`esp_ota_ops.c:256-260`), so an interrupted
  selection falls back to an older one, whose partition may be half written. Going
  back to the factory app erases sector 0 before sector 1, which an earlier power
  failure may have torn: in between no sector is valid. Without
  a factory app, the sequence number 0 in sector 1 can be the only valid one, and then
  selecting the last of three partitions selects another one, because 3 does not divide
  2^32 (`SetBootSelects` fails with `AppCount = 3`).
  `UpdatesAreSafe` and `StaysBootable` state what holds in spite of these.
  `esp_ota_get_boot_partition` returns the partition to be booted next, where
  `esp_ota_ops.h:99` speaks of the running one.

## 7. Plan

Proofs that could come next:

1. `RingbufTasks`: the chain of headers from `free_ptr` to `write_ptr` as a set of
   positions, each of which leads to another or to `write_ptr`, with what copying an item,
   lending it and giving it back do to that set; then `NoAssertFails` and `SenderWakes`.

Models that would come after them, as the runs allow: the event loop and the VFS (tables
shared between tasks, section 6), NVS handles and namespaces over
`NvsStorage`, the single-core flash guard, the transmitting side of the UART driver, the
SD/MMC host.

## 8. Not modelled

Peripheral drivers set registers under a spinlock, and their correctness is in the
hardware manual. Start-up, panic and debug code is straight-line. Image verification,
secure boot and flash encryption are cryptographic; `Ota` has a Boolean for them.
The components of section 7's last paragraph are left out so far.
The FreeRTOS kernel is external and modelled by its use. Bluedroid, lwIP, mbedTLS,
expat, nghttp2, cJSON, wpa_supplicant and micro-ecc are vendored, and the Wi-Fi and
Bluetooth controllers are binary. `PROJECT.json` lists each with its reason.
