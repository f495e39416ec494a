------------------------------ MODULE FlashMmap ------------------------------
(***************************************************************************)
(* Mapping of flash into the address space, components/spi_flash/          *)
(* flash_mmap.c: a search for MMU pages that are free or already map what  *)
(* is asked for, and a reference count per page.                           *)
(*                                                                         *)
(* spi_flash_mmap and spi_flash_munmap do their work between the disable   *)
(* and enable functions of module FlashGuard, which keep every other task  *)
(* out: each is one step.  spi_flash_mmap_dump initialises the counts      *)
(* without that guard, page by page.                                       *)
(*                                                                         *)
(* Sizes are such that src_addr + size is below 2^32; the sum of line 91   *)
(* wraps beyond it.                                                        *)
(***************************************************************************)
EXTENDS Integers, FiniteSets, FiniteSetsExt

CONSTANTS
  TABLE_SIZE,           \* entries of an MMU table, REGIONS_COUNT * PAGES_PER_REGION
  DATA_PAGES,           \* the first of them, for data: PAGES_PER_REGION
  IRAM0_FIRST_USABLE,   \* PRO_IRAM0_FIRST_USABLE_PAGE
  REFCNT_MOD,           \* 2^8: a count is an uint8_t
  FLASH_PAGES,          \* size of the chip in pages
  BootPage,             \* a page the bootloader leaves mapped on the PRO CPU
  Memories,             \* SPI_FLASH_MMAP_DATA, SPI_FLASH_MMAP_INST
  Counts,               \* sizes asked for, in pages
  MaxHandle             \* bound: mappings made

ASSUME MmapAssumption ==
  /\ DATA_PAGES \in 1 .. TABLE_SIZE /\ IRAM0_FIRST_USABLE \in DATA_PAGES .. TABLE_SIZE - 1
  /\ TABLE_SIZE \in Nat /\ FLASH_PAGES \in Nat /\ MaxHandle \in Nat
  /\ BootPage \in 1 .. TABLE_SIZE - 1 /\ Counts \subseteq Nat /\ REFCNT_MOD \in Nat \ {0, 1}

INVALID_ENTRY_VAL == 256
VADDR1_FIRST_USABLE_ADDR == 1074593792    \* 0x400D0000
Table == 0 .. TABLE_SIZE - 1
Flash == 0 .. FLASH_PAGES - 1

VARIABLES
  mmu,        \* [pro, app: the two tables; refcnt: s_mmap_page_refcnt]
  entries,    \* s_mmap_entries_head, with the flash page of each (history)
  last_handle,
  dump,       \* next page spi_flash_mmap_dump initialises; TABLE_SIZE: none
  failed,     \* an assertion failed, or memory outside the tables was written
  answer,     \* of the last call
  booted,     \* history: what the pages the application runs from map
  raced       \* history: another call came while dump was initialising

vars == <<mmu, entries, last_handle, dump, failed, answer, booted, raced>>

NoAnswer == [rc |-> "none", phys |-> 0, count |-> 0]
Covered(e) == e.page .. e.page + e.count - 1

TypeOK ==
  /\ mmu \in [pro : [Table -> Flash \cup {INVALID_ENTRY_VAL}], app : [Table -> Flash \cup {INVALID_ENTRY_VAL}],
              refcnt : [Table -> 0 .. REFCNT_MOD - 1]]
  /\ \A e \in entries : e.handle \in 1 .. last_handle /\ Covered(e) \subseteq Table
  /\ dump \in 0 .. TABLE_SIZE
  /\ failed \in {"none", "assert", "outside"}
  /\ raced \in BOOLEAN

\* The bootloader maps the application's data and code for both CPUs, and
\* may leave one page mapped for its own.  Unused entries are 0 or invalid.
Init ==
  /\ \E drom \in 1 .. 2, unused \in {0, INVALID_ENTRY_VAL} :
       LET app == [i \in Table |-> IF i < drom THEN i + 1
                                   ELSE IF i = IRAM0_FIRST_USABLE THEN drom + 1 ELSE unused]
       IN /\ booted = [i \in (0 .. drom - 1) \cup {IRAM0_FIRST_USABLE} |-> app[i]]
          /\ mmu \in {[pro |-> pro, app |-> app, refcnt |-> [i \in Table |-> 0]] :
                        pro \in {app} \cup {[app EXCEPT ![b] = 1] : b \in {BootPage} \ DOMAIN booted}}
  /\ entries = {} /\ last_handle = 0
  /\ dump = TABLE_SIZE /\ failed = "none" /\ answer = NoAnswer /\ raced = FALSE

-----------------------------------------------------------------------------
(* spi_flash_mmap_init: entries that differ are the bootloader's.          *)

InitEntry(m, i) == IF m.pro[i] # m.app[i] THEN 0 ELSE m.pro[i]

InUse(m, i) ==
  InitEntry(m, i) # INVALID_ENTRY_VAL /\ (i \in {0, IRAM0_FIRST_USABLE} \/ InitEntry(m, i) # 0)

\* The loop over the pages in S.
InitPages(m, S) ==
  [m EXCEPT !.pro = [i \in Table |-> IF i \in S THEN InitEntry(m, i) ELSE m.pro[i]],
            !.refcnt = [i \in Table |-> IF i \in S /\ InUse(m, i) THEN 1 ELSE m.refcnt[i]]]

Initialised(m) == IF m.refcnt[0] = 0 THEN InitPages(m, Table) ELSE m

-----------------------------------------------------------------------------
(* The search. *)

RegionBegin(memory) == IF memory = "DATA" THEN 0 ELSE VADDR1_FIRST_USABLE_ADDR
RegionSize(memory) == IF memory = "DATA" THEN DATA_PAGES ELSE 3 * DATA_PAGES - RegionBegin(memory)

\* Pages from start on are free or map what is wanted, on the PRO CPU.
Fits(m, start, phys, count) ==
  \A k \in 0 .. count - 1 : m.refcnt[start + k] # 0 => m.pro[start + k] = phys + k

End(memory, count) == RegionBegin(memory) + RegionSize(memory) - count

\* The loop variable after the search: End if the loop ran to its end.
Start(m, phys, count, memory) ==
  LET first == RegionBegin(memory)
      end == End(memory, count)
      found == {s \in first .. end - 1 : Fits(m, s, phys, count)}
  IN IF found # {} THEN Min(found) ELSE IF first <= end THEN end ELSE first

\* Mutant: a page that was mapped already keeps its count.
SetUp_NotCounted(m, start, phys, count) ==
  LET new == {i \in start .. start + count - 1 : m.refcnt[i] = 0}
  IN [pro |-> [i \in Table |-> IF i \in new THEN phys + i - start ELSE m.pro[i]],
      app |-> [i \in Table |-> IF i \in new THEN phys + i - start ELSE m.app[i]],
      refcnt |-> [i \in Table |-> IF i \in new THEN 1 ELSE m.refcnt[i]]]

\* The pages are entered into both tables and counted.
SetUp(m, start, phys, count) ==
  LET pages == start .. start + count - 1
      new == {i \in pages : m.refcnt[i] = 0}
  IN [pro |-> [i \in Table |-> IF i \in new THEN phys + i - start ELSE m.pro[i]],
      app |-> [i \in Table |-> IF i \in new THEN phys + i - start ELSE m.app[i]],
      refcnt |-> [i \in Table |-> IF i \in pages THEN (m.refcnt[i] + 1) % REFCNT_MOD ELSE m.refcnt[i]]]

\* The "sanity check" before a page is set up.
Sane(m, i, val) == m.refcnt[i] = 0 \/ (m.pro[i] = val /\ m.app[i] = val)

-----------------------------------------------------------------------------
(* spi_flash_mmap, for arguments it accepts; others change nothing.        *)

Race == raced' = (raced \/ dump # TABLE_SIZE)

NoMem(m, phys, count) ==
  /\ mmu' = m
  /\ answer' = [rc |-> "ESP_ERR_NO_MEM", phys |-> phys, count |-> count]
  /\ UNCHANGED <<entries, last_handle, failed>>

Fail(m, how) ==
  /\ failed' = how
  /\ mmu' = m
  /\ answer' = NoAnswer
  /\ UNCHANGED <<entries, last_handle>>

Map(m, start, phys, count) ==
  /\ mmu' = SetUp(m, start, phys, count)
  /\ last_handle' = last_handle + 1
  /\ entries' = entries \cup {[handle |-> last_handle', page |-> start, count |-> count, phys |-> phys]}
  /\ answer' = [rc |-> "ESP_OK", phys |-> phys, count |-> count]
  /\ UNCHANGED failed

spi_flash_mmap(phys, count, memory) ==
  /\ failed = "none" /\ last_handle < MaxHandle
  /\ phys + count <= FLASH_PAGES
  /\ LET m == Initialised(mmu)
         start == Start(m, phys, count, memory)
         pages == start .. start + count - 1
     IN \/ start = End(memory, count) /\ NoMem(m, phys, count)
        \/ /\ start # End(memory, count)
           /\ \/ ~ (pages \subseteq Table) /\ Fail(m, "outside")
              \/ /\ pages \subseteq Table
                 /\ \E i \in pages : ~ Sane(m, i, phys + i - start)
                 /\ Fail(m, "assert")
              \/ /\ pages \subseteq Table
                 /\ \A i \in pages : Sane(m, i, phys + i - start)
                 /\ Map(m, start, phys, count)
  /\ Race
  /\ UNCHANGED <<dump, booted>>

-----------------------------------------------------------------------------
(* spi_flash_munmap, of a handle that is mapped; it asserts that it is.    *)

\* Mutant: entries are disabled whoever else refers to them.
Released_Shared(m, pages) ==
  LET less(i) == IF i \in pages THEN m.refcnt[i] - 1 ELSE m.refcnt[i]
  IN [pro |-> [i \in Table |-> IF i \in pages THEN INVALID_ENTRY_VAL ELSE m.pro[i]],
      app |-> [i \in Table |-> IF i \in pages THEN INVALID_ENTRY_VAL ELSE m.app[i]],
      refcnt |-> [i \in Table |-> less(i)]]

\* Counts go down, and pages nobody refers to are disabled.
Released(m, pages) ==
  LET less(i) == IF i \in pages THEN m.refcnt[i] - 1 ELSE m.refcnt[i]
      off == {i \in pages : less(i) = 0}
  IN [pro |-> [i \in Table |-> IF i \in off THEN INVALID_ENTRY_VAL ELSE m.pro[i]],
      app |-> [i \in Table |-> IF i \in off THEN INVALID_ENTRY_VAL ELSE m.app[i]],
      refcnt |-> [i \in Table |-> less(i)]]

spi_flash_munmap(e) ==
  /\ failed = "none"
  /\ \/ /\ \E i \in Covered(e) : mmu.refcnt[i] = 0
        /\ Fail(mmu, "assert")
     \/ /\ \A i \in Covered(e) : mmu.refcnt[i] # 0
        /\ mmu' = Released(mmu, Covered(e))
        /\ entries' = entries \ {e}
        /\ answer' = NoAnswer
        /\ UNCHANGED <<last_handle, failed>>
  /\ Race
  /\ UNCHANGED <<dump, booted>>

-----------------------------------------------------------------------------
(* spi_flash_mmap_dump. *)

DumpBegin ==
  /\ failed = "none" /\ dump = TABLE_SIZE /\ mmu.refcnt[0] = 0
  /\ dump' = 0
  /\ UNCHANGED <<mmu, entries, last_handle, failed, answer, booted, raced>>

DumpInit ==
  /\ failed = "none" /\ dump < TABLE_SIZE
  /\ mmu' = InitPages(mmu, {dump})
  /\ dump' = dump + 1
  /\ answer' = NoAnswer
  /\ UNCHANGED <<entries, last_handle, failed, booted, raced>>

Next ==
  \/ \E phys \in Flash, count \in Counts, memory \in Memories : spi_flash_mmap(phys, count, memory)
  \/ \E e \in entries : spi_flash_munmap(e)
  \/ DumpBegin \/ DumpInit

Spec == Init /\ [][Next]_vars

-----------------------------------------------------------------------------
(* Properties. *)

(***************************************************************************)
(* Whoever maps and unmaps, in whatever order and however the mappings     *)
(* overlap, both CPUs see through a mapping the flash it was made for, and *)
(* the application stays where the bootloader mapped it.                   *)
(***************************************************************************)
MappingsHold ==
  ~ raced =>
    /\ \A e \in entries : \A i \in Covered(e) :
         mmu.pro[i] = e.phys + i - e.page /\ mmu.app[i] = e.phys + i - e.page
    /\ \A i \in DOMAIN booted : mmu.pro[i] = booted[i] /\ mmu.app[i] = booted[i]

(***************************************************************************)
(* Once they are initialised the counts are exact: as many as there are    *)
(* mappings of a page, and one for the application.  A lower one would     *)
(* take a page from somebody, a higher one would never give it back.       *)
(***************************************************************************)
RefcntExact ==
  ~ raced /\ dump = TABLE_SIZE /\ mmu.refcnt[0] # 0 =>
    \A i \in Table :
      mmu.refcnt[i] = Cardinality({e \in entries : i \in Covered(e)}) + (IF i \in DOMAIN booted THEN 1 ELSE 0)

(***************************************************************************)
(* esp_spi_flash.h:150: "ESP_OK on success, ESP_ERR_NO_MEM if pages can    *)
(* not be allocated": every call comes back with one of the two.           *)
(***************************************************************************)
CallsAnswer == failed = "none"

(***************************************************************************)
(* The same line: ESP_ERR_NO_MEM means that there is no place for the      *)
(* pages in the region.                                                    *)
(***************************************************************************)
NoMemMeansNoRoom ==
  answer.rc = "ESP_ERR_NO_MEM"
  => ~ \E s \in 0 .. DATA_PAGES - answer.count : Fits(mmu, s, answer.phys, answer.count)
=============================================================================
