-------------------------- MODULE FlashMmapProofs --------------------------
(***************************************************************************)
(* Proofs about FlashMmap, for every size of the tables and of the chip,   *)
(* every set of sizes asked for and any number of mappings that the counts *)
(* can hold.                                                               *)
(*                                                                         *)
(* The argument: until the counts are initialised, or while dump does      *)
(* that, nothing is mapped but the application (Pristine); from then on a  *)
(* page's count is the number of its users (Good), so that a page with a   *)
(* user is never set up anew nor disabled.  A call that comes while dump   *)
(* initialises the counts ends both, and the invariant says nothing then.  *)
(***************************************************************************)
EXTENDS FlashMmap, FiniteSetTheorems, TLAPS

MmuType == [pro : [Table -> Int], app : [Table -> Int], refcnt : [Table -> Nat]]
EntryType == [handle : Nat, page : Int, count : Nat, phys : Int]

\* The pages the application runs from, as the bootloader leaves them.
BootOK(b) ==
  /\ DOMAIN b \subseteq Table /\ {0, IRAM0_FIRST_USABLE} \subseteq DOMAIN b
  /\ \A i \in DOMAIN b : b[i] \in Nat \ {0, INVALID_ENTRY_VAL}

\* Both CPUs see what was mapped.
Shows(m, E, b) ==
  /\ \A e \in E : \A i \in Covered(e) : m.pro[i] = e.phys + i - e.page /\ m.app[i] = e.phys + i - e.page
  /\ \A i \in DOMAIN b : m.pro[i] = b[i] /\ m.app[i] = b[i]

\* The mappings of page i, and how many users that makes.
Users(E, i) == {e \in E : i \in Covered(e)}
Count(E, b, i) == Cardinality(Users(E, i)) + (IF i \in DOMAIN b THEN 1 ELSE 0)

Good(m, E, b) == m \in MmuType /\ Shows(m, E, b) /\ \A i \in Table : m.refcnt[i] = Count(E, b, i)

\* Counts are initialised below page d.
Pristine(m, b, d) ==
  /\ m \in MmuType /\ Shows(m, {}, b)
  /\ \A i \in Table : m.refcnt[i] = IF i < d /\ i \in DOMAIN b THEN 1 ELSE 0
  /\ \A i \in Table \ DOMAIN b : InitEntry(m, i) \in {0, INVALID_ENTRY_VAL}

EntriesOK(E, n) ==
  /\ E \subseteq EntryType /\ IsFiniteSet(E) /\ Cardinality(E) <= n
  /\ \A e \in E : e.handle <= n /\ Covered(e) \subseteq Table

Phase ==
  \/ entries = {} /\ dump < TABLE_SIZE /\ Pristine(mmu, booted, dump)
  \/ entries = {} /\ dump = TABLE_SIZE /\ Pristine(mmu, booted, 0)
  \/ dump = TABLE_SIZE /\ Good(mmu, entries, booted)

Inv ==
  /\ raced \in BOOLEAN
  /\ ~ raced =>
       /\ BootOK(booted) /\ EntriesOK(entries, last_handle)
       /\ last_handle \in 0 .. MaxHandle /\ dump \in 0 .. TABLE_SIZE
       /\ Phase
-----------------------------------------------------------------------------
USE MmapAssumption DEF INVALID_ENTRY_VAL

(* A set of natural numbers that is not empty has a least element.         *)
LEMMA MinInSet == ASSUME NEW S \in SUBSET Nat, S # {} PROVE Min(S) \in S
<1> DEFINE R == OpToRel(<, Nat)
<1>1. \A x, y \in Nat : x < y => <<x, y>> \in R
  BY DEF OpToRel
<1>2. IsWellFoundedOn(R, Nat)
  BY NatLessThanWellFounded
<1> HIDE DEF R
<1>3. PICK x \in S : \A y \in S : ~ (<<y, x>> \in R)
  BY <1>2, WFMin
<1>4. \A y \in S : x \in Nat /\ y \in Nat /\ ~ (y < x)
  BY <1>1, <1>3
<1>5. \A y \in S : x <= y
  BY <1>4
<1> QED
  BY <1>5 DEF Min

(* The search ends at an integer, found or not (flash_mmap.c:98-135).     *)
LEMMA StartInt ==
  ASSUME NEW m, NEW phys, NEW count \in Nat, NEW memory
  PROVE  Start(m, phys, count, memory) \in Int
<1> DEFINE first == RegionBegin(memory)
           end == End(memory, count)
           found == {s \in first .. end - 1 : Fits(m, s, phys, count)}
<1>1. first \in Nat /\ end \in Int
  BY DEF RegionBegin, RegionSize, End, VADDR1_FIRST_USABLE_ADDR
<1>2. found \in SUBSET Nat
  BY <1>1
<1>3. found # {} => Min(found) \in Nat
  BY <1>2, MinInSet
<1> QED
  BY <1>1, <1>3 DEF Start

(* Users of a page after a mapping is added or removed.                    *)
LEMMA UsersAdded ==
  ASSUME NEW E, IsFiniteSet(E), NEW e, e \notin E, NEW i
  PROVE  /\ IsFiniteSet(Users(E, i)) /\ Cardinality(Users(E, i)) \in Nat
         /\ Cardinality(Users(E, i)) <= Cardinality(E)
         /\ Cardinality(Users(E \cup {e}, i)) = Cardinality(Users(E, i)) + (IF i \in Covered(e) THEN 1 ELSE 0)
<1>1. Users(E, i) \subseteq E
  BY DEF Users
<1>2. /\ IsFiniteSet(Users(E, i)) /\ Cardinality(Users(E, i)) <= Cardinality(E)
  BY <1>1, FS_Subset
<1>3. Cardinality(Users(E, i)) \in Nat
  BY <1>2, FS_CardinalityType
<1>4. CASE i \in Covered(e)
  <2>1. Users(E \cup {e}, i) = Users(E, i) \cup {e} /\ e \notin Users(E, i)
    BY <1>4 DEF Users
  <2> QED
    BY <1>2, <1>3, <1>4, <2>1, FS_AddElement
<1>5. CASE i \notin Covered(e)
  <2>1. Users(E \cup {e}, i) = Users(E, i)
    BY <1>5 DEF Users
  <2> QED
    BY <1>2, <1>3, <1>5, <2>1
<1> QED
  BY <1>2, <1>3, <1>4, <1>5

LEMMA UsersRemoved ==
  ASSUME NEW E, IsFiniteSet(E), NEW e \in E, NEW i
  PROVE  /\ Cardinality(Users(E \ {e}, i)) \in Nat
         /\ Cardinality(Users(E, i)) = Cardinality(Users(E \ {e}, i)) + (IF i \in Covered(e) THEN 1 ELSE 0)
         /\ \A f \in E \ {e} : i \in Covered(f) => Cardinality(Users(E \ {e}, i)) > 0
<1>1. IsFiniteSet(E \ {e}) /\ e \notin E \ {e} /\ (E \ {e}) \cup {e} = E
  BY FS_RemoveElement
<1>2. /\ Cardinality(Users(E, i)) = Cardinality(Users(E \ {e}, i)) + (IF i \in Covered(e) THEN 1 ELSE 0)
      /\ Cardinality(Users(E \ {e}, i)) \in Nat /\ IsFiniteSet(Users(E \ {e}, i))
  <2> DEFINE F == E \ {e}
  <2>1. IsFiniteSet(F) /\ e \notin F /\ F \cup {e} = E
    BY <1>1
  <2> HIDE DEF F
  <2>2. /\ Cardinality(Users(F \cup {e}, i)) = Cardinality(Users(F, i)) + (IF i \in Covered(e) THEN 1 ELSE 0)
        /\ Cardinality(Users(F, i)) \in Nat /\ IsFiniteSet(Users(F, i))
    BY <2>1, UsersAdded
  <2> QED
    BY <2>1, <2>2 DEF F
<1>3. ASSUME NEW f \in E \ {e}, i \in Covered(f) PROVE Cardinality(Users(E \ {e}, i)) > 0
  <2>1. Users(E \ {e}, i) # {}
    BY <1>3 DEF Users
  <2> QED
    BY <1>2, <2>1, FS_EmptySet
<1> QED
  BY <1>2, <1>3

(* A page with a user has a count.                                         *)
LEMMA CountPositive ==
  ASSUME NEW E, IsFiniteSet(E), NEW b, NEW i, (\E e \in E : i \in Covered(e)) \/ i \in DOMAIN b
  PROVE  Count(E, b, i) \in Nat /\ Count(E, b, i) > 0
<1>1. IsFiniteSet(Users(E, i))
  BY FS_Subset DEF Users
<1>2. Cardinality(Users(E, i)) \in Nat /\ (Users(E, i) # {} => Cardinality(Users(E, i)) > 0)
  BY <1>1, FS_CardinalityType, FS_EmptySet
<1>3. (\E e \in E : i \in Covered(e)) => Users(E, i) # {}
  BY DEF Users
<1> QED
  BY <1>2, <1>3 DEF Count
-----------------------------------------------------------------------------
(* The lookup of used pages finds the application's, and no other          *)
(* (flash_mmap.c:66-77).                                                   *)
LEMMA InUseIsBooted ==
  ASSUME NEW m, NEW b, NEW d, BootOK(b), Pristine(m, b, d), NEW i \in Table
  PROVE  /\ InUse(m, i) <=> i \in DOMAIN b
         /\ i \in DOMAIN b => InitEntry(m, i) = b[i]
         /\ InitEntry(m, i) \in Int
  BY DEF BootOK, Pristine, Shows, InUse, InitEntry, MmuType

(* What spi_flash_mmap_init leaves.                                        *)
LEMMA InitPagesAll ==
  ASSUME NEW m, NEW b, BootOK(b), Pristine(m, b, 0)
  PROVE  Good(InitPages(m, Table), {}, b)
<1> DEFINE n == InitPages(m, Table)
<1>0. /\ \A i \in Table : InitEntry(m, i) \in Int /\ (InUse(m, i) <=> i \in DOMAIN b)
      /\ m \in MmuType /\ \A i \in Table : m.refcnt[i] = 0
  <2>1. \A i \in Table : InitEntry(m, i) \in Int /\ (InUse(m, i) <=> i \in DOMAIN b)
    BY InUseIsBooted
  <2>2. m \in MmuType /\ \A i \in Table : m.refcnt[i] = 0
    BY DEF Pristine, Table
  <2> QED
    BY <2>1, <2>2
<1>1. \A i \in Table : /\ n.pro[i] = InitEntry(m, i) /\ n.app[i] = m.app[i]
                       /\ n.refcnt[i] = IF i \in DOMAIN b THEN 1 ELSE 0
  BY <1>0 DEF InitPages, MmuType
<1>2. n \in MmuType
  BY <1>0 DEF InitPages, MmuType
<1> HIDE DEF n
<1>3. Shows(n, {}, b)
  BY <1>1, InUseIsBooted DEF Shows, Pristine, BootOK
<1>4. \A i \in Table : Count({}, b, i) = IF i \in DOMAIN b THEN 1 ELSE 0
  BY FS_EmptySet DEF Count, Users
<1>5. Good(n, {}, b)
  BY <1>1, <1>2, <1>3, <1>4 DEF Good
<1> QED
  BY <1>5 DEF n

(* One turn of its loop, as dump makes it.                                 *)
LEMMA InitPagesOne ==
  ASSUME NEW m, NEW b, BootOK(b), NEW d \in Table, Pristine(m, b, d)
  PROVE  Pristine(InitPages(m, {d}), b, d + 1)
<1> DEFINE n == InitPages(m, {d})
<1>0. /\ \A i \in Table : InitEntry(m, i) \in Int /\ (InUse(m, i) <=> i \in DOMAIN b)
      /\ m \in MmuType
  <2>1. \A i \in Table : InitEntry(m, i) \in Int /\ (InUse(m, i) <=> i \in DOMAIN b)
    BY InUseIsBooted
  <2> QED
    BY <2>1 DEF Pristine
<1>1. \A i \in Table : /\ n.pro[i] = (IF i = d THEN InitEntry(m, i) ELSE m.pro[i]) /\ n.app[i] = m.app[i]
                       /\ n.refcnt[i] = IF i = d /\ i \in DOMAIN b THEN 1 ELSE m.refcnt[i]
  BY <1>0 DEF InitPages, MmuType
<1>2. n \in MmuType
  BY <1>0 DEF InitPages, MmuType
<1> HIDE DEF n
<1>3. Shows(n, {}, b)
  BY <1>1, InUseIsBooted DEF Shows, Pristine, BootOK
<1>4. \A i \in Table : n.refcnt[i] = IF i < d + 1 /\ i \in DOMAIN b THEN 1 ELSE 0
  BY <1>1 DEF Pristine, Table
<1>5. \A i \in Table \ DOMAIN b : InitEntry(n, i) \in {0, INVALID_ENTRY_VAL}
  BY <1>1 DEF Pristine, InitEntry
<1>6. Pristine(n, b, d + 1)
  BY <1>2, <1>3, <1>4, <1>5 DEF Pristine
<1> QED
  BY <1>6 DEF n

(* A mapping is added where every page is free or shows what it needs      *)
(* (flash_mmap.c:143-159).                                                 *)
LEMMA SetUpGood ==
  ASSUME NEW m, NEW E, NEW b, NEW n \in 0 .. MaxHandle - 1, MaxHandle + 1 < REFCNT_MOD,
         BootOK(b), EntriesOK(E, n), Good(m, E, b),
         NEW start \in Int, NEW phys \in Int, NEW count \in Nat,
         start .. start + count - 1 \subseteq Table,
         \A i \in start .. start + count - 1 : Sane(m, i, phys + i - start)
  PROVE  LET e == [handle |-> n + 1, page |-> start, count |-> count, phys |-> phys]
         IN  EntriesOK(E \cup {e}, n + 1) /\ Good(SetUp(m, start, phys, count), E \cup {e}, b)
<1> DEFINE e == [handle |-> n + 1, page |-> start, count |-> count, phys |-> phys]
           s == SetUp(m, start, phys, count)
           pages == start .. start + count - 1
<1>1. Covered(e) = pages /\ e \in EntryType /\ e.handle = n + 1 /\ e.page = start /\ e.phys = phys
  BY DEF Covered, EntryType
<1>2. e \notin E /\ IsFiniteSet(E) /\ Cardinality(E) \in Nat /\ Cardinality(E) <= n
  BY <1>1, FS_CardinalityType DEF EntriesOK
<1>3. EntriesOK(E \cup {e}, n + 1)
  <2> HIDE DEF e, pages
  <2>1. IsFiniteSet(E \cup {e}) /\ Cardinality(E \cup {e}) = Cardinality(E) + 1
    BY <1>2, FS_AddElement
  <2>2. \A f \in E \cup {e} : f \in EntryType /\ f.handle <= n + 1 /\ Covered(f) \subseteq Table
    BY <1>1 DEF EntriesOK, EntryType, pages
  <2> QED
    BY <1>2, <2>1, <2>2 DEF EntriesOK
<1>4. \A i \in Table : m.refcnt[i] \in Nat /\ m.refcnt[i] <= MaxHandle
  <2> HIDE DEF e
  <2>1. \A i : Cardinality(Users(E, i)) \in Nat /\ Cardinality(Users(E, i)) <= Cardinality(E)
    BY <1>2, UsersAdded
  <2> QED
    BY <1>2, <2>1 DEF Good, Count
<1>5. \A i \in Table : (m.refcnt[i] + 1) % REFCNT_MOD = m.refcnt[i] + 1
  BY <1>4
<1>6. \A i \in Table : /\ s.pro[i] = (IF i \in pages /\ m.refcnt[i] = 0 THEN phys + i - start ELSE m.pro[i])
                       /\ s.app[i] = (IF i \in pages /\ m.refcnt[i] = 0 THEN phys + i - start ELSE m.app[i])
                       /\ s.refcnt[i] = IF i \in pages THEN m.refcnt[i] + 1 ELSE m.refcnt[i]
  BY <1>5 DEF SetUp
<1>7. s \in MmuType
  <2>1. \A i \in Table : i \in Int
    BY DEF Table
  <2> QED
    BY <1>4, <1>5, <2>1 DEF SetUp, MmuType, Good
<1> HIDE DEF e, s, pages
<1>8. \A i \in Table : s.refcnt[i] = Count(E \cup {e}, b, i)
  <2> SUFFICES ASSUME NEW i \in Table PROVE s.refcnt[i] = Count(E \cup {e}, b, i)
    OBVIOUS
  <2>1. Cardinality(Users(E \cup {e}, i)) = Cardinality(Users(E, i)) + (IF i \in Covered(e) THEN 1 ELSE 0)
        /\ Cardinality(Users(E, i)) \in Nat
    BY <1>2, UsersAdded
  <2>2. m.refcnt[i] = Cardinality(Users(E, i)) + (IF i \in DOMAIN b THEN 1 ELSE 0)
    BY DEF Good, Count
  <2> QED
    BY <1>1, <1>6, <2>1, <2>2 DEF Count
<1>9. Shows(s, E \cup {e}, b)
  <2>1. \A f \in E : \A i \in Covered(f) : i \in Table /\ m.refcnt[i] # 0
    BY <1>2, CountPositive DEF EntriesOK, Good
  <2>2. \A i \in DOMAIN b : i \in Table /\ m.refcnt[i] # 0
    BY <1>2, CountPositive DEF BootOK, Good
  <2>3. \A i \in pages : i \in Table /\ s.pro[i] = phys + i - start /\ s.app[i] = phys + i - start
    BY <1>6 DEF Sane, pages
  <2>4. \A i \in Covered(e) : s.pro[i] = e.phys + i - e.page /\ s.app[i] = e.phys + i - e.page
    BY <1>1, <2>3
  <2>5. \A f \in E : \A i \in Covered(f) : s.pro[i] = f.phys + i - f.page /\ s.app[i] = f.phys + i - f.page
    BY <1>6, <2>1 DEF Good, Shows
  <2>6. \A i \in DOMAIN b : s.pro[i] = b[i] /\ s.app[i] = b[i]
    BY <1>6, <2>2 DEF Good, Shows
  <2> QED
    BY <2>4, <2>5, <2>6 DEF Shows
<1> QED
  BY <1>3, <1>7, <1>8, <1>9 DEF Good, e, s

(* A mapping is removed; pages that have other users stay                  *)
(* (flash_mmap.c:181-188).                                                 *)
LEMMA ReleasedGood ==
  ASSUME NEW m, NEW E, NEW b, NEW n \in Nat, BootOK(b), EntriesOK(E, n), Good(m, E, b), NEW e \in E
  PROVE  EntriesOK(E \ {e}, n) /\ Good(Released(m, Covered(e)), E \ {e}, b)
<1> DEFINE s == Released(m, Covered(e))
           F == E \ {e}
<1>1. IsFiniteSet(E) /\ IsFiniteSet(F) /\ Cardinality(F) <= Cardinality(E) /\ Cardinality(E) \in Nat /\ Cardinality(F) \in Nat
  BY FS_RemoveElement, FS_CardinalityType, FS_Subset DEF EntriesOK
<1>2. EntriesOK(F, n)
  BY <1>1 DEF EntriesOK
<1>3. \A i \in Table : Count(F, b, i) = (IF i \in Covered(e) THEN m.refcnt[i] - 1 ELSE m.refcnt[i]) /\ Count(F, b, i) \in Nat
  <2> SUFFICES ASSUME NEW i \in Table
               PROVE  Count(F, b, i) = (IF i \in Covered(e) THEN m.refcnt[i] - 1 ELSE m.refcnt[i]) /\ Count(F, b, i) \in Nat
    OBVIOUS
  <2>1. /\ Cardinality(Users(F, i)) \in Nat
        /\ Cardinality(Users(E, i)) = Cardinality(Users(F, i)) + (IF i \in Covered(e) THEN 1 ELSE 0)
    BY <1>1, UsersRemoved
  <2>2. m.refcnt[i] = Cardinality(Users(E, i)) + (IF i \in DOMAIN b THEN 1 ELSE 0) /\ m.refcnt[i] \in Nat
    BY DEF Good, Count, MmuType
  <2>3. Cardinality(Users(E, i)) \in Nat
    BY <1>1, FS_Subset, FS_CardinalityType DEF Users
  <2> QED
    BY <2>1, <2>2, <2>3 DEF Count
<1>4. \A i \in Table : /\ s.pro[i] = (IF i \in Covered(e) /\ Count(F, b, i) = 0 THEN INVALID_ENTRY_VAL ELSE m.pro[i])
                       /\ s.app[i] = (IF i \in Covered(e) /\ Count(F, b, i) = 0 THEN INVALID_ENTRY_VAL ELSE m.app[i])
                       /\ s.refcnt[i] = Count(F, b, i)
  BY <1>3 DEF Released
<1>5. s \in MmuType
  BY <1>3 DEF Released, MmuType, Good
<1> HIDE DEF s
<1>6. \A f \in F : \A i \in Covered(f) : i \in Table /\ Count(F, b, i) # 0
  BY <1>1, <1>2, CountPositive DEF EntriesOK
<1>7. \A i \in DOMAIN b : i \in Table /\ Count(F, b, i) # 0
  BY <1>1, CountPositive DEF BootOK
<1>8. Shows(s, F, b)
  BY <1>4, <1>6, <1>7 DEF Good, Shows
<1> QED
  BY <1>2, <1>4, <1>5, <1>8 DEF Good, s
-----------------------------------------------------------------------------
(* The counts do not wrap: at most REFCNT_MOD - 2 mappings are made.       *)
CountsFit == MaxHandle + 1 < REFCNT_MOD

(* The bootloader leaves a pristine table, whatever it maps.               *)
LEMMA InitInv == Init => Inv
<1> SUFFICES ASSUME Init PROVE Inv
  OBVIOUS
<1>1. PICK drom \in 1 .. 2, unused \in {0, INVALID_ENTRY_VAL} :
        LET app == [i \in Table |-> IF i < drom THEN i + 1
                                    ELSE IF i = IRAM0_FIRST_USABLE THEN drom + 1 ELSE unused]
        IN /\ booted = [i \in (0 .. drom - 1) \cup {IRAM0_FIRST_USABLE} |-> app[i]]
           /\ mmu \in {[pro |-> pro, app |-> app, refcnt |-> [i \in Table |-> 0]] :
                         pro \in {app} \cup {[app EXCEPT ![b] = 1] : b \in {BootPage} \ DOMAIN booted}}
  BY DEF Init
<1> DEFINE app == [i \in Table |-> IF i < drom THEN i + 1
                                   ELSE IF i = IRAM0_FIRST_USABLE THEN drom + 1 ELSE unused]
           D == (0 .. drom - 1) \cup {IRAM0_FIRST_USABLE}
<1>2. booted = [i \in D |-> app[i]] /\ D \subseteq Table /\ {0, IRAM0_FIRST_USABLE} \subseteq D
  BY <1>1 DEF Table
<1>3. PICK pro : /\ mmu = [pro |-> pro, app |-> app, refcnt |-> [i \in Table |-> 0]]
                 /\ \/ pro = app
                    \/ BootPage \notin DOMAIN booted /\ pro = [app EXCEPT ![BootPage] = 1]
  BY <1>1
<1>4. app \in [Table -> Int] /\ \A i \in D : app[i] \in Nat \ {0, INVALID_ENTRY_VAL}
  BY <1>2 DEF Table
<1>5. \A i \in Table \ D : app[i] = unused
  BY DEF Table
<1> HIDE DEF app, D
<1>6. BootOK(booted) /\ DOMAIN booted = D
  BY <1>2, <1>4 DEF BootOK
<1>7. pro \in [Table -> Int] /\ (\A i \in D : pro[i] = app[i]) /\ \A i \in Table \ D : pro[i] # app[i] \/ pro[i] = unused
  BY <1>2, <1>3, <1>4, <1>5, <1>6
<1>8. Pristine(mmu, booted, 0)
  <2>1. mmu.pro = pro /\ mmu.app = app /\ mmu \in MmuType /\ \A i \in Table : mmu.refcnt[i] = 0
    BY <1>3, <1>4, <1>7 DEF MmuType
  <2>2. Shows(mmu, {}, booted)
    BY <1>2, <1>6, <1>7, <2>1 DEF Shows
  <2>3. \A i \in Table \ DOMAIN booted : InitEntry(mmu, i) \in {0, INVALID_ENTRY_VAL}
    BY <1>6, <1>7, <2>1 DEF InitEntry
  <2>4. \A i \in Table : mmu.refcnt[i] = IF i < 0 /\ i \in DOMAIN booted THEN 1 ELSE 0
    BY <2>1 DEF Table
  <2> QED
    BY <2>1, <2>2, <2>3, <2>4 DEF Pristine
<1>9. EntriesOK({}, 0)
  BY FS_EmptySet DEF EntriesOK
<1>10. entries = {} /\ last_handle = 0 /\ dump = TABLE_SIZE /\ raced = FALSE
  BY DEF Init
<1>11. last_handle \in 0 .. MaxHandle /\ dump \in 0 .. TABLE_SIZE /\ EntriesOK(entries, last_handle)
  BY <1>9, <1>10
<1>12. Phase
  BY <1>8, <1>10 DEF Phase
<1> QED
  BY <1>6, <1>10, <1>11, <1>12 DEF Inv

(* A call that finds the tables initialised or initialises them.           *)
LEMMA InitialisedGood ==
  ASSUME Inv, ~ raced, dump = TABLE_SIZE
  PROVE  Good(Initialised(mmu), entries, booted)
<1>1. 0 \in Table /\ 0 \in DOMAIN booted /\ BootOK(booted) /\ IsFiniteSet(entries)
  BY DEF Inv, BootOK, Table, EntriesOK
<1>2. CASE entries = {} /\ Pristine(mmu, booted, 0)
  <2>1. mmu.refcnt[0] = 0
    BY <1>1, <1>2 DEF Pristine
  <2> QED
    BY <1>1, <1>2, <2>1, InitPagesAll DEF Initialised
<1>3. CASE Good(mmu, entries, booted)
  <2>1. mmu.refcnt[0] # 0
    BY <1>1, <1>3, CountPositive DEF Good
  <2> QED
    BY <1>3, <2>1 DEF Initialised
<1> QED
  BY <1>2, <1>3 DEF Inv, Phase

(* spi_flash_mmap (flash_mmap.c:80-169).                                   *)
LEMMA MmapInv ==
  ASSUME CountsFit, Inv, NEW phys \in Flash, NEW count \in Counts, NEW memory \in Memories,
         spi_flash_mmap(phys, count, memory)
  PROVE  Inv'
<1> DEFINE m == Initialised(mmu)
           start == Start(m, phys, count, memory)
           pages == start .. start + count - 1
<1>1. /\ dump' = dump /\ booted' = booted /\ raced' = (raced \/ dump # TABLE_SIZE) /\ last_handle < MaxHandle
      /\ raced' \in BOOLEAN
  BY DEF spi_flash_mmap, Race, Inv
<1> SUFFICES ASSUME ~ raced' PROVE Inv'
  BY <1>1 DEF Inv
<1>2. ~ raced /\ dump = TABLE_SIZE /\ Good(m, entries, booted)
  BY <1>1, InitialisedGood
<1>3. /\ BootOK(booted) /\ EntriesOK(entries, last_handle) /\ last_handle \in 0 .. MaxHandle
      /\ dump' = TABLE_SIZE
  BY <1>1, <1>2 DEF Inv
<1>4. \/ mmu' = m /\ entries' = entries /\ last_handle' = last_handle
      \/ /\ pages \subseteq Table /\ \A i \in pages : Sane(m, i, phys + i - start)
         /\ Map(m, start, phys, count)
  BY DEF spi_flash_mmap, NoMem, Fail
<1>5. start \in Int /\ phys \in Int /\ count \in Nat
  BY StartInt DEF Flash
<1> HIDE DEF m, start
<1>6. CASE mmu' = m /\ entries' = entries /\ last_handle' = last_handle
  BY <1>1, <1>2, <1>3, <1>6 DEF Inv, Phase
<1>7. CASE /\ pages \subseteq Table /\ \A i \in pages : Sane(m, i, phys + i - start)
           /\ Map(m, start, phys, count)
  <2> DEFINE e == [handle |-> last_handle + 1, page |-> start, count |-> count, phys |-> phys]
  <2>1. /\ mmu' = SetUp(m, start, phys, count) /\ last_handle' = last_handle + 1
        /\ entries' = entries \cup {e}
    BY <1>7 DEF Map
  <2>2. last_handle \in 0 .. MaxHandle - 1
    BY <1>1, <1>3
  <2>3. EntriesOK(entries \cup {e}, last_handle + 1) /\ Good(SetUp(m, start, phys, count), entries \cup {e}, booted)
    BY <1>2, <1>3, <1>5, <1>7, <2>2, SetUpGood DEF CountsFit
  <2> HIDE DEF e
  <2> QED
    BY <1>1, <1>2, <1>3, <2>1, <2>2, <2>3 DEF Inv, Phase
<1> QED
  BY <1>4, <1>6, <1>7

(* spi_flash_munmap (flash_mmap.c:171-197).                                *)
LEMMA MunmapInv ==
  ASSUME Inv, NEW e \in entries, spi_flash_munmap(e)
  PROVE  Inv'
<1>1. dump' = dump /\ booted' = booted /\ raced' = (raced \/ dump # TABLE_SIZE) /\ last_handle' = last_handle
      /\ raced' \in BOOLEAN
  BY DEF spi_flash_munmap, Race, Inv, Fail
<1> SUFFICES ASSUME ~ raced' PROVE Inv'
  BY <1>1 DEF Inv
<1>2. ~ raced /\ dump = TABLE_SIZE
  BY <1>1
<1>3. /\ BootOK(booted) /\ EntriesOK(entries, last_handle) /\ last_handle \in 0 .. MaxHandle
      /\ Good(mmu, entries, booted)
  BY <1>2 DEF Inv, Phase
<1>4. CASE mmu' = mmu /\ entries' = entries
  BY <1>1, <1>2, <1>3, <1>4 DEF Inv, Phase
<1>5. CASE mmu' = Released(mmu, Covered(e)) /\ entries' = entries \ {e}
  <2>1. EntriesOK(entries', last_handle) /\ Good(mmu', entries', booted)
    BY <1>3, <1>5, ReleasedGood
  <2> QED
    BY <1>1, <1>2, <1>3, <2>1 DEF Inv, Phase
<1> QED
  BY <1>4, <1>5 DEF spi_flash_munmap, Fail

(* The initialisation in spi_flash_mmap_dump (flash_mmap.c:201-203).       *)
LEMMA DumpInv ==
  ASSUME Inv, DumpBegin \/ DumpInit
  PROVE  Inv'
<1>1. UNCHANGED <<entries, last_handle, booted, raced>>
  BY DEF DumpBegin, DumpInit
<1> SUFFICES ASSUME ~ raced PROVE Inv'
  BY <1>1 DEF Inv
<1>2. /\ BootOK(booted) /\ EntriesOK(entries, last_handle) /\ last_handle \in 0 .. MaxHandle
      /\ dump \in 0 .. TABLE_SIZE
  BY DEF Inv
<1>3. CASE DumpBegin
  <2>1. mmu' = mmu /\ dump' = 0 /\ dump = TABLE_SIZE /\ mmu.refcnt[0] = 0 /\ 0 \in Table
    BY <1>3 DEF DumpBegin, Table
  <2>2. ~ Good(mmu, entries, booted)
    BY <1>2, <2>1, CountPositive DEF Good, BootOK, EntriesOK
  <2> QED
    BY <1>1, <1>2, <2>1, <2>2 DEF Inv, Phase
<1>4. CASE DumpInit
  <2>1. dump < TABLE_SIZE /\ mmu' = InitPages(mmu, {dump}) /\ dump' = dump + 1 /\ dump \in Table
    BY <1>2, <1>4 DEF DumpInit, Table
  <2>2. entries = {} /\ Pristine(mmu, booted, dump)
    BY <2>1 DEF Inv, Phase
  <2>3. Pristine(mmu', booted, dump + 1)
    BY <1>2, <2>1, <2>2, InitPagesOne
  <2>4. CASE dump + 1 < TABLE_SIZE
    BY <1>1, <1>2, <2>1, <2>2, <2>3, <2>4 DEF Inv, Phase
  <2>5. CASE dump + 1 = TABLE_SIZE
    <3>1. \A i \in Table : i < dump + 1
      BY <2>5 DEF Table
    <3>2. \A i \in Table : Count({}, booted, i) = IF i \in DOMAIN booted THEN 1 ELSE 0
      BY FS_EmptySet DEF Count, Users
    <3>3. Good(mmu', {}, booted)
      BY <2>3, <3>1, <3>2 DEF Good, Pristine
    <3> QED
      BY <1>1, <1>2, <2>1, <2>2, <2>5, <3>3 DEF Inv, Phase
  <2> QED
    BY <1>2, <2>1, <2>4, <2>5
<1> QED
  BY <1>3, <1>4

(* Every step preserves the invariant.                                     *)
LEMMA NextInv == ASSUME CountsFit, Inv, [Next]_vars PROVE Inv'
<1>1. CASE UNCHANGED vars
  BY <1>1 DEF vars, Inv, Phase
<1> QED
  BY <1>1, MmapInv, MunmapInv, DumpInv DEF Next

(* What the invariant says of the properties.                              *)
LEMMA InvMappings == Inv => MappingsHold
<1> SUFFICES ASSUME Inv, ~ raced
             PROVE  Shows(mmu, entries, booted)
  BY DEF MappingsHold, Shows
<1> QED
  BY DEF Inv, Phase, Pristine, Good

LEMMA InvRefcnt == Inv => RefcntExact
<1> SUFFICES ASSUME Inv, ~ raced, dump = TABLE_SIZE, mmu.refcnt[0] # 0
             PROVE  \A i \in Table : mmu.refcnt[i] = Count(entries, booted, i)
  BY DEF RefcntExact, Count, Users
<1>1. 0 \in Table
  BY DEF Table
<1>2. ~ Pristine(mmu, booted, 0)
  BY <1>1 DEF Pristine
<1> QED
  BY <1>2 DEF Inv, Phase, Good

HIDE DEF Inv, MappingsHold, RefcntExact

(* For tables and chips of any size: as long as counts do not wrap and no  *)
(* call comes while dump initialises them, both CPUs see through every     *)
(* mapping the flash it was made for, and the application stays mapped.    *)
THEOREM Mappings == ASSUME CountsFit PROVE Spec => []MappingsHold
<1>1. Inv /\ [Next]_vars => Inv'
  BY NextInv
<1> QED
  BY <1>1, InitInv, InvMappings, PTL DEF Spec

(* Under the same conditions the reference counts are exact: a page is     *)
(* given back when its last user is gone, and not before.                  *)
THEOREM Refcnt == ASSUME CountsFit PROVE Spec => []RefcntExact
<1>1. Inv /\ [Next]_vars => Inv'
  BY NextInv
<1> QED
  BY <1>1, InitInv, InvRefcnt, PTL DEF Spec
=============================================================================
