------------------------------ MODULE IntrAlloc ------------------------------
(***************************************************************************)
(* components/esp32/intr_alloc.c: interrupts are handed to drivers, alone  *)
(* or shared, found again through a sorted list of descriptors, and those  *)
(* whose handlers are in flash are masked while the flash cache is off.    *)
(*                                                                         *)
(* Every operation runs in one critical section of the module's spinlock   *)
(* and is one action.  Tasks are pinned, as docs/api/intr_alloc.rst        *)
(* advises; ISRs may enable and disable at any time.                       *)
(***************************************************************************)
EXTENDS Integers, Sequences, FiniteSets, SequencesExt

CONSTANTS
  Handles,    \* bound: the handles that live at the same time
  Ints,       \* the interrupts of int_desc no one else has taken
  Sources,    \* sources of the interrupt matrix, numbers >= 0
  Requests,   \* calls of esp_intr_alloc
  NONE,       \* the null pointer
  Markable    \* the <<cpu, intno>> given to esp_intr_mark_shared or esp_intr_reserve

CPUs == {0, 1}
Vectors == CPUs \X Ints
BOOT == "boot"     \* the ISR task_wdt.c allocates before the scheduler starts
SHARED_ISR == "shared_intr_isr"
UNHANDLED == "xt_unhandled_interrupt"

ETS_INTERNAL_SW0_INTR_SOURCE == -4
ETS_INTERNAL_SW0_INTR_NO == 7
INT_MUX_DISABLED_INTNO == 6
LOWMED == 1 .. 3

Request == [source : Sources \cup {ETS_INTERNAL_SW0_INTR_SOURCE}, shared : BOOLEAN, edge : BOOLEAN,
            iram : BOOLEAN, disabled : BOOLEAN, levels : SUBSET (1 .. 7), handler : BOOLEAN]

ASSUME IntrAssumption ==
  /\ Sources \subseteq Nat /\ Requests \subseteq Request /\ Markable \subseteq Vectors
  /\ NONE \notin Handles /\ NONE \notin [vd : Vectors, svd : Handles \cup {NONE}]
  /\ Handles \cap {BOOT, SHARED_ISR, UNHANDLED} = {}
  /\ Ints \subseteq 0 .. 31 /\ 2 \in Ints /\ INT_MUX_DISABLED_INTNO \notin Ints

\* The table int_desc.
Level(i) ==
  CASE i \in {19, 20, 21}                 -> 2
    [] i \in {11, 15, 22, 23, 27, 29}     -> 3
    [] i \in {24, 25, 28, 30}             -> 4
    [] i \in {16, 26, 31}                 -> 5
    [] i = 14                             -> 7
    [] OTHER                              -> 1

IsSpecial(i) == i \in {6, 7, 11, 15, 16, 29}     \* type INTTP_NA
IsEdge(i) == i \in {10, 22, 28, 30}
IsReserved(i, c) == i \in {0, 1, 8, 9, 10, 14, 25, 26, 27, 30, 31} \/ (c = 0 /\ i \in {4, 5, 22, 24})

VARIABLES
  vectors,               \* the list at vector_desc_head, a sequence of <<cpu, intno>>
  crashed,               \* insert_vector_desc has written through a null pointer
  flags, source,         \* of the descriptors; {} for one that is not in the list
  shared_vec_info,       \* per descriptor the handles of its entries, the newest first
  entry,                 \* per handle its shared entry: source and disabled
  handle,                \* NONE or the interrupt and the shared entry of a handle
  table,                 \* _xt_interrupt_table
  matrix,                \* where the interrupt matrix of a CPU connects each source
  intenable,             \* register INTENABLE
  non_iram_int_mask, non_iram_int_disabled, non_iram_int_disabled_flag,
  asked, off,            \* history: the request behind a handle; the caller disabled it
  marked                 \* history: vectors given to mark_shared or reserve

hwVars == <<table, matrix, intenable>>
iramVars == <<non_iram_int_disabled, non_iram_int_disabled_flag>>
vars == <<vectors, crashed, flags, source, shared_vec_info, entry, handle, hwVars, non_iram_int_mask, iramVars,
          asked, off, marked>>

Live == {h \in Handles : handle[h] # NONE}
Users(v) == {h \in Live : handle[h].vd = v}

\* The order of the list.
Before(v, w) == v[1] < w[1] \/ (v[1] = w[1] /\ v[2] < w[2])

TypeOK ==
  /\ IsInjective(vectors) /\ ToSet(vectors) \subseteq Vectors
  /\ crashed \in BOOLEAN
  /\ flags \in [Vectors -> SUBSET {"RESERVED", "INIRAM", "SHARED", "NONSHARED"}]
  /\ source \in [Vectors -> Int]
  /\ \A v \in Vectors : ToSet(shared_vec_info[v]) \subseteq Live
  /\ entry \in [Handles -> [source : Sources, disabled : BOOLEAN]]
  /\ \A h \in Live : handle[h] \in [vd : Vectors, svd : Handles \cup {NONE}]
  /\ table \in [Vectors -> {UNHANDLED, SHARED_ISR, BOOT} \cup Handles]
  /\ matrix \in [CPUs -> [Sources -> Ints \cup {INT_MUX_DISABLED_INTNO}]]
  /\ {intenable, non_iram_int_mask, non_iram_int_disabled} \subseteq [CPUs -> SUBSET Ints]
  /\ non_iram_int_disabled_flag \in [CPUs -> BOOLEAN]
  /\ marked \subseteq Vectors

\* The scheduler starts: task_wdt.c holds interrupt 2 of CPU 0.
Init ==
  /\ vectors = << <<0, 2>> >> /\ crashed = FALSE
  /\ flags = [v \in Vectors |-> IF v = <<0, 2>> THEN {"NONSHARED"} ELSE {}]
  /\ source = [v \in Vectors |-> 0]
  /\ shared_vec_info = [v \in Vectors |-> <<>>]
  /\ entry \in [Handles -> {[source |-> s, disabled |-> FALSE] : s \in {CHOOSE s \in Sources : TRUE}}]
  /\ handle = [h \in Handles |-> NONE]
  /\ table = [v \in Vectors |-> IF v = <<0, 2>> THEN BOOT ELSE UNHANDLED]
  /\ matrix = [c \in CPUs |-> [s \in Sources |-> INT_MUX_DISABLED_INTNO]]
  /\ intenable = [c \in CPUs |-> IF c = 0 THEN {2} ELSE {}]
  /\ non_iram_int_mask = intenable
  /\ non_iram_int_disabled = [c \in CPUs |-> {}] /\ non_iram_int_disabled_flag = [c \in CPUs |-> FALSE]
  /\ asked = [h \in Handles |-> NONE] /\ off = {} /\ marked = {}

-----------------------------------------------------------------------------
(* The list of descriptors                                                 *)

\* How many descriptors the loop of insert_vector_desc walks past.
Walked(v) == Cardinality({k \in DOMAIN vectors : \A j \in 1 .. k : Before(vectors[j], v)})

\* Mutant: the CPU is left out of the comparison.
insert_vector_desc_NoCpu(v) ==
  LET n == Cardinality({k \in DOMAIN vectors : \A j \in 1 .. k : vectors[j][2] < v[2]})
  IN  IF n = 0 /\ vectors # <<>>
      THEN crashed' = TRUE /\ UNCHANGED vectors
      ELSE vectors' = InsertAt(vectors, n + 1, v) /\ UNCHANGED crashed

\* Without a predecessor only the first descriptor of all can be inserted.
insert_vector_desc(v) ==
  IF Walked(v) = 0 /\ vectors # <<>>
  THEN crashed' = TRUE /\ UNCHANGED vectors
  ELSE vectors' = InsertAt(vectors, Walked(v) + 1, v) /\ UNCHANGED crashed

get_desc_for_int(v) ==
  IF \E k \in DOMAIN vectors : vectors[k] = v
  THEN UNCHANGED <<vectors, crashed>>
  ELSE insert_vector_desc(v)

\* The environment marks and reserves what nobody uses.
Unused(v) == v \in Markable \ marked /\ Users(v) = {} /\ flags[v] = {}

esp_intr_mark_shared(v, is_int_ram) ==
  /\ Unused(v)
  /\ get_desc_for_int(v)
  /\ flags' = [flags EXCEPT ![v] = {"SHARED"} \cup (IF is_int_ram THEN {"INIRAM"} ELSE {})]
  /\ marked' = marked \cup {v}
  /\ UNCHANGED <<source, shared_vec_info, entry, handle, hwVars, non_iram_int_mask, iramVars, asked, off>>

esp_intr_reserve(v) ==
  /\ Unused(v)
  /\ get_desc_for_int(v)
  /\ flags' = [flags EXCEPT ![v] = {"RESERVED"}]
  /\ marked' = marked \cup {v}
  /\ UNCHANGED <<source, shared_vec_info, entry, handle, hwVars, non_iram_int_mask, iramVars, asked, off>>

-----------------------------------------------------------------------------
(* The choice of an interrupt                                              *)

IsShared(v) == "SHARED" \in flags[v]

\* Mutant: handlers in flash and in IRAM may share an interrupt.
Acceptable_AnyIram(r, c, force, x) ==
  LET v == <<c, x>> IN
  /\ force \in {-1, x}
  /\ ~ IsReserved(x, c) /\ (IsSpecial(x) => force # -1)
  /\ Level(x) \in r.levels
  /\ ~ IsSpecial(x) => (r.edge <=> IsEdge(x))
  /\ table[v] # UNHANDLED => IsShared(v)
  /\ flags[v] \cap {"RESERVED", "NONSHARED"} = {}
  /\ IsShared(v) => r.shared

\* Interrupts the loop of get_free_int does not pass over.
Acceptable(r, c, force, x) ==
  LET v == <<c, x>> IN
  /\ force \in {-1, x}
  /\ ~ IsReserved(x, c) /\ (IsSpecial(x) => force # -1)
  /\ Level(x) \in r.levels
  /\ ~ IsSpecial(x) => (r.edge <=> IsEdge(x))
  /\ table[v] # UNHANDLED => IsShared(v)
  /\ flags[v] \cap {"RESERVED", "NONSHARED"} = {}
  /\ IsShared(v) => r.shared /\ (r.iram <=> "INIRAM" \in flags[v])

\* INT_MAX stands for no shared interrupt so far.
INT_MAX == 2147483647
Better(v, best) ==
  LET n == Len(shared_vec_info[v])
  IN  IF IsShared(v) THEN n < best.sharedCt \/ best.level > Level(v[2])
                     ELSE best.level > Level(v[2])

\* One round of the loop of get_free_int.
Look(r, c, force, x, best) ==
  LET v == <<c, x>>
  IN  IF /\ x \in Ints /\ Acceptable(r, c, force, x)
         /\ r.shared /\ ~ IsShared(v) => best.int = -1
         /\ Better(v, best)
      THEN [int |-> x, level |-> Level(x),
            sharedCt |-> IF IsShared(v) THEN Len(shared_vec_info[v]) ELSE best.sharedCt]
      ELSE best

\* The best of interrupts 0 .. n - 1 is after[n].
get_free_int(r, c, force) ==
  LET after[n \in 0 .. 32] ==
        IF n = 0 THEN [int |-> -1, level |-> 9, sharedCt |-> INT_MAX]
        ELSE Look(r, c, force, n - 1, after[n - 1])
  IN  after[32].int

-----------------------------------------------------------------------------
(* esp_intr_alloc_intrstatus                                               *)

\* The checks of the arguments.
ArgsOkay(r) ==
  /\ ~ (r.shared /\ r.edge)
  /\ ~ (r.levels \cap (4 .. 7) # {} /\ r.handler)
  /\ r.shared => r.handler /\ r.source >= 0

DefaultLevels(r) == IF r.levels # {} THEN r.levels ELSE IF r.shared THEN {1} ELSE LOWMED
ForcedInt(s) == IF s = ETS_INTERNAL_SW0_INTR_SOURCE THEN ETS_INTERNAL_SW0_INTR_NO ELSE -1

Chosen(r, c) == get_free_int([r EXCEPT !.levels = DefaultLevels(r)], c, ForcedInt(r.source))

\* Tasks do not run on a CPU that is in a flash operation.
TasksRun(c) == ~ non_iram_int_disabled_flag[c]

\* The environment gives a source to one handle of a CPU at a time.
SourceIsFree(r, c) == \A g \in Live : handle[g].vd[1] = c => asked[g].source # r.source

esp_intr_alloc(c, h, r) ==
  LET x == Chosen(r, c)
      v == <<c, x>>
      muxed == r.source >= 0
  IN
  /\ TasksRun(c) /\ h \notin Live /\ SourceIsFree(r, c)
  /\ ArgsOkay(r)
  /\ x # -1
  /\ get_desc_for_int(v)
  /\ flags' = [flags EXCEPT ![v] =
                 ((IF r.shared THEN @ \cup {"SHARED"} ELSE {"NONSHARED"}) \ {"INIRAM"})
                   \cup (IF r.iram THEN {"INIRAM"} ELSE {})]
  /\ shared_vec_info' = IF r.shared THEN [shared_vec_info EXCEPT ![v] = <<h>> \o @] ELSE shared_vec_info
  /\ entry' = IF r.shared THEN [entry EXCEPT ![h] = [source |-> r.source, disabled |-> r.disabled]] ELSE entry
  /\ source' = IF r.shared THEN source ELSE [source EXCEPT ![v] = r.source]
  /\ table' = IF ~ r.handler THEN table
              ELSE [table EXCEPT ![v] = IF r.shared THEN SHARED_ISR ELSE h]
  /\ non_iram_int_mask' = [non_iram_int_mask EXCEPT ![c] = IF r.iram THEN @ \ {x} ELSE @ \cup {x}]
  /\ matrix' = IF muxed THEN [matrix EXCEPT ![c][r.source] = IF r.disabled THEN INT_MUX_DISABLED_INTNO ELSE x]
                        ELSE matrix
  /\ intenable' = [intenable EXCEPT ![c] = IF ~ muxed /\ r.disabled THEN @ \ {x} ELSE @ \cup {x}]
  /\ handle' = [handle EXCEPT ![h] =
                  [vd |-> v, svd |-> IF shared_vec_info'[v] = <<>> THEN NONE ELSE Head(shared_vec_info'[v])]]
  /\ asked' = [asked EXCEPT ![h] = r]
  /\ off' = IF r.disabled THEN off \cup {h} ELSE off
  /\ UNCHANGED <<iramVars, marked>>

\* malloc fails for the shared entry: the descriptor stays in the list.
AllocNoMem(c, r) ==
  /\ TasksRun(c) /\ SourceIsFree(r, c)
  /\ ArgsOkay(r) /\ r.shared
  /\ Chosen(r, c) # -1
  /\ get_desc_for_int(<<c, Chosen(r, c)>>)
  /\ UNCHANGED <<flags, source, shared_vec_info, entry, handle, hwVars, non_iram_int_mask, iramVars, asked, off,
                 marked>>

-----------------------------------------------------------------------------
(* Handles                                                                 *)

SourceOf(h) == IF handle[h].svd # NONE THEN entry[handle[h].svd].source ELSE source[handle[h].vd]

\* An internal source is switched only by tasks of its own CPU.  The code
\* refuses the other CPU: disable changes nothing, enable keeps the spinlock.
MaySwitch(h) == SourceOf(h) >= 0 \/ TasksRun(handle[h].vd[1])

\* What esp_intr_disable and esp_intr_enable do to the entry and the CPU.
Disconnect(h) ==
  LET c == handle[h].vd[1]
      s == SourceOf(h) IN
  /\ entry' = IF handle[h].svd # NONE THEN [entry EXCEPT ![handle[h].svd].disabled = TRUE] ELSE entry
  /\ matrix' = IF s >= 0 THEN [matrix EXCEPT ![c][s] = INT_MUX_DISABLED_INTNO] ELSE matrix
  /\ intenable' = IF s >= 0 THEN intenable ELSE [intenable EXCEPT ![c] = @ \ {handle[h].vd[2]}]

esp_intr_disable(h) ==
  /\ h \in Live /\ MaySwitch(h)
  /\ Disconnect(h)
  /\ off' = off \cup {h}
  /\ UNCHANGED <<vectors, crashed, flags, source, shared_vec_info, handle, table, non_iram_int_mask, iramVars,
                 asked, marked>>

\* Mutant: a shared entry stays disabled.
esp_intr_enable_NoEntry(h) ==
  LET c == handle[h].vd[1]
      x == handle[h].vd[2]
      s == SourceOf(h) IN
  /\ h \in Live /\ MaySwitch(h)
  /\ matrix' = IF s >= 0 THEN [matrix EXCEPT ![c][s] = x] ELSE matrix
  /\ intenable' = IF s >= 0 THEN intenable ELSE [intenable EXCEPT ![c] = @ \cup {x}]
  /\ off' = off \ {h}
  /\ UNCHANGED <<vectors, crashed, flags, source, shared_vec_info, handle, table, non_iram_int_mask, iramVars,
                 asked, marked, entry>>

esp_intr_enable(h) ==
  LET c == handle[h].vd[1]
      x == handle[h].vd[2]
      s == SourceOf(h) IN
  /\ h \in Live /\ MaySwitch(h)
  /\ entry' = IF handle[h].svd # NONE THEN [entry EXCEPT ![handle[h].svd].disabled = FALSE] ELSE entry
  /\ matrix' = IF s >= 0 THEN [matrix EXCEPT ![c][s] = x] ELSE matrix
  /\ intenable' = IF s >= 0 THEN intenable ELSE [intenable EXCEPT ![c] = @ \cup {x}]
  /\ off' = off \ {h}
  /\ UNCHANGED <<vectors, crashed, flags, source, shared_vec_info, handle, table, non_iram_int_mask, iramVars,
                 asked, marked>>

\* Whether esp_intr_free, which drops h from the chain, finds it empty then.
NothingLeft(v, h) == "NONSHARED" \in flags[v] \/ (IsShared(v) /\ RemoveFirst(shared_vec_info[v], h) = <<>>)

\* Mutant: the &=~ that seems to be meant.
Cleared_OnlyTwo(fl) == fl \ {"NONSHARED", "RESERVED"}

\* What is left of the flags: &=! with a mask that is not zero is &=0.
Cleared(fl) == {}

\* Only on the CPU of the interrupt; elsewhere it changes nothing.
esp_intr_free(h) ==
  LET v == handle[h].vd
      last == NothingLeft(v, h) IN
  /\ h \in Live /\ TasksRun(v[1])
  /\ LET s == SourceOf(h) IN
     /\ matrix' = IF s >= 0 THEN [matrix EXCEPT ![v[1]][s] = INT_MUX_DISABLED_INTNO] ELSE matrix
     /\ intenable' = IF s >= 0 THEN intenable ELSE [intenable EXCEPT ![v[1]] = @ \ {v[2]}]
  /\ entry' = [entry EXCEPT ![h] = [source |-> CHOOSE s \in Sources : TRUE, disabled |-> FALSE]]
  /\ shared_vec_info' = [shared_vec_info EXCEPT ![v] = IF IsShared(v) THEN RemoveFirst(@, h) ELSE @]
  /\ table' = IF last THEN [table EXCEPT ![v] = UNHANDLED] ELSE table
  /\ flags' = IF last THEN [flags EXCEPT ![v] = Cleared(@)] ELSE flags
  /\ non_iram_int_mask' = IF last THEN [non_iram_int_mask EXCEPT ![v[1]] = @ \ {v[2]}] ELSE non_iram_int_mask
  /\ handle' = [handle EXCEPT ![h] = NONE]
  /\ asked' = [asked EXCEPT ![h] = NONE]
  /\ off' = off \ {h}
  /\ UNCHANGED <<vectors, crashed, source, iramVars, marked>>

-----------------------------------------------------------------------------
(* Around a flash operation (cache_utils.c)                                *)

esp_intr_noniram_disable(c) ==
  /\ ~ non_iram_int_disabled_flag[c]
  /\ non_iram_int_disabled_flag' = [non_iram_int_disabled_flag EXCEPT ![c] = TRUE]
  /\ non_iram_int_disabled' = [non_iram_int_disabled EXCEPT ![c] = intenable[c] \cap non_iram_int_mask[c]]
  /\ intenable' = [intenable EXCEPT ![c] = @ \ non_iram_int_mask[c]]
  /\ UNCHANGED <<vectors, crashed, flags, source, shared_vec_info, entry, handle, table, matrix, non_iram_int_mask,
                 asked, off, marked>>

\* Mutant: all of the mask is enabled instead of what was disabled.
esp_intr_noniram_enable_All(c) ==
  /\ non_iram_int_disabled_flag[c]
  /\ non_iram_int_disabled_flag' = [non_iram_int_disabled_flag EXCEPT ![c] = FALSE]
  /\ intenable' = [intenable EXCEPT ![c] = @ \cup non_iram_int_mask[c]]
  /\ UNCHANGED <<vectors, crashed, flags, source, shared_vec_info, entry, handle, table, matrix, non_iram_int_mask,
                 non_iram_int_disabled, asked, off, marked>>

esp_intr_noniram_enable(c) ==
  /\ non_iram_int_disabled_flag[c]
  /\ non_iram_int_disabled_flag' = [non_iram_int_disabled_flag EXCEPT ![c] = FALSE]
  /\ intenable' = [intenable EXCEPT ![c] = @ \cup non_iram_int_disabled[c]]
  /\ UNCHANGED <<vectors, crashed, flags, source, shared_vec_info, entry, handle, table, matrix, non_iram_int_mask,
                 non_iram_int_disabled, asked, off, marked>>

Next ==
  \/ \E c \in CPUs, h \in Handles, r \in Requests : esp_intr_alloc(c, h, r)
  \/ \E c \in CPUs, r \in Requests : AllocNoMem(c, r)
  \/ \E v \in Vectors, b \in BOOLEAN : esp_intr_mark_shared(v, b)
  \/ \E v \in Vectors : esp_intr_reserve(v)
  \/ \E h \in Handles : esp_intr_disable(h) \/ esp_intr_enable(h) \/ esp_intr_free(h)
  \/ \E c \in CPUs : esp_intr_noniram_disable(c) \/ esp_intr_noniram_enable(c)

Spec == Init /\ [][Next]_vars

-----------------------------------------------------------------------------
(* Properties                                                              *)

\* What shared_intr_isr calls; status registers are taken to say yes.
shared_intr_isr(v) == {h \in ToSet(shared_vec_info[v]) : ~ entry[h].disabled}

\* The handlers that run when interrupt x of CPU c arrives; above level 3 the
\* assembly handler of whoever has the interrupt.
Called(c, x) ==
  IF Level(x) \notin LOWMED THEN Users(<<c, x>>)
  ELSE IF table[<<c, x>>] = SHARED_ISR THEN shared_intr_isr(<<c, x>>)
  ELSE {table[<<c, x>>]}

\* Interrupts that can arrive: connected to a source and enabled.
Arriving(c) ==
  intenable[c] \cap ({matrix[c][s] : s \in Sources} \cup {ETS_INTERNAL_SW0_INTR_NO}
                       \cup (IF c = 0 THEN {2} ELSE {}))

\* A driver that allocated an interrupt and has not disabled it is called when
\* its source fires, whatever others allocated, shared, freed and disabled
\* meanwhile and except while its CPU is in a flash operation: the source is
\* connected, INTENABLE is set and the handler is in the table or the chain.
HandlersReached ==
  \A h \in Live \ off :
    LET c == handle[h].vd[1]
        x == handle[h].vd[2]
    IN  /\ asked[h].source >= 0 => matrix[c][asked[h].source] = x
        /\ TasksRun(c) => x \in intenable[c]
        /\ h \in Called(c, x)

\* An interrupt that can arrive runs handlers of live handles that are not
\* disabled and nothing else: no freed handler, none that its driver switched
\* off, and never xt_unhandled_interrupt.
OnlyLiveHandlersRun ==
  \A c \in CPUs : \A x \in Arriving(c) : Called(c, x) \subseteq (Live \ off) \cup {BOOT}

\* While esp_intr_noniram_disable is in force on a CPU no interrupt that can
\* arrive there has a handler in flash, shared or not: non_iram_int_mask is
\* right however handlers came and went.
NoFlashHandlerInWindow ==
  \A c \in CPUs : non_iram_int_disabled_flag[c] =>
    \A x \in Arriving(c) : \A h \in Called(c, x) : h \in Live /\ asked[h].iram

\* The list of descriptors is sorted by CPU and number, which the search for a
\* place relies on, and no insertion met the null predecessor of the head.
ListInOrder ==
  /\ ~ crashed
  /\ \A k \in 1 .. Len(vectors) - 1 : Before(vectors[k], vectors[k + 1])

\* The flags of a descriptor tell who uses it: a reserved interrupt nobody, a
\* non-shared one a single handle, and one that was given back by its last user
\* is free for any request, unless the application marked or reserved it.
FlagsTellUse ==
  \A v \in Vectors \ {<<0, 2>>} :
    /\ "RESERVED" \in flags[v] => Users(v) = {}
    /\ "NONSHARED" \in flags[v] <=> (Cardinality(Users(v)) = 1 /\ \A h \in Users(v) : ~ asked[h].shared)
    /\ Users(v) # {} => flags[v] \cap {"SHARED", "NONSHARED"} # {}
    /\ Users(v) = {} /\ v \notin marked => flags[v] = {} /\ table[v] = UNHANDLED
=============================================================================
