----------------------------- MODULE MCIntrAlloc -----------------------------
(* An instance of IntrAlloc.  CPU 0 has interrupt 12 (level 1) to give     *)
(* away and CPU 1 also 2; both have 28 (level 4, edge-triggered, without a *)
(* C handler) and 7, which belongs to software interrupt 0.                *)
EXTENDS IntrAlloc, TLC

CONSTANTS h1, h2

MCRequests ==
  LET Ask(s, sh, e, i, d, l) ==
        [source |-> s, shared |-> sh, edge |-> e, iram |-> i, disabled |-> d, levels |-> l,
         handler |-> l \cap (4 .. 7) = {}]
  IN  {Ask(s, TRUE, FALSE, i, FALSE, {}) : s \in Sources, i \in BOOLEAN}
        \cup {Ask(1, FALSE, FALSE, FALSE, d, {}) : d \in BOOLEAN}
        \cup {Ask(2, TRUE, FALSE, TRUE, TRUE, {1, 2}), Ask(1, FALSE, TRUE, TRUE, FALSE, {4}),
              Ask(ETS_INTERNAL_SW0_INTR_SOURCE, FALSE, FALSE, FALSE, FALSE, {})}

MCMarkable == {<<1, 2>>}

\* States that differ only in values no step or property reads are one: the
\* source left in a descriptor nobody has alone, the interrupts saved by the
\* last flash operation, and the INTENABLE bit of an interrupt that nobody has
\* and nothing is connected to.
MCView ==
  <<vectors, crashed, flags, [v \in {w \in Vectors : "NONSHARED" \in flags[w]} |-> source[v]], shared_vec_info, entry, handle, table, matrix,
    [c \in CPUs |-> intenable[c] \cap (Arriving(c) \cup {x \in Ints : Users(<<c, x>>) # {}})],
    non_iram_int_mask, non_iram_int_disabled_flag,
    [c \in {d \in CPUs : non_iram_int_disabled_flag[d]} |-> non_iram_int_disabled[c]], asked, off, marked>>

Symmetry == Permutations(Handles)
=============================================================================
