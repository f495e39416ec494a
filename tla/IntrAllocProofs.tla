--------------------------- MODULE IntrAllocProofs ---------------------------
(***************************************************************************)
(* Proofs about IntrAlloc, for any handles, interrupts, sources and        *)
(* requests, and whatever is marked or reserved.                           *)
(*                                                                         *)
(* The argument: a descriptor is idle, owned by one handle, or the head of *)
(* a chain of handles that agree on IRAM (VectorInv).  A handle knows what *)
(* it was asked for (HandleInv), and its source is connected to its        *)
(* interrupt exactly as long as it is not disabled (WiredInv), while       *)
(* nothing else is connected (SourceInv).  Allocation keeps this because   *)
(* get_free_int returns only interrupts the request may have (FreeInt).    *)
(***************************************************************************)
EXTENDS IntrAlloc, FiniteSetTheorems, SequenceTheorems, WellFoundedInduction, TLAPS

(***************************************************************************)
(* The conditions of some theorems, both on the calls of the application.  *)
(*                                                                         *)
(* HandlersGiven: a handler is given unless only interrupts above level 3  *)
(* are asked for, which take none (esp_intr_alloc.h:136).  The code        *)
(* refuses a handler for those (intr_alloc.c:444), but not the lack of one *)
(* for the others, where xt_unhandled_interrupt would run.                 *)
(*                                                                         *)
(* MarkedLater: nothing that sorts before the interrupt of the task        *)
(* watchdog is marked or reserved (insert_vector_desc, intr_alloc.c:198).  *)
(***************************************************************************)
HandlersGiven == \A r \in Requests : ~ r.handler => r.levels # {} /\ r.levels \cap LOWMED = {}
MarkedLater == \A v \in Markable : ~ Before(v, <<0, 2>>)

FLAGS == {"RESERVED", "INIRAM", "SHARED", "NONSHARED"}
Handle == [vd : Vectors, svd : Handles \cup {NONE}]

Types ==
  /\ flags \in [Vectors -> SUBSET FLAGS]
  /\ source \in [Vectors -> Int]
  /\ shared_vec_info \in [Vectors -> Seq(Handles)]
  /\ entry \in [Handles -> [source : Sources \cup {CHOOSE s \in Sources : TRUE}, disabled : BOOLEAN]]
  /\ handle \in [Handles -> Handle \cup {NONE}]
  /\ table \in [Vectors -> {UNHANDLED, SHARED_ISR, BOOT} \cup Handles]
  /\ matrix \in [CPUs -> [Sources -> Ints \cup {INT_MUX_DISABLED_INTNO}]]
  /\ intenable \in [CPUs -> SUBSET Ints]
  /\ non_iram_int_mask \in [CPUs -> SUBSET Ints]
  /\ non_iram_int_disabled \in [CPUs -> SUBSET Ints]
  /\ non_iram_int_disabled_flag \in [CPUs -> BOOLEAN]
  /\ asked \in [Handles -> Requests \cup {NONE}]
  /\ off \subseteq Live

(* What a descriptor says, and who uses it.                                *)
Idle(v) ==
  /\ flags[v] \subseteq {"RESERVED"} /\ (flags[v] = {} \/ v \in marked)
  /\ Users(v) = {} /\ shared_vec_info[v] = <<>> /\ table[v] = UNHANDLED

Own(v) ==
  /\ "NONSHARED" \in flags[v] /\ "SHARED" \notin flags[v] /\ "RESERVED" \notin flags[v]
  /\ shared_vec_info[v] = <<>>
  /\ \E h \in Handles :
       /\ Users(v) = {h} /\ ~ asked[h].shared /\ source[v] = asked[h].source
       /\ table[v] = IF asked[h].handler THEN h ELSE UNHANDLED

Chain(v) ==
  /\ "SHARED" \in flags[v] /\ "NONSHARED" \notin flags[v] /\ "RESERVED" \notin flags[v]
  /\ IsInjective(shared_vec_info[v]) /\ ToSet(shared_vec_info[v]) = Users(v)
  /\ \A h \in Users(v) : asked[h].shared /\ (asked[h].iram <=> "INIRAM" \in flags[v])
  /\ IF Users(v) = {} THEN v \in marked /\ table[v] = UNHANDLED ELSE table[v] = SHARED_ISR

Boot ==
  LET v == <<0, 2>> IN
  /\ flags[v] = {"NONSHARED"} /\ Users(v) = {} /\ table[v] = BOOT
  /\ 2 \in non_iram_int_mask[0]

VectorInv == Boot /\ \A v \in Vectors \ {<<0, 2>>} : Idle(v) \/ Own(v) \/ Chain(v)

(* What a handle has: its request, its entry, its interrupt.               *)
Enabled(c, x) == x \in intenable[c] \/ (non_iram_int_disabled_flag[c] /\ x \in non_iram_int_disabled[c])

HandleInv ==
  \A h \in Live :
    LET r == asked[h]
        v == handle[h].vd IN
    /\ r \in Requests /\ ArgsOkay(r)
    /\ handle[h].svd = IF r.shared THEN h ELSE NONE
    /\ r.shared => entry[h] = [source |-> r.source, disabled |-> h \in off]
    /\ Level(v[2]) \in DefaultLevels(r)
    /\ r.source < 0 <=> v[2] = ETS_INTERNAL_SW0_INTR_NO

WiredInv ==
  \A h \in Live :
    LET r == asked[h]
        v == handle[h].vd IN
    /\ v[2] \in non_iram_int_mask[v[1]] <=> ~ r.iram
    /\ r.source >= 0 => matrix[v[1]][r.source] = IF h \in off THEN INT_MUX_DISABLED_INTNO ELSE v[2]
    /\ r.source >= 0 \/ h \notin off => Enabled(v[1], v[2])

(* No other source is connected, and no other internal interrupt enabled.  *)
SourceInv ==
  /\ \A g, h \in Live : handle[g].vd[1] = handle[h].vd[1] /\ asked[g].source = asked[h].source => g = h
  /\ \A c \in CPUs, s \in Sources : matrix[c][s] # INT_MUX_DISABLED_INTNO =>
       \E h \in Live : handle[h].vd[1] = c /\ asked[h].source = s
  /\ \A c \in CPUs : Enabled(c, ETS_INTERNAL_SW0_INTR_NO) =>
       \E h \in Live \ off : handle[h].vd = <<c, ETS_INTERNAL_SW0_INTR_NO>>

WindowInv == \A c \in CPUs : non_iram_int_disabled_flag[c] => intenable[c] \cap non_iram_int_mask[c] = {}

ListInv ==
  /\ ~ crashed
  /\ vectors \in Seq(Vectors) /\ Len(vectors) >= 1 /\ vectors[1] = <<0, 2>>
  /\ \A k \in 1 .. Len(vectors) - 1 : Before(vectors[k], vectors[k + 1])

Inv == Types /\ VectorInv /\ HandleInv /\ WiredInv /\ SourceInv /\ WindowInv
-----------------------------------------------------------------------------
(* What is assumed of the constants that the steps below need most.        *)
LEMMA Numbers == Ints \subseteq 0 .. 31 /\ Sources \subseteq Nat /\ Requests \subseteq Request /\ 2 \in Ints
  BY IntrAssumption, Zenon

(* A vector is a CPU and an interrupt.                                     *)
LEMMA Vector ==
  ASSUME NEW v \in Vectors
  PROVE  v[1] \in CPUs /\ v[2] \in Ints /\ v = <<v[1], v[2]>>
  BY DEF Vectors

(* The order of the list compares any two vectors.                         *)
LEMMA Total ==
  ASSUME NEW v \in Vectors, NEW w \in Vectors, v # w
  PROVE  Before(v, w) \/ Before(w, v)
<1>1. v[1] \in 0 .. 1 /\ v[2] \in 0 .. 31 /\ w[1] \in 0 .. 1 /\ w[2] \in 0 .. 31
  BY Vector, Numbers DEF CPUs
<1>2. v[1] # w[1] \/ v[2] # w[2]
  BY Vector
<1> QED
  BY <1>1, <1>2 DEF Before

(* The sources of a request: internal only if it is software interrupt 0.  *)
LEMMA RequestSource ==
  ASSUME NEW r \in Requests
  PROVE  /\ r.source \in Sources \cup {ETS_INTERNAL_SW0_INTR_SOURCE} /\ r.source \in Int
         /\ r.source < 0 <=> r.source = ETS_INTERNAL_SW0_INTR_SOURCE
         /\ r.source >= 0 <=> r.source \in Sources
         /\ r.shared \in BOOLEAN /\ r.iram \in BOOLEAN /\ r.disabled \in BOOLEAN /\ r.handler \in BOOLEAN
         /\ r.levels \in SUBSET (1 .. 7)
<1>1. r \in Request
  BY Numbers
<1>2. r.source \in Sources \cup {ETS_INTERNAL_SW0_INTR_SOURCE}
  BY <1>1 DEF Request
<1>3. ETS_INTERNAL_SW0_INTR_SOURCE = -4
  BY DEF ETS_INTERNAL_SW0_INTR_SOURCE
<1>4. \A s \in Sources : s \in Int /\ s >= 0
  BY Numbers
<1>5. /\ r.shared \in BOOLEAN /\ r.iram \in BOOLEAN /\ r.disabled \in BOOLEAN /\ r.handler \in BOOLEAN
      /\ r.levels \in SUBSET (1 .. 7)
  BY <1>1 DEF Request
<1> QED
  BY <1>2, <1>3, <1>4, <1>5

(* Every set of naturals that is not empty has a least element.            *)
LEMMA Least ==
  ASSUME NEW S \in SUBSET Nat, S # {}
  PROVE  \E x \in S : \A y \in S : x <= y
<1> DEFINE R == OpToRel(<, Nat)
<1>1. \A x, y \in Nat : x < y => <<x, y>> \in R
  BY DEF OpToRel
<1>2. IsWellFoundedOn(R, Nat)
  BY NatLessThanWellFounded
<1> HIDE DEF R
<1>3. PICK x \in S : \A y \in S : ~ (<<y, x>> \in R)
  BY <1>2, WFMin
<1>4. \A y \in S : x \in Nat /\ y \in Nat /\ ~ (y < x)
  BY <1>1, <1>3
<1> QED
  BY <1>4

(* One round keeps the best so far or takes an interrupt the request may   *)
(* have (intr_alloc.c:303-408).                                            *)
LEMMA LookTakes ==
  ASSUME NEW r, NEW c, NEW force, NEW x, NEW best
  PROVE  \/ Look(r, c, force, x, best) = best
         \/ x \in Ints /\ Acceptable(r, c, force, x) /\ Look(r, c, force, x, best).int = x
  BY DEF Look

(* get_free_int fails or finds an interrupt the request may have.  The     *)
(* loop has a result after every number of rounds, because a least number  *)
(* of rounds without one would follow a number with one; that the result   *)
(* is acceptable follows in the same way.                                  *)
LEMMA FreeInt ==
  ASSUME NEW r, NEW c, NEW force
  PROVE  LET x == get_free_int(r, c, force)
         IN  x = -1 \/ (x \in Ints /\ Acceptable(r, c, force, x))
<1> DEFINE start == [int |-> -1, level |-> 9, sharedCt |-> INT_MAX]
           look(x, b) == Look(r, c, force, x, b)
           body(f, N) == [n \in 0 .. N |-> IF n = 0 THEN start ELSE look(n - 1, f[n - 1])]
           okay(b) == b.int = -1 \/ (b.int \in Ints /\ Acceptable(r, c, force, b.int))
<1>1. okay(start)
  OBVIOUS
<1>2. \A x, b : okay(b) => okay(look(x, b))
  BY LookTakes
<1> HIDE DEF start, look, okay
<1> DEFINE has(N) == \E f : f = body(f, N)
<1>3. \A N \in 0 .. 32 : has(N)
  <2>1. has(0)
    <3> DEFINE f == [n \in 0 .. 0 |-> start]
    <3>1. f = body(f, 0)
      OBVIOUS
    <3> QED
      BY <3>1
  <2>2. ASSUME NEW N \in 1 .. 32, has(N - 1) PROVE has(N)
    <3>1. N \in 1 .. 32 /\ N - 1 \in 0 .. 32
      BY <2>2
    <3>2. PICK f : f = body(f, N - 1)
      BY <2>2
    <3> DEFINE g == [n \in 0 .. N |-> IF n < N THEN f[n] ELSE look(N - 1, f[N - 1])]
    <3>3. \A n \in 0 .. N : g[n] = IF n = 0 THEN start ELSE look(n - 1, g[n - 1])
      <4> SUFFICES ASSUME NEW n \in 0 .. N
                   PROVE  g[n] = IF n = 0 THEN start ELSE look(n - 1, g[n - 1])
        OBVIOUS
      <4>1. CASE n = N
        <5>1. g[N] = look(N - 1, f[N - 1]) /\ g[N - 1] = f[N - 1]
          BY <3>1
        <5> QED
          BY <3>1, <4>1, <5>1
      <4>2. CASE n < N
        <5>1. n \in 0 .. N - 1 /\ (n # 0 => n - 1 \in 0 .. N /\ n - 1 < N)
          BY <3>1, <4>2
        <5>2. f[n] = IF n = 0 THEN start ELSE look(n - 1, f[n - 1])
          BY <3>2, <5>1
        <5> QED
          BY <4>2, <5>1, <5>2
      <4> QED
        BY <3>1, <4>1, <4>2
    <3>4. g = body(g, N)
      BY <3>3
    <3> QED
      BY <3>4
  <2> HIDE DEF has
  <2> DEFINE Bad == {N \in 0 .. 32 : ~ has(N)}
  <2>3. SUFFICES ASSUME Bad # {} PROVE FALSE
    OBVIOUS
  <2>4. PICK N \in Bad : \A M \in Bad : N <= M
    <3>1. Bad \in SUBSET Nat
      OBVIOUS
    <3> HIDE DEF Bad
    <3> QED
      BY <2>3, <3>1, Least
  <2>5. N \in 1 .. 32 /\ has(N - 1)
    BY <2>1, <2>4
  <2> QED
    BY <2>2, <2>4, <2>5
<1> DEFINE after == CHOOSE f : f = body(f, 32)
<1>4. after = body(after, 32)
  <2>1. has(32)
    BY <1>3
  <2>2. \E f : f = body(f, 32)
    BY <2>1
  <2> HIDE DEF body
  <2> QED
    BY <2>2, Zenon
<1>5. get_free_int(r, c, force) = after[32].int
  BY DEF get_free_int, start, look
<1> HIDE DEF after
<1>6. after[0] = start /\ \A n \in 1 .. 32 : after[n] = look(n - 1, after[n - 1])
  BY <1>4
<1>7. \A n \in 0 .. 32 : okay(after[n])
  <2> DEFINE Bad == {n \in 0 .. 32 : ~ okay(after[n])}
  <2>1. SUFFICES ASSUME Bad # {} PROVE FALSE
    OBVIOUS
  <2>2. PICK n \in Bad : \A m \in Bad : n <= m
    <3>1. Bad \in SUBSET Nat
      OBVIOUS
    <3> HIDE DEF Bad
    <3> QED
      BY <2>1, <3>1, Least
  <2>3. n \in 1 .. 32
    BY <1>1, <1>6, <2>2
  <2>4. okay(after[n - 1])
    BY <2>2, <2>3
  <2> QED
    BY <1>2, <1>6, <2>2, <2>3, <2>4
<1>8. okay(after[32])
  BY <1>7
<1> QED
  BY <1>5, <1>8 DEF okay

(* A set of positions that has with each one all smaller ones is an        *)
(* interval, and its cardinality the last position.                        *)
LEMMA Prefix ==
  ASSUME NEW n \in Nat, NEW S \in SUBSET (1 .. n), \A k \in S : \A j \in 1 .. k : j \in S
  PROVE  /\ Cardinality(S) \in 0 .. n
         /\ \A k \in 1 .. n : k \in S <=> k <= Cardinality(S)
<1> DEFINE Out == {k \in 1 .. n + 1 : k \notin S}
<1>1. Out \in SUBSET Nat /\ Out # {}
  <2>1. n + 1 \in Out
    OBVIOUS
  <2> QED
    BY <2>1
<1>2. PICK m \in Out : \A k \in Out : m <= k
  <2> HIDE DEF Out
  <2> QED
    BY <1>1, Least
<1>3. m \in 1 .. n + 1 /\ m \notin S
  BY <1>2
<1>4. \A k \in 1 .. n : k < m => k \in S
  BY <1>2, <1>3
<1>5. \A k \in S : k < m
  BY <1>3
<1>6. S = 1 .. m - 1
  <2>1. \A k \in S : k \in 1 .. m - 1
    BY <1>3, <1>5
  <2>2. \A k \in 1 .. m - 1 : k \in 1 .. n /\ k < m
    BY <1>3
  <2> QED
    BY <1>4, <2>1, <2>2
<1>7. Cardinality(S) = m - 1
  <2>1. m - 1 \in Int /\ m - 1 >= 0
    BY <1>3
  <2> QED
    BY <1>6, <2>1, FS_Interval
<1> QED
  BY <1>3, <1>6, <1>7

(* A sequence after one element was put in at a position.                  *)
LEMMA Inserted ==
  ASSUME NEW S, NEW s \in Seq(S), NEW e \in S, NEW n \in 0 .. Len(s)
  PROVE  LET t == InsertAt(s, n + 1, e) IN
         /\ t \in Seq(S) /\ Len(t) = Len(s) + 1
         /\ \A k \in 1 .. Len(t) : t[k] = IF k <= n THEN s[k] ELSE IF k = n + 1 THEN e ELSE s[k - 1]
<1> DEFINE a == SubSeq(s, 1, n)
           b == SubSeq(s, n + 1, Len(s))
<1>1. a \in Seq(S) /\ Len(a) = n /\ \A k \in 1 .. n : a[k] = s[k]
  BY SubSeqProperties
<1>2. b \in Seq(S) /\ Len(b) = Len(s) - n /\ \A k \in 1 .. Len(s) - n : b[k] = s[n + k]
  BY SubSeqProperties
<1>3. InsertAt(s, n + 1, e) = a \o <<e>> \o b
  <2>1. (n + 1) - 1 = n
    OBVIOUS
  <2> QED
    BY <2>1 DEF InsertAt
<1> HIDE DEF a, b
<1>4. /\ a \o <<e>> \in Seq(S) /\ Len(a \o <<e>>) = n + 1
      /\ \A k \in 1 .. n + 1 : (a \o <<e>>)[k] = IF k <= n THEN s[k] ELSE e
  BY <1>1
<1> DEFINE c == a \o <<e>>
<1> HIDE DEF c
<1>5. c \in Seq(S) /\ Len(c) = n + 1 /\ \A k \in 1 .. n + 1 : c[k] = IF k <= n THEN s[k] ELSE e
  BY <1>4 DEF c
<1>6. c \o b \in Seq(S) /\ Len(c \o b) = Len(s) + 1
  <2>1. c \o b \in Seq(S) /\ Len(c \o b) = Len(c) + Len(b)
    BY <1>2, <1>5, ConcatProperties
  <2> QED
    BY <1>2, <1>5, <2>1
<1>7. \A k \in 1 .. Len(s) + 1 : (c \o b)[k] = IF k <= n + 1 THEN c[k] ELSE b[k - (n + 1)]
  BY <1>2, <1>5
<1>8. \A k \in 1 .. Len(s) + 1 : k > n + 1 => b[k - (n + 1)] = s[k - 1]
  <2> SUFFICES ASSUME NEW k \in 1 .. Len(s) + 1, k > n + 1 PROVE b[k - (n + 1)] = s[k - 1]
    OBVIOUS
  <2>1. k - (n + 1) \in 1 .. Len(s) - n /\ n + (k - (n + 1)) = k - 1
    OBVIOUS
  <2> QED
    BY <1>2, <2>1
<1>9. InsertAt(s, n + 1, e) = c \o b
  BY <1>3 DEF c
<1> DEFINE t == InsertAt(s, n + 1, e)
<1>10. t \in Seq(S) /\ Len(t) = Len(s) + 1
  BY <1>6, <1>9
<1>11. \A k \in 1 .. Len(s) + 1 : t[k] = IF k <= n + 1 THEN c[k] ELSE s[k - 1]
  <2>1. \A k \in 1 .. Len(s) + 1 : ~ (k <= n + 1) => k > n + 1
    OBVIOUS
  <2>2. \A k \in 1 .. Len(s) + 1 : t[k] = IF k <= n + 1 THEN c[k] ELSE b[k - (n + 1)]
    BY <1>7, <1>9
  <2> HIDE DEF t
  <2> QED
    BY <1>8, <2>1, <2>2, Zenon
<1> HIDE DEF t
<1>12. \A k \in 1 .. Len(s) + 1 : t[k] = IF k <= n THEN s[k] ELSE IF k = n + 1 THEN e ELSE s[k - 1]
  BY <1>5, <1>11
<1> QED
  BY <1>10, <1>12 DEF t

(* A chain after an entry was unlinked (intr_alloc.c:580-598).             *)
LEMMA Unlinked ==
  ASSUME NEW S, NEW s \in Seq(S), IsInjective(s), NEW h \in ToSet(s)
  PROVE  /\ RemoveFirst(s, h) \in Seq(S) /\ IsInjective(RemoveFirst(s, h))
         /\ ToSet(RemoveFirst(s, h)) = ToSet(s) \ {h}
<1> DEFINE I == {i \in 1 .. Len(s) : s[i] = h}
           t == RemoveFirst(s, h)
<1>1. PICK n \in 1 .. Len(s) : s[n] = h
  BY DEF ToSet
<1>2. I = {n}
  BY <1>1 DEF IsInjective
<1>3. Min(I) = n
  BY <1>2 DEF Min
<1>4. t = SubSeq(s, 1, n - 1) \o SubSeq(s, n + 1, Len(s))
  <2>1. SelectInSeq(s, LAMBDA v : v = h) = Min(I)
    BY <1>2 DEF SelectInSeq
  <2>2. t = RemoveAt(s, SelectInSeq(s, LAMBDA v : v = h))
    BY <1>1 DEF RemoveFirst
  <2> QED
    BY <1>3, <2>1, <2>2 DEF RemoveAt
<1>5. /\ t \in Seq(S) /\ Len(t) = Len(s) - 1
      /\ \A k \in 1 .. Len(s) - 1 : t[k] = IF k < n THEN s[k] ELSE s[k + 1]
  <2> DEFINE a == SubSeq(s, 1, n - 1)
             b == SubSeq(s, n + 1, Len(s))
  <2>1. a \in Seq(S) /\ Len(a) = n - 1 /\ \A k \in 1 .. n - 1 : a[k] = s[k]
    BY SubSeqProperties
  <2>2. b \in Seq(S) /\ Len(b) = Len(s) - n /\ \A k \in 1 .. Len(s) - n : b[k] = s[n + k]
    BY SubSeqProperties
  <2>3. t = a \o b
    BY <1>4
  <2> HIDE DEF a, b, t
  <2>4. a \o b \in Seq(S) /\ Len(a \o b) = Len(s) - 1
    <3>1. a \o b \in Seq(S) /\ Len(a \o b) = Len(a) + Len(b)
      BY <2>1, <2>2, ConcatProperties
    <3> QED
      BY <2>1, <2>2, <3>1
  <2>5. \A k \in 1 .. Len(s) - 1 : (a \o b)[k] = IF k <= n - 1 THEN a[k] ELSE b[k - (n - 1)]
    BY <2>1, <2>2
  <2>6. \A k \in 1 .. Len(s) - 1 : k >= n => b[k - (n - 1)] = s[k + 1]
    <3> SUFFICES ASSUME NEW k \in 1 .. Len(s) - 1, k >= n PROVE b[k - (n - 1)] = s[k + 1]
      OBVIOUS
    <3>1. k - (n - 1) \in 1 .. Len(s) - n /\ n + (k - (n - 1)) = k + 1
      OBVIOUS
    <3> QED
      BY <2>2, <3>1
  <2> QED
    BY <2>1, <2>3, <2>4, <2>5, <2>6
<1> HIDE DEF t
<1>6. \A k \in 1 .. Len(t) : \E j \in 1 .. Len(s) : j # n /\ t[k] = s[j] /\ j = IF k < n THEN k ELSE k + 1
  BY <1>5
<1>7. IsInjective(t)
  <2> SUFFICES ASSUME NEW i \in 1 .. Len(t), NEW j \in 1 .. Len(t), t[i] = t[j] PROVE i = j
    BY <1>5 DEF IsInjective
  <2>1. PICK ii \in 1 .. Len(s) : t[i] = s[ii] /\ ii = IF i < n THEN i ELSE i + 1
    BY <1>6
  <2>2. PICK jj \in 1 .. Len(s) : t[j] = s[jj] /\ jj = IF j < n THEN j ELSE j + 1
    BY <1>6
  <2>3. ii = jj
    <3>1. DOMAIN s = 1 .. Len(s)
      BY LenProperties
    <3>2. s[ii] = s[jj]
      BY <2>1, <2>2, Zenon
    <3> QED
      BY <3>1, <3>2, Zenon DEF IsInjective
  <2> QED
    BY <1>5, <2>1, <2>2, <2>3
<1>8. \A k \in 1 .. Len(s) : k # n => \E j \in 1 .. Len(t) : t[j] = s[k]
  <2> SUFFICES ASSUME NEW k \in 1 .. Len(s), k # n PROVE \E j \in 1 .. Len(t) : t[j] = s[k]
    OBVIOUS
  <2>1. CASE k < n
    BY <1>5, <2>1
  <2>2. CASE k > n
    <3>1. k - 1 \in 1 .. Len(t) /\ t[k - 1] = s[k]
      BY <1>5, <2>2
    <3> QED
      BY <3>1
  <2> QED
    BY <2>1, <2>2
<1>9. \A k \in 1 .. Len(s) : k # n => s[k] # h
  BY <1>1 DEF IsInjective
<1>10. ToSet(t) = ToSet(s) \ {h}
  <2>1. ToSet(t) \subseteq ToSet(s) \ {h}
    BY <1>6, <1>9 DEF ToSet
  <2>2. ToSet(s) \ {h} \subseteq ToSet(t)
    BY <1>1, <1>8 DEF ToSet
  <2> QED
    BY <2>1, <2>2
<1> QED
  BY <1>5, <1>7, <1>10 DEF t

(* A chain with a new entry in front.                                      *)
LEMMA Linked ==
  ASSUME NEW S, NEW s \in Seq(S), IsInjective(s), NEW h \in S, h \notin ToSet(s)
  PROVE  /\ <<h>> \o s \in Seq(S) /\ IsInjective(<<h>> \o s)
         /\ ToSet(<<h>> \o s) = ToSet(s) \cup {h}
         /\ <<h>> \o s # <<>> /\ Head(<<h>> \o s) = h
<1> DEFINE t == <<h>> \o s
<1>1. t \in Seq(S) /\ Len(t) = Len(s) + 1 /\ t[1] = h /\ \A k \in 2 .. Len(s) + 1 : t[k] = s[k - 1]
  OBVIOUS
<1> HIDE DEF t
<1>2. \A k \in 1 .. Len(s) : t[k + 1] = s[k] /\ s[k] # h
  BY <1>1 DEF ToSet
<1>3. IsInjective(t)
  <2> SUFFICES ASSUME NEW i \in 1 .. Len(t), NEW j \in 1 .. Len(t), t[i] = t[j] PROVE i = j
    BY <1>1 DEF IsInjective
  <2>1. CASE i = 1 \/ j = 1
    BY <1>1, <1>2, <2>1
  <2>2. CASE i # 1 /\ j # 1
    <3>1. i - 1 \in 1 .. Len(s) /\ j - 1 \in 1 .. Len(s) /\ s[i - 1] = s[j - 1]
      BY <1>1, <2>2
    <3> QED
      BY <3>1 DEF IsInjective
  <2> QED
    BY <2>1, <2>2
<1>4. ToSet(t) = ToSet(s) \cup {h}
  <2>1. \A k \in 1 .. Len(t) : t[k] = h \/ t[k] \in ToSet(s)
    BY <1>1 DEF ToSet
  <2>2. h \in ToSet(t) /\ \A k \in 1 .. Len(s) : s[k] \in ToSet(t)
    <3>1. \A k \in 1 .. Len(s) + 1 : t[k] \in ToSet(t)
      BY <1>1 DEF ToSet
    <3>2. \A k \in 1 .. Len(s) : k + 1 \in 1 .. Len(s) + 1
      OBVIOUS
    <3>3. 1 \in 1 .. Len(s) + 1
      OBVIOUS
    <3> QED
      BY <1>1, <1>2, <3>1, <3>2, <3>3
  <2>3. \A x \in ToSet(t) : \E k \in 1 .. Len(t) : x = t[k]
    BY <1>1 DEF ToSet
  <2>4. \A x \in ToSet(s) : \E k \in 1 .. Len(s) : x = s[k]
    BY DEF ToSet
  <2> QED
    BY <2>1, <2>2, <2>3, <2>4
<1>5. t # <<>> /\ Head(t) = h
  BY <1>1
<1> QED
  BY <1>1, <1>3, <1>4, <1>5 DEF t

(* A search and, when it finds nothing, an insertion keep the list sorted, *)
(* and it starts with the interrupt of the task watchdog as long as        *)
(* nothing sorts before that (intr_alloc.c:183-231).                       *)
LEMMA ListStep ==
  ASSUME ListInv, NEW v \in Vectors, ~ Before(v, <<0, 2>>), get_desc_for_int(v)
  PROVE  ListInv'
<1> DEFINE S == {k \in DOMAIN vectors : \A j \in 1 .. k : Before(vectors[j], v)}
           n == Walked(v)
<1>1. /\ ~ crashed
      /\ vectors \in Seq(Vectors) /\ Len(vectors) >= 1 /\ vectors[1] = <<0, 2>>
      /\ \A k \in 1 .. Len(vectors) - 1 : Before(vectors[k], vectors[k + 1])
  BY DEF ListInv
<1>2. \A w, u \in Vectors : w # u => Before(w, u) \/ Before(u, w)
  BY Total
<1>3. CASE \E k \in DOMAIN vectors : vectors[k] = v
  BY <1>1, <1>3 DEF get_desc_for_int, ListInv
<1>4. CASE ~ \E k \in DOMAIN vectors : vectors[k] = v
  <2>1. DOMAIN vectors = 1 .. Len(vectors) /\ Len(vectors) \in Nat
    BY <1>1
  <2>2. \A k \in 1 .. Len(vectors) : vectors[k] \in Vectors /\ vectors[k] # v
    BY <1>1, <1>4, <2>1
  <2>3. n \in 0 .. Len(vectors) /\ \A k \in 1 .. Len(vectors) : k \in S <=> k <= n
    <3>1. S \in SUBSET (1 .. Len(vectors))
      BY <2>1
    <3>2. \A k \in S : \A j \in 1 .. k : j \in S
      BY <2>1
    <3>3. Walked(v) = Cardinality(S)
      BY DEF Walked
    <3> HIDE DEF S
    <3> QED
      BY <2>1, <3>1, <3>2, <3>3, Prefix
  <2>4. \A k \in 1 .. n : Before(vectors[k], v)
    BY <2>1, <2>3
  <2>5. n >= 1
    <3>1. Before(vectors[1], v)
      <4>1. 1 \in 1 .. Len(vectors)
        BY <1>1, <2>1
      <4>2. vectors[1] \in Vectors /\ vectors[1] # v
        BY <2>2, <4>1
      <4> QED
        BY <1>1, <1>2, <4>2
    <3>2. 1 \in S
      BY <1>1, <2>1, <3>1
    <3> QED
      BY <1>1, <2>1, <2>3, <3>2
  <2>6. n < Len(vectors) => ~ Before(vectors[n + 1], v)
    <3> SUFFICES ASSUME n < Len(vectors), Before(vectors[n + 1], v) PROVE FALSE
      OBVIOUS
    <3>1. n + 1 \in 1 .. Len(vectors) /\ n + 1 \notin S
      BY <2>1, <2>3
    <3>2. \A j \in 1 .. n + 1 : Before(vectors[j], v)
      BY <2>3, <2>4
    <3> QED
      BY <2>1, <3>1, <3>2
  <2>7. n < Len(vectors) => Before(v, vectors[n + 1])
    <3> SUFFICES ASSUME n < Len(vectors) PROVE Before(v, vectors[n + 1])
      OBVIOUS
    <3>1. n + 1 \in 1 .. Len(vectors)
      BY <2>1, <2>3
    <3> HIDE DEF n
    <3>2. vectors[n + 1] \in Vectors /\ vectors[n + 1] # v /\ ~ Before(vectors[n + 1], v)
      BY <2>2, <2>6, <3>1
    <3> QED
      BY <1>2, <3>2
  <2>8. vectors' = InsertAt(vectors, n + 1, v) /\ ~ crashed'
    BY <1>1, <1>4, <2>3, <2>5 DEF get_desc_for_int, insert_vector_desc
  <2> HIDE DEF n
  <2>9. /\ vectors' \in Seq(Vectors) /\ Len(vectors') = Len(vectors) + 1
        /\ \A k \in 1 .. Len(vectors) + 1 :
             vectors'[k] = IF k <= n THEN vectors[k] ELSE IF k = n + 1 THEN v ELSE vectors[k - 1]
    <3> DEFINE t == InsertAt(vectors, n + 1, v)
    <3>1. /\ t \in Seq(Vectors) /\ Len(t) = Len(vectors) + 1
          /\ \A k \in 1 .. Len(t) : t[k] = IF k <= n THEN vectors[k] ELSE IF k = n + 1 THEN v ELSE vectors[k - 1]
      BY <1>1, <2>3, Inserted
    <3>2. vectors' = t
      BY <2>8
    <3> HIDE DEF t
    <3> QED
      BY <3>1, <3>2
  <2>10. vectors'[1] = <<0, 2>>
    BY <1>1, <2>1, <2>3, <2>5, <2>9
  <2>11. ASSUME NEW k \in 1 .. Len(vectors') - 1 PROVE Before(vectors'[k], vectors'[k + 1])
    <3>1. k \in 1 .. Len(vectors) /\ k \in 1 .. Len(vectors) + 1 /\ k + 1 \in 1 .. Len(vectors) + 1
      BY <2>1, <2>9, <2>11
    <3>2. CASE k < n
      <4>1. vectors'[k] = vectors[k] /\ vectors'[k + 1] = vectors[k + 1] /\ k \in 1 .. Len(vectors) - 1
        BY <2>1, <2>3, <2>9, <3>1, <3>2
      <4> QED
        BY <1>1, <4>1
    <3>3. CASE k = n
      <4>1. vectors'[k] = vectors[k] /\ vectors'[k + 1] = v /\ k \in 1 .. n
        BY <2>3, <2>9, <3>1, <3>3
      <4> QED
        BY <2>4, <4>1
    <3>4. CASE k = n + 1
      <4>1. vectors'[k] = v /\ vectors'[k + 1] = vectors[n + 1] /\ n < Len(vectors)
        BY <2>1, <2>3, <2>9, <3>1, <3>4
      <4> QED
        BY <2>7, <4>1
    <3>5. CASE k > n + 1
      <4>1. vectors'[k] = vectors[k - 1] /\ vectors'[k + 1] = vectors[k] /\ k - 1 \in 1 .. Len(vectors) - 1
        BY <2>1, <2>3, <2>9, <3>1, <3>5
      <4>2. Before(vectors[k - 1], vectors[(k - 1) + 1])
        BY <1>1, <4>1
      <4>3. (k - 1) + 1 = k
        BY <3>1
      <4> QED
        BY <4>1, <4>2, <4>3
    <3> QED
      BY <2>3, <3>1, <3>2, <3>3, <3>4, <3>5
  <2> QED
    BY <1>1, <2>1, <2>8, <2>9, <2>10, <2>11 DEF ListInv
<1> QED
  BY <1>3, <1>4

(* What a request gets (intr_alloc.c:435-487).                             *)
LEMMA ChosenInt ==
  ASSUME NEW r \in Requests, NEW c \in CPUs, Chosen(r, c) # -1
  PROVE  LET x == Chosen(r, c)
             v == <<c, x>> IN
         /\ x \in Ints /\ v \in Vectors /\ ~ IsReserved(x, c)
         /\ Level(x) \in DefaultLevels(r)
         /\ r.source < 0 <=> x = ETS_INTERNAL_SW0_INTR_NO
         /\ table[v] # UNHANDLED => IsShared(v)
         /\ "RESERVED" \notin flags[v] /\ "NONSHARED" \notin flags[v]
         /\ IsShared(v) => r.shared /\ (r.iram <=> "INIRAM" \in flags[v])
<1> DEFINE q == [r EXCEPT !.levels = DefaultLevels(r)]
           x == Chosen(r, c)
           f == ForcedInt(r.source)
<1>1. r \in Request /\ r.source \in Int /\ (r.source < 0 <=> r.source = ETS_INTERNAL_SW0_INTR_SOURCE)
  BY RequestSource, Numbers
<1>2. q.shared = r.shared /\ q.edge = r.edge /\ q.iram = r.iram /\ q.levels = DefaultLevels(r)
  BY <1>1 DEF Request
<1>3. x = get_free_int(q, c, f)
  BY DEF Chosen
<1> HIDE DEF q, f, x
<1>4. x \in Ints /\ Acceptable(q, c, f, x)
  BY <1>3, FreeInt DEF x
<1>5. r.source < 0 <=> x = ETS_INTERNAL_SW0_INTR_NO
  <2>1. r.source < 0 => f = 7
    BY <1>1 DEF f, ForcedInt, ETS_INTERNAL_SW0_INTR_NO
  <2>2. ~ (r.source < 0) => f = -1
    BY <1>1 DEF f, ForcedInt
  <2>3. f \in {-1, x} /\ (IsSpecial(x) => f # -1)
    BY <1>4 DEF Acceptable
  <2> QED
    BY <2>1, <2>2, <2>3 DEF IsSpecial, ETS_INTERNAL_SW0_INTR_NO
<1>6. /\ <<c, x>> \in Vectors /\ ~ IsReserved(x, c) /\ Level(x) \in DefaultLevels(r)
      /\ table[<<c, x>>] # UNHANDLED => IsShared(<<c, x>>)
      /\ "RESERVED" \notin flags[<<c, x>>] /\ "NONSHARED" \notin flags[<<c, x>>]
      /\ IsShared(<<c, x>>) => r.shared /\ (r.iram <=> "INIRAM" \in flags[<<c, x>>])
  <2>1. <<c, x>> \in Vectors
    BY <1>4 DEF Vectors
  <2> QED
    BY <1>2, <1>4, <2>1 DEF Acceptable
<1> QED
  BY <1>4, <1>5, <1>6 DEF x

(* What the invariant says of a live handle.                               *)
LEMMA Holding ==
  ASSUME Inv, NEW h \in Live
  PROVE  LET v == handle[h].vd IN
         /\ h \in Handles /\ v \in Vectors /\ v # <<0, 2>> /\ h \in Users(v)
         /\ handle[h] = [vd |-> v, svd |-> IF asked[h].shared THEN h ELSE NONE]
         /\ asked[h] \in Requests /\ SourceOf(h) = asked[h].source
         /\ \/ Own(v) /\ ~ asked[h].shared /\ Users(v) = {h}
            \/ Chain(v) /\ asked[h].shared
<1> DEFINE v == handle[h].vd
<1>1. h \in Handles /\ handle[h] # NONE /\ handle[h] \in Handle
  BY DEF Inv, Types, Live
<1>2. v \in Vectors /\ handle[h] = [vd |-> v, svd |-> handle[h].svd]
  BY <1>1 DEF Handle
<1>3. h \in Users(v)
  BY DEF Users
<1>4. v # <<0, 2>>
  BY <1>3 DEF Inv, VectorInv, Boot
<1>5. /\ asked[h] \in Requests
      /\ handle[h].svd = IF asked[h].shared THEN h ELSE NONE
      /\ asked[h].shared => entry[h] = [source |-> asked[h].source, disabled |-> h \in off]
  BY DEF Inv, HandleInv
<1>6. asked[h].shared \in BOOLEAN
  BY <1>5, RequestSource
<1>7. Own(v) \/ Chain(v)
  <2>1. Idle(v) \/ Own(v) \/ Chain(v)
    BY <1>2, <1>4 DEF Inv, VectorInv
  <2> QED
    BY <1>3, <2>1 DEF Idle
<1>8. CASE Own(v)
  <2>1. PICK g \in Handles : Users(v) = {g} /\ ~ asked[g].shared /\ source[v] = asked[g].source
    BY <1>8 DEF Own
  <2>2. g = h
    BY <1>3, <2>1
  <2>3. SourceOf(h) = asked[h].source
    BY <1>5, <2>1, <2>2 DEF SourceOf
  <2> QED
    BY <1>1, <1>2, <1>3, <1>4, <1>5, <1>8, <2>1, <2>2, <2>3
<1>9. CASE Chain(v)
  <2>1. asked[h].shared
    BY <1>3, <1>9 DEF Chain
  <2>2. handle[h].svd = h /\ h # NONE
    BY <1>1, <1>5, <2>1, IntrAssumption, Zenon
  <2>3. SourceOf(h) = asked[h].source
    BY <1>5, <2>1, <2>2 DEF SourceOf
  <2> QED
    BY <1>1, <1>2, <1>3, <1>4, <1>5, <1>9, <2>1, <2>3
<1> QED
  BY <1>7, <1>8, <1>9

(* Steps that leave handles and descriptors alone.                         *)
LEMMA VectorsSame ==
  ASSUME VectorInv, UNCHANGED <<flags, source, shared_vec_info, handle, table, non_iram_int_mask, asked, marked>>
  PROVE  VectorInv' /\ Live' = Live /\ \A v : Users(v)' = Users(v)
<1>1. Live' = Live
  BY DEF Live
<1>2. \A v : Users(v)' = Users(v)
  BY <1>1 DEF Users
<1>3. Boot'
  BY <1>2 DEF VectorInv, Boot
<1>4. ASSUME NEW v \in Vectors, Idle(v) \/ Own(v) \/ Chain(v) PROVE Idle(v)' \/ Own(v)' \/ Chain(v)'
  <2>1. CASE Idle(v)
    BY <1>2, <2>1 DEF Idle
  <2>2. CASE Own(v)
    BY <1>2, <2>2 DEF Own
  <2>3. CASE Chain(v)
    BY <1>2, <2>3 DEF Chain
  <2> QED
    BY <1>4, <2>1, <2>2, <2>3
<1> QED
  BY <1>1, <1>2, <1>3, <1>4 DEF VectorInv

(* Two live handles of one CPU have different sources, so what is done for *)
(* one touches neither the source nor the internal interrupt of another.   *)
LEMMA Apart ==
  ASSUME Inv, NEW g \in Live, NEW h \in Live, g # h, handle[g].vd[1] = handle[h].vd[1]
  PROVE  /\ asked[g].source # asked[h].source
         /\ asked[h].source < 0 => handle[g].vd[2] # handle[h].vd[2] /\ asked[g].source >= 0
<1>1. asked[g].source # asked[h].source
  BY DEF Inv, SourceInv
<1>2. asked[g] \in Requests /\ asked[h] \in Requests
  BY Holding
<1>3. ASSUME asked[h].source < 0 PROVE asked[g].source >= 0
  BY <1>1, <1>2, <1>3, RequestSource
<1>4. /\ asked[h].source < 0 <=> handle[h].vd[2] = ETS_INTERNAL_SW0_INTR_NO
      /\ asked[g].source < 0 <=> handle[g].vd[2] = ETS_INTERNAL_SW0_INTR_NO
  BY DEF Inv, HandleInv
<1>5. asked[g].source >= 0 => ~ (asked[g].source < 0)
  BY <1>2, RequestSource
<1> QED
  BY <1>1, <1>3, <1>4, <1>5

(* Around a flash operation (intr_alloc.c:689-722).                        *)
LEMMA WindowStep ==
  ASSUME Inv, NEW c \in CPUs, esp_intr_noniram_disable(c) \/ esp_intr_noniram_enable(c)
  PROVE  Inv'
<1> USE DEF Inv
<1>1. UNCHANGED <<flags, source, shared_vec_info, entry, handle, table, matrix, non_iram_int_mask, asked, off, marked>>
  BY DEF esp_intr_noniram_disable, esp_intr_noniram_enable
<1>2. VectorInv' /\ Live' = Live /\ \A v : Users(v)' = Users(v)
  BY <1>1, VectorsSame
<1>3. /\ intenable \in [CPUs -> SUBSET Ints] /\ non_iram_int_mask \in [CPUs -> SUBSET Ints]
      /\ non_iram_int_disabled \in [CPUs -> SUBSET Ints] /\ non_iram_int_disabled_flag \in [CPUs -> BOOLEAN]
  BY DEF Types
<1>4. /\ intenable' \in [CPUs -> SUBSET Ints]
      /\ non_iram_int_disabled' \in [CPUs -> SUBSET Ints]
      /\ non_iram_int_disabled_flag' \in [CPUs -> BOOLEAN]
      /\ \A d \in CPUs : \A x : Enabled(d, x)' <=> Enabled(d, x)
      /\ \A d \in CPUs : d # c => /\ intenable'[d] = intenable[d]
                                 /\ non_iram_int_disabled_flag'[d] = non_iram_int_disabled_flag[d]
      /\ non_iram_int_disabled_flag'[c] => intenable'[c] \cap non_iram_int_mask[c] = {}
  <2>1. CASE esp_intr_noniram_disable(c)
    <3>1. /\ ~ non_iram_int_disabled_flag[c]
          /\ non_iram_int_disabled_flag' = [non_iram_int_disabled_flag EXCEPT ![c] = TRUE]
          /\ non_iram_int_disabled' = [non_iram_int_disabled EXCEPT ![c] = intenable[c] \cap non_iram_int_mask[c]]
          /\ intenable' = [intenable EXCEPT ![c] = @ \ non_iram_int_mask[c]]
      BY <2>1 DEF esp_intr_noniram_disable
    <3>2. \A d \in CPUs : \A x : Enabled(d, x)' <=> Enabled(d, x)
      BY <1>3, <3>1 DEF Enabled
    <3> QED
      BY <1>3, <3>1, <3>2
  <2>2. CASE esp_intr_noniram_enable(c)
    <3>1. /\ non_iram_int_disabled_flag[c]
          /\ non_iram_int_disabled_flag' = [non_iram_int_disabled_flag EXCEPT ![c] = FALSE]
          /\ non_iram_int_disabled' = non_iram_int_disabled
          /\ intenable' = [intenable EXCEPT ![c] = @ \cup non_iram_int_disabled[c]]
      BY <2>2 DEF esp_intr_noniram_enable
    <3>2. \A d \in CPUs : \A x : Enabled(d, x)' <=> Enabled(d, x)
      BY <1>3, <3>1 DEF Enabled
    <3> QED
      BY <1>3, <3>1, <3>2
  <2> QED
    BY <2>1, <2>2
<1>5. Types'
  BY <1>1, <1>2, <1>4 DEF Types
<1>6. HandleInv'
  BY <1>1, <1>2 DEF HandleInv
<1>7. \A h \in Live : handle[h].vd[1] \in CPUs
  BY Holding, Vector
<1>8. WiredInv'
  BY <1>1, <1>2, <1>4, <1>7 DEF WiredInv
<1>9. SourceInv'
  <2>1. \A g, h \in Live : handle[g].vd[1] = handle[h].vd[1] /\ asked[g].source = asked[h].source => g = h
    BY DEF SourceInv
  <2>2. \A d \in CPUs, s \in Sources : matrix[d][s] # INT_MUX_DISABLED_INTNO =>
          \E h \in Live : handle[h].vd[1] = d /\ asked[h].source = s
    BY DEF SourceInv
  <2>3. \A d \in CPUs : Enabled(d, ETS_INTERNAL_SW0_INTR_NO)' =>
          \E h \in Live \ off : handle[h].vd = <<d, ETS_INTERNAL_SW0_INTR_NO>>
    BY <1>4 DEF SourceInv
  <2> QED
    BY <1>1, <1>2, <2>1, <2>2, <2>3 DEF SourceInv
<1>10. WindowInv'
  BY <1>1, <1>4 DEF WindowInv
<1> QED
  BY <1>2, <1>5, <1>6, <1>8, <1>9, <1>10

(* An interrupt nobody uses is marked or reserved (intr_alloc.c:233-266).  *)
LEMMA MarkStep ==
  ASSUME Inv, NEW v \in Vectors,
         (\E b \in BOOLEAN : esp_intr_mark_shared(v, b)) \/ esp_intr_reserve(v)
  PROVE  Inv'
<1> USE DEF Inv
<1>1. /\ UNCHANGED <<source, shared_vec_info, entry, handle, hwVars, non_iram_int_mask, iramVars, asked, off>>
      /\ marked' = marked \cup {v} /\ Users(v) = {} /\ flags[v] = {}
  BY DEF esp_intr_mark_shared, esp_intr_reserve, Unused
<1>2. PICK fl \in SUBSET FLAGS :
        /\ flags' = [flags EXCEPT ![v] = fl]
        /\ fl = {"RESERVED"} \/ ("SHARED" \in fl /\ fl \subseteq {"SHARED", "INIRAM"})
  <2>1. CASE \E b \in BOOLEAN : esp_intr_mark_shared(v, b)
    <3>1. PICK b \in BOOLEAN : esp_intr_mark_shared(v, b)
      BY <2>1
    <3> DEFINE new == {"SHARED"} \cup (IF b THEN {"INIRAM"} ELSE {})
    <3>2. flags' = [flags EXCEPT ![v] = new]
      BY <3>1 DEF esp_intr_mark_shared
    <3>3. new \in SUBSET FLAGS /\ "SHARED" \in new /\ new \subseteq {"SHARED", "INIRAM"}
      BY DEF FLAGS
    <3> QED
      BY <3>2, <3>3
  <2>2. CASE esp_intr_reserve(v)
    BY <2>2 DEF esp_intr_reserve, FLAGS
  <2> QED
    BY <2>1, <2>2
<1>3. Live' = Live
  BY <1>1 DEF Live
<1>4. \A w : Users(w)' = Users(w)
  BY <1>1, <1>3 DEF Users
<1>5. flags \in [Vectors -> SUBSET FLAGS]
  BY DEF Types
<1>6. flags' \in [Vectors -> SUBSET FLAGS] /\ flags'[v] = fl /\ \A w \in Vectors : w # v => flags'[w] = flags[w]
  BY <1>2, <1>5
<1>7. Types'
  BY <1>1, <1>3, <1>6 DEF Types, hwVars, iramVars
<1>8. v # <<0, 2>>
  BY <1>1 DEF VectorInv, Boot
<1>9. Boot'
  <2>1. <<0, 2>> \in Vectors
    BY Numbers DEF Vectors, CPUs
  <2> QED
    BY <1>1, <1>4, <1>6, <1>8, <2>1 DEF VectorInv, Boot, hwVars
<1>10. Idle(v)' \/ Chain(v)'
  <2>1. Idle(v)
    BY <1>1, <1>8 DEF VectorInv, Own, Chain
  <2>2. shared_vec_info'[v] = <<>> /\ table'[v] = UNHANDLED /\ Users(v)' = {} /\ v \in marked'
    BY <1>1, <1>4, <2>1 DEF Idle, hwVars
  <2>3. CASE fl = {"RESERVED"}
    BY <1>6, <2>2, <2>3 DEF Idle
  <2>4. CASE "SHARED" \in fl /\ fl \subseteq {"SHARED", "INIRAM"}
    <3>1. IsInjective(shared_vec_info'[v]) /\ ToSet(shared_vec_info'[v]) = {}
      BY <2>2 DEF IsInjective, ToSet
    <3>2. "SHARED" \in flags'[v] /\ "NONSHARED" \notin flags'[v] /\ "RESERVED" \notin flags'[v]
      BY <1>6, <2>4
    <3> QED
      BY <2>2, <3>1, <3>2 DEF Chain
  <2> QED
    BY <1>2, <2>3, <2>4
<1>11. ASSUME NEW w \in Vectors, w # v, Idle(w) \/ Own(w) \/ Chain(w)
       PROVE  Idle(w)' \/ Own(w)' \/ Chain(w)'
  <2>1. flags'[w] = flags[w] /\ (w \in marked' <=> w \in marked)
    BY <1>1, <1>6, <1>11
  <2>2. CASE Idle(w)
    BY <1>1, <1>4, <2>1, <2>2 DEF Idle, hwVars
  <2>3. CASE Own(w)
    BY <1>1, <1>4, <2>1, <2>3 DEF Own, hwVars
  <2>4. CASE Chain(w)
    BY <1>1, <1>4, <2>1, <2>4 DEF Chain, hwVars
  <2> QED
    BY <1>11, <2>2, <2>3, <2>4
<1>12. VectorInv'
  BY <1>9, <1>10, <1>11 DEF VectorInv
<1>13. HandleInv'
  BY <1>1, <1>3 DEF HandleInv
<1>14. WiredInv'
  BY <1>1, <1>3 DEF WiredInv, Enabled, hwVars, iramVars
<1>15. SourceInv'
  <2>1. \A d : \A x : Enabled(d, x)' <=> Enabled(d, x)
    BY <1>1 DEF Enabled, hwVars, iramVars
  <2>2. \A d \in CPUs : Enabled(d, ETS_INTERNAL_SW0_INTR_NO)' =>
          \E h \in Live \ off : handle[h].vd = <<d, ETS_INTERNAL_SW0_INTR_NO>>
    BY <2>1 DEF SourceInv
  <2>3. matrix' = matrix
    BY <1>1 DEF hwVars
  <2> QED
    BY <1>1, <1>3, <2>2, <2>3 DEF SourceInv
<1>16. WindowInv'
  BY <1>1 DEF WindowInv, hwVars, iramVars
<1> QED
  BY <1>7, <1>12, <1>13, <1>14, <1>15, <1>16

(* A handle is switched on or off (intr_alloc.c:639-686).                  *)
LEMMA SwitchStep ==
  ASSUME Inv, NEW h \in Handles, esp_intr_disable(h) \/ esp_intr_enable(h)
  PROVE  Inv'
<1> DEFINE v == handle[h].vd
           c == handle[h].vd[1]
           x == handle[h].vd[2]
           s == asked[h].source
           on == esp_intr_enable(h)
<1>1. /\ h \in Live /\ MaySwitch(h)
      /\ UNCHANGED <<flags, source, shared_vec_info, handle, table, non_iram_int_mask, iramVars, asked, marked>>
  BY DEF esp_intr_disable, esp_intr_enable
<1>2. /\ v \in Vectors /\ c \in CPUs /\ x \in Ints /\ v = <<c, x>>
      /\ handle[h].svd = IF asked[h].shared THEN h ELSE NONE
      /\ asked[h] \in Requests /\ SourceOf(h) = s
  <2>1. /\ v \in Vectors /\ asked[h] \in Requests /\ SourceOf(h) = s
        /\ handle[h] = [vd |-> v, svd |-> IF asked[h].shared THEN h ELSE NONE]
    BY <1>1, Holding
  <2>2. c \in CPUs /\ x \in Ints /\ v = <<c, x>>
    BY <2>1, Vector
  <2>3. handle[h].svd = [vd |-> v, svd |-> IF asked[h].shared THEN h ELSE NONE].svd
    BY <2>1, Zenon
  <2> QED
    BY <2>1, <2>2, <2>3
<1>3. /\ s \in Int /\ (s >= 0 <=> s \in Sources) /\ asked[h].shared \in BOOLEAN
      /\ h # NONE
  BY <1>2, RequestSource, IntrAssumption, Zenon
<1>4. /\ s >= 0 \/ ~ non_iram_int_disabled_flag[c]
      /\ s < 0 <=> x = ETS_INTERNAL_SW0_INTR_NO
      /\ asked[h].shared => entry[h] = [source |-> s, disabled |-> h \in off]
  <2>1. s >= 0 \/ ~ non_iram_int_disabled_flag[c]
    BY <1>1, <1>2 DEF MaySwitch, TasksRun
  <2> QED
    BY <1>1, <2>1 DEF Inv, HandleInv
<1>5. /\ entry' = IF asked[h].shared THEN [entry EXCEPT ![h].disabled = ~ on] ELSE entry
      /\ matrix' = IF s >= 0 THEN [matrix EXCEPT ![c][s] = IF on THEN x ELSE INT_MUX_DISABLED_INTNO] ELSE matrix
      /\ intenable' = IF s >= 0 THEN intenable ELSE [intenable EXCEPT ![c] = IF on THEN @ \cup {x} ELSE @ \ {x}]
      /\ off' = IF on THEN off \ {h} ELSE off \cup {h}
  <2>1. CASE on
    <3>1. /\ entry' = IF handle[h].svd # NONE THEN [entry EXCEPT ![handle[h].svd].disabled = FALSE] ELSE entry
          /\ matrix' = IF SourceOf(h) >= 0 THEN [matrix EXCEPT ![c][SourceOf(h)] = x] ELSE matrix
          /\ intenable' = IF SourceOf(h) >= 0 THEN intenable ELSE [intenable EXCEPT ![c] = @ \cup {x}]
          /\ off' = off \ {h}
      BY <2>1 DEF esp_intr_enable
    <3> HIDE DEF on
    <3>2. entry' = IF asked[h].shared THEN [entry EXCEPT ![h].disabled = ~ on] ELSE entry
      BY <1>2, <1>3, <2>1, <3>1
    <3> QED
      BY <1>2, <2>1, <3>1, <3>2
  <2>2. CASE ~ on
    <3>1. /\ entry' = IF handle[h].svd # NONE THEN [entry EXCEPT ![handle[h].svd].disabled = TRUE] ELSE entry
          /\ matrix' = IF SourceOf(h) >= 0 THEN [matrix EXCEPT ![c][SourceOf(h)] = INT_MUX_DISABLED_INTNO] ELSE matrix
          /\ intenable' = IF SourceOf(h) >= 0 THEN intenable ELSE [intenable EXCEPT ![c] = @ \ {x}]
          /\ off' = off \cup {h}
      BY <2>2 DEF esp_intr_disable, Disconnect
    <3> HIDE DEF on
    <3>2. entry' = IF asked[h].shared THEN [entry EXCEPT ![h].disabled = ~ on] ELSE entry
      BY <1>2, <1>3, <2>2, <3>1
    <3> QED
      BY <1>2, <2>2, <3>1, <3>2
  <2> QED
    BY <2>1, <2>2
<1> HIDE DEF on
<1>6. VectorInv' /\ Live' = Live /\ \A w : Users(w)' = Users(w)
  BY <1>1, VectorsSame DEF Inv
<1>7. /\ entry \in [Handles -> [source : Sources \cup {CHOOSE q \in Sources : TRUE}, disabled : BOOLEAN]]
      /\ matrix \in [CPUs -> [Sources -> Ints \cup {INT_MUX_DISABLED_INTNO}]]
      /\ intenable \in [CPUs -> SUBSET Ints] /\ off \subseteq Live
  BY DEF Inv, Types
<1>8. /\ entry' \in [Handles -> [source : Sources \cup {CHOOSE q \in Sources : TRUE}, disabled : BOOLEAN]]
      /\ asked[h].shared => entry'[h] = [source |-> s, disabled |-> ~ on]
      /\ \A g \in Handles : g # h => entry'[g] = entry[g]
  <2>1. CASE asked[h].shared
    <3>1. entry' = [entry EXCEPT ![h].disabled = ~ on]
      BY <1>5, <2>1
    <3>2. entry'[h] = [source |-> s, disabled |-> ~ on]
      BY <1>4, <1>7, <2>1, <3>1
    <3> QED
      BY <1>7, <2>1, <3>1, <3>2
  <2>2. CASE ~ asked[h].shared
    BY <1>5, <1>7, <2>2
  <2> QED
    BY <1>3, <2>1, <2>2
<1>9. /\ matrix' \in [CPUs -> [Sources -> Ints \cup {INT_MUX_DISABLED_INTNO}]]
      /\ s >= 0 => matrix'[c][s] = IF on THEN x ELSE INT_MUX_DISABLED_INTNO
      /\ \A d \in CPUs, q \in Sources : <<d, q>> # <<c, s>> => matrix'[d][q] = matrix[d][q]
  <2>1. CASE s >= 0
    <3>1. matrix' = [matrix EXCEPT ![c][s] = IF on THEN x ELSE INT_MUX_DISABLED_INTNO] /\ s \in Sources
      BY <1>3, <1>5, <2>1
    <3> QED
      BY <1>2, <1>7, <3>1
  <2>2. CASE ~ (s >= 0)
    BY <1>5, <1>7, <2>2
  <2> QED
    BY <2>1, <2>2
<1>10. /\ intenable' \in [CPUs -> SUBSET Ints]
       /\ s >= 0 => intenable' = intenable
       /\ s < 0 => (x \in intenable'[c] <=> on)
       /\ \A d \in CPUs, y \in Ints : <<d, y>> # <<c, x>> => (y \in intenable'[d] <=> y \in intenable[d])
  <2>1. CASE s >= 0
    BY <1>3, <1>5, <1>7, <2>1
  <2>2. CASE ~ (s >= 0)
    <3>1. intenable' = [intenable EXCEPT ![c] = IF on THEN @ \cup {x} ELSE @ \ {x}]
      BY <1>5, <2>2
    <3> QED
      BY <1>2, <1>7, <2>2, <3>1
  <2> QED
    BY <2>1, <2>2
<1>11. /\ off' \subseteq Live /\ (h \in off' <=> ~ on)
       /\ \A g \in Live : g # h => (g \in off' <=> g \in off)
  BY <1>1, <1>5, <1>7
<1>12. Types'
  BY <1>1, <1>6, <1>8, <1>9, <1>10, <1>11 DEF Inv, Types, iramVars
<1>13. \A d \in CPUs, y \in Ints : <<d, y>> # <<c, x>> \/ s >= 0 => (Enabled(d, y)' <=> Enabled(d, y))
  BY <1>1, <1>10 DEF Enabled, iramVars
<1>14. HandleInv'
  <2> SUFFICES ASSUME NEW g \in Live
               PROVE  /\ asked[g] \in Requests /\ ArgsOkay(asked[g])
                      /\ handle[g].svd = IF asked[g].shared THEN g ELSE NONE
                      /\ asked[g].shared => entry'[g] = [source |-> asked[g].source, disabled |-> g \in off']
                      /\ Level(handle[g].vd[2]) \in DefaultLevels(asked[g])
                      /\ asked[g].source < 0 <=> handle[g].vd[2] = ETS_INTERNAL_SW0_INTR_NO
    BY <1>1, <1>6 DEF HandleInv
  <2>1. /\ asked[g] \in Requests /\ ArgsOkay(asked[g])
        /\ handle[g].svd = IF asked[g].shared THEN g ELSE NONE
        /\ asked[g].shared => entry[g] = [source |-> asked[g].source, disabled |-> g \in off]
        /\ Level(handle[g].vd[2]) \in DefaultLevels(asked[g])
        /\ asked[g].source < 0 <=> handle[g].vd[2] = ETS_INTERNAL_SW0_INTR_NO
    BY DEF Inv, HandleInv
  <2>2. asked[g].shared => entry'[g] = [source |-> asked[g].source, disabled |-> g \in off']
    <3>1. CASE g = h
      BY <1>8, <1>11, <3>1
    <3>2. CASE g # h
      <4>1. g \in Handles
        BY DEF Live
      <4>2. entry'[g] = entry[g] /\ (g \in off') = (g \in off)
        BY <1>8, <1>11, <3>2, <4>1
      <4> QED
        BY <2>1, <4>2
    <3> QED
      BY <3>1, <3>2
  <2> QED
    BY <2>1, <2>2
<1>15. WiredInv'
  <2> SUFFICES ASSUME NEW g \in Live
               PROVE  LET r == asked[g]
                          w == handle[g].vd IN
                      /\ w[2] \in non_iram_int_mask[w[1]] <=> ~ r.iram
                      /\ r.source >= 0 => matrix'[w[1]][r.source] = IF g \in off' THEN INT_MUX_DISABLED_INTNO ELSE w[2]
                      /\ r.source >= 0 \/ g \notin off' => Enabled(w[1], w[2])'
    BY <1>1, <1>6 DEF WiredInv
  <2> DEFINE r == asked[g]
             w == handle[g].vd
  <2>1. /\ w[2] \in non_iram_int_mask[w[1]] <=> ~ r.iram
        /\ r.source >= 0 => matrix[w[1]][r.source] = IF g \in off THEN INT_MUX_DISABLED_INTNO ELSE w[2]
        /\ r.source >= 0 \/ g \notin off => Enabled(w[1], w[2])
    BY DEF Inv, WiredInv
  <2>2. w[1] \in CPUs /\ w[2] \in Ints /\ r.source \in Int /\ (r.source >= 0 <=> r.source \in Sources)
    BY Holding, Vector, RequestSource
  <2>3. CASE g = h
    <3>1. s >= 0 => Enabled(c, x)'
      BY <1>1, <1>2, <1>13, <2>1, <2>3
    <3>2. s < 0 /\ on => Enabled(c, x)'
      BY <1>1, <1>10 DEF Enabled
    <3> QED
      BY <1>3, <1>9, <1>11, <2>1, <2>3, <3>1, <3>2
  <2>4. CASE g # h
    <3>1. w[1] = c => r.source # s /\ (s < 0 => w[2] # x)
      BY <1>1, <2>4, Apart
    <3>2. r.source >= 0 => matrix'[w[1]][r.source] = matrix[w[1]][r.source]
      BY <1>9, <2>2, <3>1
    <3>3. Enabled(w[1], w[2])' <=> Enabled(w[1], w[2])
      BY <1>1, <1>3, <1>13, <2>2, <3>1
    <3> QED
      BY <1>11, <2>1, <2>4, <3>2, <3>3
  <2> QED
    BY <2>3, <2>4
<1>16. SourceInv'
  <2>1. \A f, g \in Live : handle[f].vd[1] = handle[g].vd[1] /\ asked[f].source = asked[g].source => f = g
    BY DEF Inv, SourceInv
  <2>2. ASSUME NEW d \in CPUs, NEW q \in Sources, matrix'[d][q] # INT_MUX_DISABLED_INTNO
        PROVE  \E g \in Live : handle[g].vd[1] = d /\ asked[g].source = q
    <3>1. CASE <<d, q>> = <<c, s>>
      BY <1>1, <3>1
    <3>2. CASE <<d, q>> # <<c, s>>
      BY <1>9, <2>2, <3>2 DEF Inv, SourceInv
    <3> QED
      BY <3>1, <3>2
  <2>3. ASSUME NEW d \in CPUs, Enabled(d, ETS_INTERNAL_SW0_INTR_NO)'
        PROVE  \E g \in Live \ off' : handle[g].vd = <<d, ETS_INTERNAL_SW0_INTR_NO>>
    <3> DEFINE N == ETS_INTERNAL_SW0_INTR_NO
    <3>1. N \in Ints
      BY <1>1, <1>10, <2>3 DEF Enabled, iramVars, Inv, Types
    <3>2. CASE <<d, N>> = <<c, x>> /\ s < 0
      <4>1. ~ non_iram_int_disabled_flag'[c]
        BY <1>1, <1>3, <1>4, <3>2 DEF iramVars
      <4>2. on
        BY <1>10, <2>3, <3>2, <4>1 DEF Enabled
      <4> QED
        BY <1>1, <1>2, <1>11, <3>2, <4>2
    <3>3. CASE <<d, N>> # <<c, x>> \/ ~ (s < 0)
      <4>1. Enabled(d, N)
        BY <1>3, <1>13, <2>3, <3>1, <3>3
      <4>2. PICK g \in Live \ off : handle[g].vd = <<d, N>>
        BY <4>1 DEF Inv, SourceInv
      <4>3. g # h
        BY <1>2, <1>4, <3>3, <4>2
      <4> QED
        BY <1>11, <4>2, <4>3
    <3> QED
      BY <3>2, <3>3
  <2> QED
    <3>1. handle' = handle /\ asked' = asked /\ Live' = Live
      BY <1>1, <1>6
    <3>2. \A d \in CPUs, q \in Sources : matrix'[d][q] # INT_MUX_DISABLED_INTNO =>
            \E g \in Live : handle[g].vd[1] = d /\ asked[g].source = q
      BY <2>2
    <3>3. \A d \in CPUs : Enabled(d, ETS_INTERNAL_SW0_INTR_NO)' =>
            \E g \in Live \ off' : handle[g].vd = <<d, ETS_INTERNAL_SW0_INTR_NO>>
      BY <2>3
    <3>4. (\A f, g \in Live : handle[f].vd[1] = handle[g].vd[1] /\ asked[f].source = asked[g].source => f = g)'
      BY <2>1, <3>1
    <3>5. (\A d \in CPUs, q \in Sources : matrix[d][q] # INT_MUX_DISABLED_INTNO =>
            \E g \in Live : handle[g].vd[1] = d /\ asked[g].source = q)'
      BY <3>1, <3>2
    <3>6. (\A d \in CPUs : Enabled(d, ETS_INTERNAL_SW0_INTR_NO) =>
            \E g \in Live \ off : handle[g].vd = <<d, ETS_INTERNAL_SW0_INTR_NO>>)'
      BY <3>1, <3>3
    <3> QED
      BY ONLY <3>4, <3>5, <3>6 DEF SourceInv
<1>17. WindowInv'
  <2> SUFFICES ASSUME NEW d \in CPUs, non_iram_int_disabled_flag[d], NEW y \in intenable'[d], y \in non_iram_int_mask[d]
               PROVE  FALSE
    BY <1>1, <1>10 DEF WindowInv, iramVars
  <2>1. y \in Ints
    BY <1>10
  <2>2. y \notin intenable[d]
    BY DEF Inv, WindowInv
  <2>3. <<d, y>> = <<c, x>> /\ ~ (s >= 0)
    BY <1>10, <2>1, <2>2
  <2> QED
    BY <1>4, <2>3
<1> QED
  BY <1>6, <1>12, <1>14, <1>15, <1>16, <1>17 DEF Inv

(* An allocation (intr_alloc.c:435-566).  The interrupt is idle, or is     *)
(* shared already, the request is for a shared one and both agree on IRAM. *)
LEMMA AllocStep ==
  ASSUME Inv, NEW c \in CPUs, NEW h \in Handles, NEW r \in Requests, esp_intr_alloc(c, h, r)
  PROVE  Inv'
<1>1. PICK x : x = Chosen(r, c)
  OBVIOUS
<1> DEFINE v == <<c, x>>
           s == r.source
           N == ETS_INTERNAL_SW0_INTR_NO
<1>2. /\ ~ non_iram_int_disabled_flag[c] /\ h \notin Live /\ ArgsOkay(r) /\ x # -1
      /\ \A g \in Live : handle[g].vd[1] = c => asked[g].source # s
  BY <1>1 DEF esp_intr_alloc, TasksRun, SourceIsFree
<1>3. /\ x \in Ints /\ v \in Vectors /\ Level(x) \in DefaultLevels(r)
      /\ s < 0 <=> x = N
      /\ table[v] # UNHANDLED => IsShared(v)
      /\ "RESERVED" \notin flags[v] /\ "NONSHARED" \notin flags[v]
      /\ IsShared(v) => r.shared /\ (r.iram <=> "INIRAM" \in flags[v])
  BY <1>1, <1>2, ChosenInt
<1>4. /\ s \in Int /\ (s >= 0 <=> s \in Sources) /\ r.shared \in BOOLEAN /\ r.iram \in BOOLEAN
      /\ r.disabled \in BOOLEAN /\ r.handler \in BOOLEAN /\ (r.shared => r.handler /\ s >= 0)
  BY <1>2, RequestSource DEF ArgsOkay
<1>5. /\ flags' = [flags EXCEPT ![v] =
                    ((IF r.shared THEN @ \cup {"SHARED"} ELSE {"NONSHARED"}) \ {"INIRAM"})
                      \cup (IF r.iram THEN {"INIRAM"} ELSE {})]
      /\ shared_vec_info' = IF r.shared THEN [shared_vec_info EXCEPT ![v] = <<h>> \o @] ELSE shared_vec_info
      /\ entry' = IF r.shared THEN [entry EXCEPT ![h] = [source |-> s, disabled |-> r.disabled]] ELSE entry
      /\ source' = IF r.shared THEN source ELSE [source EXCEPT ![v] = s]
      /\ table' = IF ~ r.handler THEN table ELSE [table EXCEPT ![v] = IF r.shared THEN SHARED_ISR ELSE h]
      /\ non_iram_int_mask' = [non_iram_int_mask EXCEPT ![c] = IF r.iram THEN @ \ {x} ELSE @ \cup {x}]
      /\ matrix' = IF s >= 0 THEN [matrix EXCEPT ![c][s] = IF r.disabled THEN INT_MUX_DISABLED_INTNO ELSE x]
                             ELSE matrix
      /\ intenable' = [intenable EXCEPT ![c] = IF ~ (s >= 0) /\ r.disabled THEN @ \ {x} ELSE @ \cup {x}]
      /\ handle' = [handle EXCEPT ![h] =
                      [vd |-> v, svd |-> IF shared_vec_info'[v] = <<>> THEN NONE ELSE Head(shared_vec_info'[v])]]
      /\ asked' = [asked EXCEPT ![h] = r]
      /\ off' = IF r.disabled THEN off \cup {h} ELSE off
      /\ UNCHANGED <<non_iram_int_disabled, non_iram_int_disabled_flag, marked>>
  BY <1>1 DEF esp_intr_alloc, iramVars
<1>6. /\ flags \in [Vectors -> SUBSET FLAGS] /\ source \in [Vectors -> Int]
      /\ shared_vec_info \in [Vectors -> Seq(Handles)]
      /\ entry \in [Handles -> [source : Sources \cup {CHOOSE q \in Sources : TRUE}, disabled : BOOLEAN]]
      /\ handle \in [Handles -> Handle \cup {NONE}]
      /\ table \in [Vectors -> {UNHANDLED, SHARED_ISR, BOOT} \cup Handles]
      /\ matrix \in [CPUs -> [Sources -> Ints \cup {INT_MUX_DISABLED_INTNO}]]
      /\ intenable \in [CPUs -> SUBSET Ints] /\ non_iram_int_mask \in [CPUs -> SUBSET Ints]
      /\ asked \in [Handles -> Requests \cup {NONE}] /\ off \subseteq Live
  BY DEF Inv, Types
<1>7. v # <<0, 2>>
  BY <1>3 DEF Inv, VectorInv, Boot
<1>8. (Idle(v) /\ flags[v] = {}) \/ (Chain(v) /\ r.shared /\ (r.iram <=> "INIRAM" \in flags[v]))
  <2>1. Idle(v) \/ Own(v) \/ Chain(v)
    BY <1>3, <1>7 DEF Inv, VectorInv
  <2> QED
    BY <1>3, <2>1 DEF Idle, Own, Chain, IsShared
<1>9. /\ IsInjective(shared_vec_info[v]) /\ ToSet(shared_vec_info[v]) = Users(v)
      /\ ~ r.shared => shared_vec_info[v] = <<>> /\ Users(v) = {}
  <2>1. IsInjective(<<>>) /\ ToSet(<<>>) = {}
    BY DEF IsInjective, ToSet
  <2> QED
    BY <1>3, <1>8, <2>1 DEF Idle, Chain, IsShared
<1>10. /\ shared_vec_info' \in [Vectors -> Seq(Handles)]
       /\ r.shared => /\ IsInjective(shared_vec_info'[v]) /\ ToSet(shared_vec_info'[v]) = Users(v) \cup {h}
                      /\ shared_vec_info'[v] # <<>> /\ Head(shared_vec_info'[v]) = h
       /\ ~ r.shared => shared_vec_info'[v] = <<>>
       /\ \A w \in Vectors : w # v => shared_vec_info'[w] = shared_vec_info[w]
  <2>1. CASE r.shared
    <3>1. shared_vec_info' = [shared_vec_info EXCEPT ![v] = <<h>> \o shared_vec_info[v]]
      BY <1>5, <2>1
    <3>2. h \notin ToSet(shared_vec_info[v]) /\ shared_vec_info[v] \in Seq(Handles)
      BY <1>2, <1>3, <1>6, <1>9 DEF Users
    <3>3. /\ <<h>> \o shared_vec_info[v] \in Seq(Handles) /\ IsInjective(<<h>> \o shared_vec_info[v])
          /\ ToSet(<<h>> \o shared_vec_info[v]) = ToSet(shared_vec_info[v]) \cup {h}
          /\ <<h>> \o shared_vec_info[v] # <<>> /\ Head(<<h>> \o shared_vec_info[v]) = h
      BY <1>9, <3>2, Linked
    <3>4. shared_vec_info'[v] = <<h>> \o shared_vec_info[v]
      BY <1>3, <1>6, <3>1
    <3>5. shared_vec_info' \in [Vectors -> Seq(Handles)] /\ \A w \in Vectors : w # v => shared_vec_info'[w] = shared_vec_info[w]
      BY <1>6, <3>1, <3>3
    <3> QED
      BY <1>9, <2>1, <3>3, <3>4, <3>5
  <2>2. CASE ~ r.shared
    BY <1>5, <1>6, <1>9, <2>2
  <2> QED
    BY <2>1, <2>2
<1>11. /\ handle' \in [Handles -> Handle \cup {NONE}]
       /\ handle'[h] = [vd |-> v, svd |-> IF r.shared THEN h ELSE NONE] /\ handle'[h] # NONE
       /\ \A g \in Handles : g # h => handle'[g] = handle[g]
  <2> DEFINE new == [vd |-> v, svd |-> IF r.shared THEN h ELSE NONE]
  <2>1. handle' = [handle EXCEPT ![h] = new]
    <3>1. (IF shared_vec_info'[v] = <<>> THEN NONE ELSE Head(shared_vec_info'[v])) = IF r.shared THEN h ELSE NONE
      BY <1>10
    <3> QED
      BY <1>5, <3>1, Zenon
  <2>2. new \in Handle
    BY <1>3 DEF Handle
  <2>3. new # NONE
    BY <2>2, IntrAssumption, Zenon DEF Handle
  <2> HIDE DEF new
  <2>4. handle'[h] = new /\ handle' \in [Handles -> Handle \cup {NONE}] /\ \A g \in Handles : g # h => handle'[g] = handle[g]
    BY <1>6, <2>1, <2>2
  <2> QED
    BY <2>3, <2>4 DEF new
<1>12. Live' = Live \cup {h} /\ \A g \in Live : g # h /\ g \in Handles /\ handle'[g] = handle[g]
  BY <1>2, <1>11 DEF Live
<1>13. /\ Users(v)' = Users(v) \cup {h} /\ h \notin Users(v)
       /\ \A w : w # v => Users(w)' = Users(w)
       /\ \A w : \A g \in Users(w) : g \in Live /\ g # h /\ handle[g].vd = w
  <2>1. handle'[h].vd = v
    BY <1>11
  <2> QED
    BY <1>2, <1>12, <2>1 DEF Users
<1>14. /\ asked' \in [Handles -> Requests \cup {NONE}] /\ asked'[h] = r
       /\ \A g \in Live : asked'[g] = asked[g]
  BY <1>5, <1>6, <1>12
<1>15. /\ off' \subseteq Live' /\ (h \in off' <=> r.disabled)
       /\ \A g \in Live : g \in off' <=> g \in off
  BY <1>2, <1>4, <1>5, <1>6, <1>12
<1>16. /\ flags' \in [Vectors -> SUBSET FLAGS]
       /\ \A w \in Vectors : w # v => flags'[w] = flags[w]
       /\ "INIRAM" \in flags'[v] <=> r.iram
       /\ r.shared => "SHARED" \in flags'[v] /\ "NONSHARED" \notin flags'[v] /\ "RESERVED" \notin flags'[v]
       /\ ~ r.shared => "NONSHARED" \in flags'[v] /\ "SHARED" \notin flags'[v] /\ "RESERVED" \notin flags'[v]
  <2> DEFINE new == ((IF r.shared THEN flags[v] \cup {"SHARED"} ELSE {"NONSHARED"}) \ {"INIRAM"})
                      \cup (IF r.iram THEN {"INIRAM"} ELSE {})
  <2>1. flags' = [flags EXCEPT ![v] = new]
    BY <1>5
  <2>2. /\ new \in SUBSET FLAGS /\ ("INIRAM" \in new <=> r.iram)
        /\ r.shared => "SHARED" \in new /\ "NONSHARED" \notin new /\ "RESERVED" \notin new
        /\ ~ r.shared => "NONSHARED" \in new /\ "SHARED" \notin new /\ "RESERVED" \notin new
    BY <1>3, <1>4, <1>6 DEF FLAGS
  <2> HIDE DEF new
  <2> QED
    BY <1>3, <1>6, <2>1, <2>2
<1>17. /\ source' \in [Vectors -> Int]
       /\ \A w \in Vectors : w # v => source'[w] = source[w]
       /\ ~ r.shared => source'[v] = s
  BY <1>3, <1>4, <1>5, <1>6
<1>18. /\ table' \in [Vectors -> {UNHANDLED, SHARED_ISR, BOOT} \cup Handles]
       /\ \A w \in Vectors : w # v => table'[w] = table[w]
       /\ r.shared => table'[v] = SHARED_ISR
       /\ ~ r.shared => table'[v] = IF r.handler THEN h ELSE UNHANDLED
  <2>1. ~ r.shared => table[v] = UNHANDLED
    BY <1>3
  <2> QED
    BY <1>3, <1>4, <1>5, <1>6, <2>1
<1>19. /\ entry' \in [Handles -> [source : Sources \cup {CHOOSE q \in Sources : TRUE}, disabled : BOOLEAN]]
       /\ r.shared => entry'[h] = [source |-> s, disabled |-> r.disabled]
       /\ \A g \in Live : entry'[g] = entry[g]
  <2>1. CASE r.shared
    <3>1. entry' = [entry EXCEPT ![h] = [source |-> s, disabled |-> r.disabled]]
      BY <1>5, <2>1
    <3>2. [source |-> s, disabled |-> r.disabled] \in [source : Sources \cup {CHOOSE q \in Sources : TRUE}, disabled : BOOLEAN]
      BY <1>4, <2>1
    <3> QED
      BY <1>6, <1>12, <2>1, <3>1, <3>2
  <2>2. CASE ~ r.shared
    BY <1>5, <1>6, <2>2
  <2> QED
    BY <1>4, <2>1, <2>2
<1>20. /\ matrix' \in [CPUs -> [Sources -> Ints \cup {INT_MUX_DISABLED_INTNO}]]
       /\ s >= 0 => matrix'[c][s] = IF r.disabled THEN INT_MUX_DISABLED_INTNO ELSE x
       /\ \A d \in CPUs, q \in Sources : <<d, q>> # <<c, s>> => matrix'[d][q] = matrix[d][q]
  <2>1. CASE s >= 0
    <3>1. matrix' = [matrix EXCEPT ![c][s] = IF r.disabled THEN INT_MUX_DISABLED_INTNO ELSE x] /\ s \in Sources
      BY <1>4, <1>5, <2>1
    <3> QED
      BY <1>3, <1>6, <3>1
  <2>2. CASE ~ (s >= 0)
    BY <1>5, <1>6, <2>2
  <2> QED
    BY <2>1, <2>2
<1>21. /\ intenable' \in [CPUs -> SUBSET Ints]
       /\ x \in intenable'[c] <=> s >= 0 \/ ~ r.disabled
       /\ \A d \in CPUs : \A y : <<d, y>> # <<c, x>> => (y \in intenable'[d] <=> y \in intenable[d])
  BY <1>3, <1>4, <1>5, <1>6
<1>22. /\ non_iram_int_mask' \in [CPUs -> SUBSET Ints]
       /\ x \in non_iram_int_mask'[c] <=> ~ r.iram
       /\ \A d \in CPUs : \A y : <<d, y>> # <<c, x>> => (y \in non_iram_int_mask'[d] <=> y \in non_iram_int_mask[d])
  BY <1>3, <1>4, <1>5, <1>6
<1>23. /\ non_iram_int_disabled' = non_iram_int_disabled /\ marked' = marked
       /\ non_iram_int_disabled_flag' = non_iram_int_disabled_flag
  BY <1>5
<1>24. /\ \A d \in CPUs : \A y : <<d, y>> # <<c, x>> => (Enabled(d, y)' <=> Enabled(d, y))
       /\ Enabled(c, x)' <=> s >= 0 \/ ~ r.disabled
  BY <1>2, <1>21, <1>23 DEF Enabled
<1>25. Types'
  BY <1>10, <1>11, <1>14, <1>15, <1>16, <1>17, <1>18, <1>19, <1>20, <1>21, <1>22, <1>23 DEF Inv, Types
<1>26. \A g \in Live : handle[g].vd \in Vectors /\ handle[g].vd = <<handle[g].vd[1], handle[g].vd[2]>>
                       /\ handle[g].vd[1] \in CPUs /\ asked[g].source \in Int
                       /\ (asked[g].source >= 0 <=> asked[g].source \in Sources)
  BY Holding, Vector, RequestSource
<1>27. \A g \in Users(v) : r.shared /\ (asked[g].iram <=> r.iram)
  BY <1>8 DEF Idle, Chain
<1> HIDE DEF v
<1>28. VectorInv'
  <2>1. Boot'
    <3>1. <<0, 2>> \in Vectors /\ 0 \in CPUs
      BY Numbers DEF Vectors, CPUs
    <3>2. 2 \in non_iram_int_mask'[0] <=> 2 \in non_iram_int_mask[0]
      BY <1>7, <1>22, <3>1 DEF v
    <3> QED
      BY <1>7, <1>13, <1>16, <1>18, <3>1, <3>2 DEF Inv, VectorInv, Boot
  <2>2. ASSUME r.shared PROVE Chain(v)'
    <3>1. ASSUME NEW g \in Users(v)' PROVE asked'[g].shared /\ (asked'[g].iram <=> "INIRAM" \in flags'[v])
      <4>1. CASE g = h
        BY <1>14, <1>16, <2>2, <4>1
      <4>2. CASE g # h
        <5>1. g \in Users(v) /\ asked'[g] = asked[g]
          BY <1>13, <1>14, <3>1, <4>2
        <5>2. asked[g].shared
          BY <1>8, <5>1 DEF Idle, Chain
        <5> QED
          BY <1>16, <1>27, <5>1, <5>2
      <4> QED
        BY <4>1, <4>2
    <3>2. Users(v)' # {}
      BY <1>13
    <3> QED
      BY <1>10, <1>13, <1>16, <1>18, <2>2, <3>1, <3>2 DEF Chain
  <2>3. ASSUME ~ r.shared PROVE Own(v)'
    <3>1. Users(v)' = {h}
      BY <1>9, <1>13, <2>3
    <3> QED
      BY <1>10, <1>14, <1>16, <1>17, <1>18, <2>3, <3>1 DEF Own
  <2>4. ASSUME NEW w \in Vectors, w # v, Idle(w) \/ Own(w) \/ Chain(w)
        PROVE  Idle(w)' \/ Own(w)' \/ Chain(w)'
    <3>1. /\ flags'[w] = flags[w] /\ source'[w] = source[w] /\ table'[w] = table[w]
          /\ shared_vec_info'[w] = shared_vec_info[w] /\ Users(w)' = Users(w)
      BY <1>10, <1>13, <1>16, <1>17, <1>18, <2>4
    <3>2. \A g \in Users(w) : asked'[g] = asked[g]
      BY <1>13, <1>14
    <3>3. CASE Idle(w)
      BY <1>23, <3>1, <3>3 DEF Idle
    <3>4. CASE Own(w)
      <4>1. PICK g \in Handles : /\ Users(w) = {g} /\ ~ asked[g].shared /\ source[w] = asked[g].source
                                 /\ table[w] = IF asked[g].handler THEN g ELSE UNHANDLED
        BY <3>4 DEF Own
      <4>2. asked'[g] = asked[g]
        BY <3>2, <4>1
      <4> QED
        BY <3>1, <3>4, <4>1, <4>2 DEF Own
    <3>5. CASE Chain(w)
      BY <1>23, <3>1, <3>2, <3>5 DEF Chain
    <3> QED
      BY <2>4, <3>3, <3>4, <3>5
  <2>5. Own(v)' \/ Chain(v)'
    BY <1>4, <2>2, <2>3
  <2>6. \A w \in Vectors \ {<<0, 2>>} : Idle(w) \/ Own(w) \/ Chain(w)
    BY DEF Inv, VectorInv
  <2> QED
    BY <2>1, <2>4, <2>5, <2>6 DEF VectorInv
<1>29. HandleInv'
  <2> SUFFICES ASSUME NEW g \in Live'
               PROVE  /\ asked'[g] \in Requests /\ ArgsOkay(asked'[g])
                      /\ handle'[g].svd = IF asked'[g].shared THEN g ELSE NONE
                      /\ asked'[g].shared => entry'[g] = [source |-> asked'[g].source, disabled |-> g \in off']
                      /\ Level(handle'[g].vd[2]) \in DefaultLevels(asked'[g])
                      /\ asked'[g].source < 0 <=> handle'[g].vd[2] = N
    BY DEF HandleInv
  <2>1. CASE g = h
    <3>1. asked'[h] = r /\ handle'[h].svd = (IF r.shared THEN h ELSE NONE) /\ handle'[h].vd[2] = x
      BY <1>11, <1>14 DEF v
    <3>2. (h \in off') = r.disabled
      BY <1>4, <1>15
    <3>3. r.shared => entry'[h] = [source |-> s, disabled |-> h \in off']
      BY <1>19, <3>2
    <3> QED
      BY <1>2, <1>3, <2>1, <3>1, <3>3
  <2>2. CASE g # h
    <3>1. g \in Live /\ asked'[g] = asked[g] /\ handle'[g] = handle[g] /\ entry'[g] = entry[g]
      BY <1>12, <1>14, <1>19, <2>2
    <3>2. (g \in off') = (g \in off)
      BY <1>15, <3>1
    <3> QED
      BY <3>1, <3>2 DEF Inv, HandleInv
  <2> QED
    BY <2>1, <2>2
<1>30. WiredInv'
  <2> SUFFICES ASSUME NEW g \in Live'
               PROVE  LET q == asked'[g]
                          w == handle'[g].vd IN
                      /\ w[2] \in non_iram_int_mask'[w[1]] <=> ~ q.iram
                      /\ q.source >= 0 => matrix'[w[1]][q.source] = IF g \in off' THEN INT_MUX_DISABLED_INTNO ELSE w[2]
                      /\ q.source >= 0 \/ g \notin off' => Enabled(handle[g].vd[1], handle[g].vd[2])'
    BY DEF WiredInv
  <2>1. CASE g = h
    <3>1. asked'[h] = r /\ handle'[h].vd[1] = c /\ handle'[h].vd[2] = x
      BY <1>11, <1>14 DEF v
    <3>2. Enabled(handle[h].vd[1], handle[h].vd[2])' <=> Enabled(c, x)'
      BY <3>1 DEF Enabled
    <3> QED
      BY <1>15, <1>20, <1>22, <1>24, <2>1, <3>1, <3>2
  <2>2. CASE g # h
    <3>1. PICK d, y, q : d = handle[g].vd[1] /\ y = handle[g].vd[2] /\ q = asked[g]
      OBVIOUS
    <3>2. g \in Live /\ asked'[g] = q /\ handle'[g].vd[1] = d /\ handle'[g].vd[2] = y /\ (g \in off' <=> g \in off)
      BY <1>12, <1>14, <1>15, <2>2, <3>1
    <3>3. /\ y \in non_iram_int_mask[d] <=> ~ q.iram
          /\ q.source >= 0 => matrix[d][q.source] = IF g \in off THEN INT_MUX_DISABLED_INTNO ELSE y
          /\ q.source >= 0 \/ g \notin off => Enabled(d, y)
      BY <3>1, <3>2 DEF Inv, WiredInv, Enabled
    <3>4. d \in CPUs /\ handle[g].vd = <<d, y>> /\ (q.source >= 0 <=> q.source \in Sources)
      BY <1>26, <3>1, <3>2
    <3>5. d = c => q.source # s
      BY <1>2, <3>1, <3>2
    <3>6. <<d, y>> = <<c, x>> => r.shared /\ (q.iram <=> r.iram)
      <4>1. handle[g].vd = v => g \in Users(v)
        BY <3>2 DEF Users
      <4> QED
        BY <1>27, <3>1, <3>4, <4>1 DEF v
    <3>7. y \in non_iram_int_mask'[d] <=> ~ q.iram
      BY <1>22, <3>3, <3>4, <3>6
    <3>8. q.source >= 0 => matrix'[d][q.source] = matrix[d][q.source]
      BY <1>20, <3>4, <3>5
    <3>9. Enabled(d, y) => Enabled(d, y)'
      <4>1. CASE <<d, y>> = <<c, x>>
        <5>1. Enabled(c, x)'
          BY <1>4, <1>24, <3>6, <4>1
        <5> QED
          BY <4>1, <5>1
      <4>2. CASE <<d, y>> # <<c, x>>
        BY <1>24, <3>4, <4>2
      <4> QED
        BY <4>1, <4>2
    <3>10. Enabled(handle[g].vd[1], handle[g].vd[2])' <=> Enabled(d, y)'
      BY <3>2 DEF Enabled
    <3> QED
      BY <3>2, <3>3, <3>7, <3>8, <3>9, <3>10
  <2> QED
    BY <2>1, <2>2
<1>31. SourceInv'
  <2>1. ASSUME NEW f \in Live', NEW g \in Live', handle'[f].vd[1] = handle'[g].vd[1],
               asked'[f].source = asked'[g].source
        PROVE  f = g
    <3>1. handle'[h].vd[1] = c /\ asked'[h].source = s
      BY <1>11, <1>14 DEF v
    <3>2. CASE f # h /\ g # h
      <4>1. f \in Live /\ g \in Live /\ handle[f].vd[1] = handle[g].vd[1] /\ asked[f].source = asked[g].source
        BY <1>12, <1>14, <2>1, <3>2
      <4> QED
        BY <4>1 DEF Inv, SourceInv
    <3>3. CASE f = h /\ g # h
      BY <1>2, <1>12, <1>14, <2>1, <3>1, <3>3
    <3>4. CASE f # h /\ g = h
      BY <1>2, <1>12, <1>14, <2>1, <3>1, <3>4
    <3> QED
      BY <3>2, <3>3, <3>4
  <2>2. ASSUME NEW d \in CPUs, NEW q \in Sources, matrix'[d][q] # INT_MUX_DISABLED_INTNO
        PROVE  \E g \in Live' : handle'[g].vd[1] = d /\ asked'[g].source = q
    <3>1. CASE <<d, q>> = <<c, s>>
      <4>1. handle'[h].vd[1] = c /\ asked'[h].source = s /\ h \in Live'
        BY <1>11, <1>12, <1>14 DEF v
      <4> QED
        BY <3>1, <4>1
    <3>2. CASE <<d, q>> # <<c, s>>
      <4>1. matrix[d][q] # INT_MUX_DISABLED_INTNO
        BY <1>20, <2>2, <3>2
      <4>2. PICK g \in Live : handle[g].vd[1] = d /\ asked[g].source = q
        BY <4>1 DEF Inv, SourceInv
      <4> QED
        BY <1>12, <1>14, <4>2
    <3> QED
      BY <3>1, <3>2
  <2>3. ASSUME NEW d \in CPUs, Enabled(d, ETS_INTERNAL_SW0_INTR_NO)'
        PROVE  \E g \in Live' \ off' : handle'[g].vd = <<d, ETS_INTERNAL_SW0_INTR_NO>>
    <3>1. CASE <<d, N>> = <<c, x>>
      <4>1. s < 0 /\ ~ (s >= 0)
        BY <1>3, <1>4, <3>1
      <4>2. Enabled(c, x)'
        BY <2>3, <3>1
      <4>3. ~ r.disabled
        BY <1>24, <4>1, <4>2
      <4>4. h \in Live' \ off' /\ handle'[h].vd = <<c, x>>
        BY <1>11, <1>12, <1>15, <4>3 DEF v
      <4> QED
        BY <3>1, <4>4
    <3>2. CASE <<d, N>> # <<c, x>>
      <4>1. Enabled(d, N)
        BY <1>24, <2>3, <3>2
      <4>2. PICK g \in Live \ off : handle[g].vd = <<d, N>>
        BY <4>1 DEF Inv, SourceInv
      <4> QED
        BY <1>12, <1>15, <4>2
    <3> QED
      BY <3>1, <3>2
  <2>4. (\A f, g \in Live : handle[f].vd[1] = handle[g].vd[1] /\ asked[f].source = asked[g].source => f = g)'
    BY <2>1
  <2>5. (\A d \in CPUs, q \in Sources : matrix[d][q] # INT_MUX_DISABLED_INTNO =>
          \E g \in Live : handle[g].vd[1] = d /\ asked[g].source = q)'
    BY <2>2
  <2>6. (\A d \in CPUs : Enabled(d, ETS_INTERNAL_SW0_INTR_NO) =>
          \E g \in Live \ off : handle[g].vd = <<d, ETS_INTERNAL_SW0_INTR_NO>>)'
    BY <2>3
  <2> QED
    BY ONLY <2>4, <2>5, <2>6 DEF SourceInv
<1>32. WindowInv'
  <2> SUFFICES ASSUME NEW d \in CPUs, non_iram_int_disabled_flag[d]
               PROVE  intenable'[d] \cap non_iram_int_mask'[d] = {}
    BY <1>23 DEF WindowInv
  <2>1. d # c
    BY <1>2
  <2>2. \A y : (y \in intenable'[d] <=> y \in intenable[d]) /\ (y \in non_iram_int_mask'[d] <=> y \in non_iram_int_mask[d])
    BY <1>21, <1>22, <2>1
  <2> QED
    BY <2>2 DEF Inv, WindowInv
<1> QED
  BY <1>25, <1>28, <1>29, <1>30, <1>31, <1>32 DEF Inv

(* A handle is freed (intr_alloc.c:569-616).  The descriptor is idle again *)
(* if nobody else uses it, and a chain without the entry otherwise.        *)
LEMMA FreeStep ==
  ASSUME Inv, NEW h \in Handles, esp_intr_free(h)
  PROVE  Inv'
<1>1. PICK v, c, x, s : v = handle[h].vd /\ c = handle[h].vd[1] /\ x = handle[h].vd[2] /\ s = asked[h].source
  OBVIOUS
<1> DEFINE N == ETS_INTERNAL_SW0_INTR_NO
<1>2. h \in Live /\ ~ non_iram_int_disabled_flag[c]
  BY <1>1 DEF esp_intr_free, TasksRun
<1>3. /\ v \in Vectors /\ v # <<0, 2>> /\ h \in Users(v) /\ c \in CPUs /\ x \in Ints /\ v = <<c, x>>
      /\ asked[h] \in Requests /\ SourceOf(h) = s
      /\ (Own(v) /\ Users(v) = {h}) \/ Chain(v)
  BY <1>1, <1>2, Holding, Vector
<1>4. /\ s \in Int /\ (s >= 0 <=> s \in Sources)
      /\ s < 0 <=> x = N
  <2>1. s \in Int /\ (s >= 0 <=> s \in Sources)
    BY <1>1, <1>3, RequestSource
  <2> QED
    BY <1>1, <1>2, <2>1 DEF Inv, HandleInv
<1>5. PICK last \in BOOLEAN : last <=> NothingLeft(v, h)
  <2>1. NothingLeft(v, h) \in BOOLEAN
    BY DEF NothingLeft
  <2> QED
    BY <2>1
<1>6. /\ matrix' = IF s >= 0 THEN [matrix EXCEPT ![c][s] = INT_MUX_DISABLED_INTNO] ELSE matrix
      /\ intenable' = IF s >= 0 THEN intenable ELSE [intenable EXCEPT ![c] = @ \ {x}]
      /\ entry' = [entry EXCEPT ![h] = [source |-> CHOOSE q \in Sources : TRUE, disabled |-> FALSE]]
      /\ shared_vec_info' = [shared_vec_info EXCEPT ![v] = IF IsShared(v) THEN RemoveFirst(@, h) ELSE @]
      /\ table' = IF last THEN [table EXCEPT ![v] = UNHANDLED] ELSE table
      /\ flags' = IF last THEN [flags EXCEPT ![v] = {}] ELSE flags
      /\ non_iram_int_mask' = IF last THEN [non_iram_int_mask EXCEPT ![c] = @ \ {x}] ELSE non_iram_int_mask
      /\ handle' = [handle EXCEPT ![h] = NONE]
      /\ asked' = [asked EXCEPT ![h] = NONE]
      /\ off' = off \ {h}
      /\ UNCHANGED <<source, non_iram_int_disabled, non_iram_int_disabled_flag, marked>>
  BY <1>1, <1>3, <1>5 DEF esp_intr_free, Cleared, iramVars
<1>7. /\ flags \in [Vectors -> SUBSET FLAGS] /\ source \in [Vectors -> Int]
      /\ shared_vec_info \in [Vectors -> Seq(Handles)]
      /\ entry \in [Handles -> [source : Sources \cup {CHOOSE q \in Sources : TRUE}, disabled : BOOLEAN]]
      /\ handle \in [Handles -> Handle \cup {NONE}]
      /\ table \in [Vectors -> {UNHANDLED, SHARED_ISR, BOOT} \cup Handles]
      /\ matrix \in [CPUs -> [Sources -> Ints \cup {INT_MUX_DISABLED_INTNO}]]
      /\ intenable \in [CPUs -> SUBSET Ints] /\ non_iram_int_mask \in [CPUs -> SUBSET Ints]
      /\ asked \in [Handles -> Requests \cup {NONE}] /\ off \subseteq Live
  BY DEF Inv, Types
<1>8. ASSUME Chain(v)
      PROVE  LET t == RemoveFirst(shared_vec_info[v], h) IN
             t \in Seq(Handles) /\ IsInjective(t) /\ ToSet(t) = Users(v) \ {h}
  <2>1. shared_vec_info[v] \in Seq(Handles)
    BY <1>3, <1>7
  <2>2. IsInjective(shared_vec_info[v]) /\ ToSet(shared_vec_info[v]) = Users(v)
    BY <1>8 DEF Chain
  <2> QED
    BY <1>3, <2>1, <2>2, Unlinked
<1>9. last <=> Users(v) = {h}
  <2>1. CASE Own(v) /\ Users(v) = {h}
    BY <1>5, <2>1 DEF Own, NothingLeft
  <2>2. CASE Chain(v)
    <3> DEFINE t == RemoveFirst(shared_vec_info[v], h)
    <3>1. t \in Seq(Handles) /\ ToSet(t) = Users(v) \ {h}
      BY <1>8, <2>2
    <3>2. last <=> t = <<>>
      BY <1>5, <2>2 DEF Chain, NothingLeft, IsShared
    <3> HIDE DEF t
    <3>3. t = <<>> <=> ToSet(t) = {}
      <4>1. DOMAIN t = 1 .. Len(t) /\ Len(t) \in Nat
        BY <3>1, LenProperties
      <4>2. CASE t = <<>>
        BY <4>2 DEF ToSet
      <4>3. CASE t # <<>>
        <5>1. Len(t) # 0
          BY <3>1, <4>3, EmptySeq
        <5>2. 1 \in DOMAIN t
          BY <4>1, <5>1
        <5> QED
          BY <4>3, <5>2 DEF ToSet
      <4> QED
        BY <4>2, <4>3
    <3> QED
      BY <1>3, <3>1, <3>2, <3>3
  <2> QED
    BY <1>3, <2>1, <2>2
<1>10. /\ shared_vec_info' \in [Vectors -> Seq(Handles)]
       /\ Chain(v) => IsInjective(shared_vec_info'[v]) /\ ToSet(shared_vec_info'[v]) = Users(v) \ {h}
       /\ last => shared_vec_info'[v] = <<>>
       /\ \A w \in Vectors : w # v => shared_vec_info'[w] = shared_vec_info[w]
  <2>1. CASE Own(v) /\ Users(v) = {h}
    <3>1. shared_vec_info' = [shared_vec_info EXCEPT ![v] = shared_vec_info[v]] /\ shared_vec_info[v] = <<>>
      BY <1>6, <2>1 DEF Own, IsShared
    <3>2. ~ Chain(v)
      BY <2>1 DEF Own, Chain
    <3> QED
      BY <1>3, <1>7, <3>1, <3>2
  <2>2. CASE Chain(v)
    <3> DEFINE t == RemoveFirst(shared_vec_info[v], h)
    <3>1. t \in Seq(Handles) /\ IsInjective(t) /\ ToSet(t) = Users(v) \ {h}
      BY <1>8, <2>2
    <3>2. shared_vec_info' = [shared_vec_info EXCEPT ![v] = t]
      BY <1>6, <2>2 DEF Chain, IsShared
    <3>3. last => t = <<>>
      BY <1>5, <2>2 DEF Chain, NothingLeft, IsShared
    <3> HIDE DEF t
    <3> QED
      BY <1>3, <1>7, <3>1, <3>2, <3>3
  <2> QED
    BY <1>3, <2>1, <2>2
<1>11. /\ handle' \in [Handles -> Handle \cup {NONE}] /\ handle'[h] = NONE
       /\ Live' = Live \ {h}
       /\ \A g \in Live' : g \in Live /\ g # h /\ g \in Handles /\ handle'[g] = handle[g] /\ asked'[g] = asked[g]
       /\ asked' \in [Handles -> Requests \cup {NONE}]
  <2>1. handle' \in [Handles -> Handle \cup {NONE}] /\ handle'[h] = NONE
    BY <1>6, <1>7
  <2>2. \A g \in Handles : g # h => handle'[g] = handle[g] /\ asked'[g] = asked[g]
    BY <1>6, <1>7
  <2>3. asked' \in [Handles -> Requests \cup {NONE}]
    BY <1>6, <1>7
  <2>4. Live' = Live \ {h}
    BY <2>1, <2>2 DEF Live
  <2> QED
    BY <2>1, <2>2, <2>3, <2>4 DEF Live
<1>12. /\ Users(v)' = Users(v) \ {h}
       /\ \A w : w # v => Users(w)' = Users(w)
       /\ \A w : \A g \in Users(w)' : g \in Live'
  BY <1>1, <1>11 DEF Users
<1>13. off' \subseteq Live' /\ \A g \in Live' : g \in off' <=> g \in off
  BY <1>6, <1>7, <1>11
<1>14. /\ flags' \in [Vectors -> SUBSET FLAGS] /\ flags'[v] = IF last THEN {} ELSE flags[v]
       /\ \A w \in Vectors : w # v => flags'[w] = flags[w]
       /\ table' \in [Vectors -> {UNHANDLED, SHARED_ISR, BOOT} \cup Handles]
       /\ table'[v] = IF last THEN UNHANDLED ELSE table[v]
       /\ \A w \in Vectors : w # v => table'[w] = table[w]
  BY <1>3, <1>6, <1>7
<1>15. /\ entry' \in [Handles -> [source : Sources \cup {CHOOSE q \in Sources : TRUE}, disabled : BOOLEAN]]
       /\ \A g \in Live' : entry'[g] = entry[g]
  BY <1>6, <1>7, <1>11
<1>16. /\ matrix' \in [CPUs -> [Sources -> Ints \cup {INT_MUX_DISABLED_INTNO}]]
       /\ s >= 0 => matrix'[c][s] = INT_MUX_DISABLED_INTNO
       /\ \A d \in CPUs, q \in Sources : <<d, q>> # <<c, s>> => matrix'[d][q] = matrix[d][q]
  <2>1. CASE s >= 0
    <3>1. matrix' = [matrix EXCEPT ![c][s] = INT_MUX_DISABLED_INTNO] /\ s \in Sources
      BY <1>4, <1>6, <2>1
    <3> QED
      BY <1>3, <1>7, <3>1
  <2>2. CASE ~ (s >= 0)
    BY <1>6, <1>7, <2>2
  <2> QED
    BY <2>1, <2>2
<1>17. /\ intenable' \in [CPUs -> SUBSET Ints]
       /\ s >= 0 => intenable' = intenable
       /\ s < 0 => x \notin intenable'[c]
       /\ \A d \in CPUs, y \in Ints : <<d, y>> # <<c, x>> => (y \in intenable'[d] <=> y \in intenable[d])
       /\ \A d \in CPUs : intenable'[d] \subseteq intenable[d]
  <2>1. CASE s >= 0
    BY <1>4, <1>6, <1>7, <2>1
  <2>2. CASE ~ (s >= 0)
    <3>1. intenable' = [intenable EXCEPT ![c] = @ \ {x}]
      BY <1>6, <2>2
    <3> QED
      BY <1>3, <1>7, <2>2, <3>1
  <2> QED
    BY <2>1, <2>2
<1>18. /\ non_iram_int_mask' \in [CPUs -> SUBSET Ints]
       /\ ~ last => non_iram_int_mask' = non_iram_int_mask
       /\ \A d \in CPUs : \A y : <<d, y>> # <<c, x>> => (y \in non_iram_int_mask'[d] <=> y \in non_iram_int_mask[d])
       /\ \A d \in CPUs : non_iram_int_mask'[d] \subseteq non_iram_int_mask[d]
  <2>1. CASE last
    <3>1. non_iram_int_mask' = [non_iram_int_mask EXCEPT ![c] = @ \ {x}]
      BY <1>6, <2>1
    <3> QED
      BY <1>3, <1>7, <2>1, <3>1
  <2>2. CASE ~ last
    BY <1>6, <1>7, <2>2
  <2> QED
    BY <2>1, <2>2
<1>19. /\ non_iram_int_disabled' = non_iram_int_disabled /\ marked' = marked /\ source' = source
       /\ non_iram_int_disabled_flag' = non_iram_int_disabled_flag
  BY <1>6
<1>20. \A d \in CPUs, y \in Ints : <<d, y>> # <<c, x>> \/ s >= 0 => (Enabled(d, y)' <=> Enabled(d, y))
  BY <1>17, <1>19 DEF Enabled
<1>21. Types'
  BY <1>10, <1>11, <1>13, <1>14, <1>15, <1>16, <1>17, <1>18, <1>19 DEF Inv, Types
<1>22. VectorInv'
  <2>1. Boot'
    <3>1. <<0, 2>> \in Vectors /\ 0 \in CPUs
      BY Numbers DEF Vectors, CPUs
    <3>2. 2 \in non_iram_int_mask'[0] <=> 2 \in non_iram_int_mask[0]
      BY <1>3, <1>18, <3>1
    <3> QED
      BY <1>3, <1>12, <1>14, <3>1, <3>2 DEF Inv, VectorInv, Boot
  <2>2. ASSUME last PROVE Idle(v)'
    <3>1. Users(v)' = {}
      BY <1>9, <1>12, <2>2
    <3> QED
      BY <1>10, <1>14, <2>2, <3>1 DEF Idle
  <2>3. ASSUME ~ last PROVE Chain(v)'
    <3>1. Chain(v) /\ Users(v)' # {} /\ Users(v) # {}
      BY <1>3, <1>9, <1>12, <2>3
    <3>2. flags'[v] = flags[v] /\ table'[v] = table[v]
      BY <1>14, <2>3
    <3>3. IsInjective(shared_vec_info'[v]) /\ ToSet(shared_vec_info'[v]) = Users(v)'
      BY <1>10, <1>12, <3>1
    <3>4. \A g \in Users(v)' : g \in Users(v) /\ asked'[g] = asked[g]
      BY <1>11, <1>12
    <3>5. \A g \in Users(v)' : asked'[g].shared /\ (asked'[g].iram <=> "INIRAM" \in flags'[v])
      BY <3>1, <3>2, <3>4 DEF Chain
    <3> QED
      BY <3>1, <3>2, <3>3, <3>5 DEF Chain
  <2>4. ASSUME NEW w \in Vectors, w # v, Idle(w) \/ Own(w) \/ Chain(w)
        PROVE  Idle(w)' \/ Own(w)' \/ Chain(w)'
    <3>1. /\ flags'[w] = flags[w] /\ source'[w] = source[w] /\ table'[w] = table[w]
          /\ shared_vec_info'[w] = shared_vec_info[w] /\ Users(w)' = Users(w)
      BY <1>10, <1>12, <1>14, <1>19, <2>4
    <3>2. \A g \in Users(w) : asked'[g] = asked[g]
      BY <1>11, <1>12, <3>1
    <3>3. CASE Idle(w)
      BY <1>19, <3>1, <3>3 DEF Idle
    <3>4. CASE Own(w)
      <4>1. PICK g \in Handles : /\ Users(w) = {g} /\ ~ asked[g].shared /\ source[w] = asked[g].source
                                 /\ table[w] = IF asked[g].handler THEN g ELSE UNHANDLED
        BY <3>4 DEF Own
      <4>2. asked'[g] = asked[g]
        BY <3>2, <4>1
      <4> QED
        BY <3>1, <3>4, <4>1, <4>2 DEF Own
    <3>5. CASE Chain(w)
      BY <1>19, <3>1, <3>2, <3>5 DEF Chain
    <3> QED
      BY <2>4, <3>3, <3>4, <3>5
  <2>5. Idle(v)' \/ Chain(v)'
    BY <2>2, <2>3
  <2>6. \A w \in Vectors \ {<<0, 2>>} : Idle(w) \/ Own(w) \/ Chain(w)
    BY DEF Inv, VectorInv
  <2> QED
    BY <2>1, <2>4, <2>5, <2>6 DEF VectorInv
<1>23. HandleInv'
  <2> SUFFICES ASSUME NEW g \in Live'
               PROVE  /\ asked'[g] \in Requests /\ ArgsOkay(asked'[g])
                      /\ handle'[g].svd = IF asked'[g].shared THEN g ELSE NONE
                      /\ asked'[g].shared => entry'[g] = [source |-> asked'[g].source, disabled |-> g \in off']
                      /\ Level(handle'[g].vd[2]) \in DefaultLevels(asked'[g])
                      /\ asked'[g].source < 0 <=> handle'[g].vd[2] = N
    BY DEF HandleInv
  <2>1. g \in Live /\ asked'[g] = asked[g] /\ handle'[g] = handle[g] /\ entry'[g] = entry[g]
    BY <1>11, <1>15
  <2>2. (g \in off') = (g \in off)
    BY <1>13
  <2> QED
    BY <2>1, <2>2 DEF Inv, HandleInv
<1>24. WiredInv'
  <2> SUFFICES ASSUME NEW g \in Live'
               PROVE  LET q == asked'[g]
                          w == handle'[g].vd IN
                      /\ w[2] \in non_iram_int_mask'[w[1]] <=> ~ q.iram
                      /\ q.source >= 0 => matrix'[w[1]][q.source] = IF g \in off' THEN INT_MUX_DISABLED_INTNO ELSE w[2]
                      /\ q.source >= 0 \/ g \notin off' => Enabled(handle[g].vd[1], handle[g].vd[2])'
    BY DEF WiredInv
  <2>1. PICK d, y, q : d = handle[g].vd[1] /\ y = handle[g].vd[2] /\ q = asked[g]
    OBVIOUS
  <2>2. /\ g \in Live /\ g # h /\ asked'[g] = q /\ handle'[g].vd[1] = d /\ handle'[g].vd[2] = y
        /\ (g \in off' <=> g \in off)
    BY <1>11, <1>13, <2>1
  <2>3. /\ y \in non_iram_int_mask[d] <=> ~ q.iram
        /\ q.source >= 0 => matrix[d][q.source] = IF g \in off THEN INT_MUX_DISABLED_INTNO ELSE y
        /\ q.source >= 0 \/ g \notin off => Enabled(d, y)
    BY <2>1, <2>2 DEF Inv, WiredInv, Enabled
  <2>4. d \in CPUs /\ y \in Ints /\ handle[g].vd = <<d, y>> /\ (q.source >= 0 <=> q.source \in Sources)
    <3>1. handle[g].vd \in Vectors /\ q \in Requests
      BY <2>1, <2>2, Holding
    <3> QED
      BY <2>1, <3>1, Vector, RequestSource
  <2>5. d = c => q.source # s /\ (s < 0 => y # x)
    BY <1>1, <1>2, <2>1, <2>2, Apart
  <2>6. <<d, y>> = <<c, x>> => ~ last
    <3>1. <<d, y>> = <<c, x>> => g \in Users(v)
      BY <1>3, <2>2, <2>4 DEF Users
    <3> QED
      BY <1>9, <2>2, <3>1
  <2>7. y \in non_iram_int_mask'[d] <=> ~ q.iram
    BY <1>18, <2>3, <2>4, <2>6
  <2>8. q.source >= 0 => matrix'[d][q.source] = matrix[d][q.source]
    BY <1>16, <2>4, <2>5
  <2>9. Enabled(d, y)' <=> Enabled(d, y)
    BY <1>4, <1>20, <2>4, <2>5
  <2>10. Enabled(handle[g].vd[1], handle[g].vd[2])' <=> Enabled(d, y)'
    BY <2>2 DEF Enabled
  <2> QED
    BY <2>2, <2>3, <2>7, <2>8, <2>9, <2>10
<1>25. SourceInv'
  <2>1. ASSUME NEW f \in Live', NEW g \in Live', handle'[f].vd[1] = handle'[g].vd[1],
               asked'[f].source = asked'[g].source
        PROVE  f = g
    <3>1. f \in Live /\ g \in Live /\ handle[f].vd[1] = handle[g].vd[1] /\ asked[f].source = asked[g].source
      BY <1>11, <2>1
    <3> QED
      BY <3>1 DEF Inv, SourceInv
  <2>2. ASSUME NEW d \in CPUs, NEW q \in Sources, matrix'[d][q] # INT_MUX_DISABLED_INTNO
        PROVE  \E g \in Live' : handle'[g].vd[1] = d /\ asked'[g].source = q
    <3>1. <<d, q>> # <<c, s>>
      BY <1>4, <1>16, <2>2
    <3>2. matrix[d][q] # INT_MUX_DISABLED_INTNO
      BY <1>16, <2>2, <3>1
    <3>3. PICK g \in Live : handle[g].vd[1] = d /\ asked[g].source = q
      BY <3>2 DEF Inv, SourceInv
    <3>4. g # h
      BY <1>1, <3>1, <3>3
    <3> QED
      BY <1>11, <3>3, <3>4
  <2>3. ASSUME NEW d \in CPUs, Enabled(d, ETS_INTERNAL_SW0_INTR_NO)'
        PROVE  \E g \in Live' \ off' : handle'[g].vd = <<d, ETS_INTERNAL_SW0_INTR_NO>>
    <3>1. N \in Ints
      BY <1>17, <1>19, <2>3 DEF Enabled, Inv, Types
    <3>2. <<d, N>> # <<c, x>>
      <4> SUFFICES ASSUME <<d, N>> = <<c, x>> PROVE FALSE
        OBVIOUS
      <4>1. x \notin intenable'[c]
        BY <1>4, <1>17
      <4> QED
        BY <1>2, <1>19, <2>3, <4>1 DEF Enabled
    <3>3. Enabled(d, N)
      BY <1>20, <2>3, <3>1, <3>2
    <3>4. PICK g \in Live \ off : handle[g].vd = <<d, N>>
      BY <3>3 DEF Inv, SourceInv
    <3>5. g # h
      BY <1>1, <1>3, <3>2, <3>4
    <3> QED
      BY <1>11, <1>13, <3>4, <3>5
  <2>4. (\A f, g \in Live : handle[f].vd[1] = handle[g].vd[1] /\ asked[f].source = asked[g].source => f = g)'
    BY <2>1
  <2>5. (\A d \in CPUs, q \in Sources : matrix[d][q] # INT_MUX_DISABLED_INTNO =>
          \E g \in Live : handle[g].vd[1] = d /\ asked[g].source = q)'
    BY <2>2
  <2>6. (\A d \in CPUs : Enabled(d, ETS_INTERNAL_SW0_INTR_NO) =>
          \E g \in Live \ off : handle[g].vd = <<d, ETS_INTERNAL_SW0_INTR_NO>>)'
    BY <2>3
  <2> QED
    BY ONLY <2>4, <2>5, <2>6 DEF SourceInv
<1>26. WindowInv'
  BY <1>17, <1>18, <1>19 DEF Inv, WindowInv
<1> QED
  BY <1>21, <1>22, <1>23, <1>24, <1>25, <1>26 DEF Inv

(* The scheduler starts with the interrupt of the task watchdog only.      *)
LEMMA InitInv == Init => Inv
<1> SUFFICES ASSUME Init PROVE Inv
  OBVIOUS
<1>1. Live = {} /\ \A v : Users(v) = {}
  BY DEF Init, Live, Users
<1>2. <<0, 2>> \in Vectors /\ 0 \in CPUs
  BY Numbers DEF Vectors, CPUs
<1>3. Types
  <2>1. /\ flags \in [Vectors -> SUBSET FLAGS] /\ source \in [Vectors -> Int]
        /\ shared_vec_info \in [Vectors -> Seq(Handles)]
        /\ handle \in [Handles -> Handle \cup {NONE}]
        /\ table \in [Vectors -> {UNHANDLED, SHARED_ISR, BOOT} \cup Handles]
    BY DEF Init, FLAGS
  <2>2. entry \in [Handles -> [source : Sources \cup {CHOOSE s \in Sources : TRUE}, disabled : BOOLEAN]]
    <3> DEFINE q == CHOOSE s \in Sources : TRUE
               E == {[source |-> s, disabled |-> FALSE] : s \in {q}}
    <3>1. entry \in [Handles -> E]
      BY DEF Init
    <3> HIDE DEF q
    <3>2. E \subseteq [source : Sources \cup {q}, disabled : BOOLEAN]
      <4>1. [source |-> q, disabled |-> FALSE] \in [source : Sources \cup {q}, disabled : BOOLEAN]
        OBVIOUS
      <4>2. E = {[source |-> q, disabled |-> FALSE]}
        BY Zenon
      <4> QED
        BY <4>1, <4>2, Zenon
    <3> HIDE DEF E
    <3>3. entry \in [Handles -> [source : Sources \cup {q}, disabled : BOOLEAN]]
      BY <3>1, <3>2
    <3> QED
      BY <3>3 DEF q
  <2>3. /\ matrix \in [CPUs -> [Sources -> Ints \cup {INT_MUX_DISABLED_INTNO}]]
        /\ intenable \in [CPUs -> SUBSET Ints] /\ non_iram_int_mask \in [CPUs -> SUBSET Ints]
        /\ non_iram_int_disabled \in [CPUs -> SUBSET Ints] /\ non_iram_int_disabled_flag \in [CPUs -> BOOLEAN]
    BY Numbers DEF Init
  <2>4. asked \in [Handles -> Requests \cup {NONE}] /\ off \subseteq Live
    BY DEF Init
  <2> QED
    BY <2>1, <2>2, <2>3, <2>4 DEF Types
<1>4. VectorInv
  <2>1. Boot
    BY <1>1, <1>2 DEF Init, Boot
  <2>2. \A v \in Vectors \ {<<0, 2>>} : Idle(v)
    BY <1>1 DEF Init, Idle
  <2> QED
    BY <2>1, <2>2 DEF VectorInv
<1>5. HandleInv /\ WiredInv
  BY <1>1 DEF HandleInv, WiredInv
<1>6. SourceInv
  <2>1. \A c \in CPUs : ~ Enabled(c, ETS_INTERNAL_SW0_INTR_NO)
    BY DEF Init, Enabled, ETS_INTERNAL_SW0_INTR_NO
  <2>2. \A c \in CPUs, s \in Sources : matrix[c][s] = INT_MUX_DISABLED_INTNO
    BY DEF Init
  <2> QED
    BY <1>1, <2>1, <2>2 DEF SourceInv
<1>7. WindowInv
  BY DEF Init, WindowInv
<1> QED
  BY <1>3, <1>4, <1>5, <1>6, <1>7 DEF Inv

(* Steps that change the list of descriptors at most.                      *)
LEMMA SameInv ==
  ASSUME Inv, UNCHANGED <<flags, source, shared_vec_info, entry, handle, hwVars, non_iram_int_mask, iramVars,
                          asked, off, marked>>
  PROVE  Inv'
<1>1. VectorInv' /\ Live' = Live /\ \A v : Users(v)' = Users(v)
  BY VectorsSame DEF Inv, hwVars
<1>2. Types'
  BY <1>1 DEF Inv, Types, hwVars, iramVars
<1>3. HandleInv'
  BY <1>1 DEF Inv, HandleInv
<1>4. \A c : \A x : Enabled(c, x)' <=> Enabled(c, x)
  BY DEF Enabled, hwVars, iramVars
<1>5. WiredInv'
  BY <1>1 DEF Inv, WiredInv, Enabled, hwVars, iramVars
<1>6. SourceInv'
  <2>1. matrix' = matrix /\ handle' = handle /\ asked' = asked /\ off' = off
    BY DEF hwVars
  <2>2. \A d \in CPUs : Enabled(d, ETS_INTERNAL_SW0_INTR_NO)' =>
          \E h \in Live \ off : handle[h].vd = <<d, ETS_INTERNAL_SW0_INTR_NO>>
    BY <1>4 DEF Inv, SourceInv
  <2> QED
    BY <1>1, <2>1, <2>2 DEF Inv, SourceInv
<1>7. WindowInv'
  BY DEF Inv, WindowInv, hwVars, iramVars
<1> QED
  BY <1>1, <1>2, <1>3, <1>5, <1>6, <1>7 DEF Inv

(* Every operation keeps the invariant.                                    *)
LEMMA NextInv == ASSUME Inv, [Next]_vars PROVE Inv'
<1>1. ASSUME NEW c \in CPUs, NEW h \in Handles, NEW r \in Requests, esp_intr_alloc(c, h, r) PROVE Inv'
  BY <1>1, AllocStep
<1>2. ASSUME NEW c \in CPUs, NEW r \in Requests, AllocNoMem(c, r) PROVE Inv'
  BY <1>2, SameInv DEF AllocNoMem
<1>3. ASSUME NEW v \in Vectors, NEW b \in BOOLEAN, esp_intr_mark_shared(v, b) PROVE Inv'
  BY <1>3, MarkStep
<1>4. ASSUME NEW v \in Vectors, esp_intr_reserve(v) PROVE Inv'
  BY <1>4, MarkStep
<1>5. ASSUME NEW h \in Handles, esp_intr_disable(h) \/ esp_intr_enable(h) \/ esp_intr_free(h) PROVE Inv'
  BY <1>5, SwitchStep, FreeStep
<1>6. ASSUME NEW c \in CPUs, esp_intr_noniram_disable(c) \/ esp_intr_noniram_enable(c) PROVE Inv'
  BY <1>6, WindowStep
<1>7. CASE UNCHANGED vars
  BY <1>7, SameInv DEF vars
<1> QED
  BY <1>1, <1>2, <1>3, <1>4, <1>5, <1>6, <1>7 DEF Next

(* Hence it always holds.                                                  *)
LEMMA Invariant == Spec => []Inv
<1>1. Inv /\ [Next]_vars => Inv'
  BY NextInv
<1> QED
  BY <1>1, InitInv, PTL DEF Spec

(* Nothing that sorts before the head is ever inserted: interrupts 0 and 1 *)
(* of CPU 0 are reserved in int_desc.                                      *)
LEMMA NextList == ASSUME MarkedLater, ListInv, [Next]_vars PROVE ListInv'
<1>1. ASSUME NEW c \in CPUs, NEW r \in Requests, Chosen(r, c) # -1, get_desc_for_int(<<c, Chosen(r, c)>>)
      PROVE  ListInv'
  <2> DEFINE x == Chosen(r, c)
  <2>1. x \in Ints /\ <<c, x>> \in Vectors /\ ~ IsReserved(x, c)
    BY <1>1, ChosenInt
  <2> HIDE DEF x
  <2>2. ~ Before(<<c, x>>, <<0, 2>>)
    <3>1. x \in 0 .. 31 /\ c \in 0 .. 1
      BY <2>1, Numbers DEF CPUs
    <3>2. x # 0 /\ x # 1
      BY <2>1 DEF IsReserved
    <3> QED
      BY <3>1, <3>2 DEF Before
  <2>3. get_desc_for_int(<<c, x>>)
    BY <1>1 DEF x
  <2> QED
    BY <2>1, <2>2, <2>3, ListStep
<1>2. ASSUME NEW v \in Vectors, Unused(v), get_desc_for_int(v) PROVE ListInv'
  <2>1. ~ Before(v, <<0, 2>>)
    BY <1>2 DEF Unused, MarkedLater
  <2> QED
    BY <1>2, <2>1, ListStep
<1>3. ASSUME UNCHANGED <<vectors, crashed>> PROVE ListInv'
  BY <1>3 DEF ListInv
<1>4. ASSUME NEW c \in CPUs, NEW h \in Handles, NEW r \in Requests, esp_intr_alloc(c, h, r) PROVE ListInv'
  BY <1>1, <1>4 DEF esp_intr_alloc
<1>5. ASSUME NEW c \in CPUs, NEW r \in Requests, AllocNoMem(c, r) PROVE ListInv'
  BY <1>1, <1>5 DEF AllocNoMem
<1>6. ASSUME NEW v \in Vectors, NEW b \in BOOLEAN, esp_intr_mark_shared(v, b) \/ esp_intr_reserve(v) PROVE ListInv'
  BY <1>2, <1>6 DEF esp_intr_mark_shared, esp_intr_reserve
<1>7. ASSUME NEW h \in Handles, esp_intr_disable(h) \/ esp_intr_enable(h) \/ esp_intr_free(h) PROVE ListInv'
  BY <1>3, <1>7 DEF esp_intr_disable, esp_intr_enable, esp_intr_free
<1>8. ASSUME NEW c \in CPUs, esp_intr_noniram_disable(c) \/ esp_intr_noniram_enable(c) PROVE ListInv'
  BY <1>3, <1>8 DEF esp_intr_noniram_disable, esp_intr_noniram_enable
<1>9. CASE UNCHANGED vars
  BY <1>3, <1>9 DEF vars
<1> QED
  BY <1>4, <1>5, <1>6, <1>7, <1>8, <1>9 DEF Next

(* The handlers of a vector in use: the user of an interrupt that is not   *)
(* shared, or those of the chain that are not disabled.  A shared          *)
(* interrupt has a level its requests may have with a handler, 1 to 3.     *)
LEMMA CalledBy ==
  ASSUME HandlersGiven, Inv, NEW h \in Live, NEW c, NEW x, handle[h].vd = <<c, x>>
  PROVE  Called(c, x) = IF asked[h].shared THEN Users(<<c, x>>) \ off ELSE {h}
<1> DEFINE v == <<c, x>>
           r == asked[h]
<1>1. /\ h \in Handles /\ v \in Vectors /\ r \in Requests /\ h \in Users(v)
      /\ (Own(v) /\ ~ r.shared /\ Users(v) = {h}) \/ (Chain(v) /\ r.shared)
  BY Holding
<1>2. ArgsOkay(r) /\ Level(x) \in DefaultLevels(r)
  <2>1. ArgsOkay(r) /\ Level(handle[h].vd[2]) \in DefaultLevels(r)
    BY DEF Inv, HandleInv
  <2>2. handle[h].vd[2] = x
    OBVIOUS
  <2> QED
    BY <2>1, <2>2, Zenon
<1>3. /\ r.shared \in BOOLEAN /\ r.handler \in BOOLEAN /\ r.levels \in SUBSET (1 .. 7)
  BY <1>1, RequestSource
<1>4. CASE r.shared
  <2>1. Level(x) \in LOWMED
    BY <1>2, <1>3, <1>4 DEF ArgsOkay, DefaultLevels, LOWMED
  <2>2. table[v] = SHARED_ISR /\ ToSet(shared_vec_info[v]) = Users(v)
    BY <1>1, <1>4 DEF Chain
  <2>3. \A g \in Users(v) : g \in Live /\ asked[g].shared
    BY <1>1, <1>4 DEF Chain, Users
  <2>4. \A g \in Users(v) : entry[g].disabled <=> g \in off
    <3> SUFFICES ASSUME NEW g \in Users(v) PROVE entry[g].disabled <=> g \in off
      OBVIOUS
    <3>1. entry[g] = [source |-> asked[g].source, disabled |-> g \in off]
      BY <2>3 DEF Inv, HandleInv
    <3>2. entry[g].disabled = (g \in off)
      BY <3>1
    <3> QED
      BY <3>2, Zenon
  <2>5. Called(c, x) = shared_intr_isr(v)
    BY <2>1, <2>2 DEF Called
  <2>6. shared_intr_isr(v) = Users(v) \ off
    BY <2>2, <2>4 DEF shared_intr_isr
  <2> QED
    BY <1>4, <2>5, <2>6
<1>5. CASE ~ r.shared
  <2>1. Users(v) = {h} /\ Own(v)
    BY <1>1, <1>5
  <2>2. CASE Level(x) \notin LOWMED
    <3>1. Called(c, x) = Users(v)
      BY <2>2 DEF Called
    <3> QED
      BY <1>5, <2>1, <3>1
  <2>3. CASE Level(x) \in LOWMED
    <3>1. r.handler
      BY <1>1, <1>2, <1>3, <2>3 DEF HandlersGiven, DefaultLevels
    <3>2. table[v] = h
      BY <2>1, <3>1 DEF Own
    <3>3. h # SHARED_ISR
      BY <1>1, IntrAssumption, Zenon
    <3>4. Called(c, x) = {h}
      BY <2>3, <3>2, <3>3 DEF Called
    <3> QED
      BY <1>5, <3>4
  <2> QED
    BY <2>2, <2>3
<1> QED
  BY <1>3, <1>4, <1>5

(* An interrupt that can arrive is that of the task watchdog or has a user *)
(* who did not disable it.                                                 *)
LEMMA ArrivingUser ==
  ASSUME Inv, NEW c \in CPUs, NEW x \in Arriving(c), <<c, x>> # <<0, 2>>
  PROVE  \E h \in Live \ off : handle[h].vd = <<c, x>>
<1>1. x \in intenable[c] /\ x \in Ints
  BY DEF Arriving, Inv, Types
<1>2. x # INT_MUX_DISABLED_INTNO
  BY <1>1, IntrAssumption, Zenon
<1>3. CASE x = ETS_INTERNAL_SW0_INTR_NO
  <2>1. Enabled(c, ETS_INTERNAL_SW0_INTR_NO)
    BY <1>1, <1>3 DEF Enabled
  <2> QED
    BY <1>3, <2>1 DEF Inv, SourceInv
<1>4. CASE x # ETS_INTERNAL_SW0_INTR_NO
  <2>1. PICK s \in Sources : matrix[c][s] = x
    BY <1>4 DEF Arriving
  <2>2. PICK h \in Live : handle[h].vd[1] = c /\ asked[h].source = s
    BY <1>2, <2>1 DEF Inv, SourceInv
  <2>3. s \in Int /\ s >= 0
    BY Numbers
  <2>4. matrix[c][s] = IF h \in off THEN INT_MUX_DISABLED_INTNO ELSE handle[h].vd[2]
    BY <2>2, <2>3 DEF Inv, WiredInv
  <2>5. h \notin off /\ handle[h].vd[2] = x
    BY <1>2, <2>1, <2>4
  <2>6. handle[h].vd = <<c, x>>
    BY <2>2, <2>5, Holding, Vector
  <2> QED
    BY <2>2, <2>5, <2>6
<1> QED
  BY <1>3, <1>4

(* A driver that allocated an interrupt and has not disabled it is called  *)
(* when its source fires, however many handles, interrupts, sources and    *)
(* kinds of requests there are (HandlersReached).                          *)
THEOREM Reached == ASSUME HandlersGiven PROVE Spec => []HandlersReached
<1>1. Inv => HandlersReached
  <2> SUFFICES ASSUME Inv, NEW h \in Live, h \notin off
               PROVE  /\ asked[h].source >= 0 => matrix[handle[h].vd[1]][asked[h].source] = handle[h].vd[2]
                      /\ TasksRun(handle[h].vd[1]) => handle[h].vd[2] \in intenable[handle[h].vd[1]]
                      /\ h \in Called(handle[h].vd[1], handle[h].vd[2])
    BY DEF HandlersReached
  <2>1. PICK c, x : c = handle[h].vd[1] /\ x = handle[h].vd[2]
    OBVIOUS
  <2>2. handle[h].vd = <<c, x>> /\ h \in Users(<<c, x>>)
    BY <2>1, Holding, Vector
  <2>3. asked[h].source >= 0 => matrix[c][asked[h].source] = x
    BY <2>1 DEF Inv, WiredInv
  <2>4. TasksRun(c) => x \in intenable[c]
    BY <2>1 DEF Inv, WiredInv, Enabled, TasksRun
  <2>5. h \in Called(c, x)
    BY <2>2, CalledBy
  <2> QED
    BY <2>1, <2>3, <2>4, <2>5
<1> QED
  BY <1>1, Invariant, PTL

(* An interrupt that can arrive runs handlers of live handles that are not *)
(* disabled, or that of the task watchdog, and nothing else                *)
(* (OnlyLiveHandlersRun).                                                  *)
THEOREM LiveOnly == ASSUME HandlersGiven PROVE Spec => []OnlyLiveHandlersRun
<1>1. Inv => OnlyLiveHandlersRun
  <2> SUFFICES ASSUME Inv, NEW c \in CPUs, NEW x \in Arriving(c)
               PROVE  Called(c, x) \subseteq (Live \ off) \cup {BOOT}
    BY DEF OnlyLiveHandlersRun
  <2>1. CASE <<c, x>> = <<0, 2>>
    <3>1. table[<<c, x>>] = BOOT
      BY <2>1 DEF Inv, VectorInv, Boot
    <3>2. Level(x) \in LOWMED
      BY <2>1 DEF Level, LOWMED
    <3>3. Called(c, x) = {BOOT}
      BY <3>1, <3>2 DEF Called, BOOT, SHARED_ISR
    <3> QED
      BY <3>3
  <2>2. CASE <<c, x>> # <<0, 2>>
    <3>1. PICK h \in Live \ off : handle[h].vd = <<c, x>>
      BY <2>2, ArrivingUser
    <3>2. Called(c, x) = IF asked[h].shared THEN Users(<<c, x>>) \ off ELSE {h}
      BY <3>1, CalledBy
    <3> QED
      BY <3>1, <3>2 DEF Users
  <2> QED
    BY <2>1, <2>2
<1> QED
  BY <1>1, Invariant, PTL

(* While esp_intr_noniram_disable is in force on a CPU no handler in flash *)
(* is called there (NoFlashHandlerInWindow): an enabled interrupt is not   *)
(* in non_iram_int_mask, and users of one interrupt agree on IRAM.         *)
THEOREM FlashWindow == ASSUME HandlersGiven PROVE Spec => []NoFlashHandlerInWindow
<1>1. Inv => NoFlashHandlerInWindow
  <2> SUFFICES ASSUME Inv, NEW c \in CPUs, non_iram_int_disabled_flag[c], NEW x \in Arriving(c), NEW g \in Called(c, x)
               PROVE  g \in Live /\ asked[g].iram
    BY DEF NoFlashHandlerInWindow
  <2>1. x \notin non_iram_int_mask[c]
    BY DEF Arriving, Inv, WindowInv
  <2>2. <<c, x>> # <<0, 2>>
    BY <2>1 DEF Inv, VectorInv, Boot
  <2>3. PICK h \in Live \ off : handle[h].vd = <<c, x>>
    BY <2>2, ArrivingUser
  <2>4. Called(c, x) = IF asked[h].shared THEN Users(<<c, x>>) \ off ELSE {h}
    BY <2>3, CalledBy
  <2>5. g \in Live /\ handle[g].vd = <<c, x>>
    BY <2>3, <2>4 DEF Users
  <2>6. x \in non_iram_int_mask[c] <=> ~ asked[g].iram
    BY <2>5 DEF Inv, WiredInv
  <2> QED
    BY <2>1, <2>5, <2>6
<1> QED
  BY <1>1, Invariant, PTL

(* The list of descriptors stays sorted and is never entered through the   *)
(* null predecessor of its head (ListInOrder).                             *)
THEOREM Sorted == ASSUME MarkedLater PROVE Spec => []ListInOrder
<1>1. Init => ListInv
  <2> SUFFICES ASSUME Init PROVE ListInv
    OBVIOUS
  <2>1. <<0, 2>> \in Vectors
    BY Numbers DEF Vectors, CPUs
  <2> QED
    BY <2>1 DEF Init, ListInv
<1>2. ListInv /\ [Next]_vars => ListInv'
  BY NextList
<1>3. ListInv => ListInOrder
  BY DEF ListInv, ListInOrder
<1> QED
  BY <1>1, <1>2, <1>3, PTL DEF Spec

(* The flags of a descriptor tell who uses it (FlagsTellUse).              *)
THEOREM Flags == Spec => []FlagsTellUse
<1>1. Inv => FlagsTellUse
  <2> SUFFICES ASSUME Inv, NEW v \in Vectors \ {<<0, 2>>}
               PROVE  /\ "RESERVED" \in flags[v] => Users(v) = {}
                      /\ "NONSHARED" \in flags[v] <=> (Cardinality(Users(v)) = 1 /\ \A h \in Users(v) : ~ asked[h].shared)
                      /\ Users(v) # {} => flags[v] \cap {"SHARED", "NONSHARED"} # {}
                      /\ Users(v) = {} /\ v \notin marked => flags[v] = {} /\ table[v] = UNHANDLED
    BY DEF FlagsTellUse
  <2>1. Cardinality({}) = 0
    BY FS_EmptySet
  <2>2. CASE Idle(v)
    BY <2>1, <2>2 DEF Idle
  <2>3. CASE Own(v)
    <3>1. PICK h \in Handles : Users(v) = {h} /\ ~ asked[h].shared
      BY <2>3 DEF Own
    <3>2. Cardinality(Users(v)) = 1
      BY <3>1, FS_Singleton
    <3> QED
      BY <2>3, <3>1, <3>2 DEF Own
  <2>4. CASE Chain(v)
    <3>1. Users(v) # {} => \E h \in Users(v) : asked[h].shared
      BY <2>4 DEF Chain
    <3>2. Cardinality(Users(v)) = 1 => Users(v) # {}
      BY <2>1
    <3> QED
      BY <2>4, <3>1, <3>2 DEF Chain
  <2> QED
    BY <2>2, <2>3, <2>4 DEF Inv, VectorInv
<1> QED
  BY <1>1, Invariant, PTL
=============================================================================
